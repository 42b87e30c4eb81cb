------------------------- MODULE GroupPackingProofs -------------------------
(***************************************************************************)
(* The groups of pack_gp: for every field of values that it allows, every  *)
(* size of group and every number of points added at a time, they follow   *)
(* each other without gap or overlap, each with bounds for its points and  *)
(* bits that hold them, and there is room for all of them.  The lengths    *)
(* that reduce makes of them are those of all points, and none is zero.    *)
(* The sections of complex_pk.c: whatever merging, longer sections and     *)
(* moved borders are worth, they follow each other too, with exact         *)
(* extremes, and none is longer than it may be.                            *)
(***************************************************************************)
EXTENDS GroupPacking, DataInduction

(* Least and greatest values. *)

LEMMA LeastAt ==
  ASSUME NEW n \in Nat, NEW f, NEW T \in SUBSET (1..n), T # {}, \A k \in T : f[k] \in Int
  PROVE  \E m \in T : \A k \in T : f[m] <= f[k]
<1> DEFINE S == {i \in Nat : (\E k \in T : k <= i) =>
                   \E m \in T : m <= i /\ \A k \in T : k <= i => f[m] <= f[k]}
<1>1. 0 \in S
  OBVIOUS
<1>2. ASSUME NEW i \in Nat, i \in S PROVE i + 1 \in S
  <2>1. CASE i + 1 \notin T
    <3>1. \A k \in T : k <= i + 1 <=> k <= i
      BY <2>1
    <3> QED BY <3>1, <1>2
  <2>2. CASE i + 1 \in T
    <3>1. \A k \in T : k <= i + 1 => k <= i \/ k = i + 1
      OBVIOUS
    <3>2. CASE ~\E k \in T : k <= i
      BY <3>1, <3>2, <2>2
    <3>3. CASE \E k \in T : k <= i
      <4>1. PICK m \in T : m <= i /\ \A k \in T : k <= i => f[m] <= f[k]
        BY <1>2, <3>3
      <4>2. CASE f[m] <= f[i + 1]
        BY <3>1, <4>1, <4>2
      <4>3. CASE ~(f[m] <= f[i + 1])
        <5>1. \A k \in T : k <= i + 1 => f[i + 1] <= f[k]
          BY <3>1, <4>1, <4>3, <2>2
        <5> QED BY <5>1, <2>2
      <4> QED BY <4>2, <4>3
    <3> QED BY <3>2, <3>3
  <2> QED BY <2>1, <2>2
<1>3. n \in S
  <2> HIDE DEF S
  <2> QED BY <1>1, <1>2, SetInduction
<1>4. \A k \in T : k <= n
  OBVIOUS
<1>5. \E k \in T : k <= n
  BY <1>4
<1> QED BY <1>3, <1>4, <1>5

LEMMA GreatestAt ==
  ASSUME NEW n \in Nat, NEW f, NEW T \in SUBSET (1..n), T # {}, \A k \in T : f[k] \in Int
  PROVE  \E m \in T : \A k \in T : f[k] <= f[m]
<1> DEFINE h == [k \in T |-> 0 - f[k]]
<1>1. \A k \in T : h[k] \in Int /\ h[k] = 0 - f[k]
  OBVIOUS
<1>2. PICK m \in T : \A k \in T : h[m] <= h[k]
  <2> HIDE DEF h
  <2> QED BY <1>1, LeastAt
<1>3. \A k \in T : f[k] <= f[m]
  BY <1>1, <1>2
<1> QED BY <1>3

LEMMA MinIs ==
  ASSUME NEW V, NEW m \in V, \A v \in V : m <= v
  PROVE  Min(V) \in V /\ \A v \in V : Min(V) <= v
BY DEF Min

LEMMA MaxIs ==
  ASSUME NEW V, V \subseteq Int, NEW m \in V, \A v \in V : v <= m
  PROVE  Max(V) \in V /\ \A v \in V : v <= Max(V)
<1>1. \A v \in V : m >= v
  OBVIOUS
<1>2. Max(V) \in V /\ \A v \in V : Max(V) >= v
  BY <1>1 DEF Max
<1> QED BY <1>2

(* The extremes of the values at some places, and of the places.           *)
LEMMA Extremes ==
  ASSUME NEW n \in Nat, NEW f, NEW T \in SUBSET (1..n), T # {}, \A k \in T : f[k] \in Int
  PROVE  LET V == {f[k] : k \in T} IN
         /\ Min(V) \in V /\ \A v \in V : Min(V) <= v
         /\ Max(V) \in V /\ \A v \in V : v <= Max(V)
<1> DEFINE V == {f[k] : k \in T}
<1>1. PICK m \in T : \A k \in T : f[m] <= f[k]
  BY LeastAt
<1>2. PICK p \in T : \A k \in T : f[k] <= f[p]
  BY GreatestAt
<1>3. f[m] \in V /\ (\A v \in V : f[m] <= v) /\ f[p] \in V /\ (\A v \in V : v <= f[p])
  BY <1>1, <1>2
<1>4. V \subseteq Int
  OBVIOUS
<1> HIDE DEF V
<1>5. Min(V) \in V /\ \A v \in V : Min(V) <= v
  BY <1>3, MinIs
<1>6. Max(V) \in V /\ \A v \in V : v <= Max(V)
  BY <1>3, <1>4, MaxIs
<1> QED BY <1>5, <1>6 DEF V

LEMMA Places ==
  ASSUME NEW n \in Nat, NEW T \in SUBSET (1..n), T # {}
  PROVE  /\ Min(T) \in T /\ \A k \in T : Min(T) <= k
         /\ Max(T) \in T /\ \A k \in T : k <= Max(T)
<1> DEFINE id == [k \in T |-> k]
<1>1. \A k \in T : id[k] \in Int /\ id[k] = k
  OBVIOUS
<1> HIDE DEF id
<1>2. PICK m \in T : \A k \in T : id[m] <= id[k]
  BY <1>1, LeastAt
<1>3. PICK p \in T : \A k \in T : id[k] <= id[p]
  BY <1>1, GreatestAt
<1>4. (\A k \in T : m <= k) /\ (\A k \in T : k <= p) /\ T \subseteq Int
  BY <1>1, <1>2, <1>3
<1>5. Min(T) \in T /\ \A k \in T : Min(T) <= k
  BY <1>4, MinIs
<1>6. Max(T) \in T /\ \A k \in T : k <= Max(T)
  BY <1>4, MaxIs
<1> QED BY <1>5, <1>6

LEMMA MinOfTwo ==
  ASSUME NEW i \in Int, NEW j \in Int
  PROVE  Min({i, j}) = (IF i <= j THEN i ELSE j) /\ Max({i, j}) = (IF i <= j THEN j ELSE i)
<1>1. CASE i <= j
  <2>1. Min({i, j}) \in {i, j} /\ Min({i, j}) <= i /\ Max({i, j}) \in {i, j} /\ j <= Max({i, j})
    BY <1>1, MinIs, MaxIs
  <2> QED BY <1>1, <2>1
<1>2. CASE ~(i <= j)
  <2>1. j <= i
    BY <1>2
  <2>2. Min({i, j}) \in {i, j} /\ Min({i, j}) <= j /\ Max({i, j}) \in {i, j} /\ i <= Max({i, j})
    BY <2>1, MinIs, MaxIs
  <2> QED BY <1>2, <2>2
<1> QED BY <1>1, <1>2

-----------------------------------------------------------------------------
(* Numbers of bits. *)

LEMMA Powers == 2^30 \in Nat \ {0} /\ \A j \in 0..30 : 2^j \in Int
OBVIOUS

LEMMA BitsIs ==
  ASSUME NEW n \in Int, n < 2^30
  PROVE  /\ Bits(n) \in 0..30 /\ n < 2^Bits(n)
         /\ \A w \in 0..30 : w < Bits(n) => 2^w <= n
<1> DEFINE T == {j \in 0..30 : n < 2^j}
<1>1. 30 \in T
  OBVIOUS
<1>2. T \in SUBSET Nat /\ T # {}
  <2>1. T # {}
    BY <1>1
  <2>2. \A j \in T : j \in Nat
    OBVIOUS
  <2> QED BY <2>1, <2>2
<1>3. PICK m \in T : \A k \in T : m <= k
  <2> HIDE DEF T
  <2> QED BY <1>2, LeastNatural
<1>4. Min(T) \in T /\ \A k \in T : Min(T) <= k
  <2> HIDE DEF T
  <2> QED BY <1>3, MinIs
<1>5. Bits(n) = Min(T)
  BY DEF Bits
<1>6. \A w \in 0..30 : w < Min(T) => 2^w <= n
  <2> SUFFICES ASSUME NEW w \in 0..30, w < Min(T) PROVE 2^w <= n
    OBVIOUS
  <2>1. w \notin T
    <3> HIDE DEF T
    <3>1. w \in T => Min(T) <= w
      BY <1>4
    <3>2. Min(T) \in Nat
      BY <1>4, <1>2
    <3> QED BY <3>1, <3>2
  <2>2. ~(n < 2^w)
    BY <2>1
  <2> QED BY <2>2, Powers
<1> QED BY <1>4, <1>5, <1>6

LEMMA BitsGrow ==
  ASSUME NEW n \in Int, NEW m \in Int, m <= n, NEW w \in 0..30, n < 2^w
  PROVE  Bits(m) \in 0..30 /\ m < 2^Bits(m) /\ Bits(m) <= w
<1> DEFINE T == {j \in 0..30 : m < 2^j}
<1>1. w \in T
  BY Powers
<1>2. T \in SUBSET Nat /\ T # {}
  <2>1. T # {}
    BY <1>1
  <2>2. \A j \in T : j \in Nat
    OBVIOUS
  <2> QED BY <2>1, <2>2
<1>3. PICK l \in T : \A k \in T : l <= k
  <2> HIDE DEF T
  <2> QED BY <1>2, LeastNatural
<1>4. Min(T) \in T /\ \A k \in T : Min(T) <= k
  <2> HIDE DEF T
  <2> QED BY <1>3, MinIs
<1>5. Bits(m) = Min(T)
  BY DEF Bits
<1> QED BY <1>1, <1>4, <1>5, Powers
-----------------------------------------------------------------------------
(* Extremes of points. *)

Valued(S) == {k \in S : ~Missing(k)}

Ready ==
  /\ nxy \in Nat \ {0} /\ field.is523 \in 0..2 /\ field.minpk \in Nat \ {0}
  /\ Packable

Allowed(v) == v \in Int /\ -(2^30) <= v /\ v <= 2^30

LEMMA ValuesAllowed ==
  ASSUME Ready, NEW S \in SUBSET (1..nxy), NEW k \in Valued(S)
  PROVE  k \in 1..nxy /\ Allowed(field.ic[k])
<1>1. k \in 1..nxy /\ ~Missing(k)
  BY DEF Valued
<1>2. field.ic[k] \in -(2^30)..2^30
  BY <1>1 DEF Ready, Packable
<1>3. -(2^30) \in Int /\ 2^30 \in Int
  BY Powers
<1> QED BY <1>1, <1>2, <1>3 DEF Allowed

(* What With gives: bounds of the extremes it is given and of the values   *)
(* it sees, which are those given or are at a place seen.                  *)
Widened(w, e, S) ==
  /\ w.min \in Int /\ w.max \in Int /\ w.min <= e.min /\ e.max <= w.max
  /\ \A k \in Valued(S) : w.min <= field.ic[k] /\ field.ic[k] <= w.max
  /\ \/ w.min = e.min /\ w.minat = e.minat
     \/ w.minat \in Valued(S) /\ field.ic[w.minat] = w.min
  /\ \/ w.max = e.max /\ w.maxat = e.maxat
     \/ w.maxat \in Valued(S) /\ field.ic[w.maxat] = w.max

LEMMA WithIs ==
  ASSUME Ready, NEW e, e.min \in Int, e.max \in Int, NEW S \in SUBSET (1..nxy),
         NEW ties \in BOOLEAN, NEW last \in BOOLEAN
  PROVE  Widened(With(e, S, ties, last), e, S)
<1> DEFINE seen == {k \in S : ~Missing(k)}
           values == {field.ic[k] : k \in seen}
           Where(v) == {k \in seen : field.ic[k] = v}
           At(v) == IF last THEN Max(Where(v)) ELSE Min(Where(v))
           lower == values # {} /\ (Min(values) < e.min \/ (ties /\ Min(values) = e.min))
           higher == values # {} /\ (Max(values) > e.max \/ (ties /\ Max(values) = e.max))
           w == With(e, S, ties, last)
<1>1. /\ w.min = IF lower THEN Min(values) ELSE e.min
      /\ w.minat = IF lower THEN At(Min(values)) ELSE e.minat
      /\ w.max = IF higher THEN Max(values) ELSE e.max
      /\ w.maxat = IF higher THEN At(Max(values)) ELSE e.maxat
  BY DEF With
<1>2. seen = Valued(S) /\ seen \in SUBSET (1..nxy) /\ nxy \in Nat
  BY DEF Valued, Ready
<1>3. \A k \in seen : field.ic[k] \in Int
  BY <1>2, ValuesAllowed DEF Allowed
<1>4. values # {} <=> seen # {}
  OBVIOUS
<1>5. ASSUME seen # {}
      PROVE  /\ Min(values) \in values /\ \A v \in values : Min(values) <= v
             /\ Max(values) \in values /\ \A v \in values : v <= Max(values)
  <2> HIDE DEF seen
  <2> QED BY <1>2, <1>3, <1>5, Extremes
<1>6. ASSUME NEW v \in values PROVE At(v) \in seen /\ field.ic[At(v)] = v
  <2>1. Where(v) \in SUBSET (1..nxy) /\ Where(v) # {}
    BY <1>2
  <2>2. Min(Where(v)) \in Where(v) /\ Max(Where(v)) \in Where(v)
    <3> HIDE DEF Where
    <3> QED BY <2>1, <1>2, Places
  <2> QED BY <2>2
<1>7. \A k \in seen : field.ic[k] \in values
  OBVIOUS
<1>8. \A v \in values : v \in Int
  BY <1>3
<1> HIDE DEF values, At, w, seen
<1>9. CASE seen = {}
  <2>1. ~lower /\ ~higher
    BY <1>4, <1>9
  <2> QED BY <1>1, <1>2, <1>9, <2>1 DEF Widened, w
<1>10. CASE seen # {}
  <2>1. /\ Min(values) \in Int /\ Max(values) \in Int
        /\ \A k \in seen : Min(values) <= field.ic[k] /\ field.ic[k] <= Max(values)
        /\ At(Min(values)) \in seen /\ field.ic[At(Min(values))] = Min(values)
        /\ At(Max(values)) \in seen /\ field.ic[At(Max(values))] = Max(values)
    BY <1>5, <1>6, <1>7, <1>8, <1>10
  <2>2. /\ w.min \in Int /\ w.min <= e.min
        /\ \A k \in seen : w.min <= field.ic[k]
        /\ \/ w.min = e.min /\ w.minat = e.minat
           \/ w.minat \in seen /\ field.ic[w.minat] = w.min
    <3>1. CASE lower
      BY <1>1, <2>1, <3>1
    <3>2. CASE ~lower
      <4>1. Min(values) >= e.min
        BY <1>4, <1>10, <2>1, <3>2
      <4> QED BY <1>1, <1>3, <2>1, <3>2, <4>1
    <3> QED BY <3>1, <3>2
  <2>3. /\ w.max \in Int /\ e.max <= w.max
        /\ \A k \in seen : field.ic[k] <= w.max
        /\ \/ w.max = e.max /\ w.maxat = e.maxat
           \/ w.maxat \in seen /\ field.ic[w.maxat] = w.max
    <3>1. CASE higher
      BY <1>1, <2>1, <3>1
    <3>2. CASE ~higher
      <4>1. Max(values) <= e.max
        BY <1>4, <1>10, <2>1, <3>2
      <4> QED BY <1>1, <1>3, <2>1, <3>2, <4>1
    <3> QED BY <3>1, <3>2
  <2> QED BY <1>2, <2>2, <2>3 DEF Widened, w
<1> QED BY <1>9, <1>10

LEMMA WithNothingSeen ==
  ASSUME NEW e, NEW S, Valued(S) = {}, NEW ties, NEW last
  PROVE  LET w == With(e, S, ties, last)
         IN  w.min = e.min /\ w.minat = e.minat /\ w.max = e.max /\ w.maxat = e.maxat
<1>1. {k \in S : ~Missing(k)} = {}
  BY DEF Valued
<1>2. {field.ic[k] : k \in {j \in S : ~Missing(j)}} = {}
  BY <1>1
<1> QED BY <1>2 DEF With

(* The extremes of points alone.                                           *)
LEMMA WithNothing ==
  ASSUME Ready, NEW S \in SUBSET (1..nxy), NEW ties \in BOOLEAN, NEW last \in BOOLEAN
  PROVE  LET w == With(Nothing, S, ties, last) IN
         /\ Valued(S) = {} => w.min = Mallow /\ w.maxat = -Mallow
         /\ Valued(S) # {} =>
              /\ w.minat \in Valued(S) /\ field.ic[w.minat] = w.min
              /\ w.maxat \in Valued(S) /\ field.ic[w.maxat] = w.max
              /\ \A k \in Valued(S) : w.min <= field.ic[k] /\ field.ic[k] <= w.max
              /\ Allowed(w.min) /\ Allowed(w.max) /\ w.min <= w.max /\ w.min # Mallow
<1> DEFINE w == With(Nothing, S, ties, last)
<1>1. Nothing.min = Mallow /\ Nothing.max = -Mallow /\ Nothing.maxat = -Mallow
  BY DEF Nothing
<1>2. Mallow \in Int /\ Mallow > 2^30 /\ -Mallow < -(2^30) /\ -Mallow \in Int
  BY Powers DEF Mallow
<1>3. Widened(w, Nothing, S)
  BY <1>1, <1>2, WithIs
<1>4. CASE Valued(S) = {}
  BY <1>1, <1>4, WithNothingSeen
<1>5. CASE Valued(S) # {}
  <2>1. PICK k \in Valued(S) : TRUE
    BY <1>5
  <2>2. Allowed(field.ic[k]) /\ w.min <= field.ic[k] /\ field.ic[k] <= w.max
    BY <2>1, <1>3, ValuesAllowed DEF Widened
  <2>3. w.min \in Int /\ w.max \in Int
    BY <1>3 DEF Widened
  <2>4. w.min # Mallow /\ w.max # -Mallow /\ w.min <= w.max
    BY <2>2, <2>3, <1>2, Powers DEF Allowed
  <2>5. /\ w.minat \in Valued(S) /\ field.ic[w.minat] = w.min
        /\ w.maxat \in Valued(S) /\ field.ic[w.maxat] = w.max
    BY <1>1, <1>3, <2>4 DEF Widened
  <2>6. Allowed(w.min) /\ Allowed(w.max)
    BY <2>5, ValuesAllowed
  <2> QED BY <1>3, <2>4, <2>5, <2>6 DEF Widened
<1> QED BY <1>4, <1>5
-----------------------------------------------------------------------------
(* Ends of groups. *)

LEMMA TailEnd ==
  ASSUME Ready, NEW end \in Int, end <= nxy
  PROVE  LET t == ToTail(end, field.minpk)
         IN  /\ t \in Int /\ end <= t /\ t <= nxy
             /\ t = nxy \/ t = end
             /\ nxy - end <= field.minpk \div 2 => t = nxy
BY DEF Ready, ToTail

LEMMA TailGrows ==
  ASSUME Ready, NEW end \in Int, end <= nxy, NEW other \in Int, other <= end
  PROVE  ToTail(other, field.minpk) <= ToTail(end, field.minpk)
BY DEF Ready, ToTail

LEMMA TailTwice ==
  ASSUME Ready, NEW end \in Int, end <= nxy
  PROVE  ToTail(ToTail(end, field.minpk), field.minpk) = ToTail(end, field.minpk)
BY DEF Ready, ToTail

Uniform(from, s) == \A k \in from..s : field.ic[k] = field.ic[from]
Ends(s) == s = nxy \/ field.ic[s + 1] # field.ic[s]

LEMMA StringIs ==
  ASSUME Ready, NEW k \in 1..nxy, NEW skip \in BOOLEAN
  PROVE  /\ StringEnd(k, skip) \in k..nxy
         /\ ~skip => Uniform(k, StringEnd(k, skip)) /\ Ends(StringEnd(k, skip))
<1> DEFINE other == {j \in (k + 1)..nxy : field.ic[j] # field.ic[k] /\ ~(skip /\ Missing(j))}
<1>0. nxy \in Nat
  BY DEF Ready
<1>1. StringEnd(k, skip) = IF other = {} THEN nxy ELSE Min(other) - 1
  BY DEF StringEnd
<1>2. CASE other = {}
  <2>1. \A j \in (k + 1)..nxy : ~skip => field.ic[j] = field.ic[k]
    BY <1>2
  <2>2. \A j \in k..nxy : j = k \/ j \in (k + 1)..nxy
    BY <1>0
  <2> QED BY <1>0, <1>1, <1>2, <2>1, <2>2 DEF Uniform, Ends
<1>3. CASE other # {}
  <2>1. other \in SUBSET (1..nxy)
    BY <1>0
  <2>2. Min(other) \in other /\ \A j \in other : Min(other) <= j
    <3> HIDE DEF other
    <3> QED BY <1>0, <1>3, <2>1, Places
  <2> DEFINE s == Min(other) - 1
  <2>3. Min(other) \in (k + 1)..nxy /\ field.ic[Min(other)] # field.ic[k]
    BY <2>2
  <2>4. s \in k..nxy /\ s + 1 = Min(other)
    BY <1>0, <2>3
  <2>5. \A j \in k..s : ~skip => field.ic[j] = field.ic[k]
    <3> SUFFICES ASSUME NEW j \in k..s, ~skip, j # k PROVE field.ic[j] = field.ic[k]
      OBVIOUS
    <3>1. j \in (k + 1)..nxy /\ ~(Min(other) <= j)
      BY <1>0, <2>3, <2>4
    <3>2. j \notin other
      <4> HIDE DEF other
      <4> QED BY <2>2, <3>1
    <3> QED BY <3>1, <3>2
  <2>6. ~skip => field.ic[s] = field.ic[k]
    <3>1. s \in k..s
      BY <2>4
    <3> QED BY <2>5, <3>1
  <2>7. StringEnd(k, skip) = s
    BY <1>1, <1>3
  <2> HIDE DEF s, other
  <2> QED BY <2>3, <2>4, <2>5, <2>6, <2>7 DEF Uniform, Ends
<1> QED BY <1>2, <1>3

-----------------------------------------------------------------------------
(* Groups. *)

GroupType ==
  [from : Int, to : Int, bits : Int, miss : BOOLEAN, min : Int, max : Int,
   minat : Int, maxat : Int]

(* The bits of a group without values.                                     *)
MissBits == IF field.is523 = 2 THEN Bits(lmiss) ELSE 0

GroupOK(g) ==
  /\ g \in GroupType /\ 1 <= g.from /\ g.from <= g.to /\ g.to <= nxy
  /\ g.bits \in 0..30 /\ MissBits <= g.bits
  /\ Allowed(g.min) /\ Allowed(g.max)
  /\ g.miss => Valued(g.from..g.to) = {}
  /\ \A k \in Valued(g.from..g.to) : g.min <= field.ic[k] /\ field.ic[k] <= g.max
  /\ Valued(g.from..g.to) # {} => g.max - g.min + lmiss < 2^g.bits

LEMMA GroupHolds ==
  ASSUME Ready, NEW g, GroupOK(g)
  PROVE  Holds(g)
<1> DEFINE S == g.from..g.to
           V == {field.ic[i] : i \in Valued(S)}
<1>1. ValuesAt(S) = V
  BY DEF ValuesAt, Valued
<1>2. S \in SUBSET (1..nxy) /\ nxy \in Nat
  BY DEF GroupOK, GroupType, Ready
<1>3. \A k \in Valued(S) : k \in 1..nxy /\ field.ic[k] \in Int
  BY <1>2, ValuesAllowed DEF Allowed
<1>4. V # {} <=> Valued(S) # {}
  OBVIOUS
<1>5. ASSUME V # {} PROVE Min(V) \in V /\ Max(V) \in V
  <2>1. Valued(S) \in SUBSET (1..nxy)
    BY <1>3
  <2> QED BY <1>2, <1>3, <1>4, <1>5, <2>1, Extremes
<1>6. ASSUME NEW v \in V PROVE g.min <= v /\ v <= g.max
  BY DEF GroupOK
<1> HIDE DEF V
<1> QED BY <1>1, <1>4, <1>5, <1>6 DEF Holds, GroupOK

(* The group that is made of extremes of its points.                       *)
Bounding(e, from, to) ==
  /\ e.minat \in Int /\ e.maxat \in Int
  /\ \/ e.min = Mallow /\ Valued(from..to) = {}
     \/ /\ e.min # Mallow /\ Allowed(e.min) /\ Allowed(e.max) /\ e.min <= e.max
        /\ \A k \in Valued(from..to) : e.min <= field.ic[k] /\ field.ic[k] <= e.max

LEMMA LmissIs ==
  ASSUME Ready
  PROVE  lmiss \in 0..2 /\ Bits(lmiss) \in 0..30 /\ MissBits \in 0..30
<1>1. lmiss \in 0..2 /\ lmiss < 2^30
  BY DEF Ready, lmiss
<1> QED BY <1>1, BitsIs DEF MissBits

LEMMA NewGroup ==
  ASSUME Ready, NEW from \in Int, NEW to \in Int, 1 <= from, from <= to, to <= nxy,
         NEW e, Bounding(e, from, to), ~TooWide(e)
  PROVE  LET g == Group(e, from, to) IN
         /\ GroupOK(g) /\ g.from = from /\ g.to = to
         /\ g.minat = e.minat /\ g.maxat = e.maxat
         /\ e.min = Mallow => g.miss /\ g.bits = MissBits
         /\ e.min # Mallow => /\ ~g.miss /\ g.min = e.min /\ g.max = e.max
                              /\ g.bits = Bits(e.max - e.min + lmiss)
<1> DEFINE g == Group(e, from, to)
<1>1. lmiss \in 0..2 /\ Bits(lmiss) \in 0..30 /\ MissBits \in 0..30
  BY LmissIs
<1>2. /\ g.from = from /\ g.to = to /\ g.minat = e.minat /\ g.maxat = e.maxat
      /\ g.bits = GroupBits(e) /\ g.miss = (e.min = Mallow)
      /\ g.min = IF e.min = Mallow THEN 0 ELSE e.min
      /\ g.max = IF e.min = Mallow THEN 0 ELSE e.max
  BY DEF Group
<1>3. CASE e.min = Mallow
  <2>1. g.bits = MissBits
    BY <1>2, <1>3 DEF GroupBits, MissBits
  <2>2. Valued(from..to) = {}
    BY <1>3 DEF Bounding
  <2>3. Allowed(0)
    BY Powers DEF Allowed
  <2>4. g \in GroupType
    BY <1>1, <1>2, <1>3, <2>1 DEF Group, GroupType, Bounding
  <2> HIDE DEF g
  <2>5. GroupOK(g)
    <3>1. Valued(g.from..g.to) = {} /\ Allowed(g.min) /\ Allowed(g.max)
      BY <1>2, <1>3, <2>2, <2>3
    <3>2. g.bits \in 0..30 /\ MissBits <= g.bits
      BY <1>1, <2>1
    <3> QED BY <1>2, <2>4, <3>1, <3>2 DEF GroupOK
  <2> QED BY <1>2, <1>3, <2>1, <2>5 DEF g
<1>4. CASE e.min # Mallow
  <2> DEFINE n == e.max - e.min + lmiss
  <2>1. /\ Allowed(e.min) /\ Allowed(e.max) /\ e.min <= e.max
        /\ \A k \in Valued(from..to) : e.min <= field.ic[k] /\ field.ic[k] <= e.max
    BY <1>4 DEF Bounding
  <2>2. n \in Int /\ lmiss <= n
    BY <1>1, <2>1 DEF Allowed
  <2>3. n < 2^30
    BY <1>4, <2>2, Powers DEF TooWide
  <2>4. g.bits = Bits(n)
    BY <1>2, <1>4 DEF GroupBits
  <2> HIDE DEF n
  <2>5. Bits(n) \in 0..30 /\ n < 2^Bits(n)
    BY <2>2, <2>3, BitsIs
  <2>6. MissBits <= Bits(n)
    <3>1. Bits(lmiss) <= Bits(n)
      <4>1. lmiss \in Int
        BY <1>1
      <4>2. PICK w \in 0..30 : w = Bits(n)
        BY <2>5
      <4>3. n < 2^w
        BY <2>5, <4>2
      <4>4. Bits(lmiss) <= w
        BY ONLY <2>2, <4>1, <4>3, BitsGrow
      <4> QED BY <4>2, <4>4
    <3> QED BY <1>1, <2>5, <3>1 DEF MissBits
  <2>7. g \in GroupType
    <3>1. e.min \in Int /\ e.max \in Int
      BY <2>1 DEF Allowed
    <3> QED BY <1>2, <1>4, <2>4, <2>5, <3>1 DEF Group, GroupType, Bounding
  <2> HIDE DEF g
  <2>8. GroupOK(g)
    BY <1>2, <1>4, <2>1, <2>4, <2>5, <2>6, <2>7 DEF GroupOK, n
  <2> QED BY <1>2, <1>4, <2>4, <2>8 DEF g, n
<1> QED BY <1>3, <1>4
-----------------------------------------------------------------------------
(* Group B.  Its extremes are those of its points (Whole), or, in a field  *)
(* without missing values, those of points that it was looked at with: the *)
(* string of equal values in which it ends, and a short tail after that.   *)

Attained(g, last) ==
  /\ \E k \in Valued(g.from..last) : field.ic[k] = g.min
  /\ \E k \in Valued(g.from..last) : field.ic[k] = g.max
  /\ g.from <= g.minat => g.minat \in Valued(g.from..last) /\ field.ic[g.minat] = g.min
  /\ g.from <= g.maxat => g.maxat \in Valued(g.from..last) /\ field.ic[g.maxat] = g.max

Whole(g) ==
  \/ g.miss /\ g.bits = MissBits /\ g.maxat < 0
  \/ /\ ~g.miss /\ g.bits = Bits(g.max - g.min + lmiss)
     /\ Attained(g, g.to)

Short(s, u) == u = s \/ (u = nxy /\ nxy - s <= field.minpk \div 2)

Looked(g, s, u) ==
  /\ g.to < s /\ s <= u /\ Uniform(g.from, s) /\ Ends(s) /\ Short(s, u)
  /\ Attained(g, u)
  /\ \A k \in g.from..u : g.min <= field.ic[k] /\ field.ic[k] <= g.max

Cut(g) ==
  /\ field.is523 = 0 /\ ~g.miss /\ g.bits = Bits(g.max - g.min + lmiss)
  /\ \E s, u \in 1..nxy : Looked(g, s, u)

(* Where B ends, when it is looked at after the point to.                  *)
Wanted(to) == IF to + field.minpk <= nxy THEN to + field.minpk ELSE nxy

Reach(g, to) ==
  \/ g.to = ToTail(Wanted(to), field.minpk)
  \/ /\ field.is523 = 0
     /\ \E s \in 1..nxy : /\ Wanted(to) <= s /\ g.to = ToTail(s, field.minpk)
                          /\ Uniform(g.from, s) /\ Ends(s)

LEMMA WantedIs ==
  ASSUME Ready, NEW to \in Nat, to < nxy
  PROVE  /\ Wanted(to) \in Int /\ to < Wanted(to) /\ Wanted(to) <= nxy
         /\ Min({to + field.minpk, nxy}) = Wanted(to)
<1>1. to + field.minpk \in Int /\ nxy \in Int /\ field.minpk \in Nat \ {0}
  BY DEF Ready
<1> QED BY <1>1, MinOfTwo DEF Wanted

LEMMA NoneMissing ==
  ASSUME field.is523 = 0
  PROVE  \A S : Valued(S) = S
BY DEF Valued, Missing

(* What is seen afresh bounds the points seen.                             *)
LEMMA NothingBounds ==
  ASSUME Ready, NEW from \in Int, NEW to \in Int, 1 <= from, to <= nxy,
         NEW ties \in BOOLEAN, NEW last \in BOOLEAN
  PROVE  Bounding(With(Nothing, from..to, ties, last), from, to)
<1> DEFINE S == from..to
           w == With(Nothing, S, ties, last)
<1>1. S \in SUBSET (1..nxy)
  BY DEF Ready
<1>2. Mallow \in Int /\ -Mallow \in Int
  BY Powers DEF Mallow
<1>3. CASE Valued(S) = {}
  <2>1. w.min = Mallow /\ w.minat = Mallow /\ w.maxat = -Mallow
    BY <1>3, WithNothingSeen DEF Nothing
  <2> QED BY <1>2, <1>3, <2>1 DEF Bounding
<1>4. CASE Valued(S) # {}
  <2>1. /\ w.minat \in Valued(S) /\ w.maxat \in Valued(S)
        /\ \A k \in Valued(S) : w.min <= field.ic[k] /\ field.ic[k] <= w.max
        /\ Allowed(w.min) /\ Allowed(w.max) /\ w.min <= w.max /\ w.min # Mallow
    BY <1>1, <1>4, WithNothing
  <2>2. w.minat \in Int /\ w.maxat \in Int
    BY <1>1, <2>1, ValuesAllowed
  <2> HIDE DEF w
  <2> QED BY <2>1, <2>2 DEF Bounding, w
<1> QED BY <1>3, <1>4

LEMMA FreshIsWhole ==
  ASSUME Ready, NEW from \in Int, NEW to \in Int, 1 <= from, from <= to, to <= nxy,
         NEW ties \in BOOLEAN, NEW last \in BOOLEAN,
         ~TooWide(With(Nothing, from..to, ties, last))
  PROVE  LET g == Group(With(Nothing, from..to, ties, last), from, to)
         IN  GroupOK(g) /\ Whole(g) /\ g.from = from /\ g.to = to
<1> DEFINE S == from..to
           w == With(Nothing, S, ties, last)
           g == Group(w, from, to)
<1>1. Bounding(w, from, to)
  BY NothingBounds
<1>2. S \in SUBSET (1..nxy)
  BY DEF Ready
<1>3. /\ Valued(S) = {} => w.min = Mallow /\ w.maxat = -Mallow
      /\ Valued(S) # {} => /\ w.minat \in Valued(S) /\ field.ic[w.minat] = w.min
                           /\ w.maxat \in Valued(S) /\ field.ic[w.maxat] = w.max
                           /\ w.min # Mallow
  BY <1>2, WithNothing
<1> HIDE DEF w
<1>4. ~TooWide(w)
  BY DEF w
<1>5. /\ GroupOK(g) /\ g.from = from /\ g.to = to
      /\ g.minat = w.minat /\ g.maxat = w.maxat
      /\ w.min = Mallow => g.miss /\ g.bits = MissBits
      /\ w.min # Mallow => /\ ~g.miss /\ g.min = w.min /\ g.max = w.max
                           /\ g.bits = Bits(w.max - w.min + lmiss)
  BY <1>1, <1>4, NewGroup
<1>6. -Mallow < 0
  BY Powers DEF Mallow
<1> HIDE DEF g
<1>7. Whole(g)
  <2>1. CASE Valued(S) = {}
    BY <1>3, <1>5, <1>6, <2>1 DEF Whole
  <2>2. CASE Valued(S) # {}
    <3>1. Attained(g, g.to)
      BY <1>3, <1>5, <2>2 DEF Attained
    <3> QED BY <1>3, <1>5, <2>2, <3>1 DEF Whole
  <2> QED BY <2>1, <2>2
<1> QED BY <1>5, <1>7 DEF g, w

LEMMA LookedAhead ==
  ASSUME Ready, sizes.lminpk = field.minpk, NEW to \in Nat, to < nxy,
         ~TooWide(LookAhead(to).e)
  PROVE  LET g == Group(LookAhead(to).e, to + 1, LookAhead(to).to)
         IN  /\ GroupOK(g) /\ Whole(g) /\ Reach(g, to) /\ g.from = to + 1
             /\ g.to = LookAhead(to).to
             /\ field.is523 = 0 /\ to + 1 < nxy => StringEnd(to + 1, FALSE) <= g.to
<1> DEFINE string == to + 1 < nxy /\ field.is523 = 0
           str == StringEnd(to + 1, FALSE)
           nendb == IF string THEN str ELSE 1
           end == ToTail(Max({nendb, Wanted(to)}), field.minpk)
           w == With(Nothing, (to + 1)..end, TRUE, TRUE)
<1>1. /\ Wanted(to) \in Int /\ to < Wanted(to) /\ Wanted(to) <= nxy
      /\ Min({to + sizes.lminpk, nxy}) = Wanted(to)
  BY WantedIs
<1>2. LookAhead(to).e = w /\ LookAhead(to).to = end
  BY <1>1 DEF LookAhead, LookAt
<1>3. nxy \in Nat /\ to + 1 \in 1..nxy
  BY DEF Ready
<1>4. str \in (to + 1)..nxy /\ Uniform(to + 1, str) /\ Ends(str)
  BY <1>3, StringIs
<1> HIDE DEF str
<1>5. nendb \in Int /\ nendb <= nxy
  BY <1>3, <1>4
<1> DEFINE most == IF nendb <= Wanted(to) THEN Wanted(to) ELSE nendb
<1>6. Max({nendb, Wanted(to)}) = most
  <2> HIDE DEF nendb
  <2> QED BY <1>1, <1>5, MinOfTwo
<1>7. most \in Int /\ most <= nxy /\ to < most /\ nendb <= most
  <2> HIDE DEF nendb
  <2> QED BY <1>1, <1>5
<1>8. end = ToTail(most, field.minpk)
  BY <1>6
<1> HIDE DEF end, most
<1>9. end \in Int /\ most <= end /\ end <= nxy
  BY <1>7, <1>8, TailEnd
<1> DEFINE g == Group(w, to + 1, end)
<1>10. to + 1 \in Int /\ 1 <= to + 1 /\ to + 1 <= end
  BY <1>7, <1>9
<1>11. ~TooWide(w)
  BY <1>2
<1>12. GroupOK(g) /\ Whole(g) /\ g.from = to + 1 /\ g.to = end
  BY <1>9, <1>10, <1>11, FreshIsWhole
<1> HIDE DEF w, g
<1>13. Reach(g, to)
  <2>1. CASE nendb <= Wanted(to)
    BY <2>1, <1>8, <1>12 DEF Reach, most
  <2>2. CASE ~(nendb <= Wanted(to))
    <3>1. string
      <4>1. 1 <= Wanted(to)
        BY <1>1
      <4> QED BY <2>2, <4>1
    <3>2. most = str
      BY <2>2, <3>1 DEF most
    <3>3. Wanted(to) <= most /\ most \in 1..nxy
      BY <2>2, <3>2, <1>1, <1>4, <1>3, <3>1
    <3>4. Uniform(g.from, most) /\ Ends(most) /\ g.to = ToTail(most, field.minpk)
      BY <3>2, <1>4, <1>8, <1>12
    <3> QED BY <3>1, <3>3, <3>4 DEF Reach
  <2> QED BY <2>1, <2>2
<1>14. string => str <= g.to
  <2>1. string => nendb = str
    OBVIOUS
  <2> HIDE DEF nendb
  <2> QED BY <1>4, <1>5, <1>7, <1>9, <1>12, <2>1
<1>15. Group(LookAhead(to).e, to + 1, LookAhead(to).to) = g
  BY <1>2 DEF g
<1> QED BY <1>2, <1>12, <1>13, <1>14, <1>15 DEF str

(* B looked at again after A took its points up to to, when its extremes   *)
(* are after these: they are kept, and only the points after B are seen.   *)
KnownOf(g) == [min |-> g.min, max |-> g.max, minat |-> g.minat, maxat |-> g.maxat]

LEMMA LookedAgain ==
  ASSUME Ready, sizes.lminpk = field.minpk, NEW g, GroupOK(g), Whole(g) \/ Cut(g),
         Reach(g, g.from - 1), NEW to \in Nat, g.from <= to, to < nxy,
         g.minat > to, g.maxat > to,
         ~TooWide(LookAt(KnownOf(g), g.to + 1, 1, to).e)
  PROVE  LET grown == LookAt(KnownOf(g), g.to + 1, 1, to)
             h == Group(grown.e, to + 1, grown.to)
         IN  /\ GroupOK(h)
             /\ Whole(h) \/ Cut(h)
             /\ Reach(h, to) /\ h.from = to + 1
<1> DEFINE end == ToTail(Wanted(to), field.minpk)
           S == (g.to + 1)..end
           e == With(KnownOf(g), S, TRUE, TRUE)
           h == Group(e, to + 1, end)
<1>1. /\ Wanted(to) \in Int /\ to < Wanted(to) /\ Wanted(to) <= nxy
      /\ Min({to + sizes.lminpk, nxy}) = Wanted(to)
  BY WantedIs
<1>2. Max({1, Wanted(to)}) = Wanted(to)
  <2>1. PICK i, one \in Int : i = Wanted(to) /\ one = 1
    BY <1>1
  <2>2. one <= i
    BY <1>1, <2>1
  <2>3. Max({one, i}) = i
    BY <2>1, <2>2, MinOfTwo
  <2> QED BY <2>1, <2>3
<1>3. LookAt(KnownOf(g), g.to + 1, 1, to).e = e /\ LookAt(KnownOf(g), g.to + 1, 1, to).to = end
  BY <1>1, <1>2 DEF LookAt
<1>4. end \in Int /\ Wanted(to) <= end /\ end <= nxy
  BY <1>1, TailEnd
<1>5. ToTail(end, field.minpk) = end
  BY <1>1, TailTwice
<1>6. /\ g.from \in Int /\ g.to \in Int /\ 1 <= g.from /\ g.from <= g.to /\ g.to <= nxy
      /\ g.min \in Int /\ g.max \in Int /\ g.minat \in Int /\ g.maxat \in Int /\ g.bits \in 0..30
  BY DEF GroupOK, GroupType
<1>7. PICK u \in 1..nxy :
        /\ ~g.miss /\ Attained(g, u) /\ g.to <= u
        /\ \A k \in Valued(g.from..u) : g.min <= field.ic[k] /\ field.ic[k] <= g.max
        /\ \/ u = g.to /\ Whole(g)
           \/ field.is523 = 0 /\ \E s \in 1..nxy : Looked(g, s, u)
  <2>1. g.maxat >= 0
    BY <1>6
  <2>2. CASE Whole(g)
    <3>1. ~g.miss /\ Attained(g, g.to)
      BY <2>1, <2>2, <1>6 DEF Whole
    <3>2. g.to \in 1..nxy
      BY <1>6 DEF Ready
    <3> QED BY <1>6, <2>2, <3>1, <3>2 DEF GroupOK
  <2>3. CASE Cut(g)
    <3>1. PICK s, u \in 1..nxy : Looked(g, s, u)
      BY <2>3 DEF Cut
    <3>2. g.to <= u /\ Attained(g, u)
      BY <3>1, <1>6 DEF Looked
    <3>3. \A k \in g.from..u : g.min <= field.ic[k] /\ field.ic[k] <= g.max
      BY <3>1 DEF Looked
    <3>4. \A k \in Valued(g.from..u) : k \in g.from..u
      BY DEF Valued
    <3> QED BY <2>3, <3>1, <3>2, <3>3, <3>4 DEF Cut
  <2> QED BY <2>2, <2>3
<1>8. S \in SUBSET (1..nxy) /\ nxy \in Nat
  BY <1>4, <1>6 DEF Ready
<1>9. Widened(e, KnownOf(g), S)
  <2>1. KnownOf(g).min \in Int /\ KnownOf(g).max \in Int
    BY <1>6 DEF KnownOf
  <2> QED BY <1>8, <2>1, WithIs
<1> HIDE DEF e, end
<1>10. /\ e.min \in Int /\ e.max \in Int /\ e.min <= g.min /\ g.max <= e.max
       /\ \A k \in Valued(S) : e.min <= field.ic[k] /\ field.ic[k] <= e.max
       /\ \/ e.min = g.min /\ e.minat = g.minat
          \/ e.minat \in Valued(S) /\ field.ic[e.minat] = e.min
       /\ \/ e.max = g.max /\ e.maxat = g.maxat
          \/ e.maxat \in Valued(S) /\ field.ic[e.maxat] = e.max
  BY <1>9 DEF Widened, KnownOf
<1>11. \A k \in Valued(S) : k \in S /\ Allowed(field.ic[k])
  BY <1>8, ValuesAllowed DEF Valued
<1>12. Allowed(e.min) /\ Allowed(e.max) /\ Allowed(g.min) /\ Allowed(g.max)
  BY <1>10, <1>11 DEF GroupOK
<1>13. \A k \in Valued((to + 1)..end) : e.min <= field.ic[k] /\ field.ic[k] <= e.max
  <2> SUFFICES ASSUME NEW k \in Valued((to + 1)..end)
               PROVE  e.min <= field.ic[k] /\ field.ic[k] <= e.max
    OBVIOUS
  <2>1. k \in (to + 1)..end /\ ~Missing(k)
    BY DEF Valued
  <2>2. CASE k > g.to
    <3>1. k \in Valued(S)
      BY <2>1, <2>2, <1>6, <1>4 DEF Valued
    <3> QED BY <3>1, <1>10
  <2>3. CASE ~(k > g.to)
    <3>1. k \in Valued(g.from..g.to)
      BY <2>1, <2>3, <1>6, <1>4 DEF Valued
    <3>2. g.min <= field.ic[k] /\ field.ic[k] <= g.max
      BY <3>1 DEF GroupOK
    <3>3. field.ic[k] \in Int
      <4>1. g.from..g.to \in SUBSET (1..nxy)
        BY <1>6, <1>8
      <4> QED BY <3>1, <4>1, ValuesAllowed DEF Allowed
    <3> QED BY <3>2, <3>3, <1>6, <1>10
  <2> QED BY <2>2, <2>3
<1>14. /\ g.minat \in Valued(g.from..u) /\ field.ic[g.minat] = g.min
       /\ g.maxat \in Valued(g.from..u) /\ field.ic[g.maxat] = g.max
       /\ g.min <= g.max
  <2>1. g.from <= g.minat /\ g.from <= g.maxat
    BY <1>6
  <2> QED BY <1>7, <2>1 DEF Attained
<1>15. e.min # Mallow /\ e.min <= e.max
  BY <1>6, <1>10, <1>12, <1>14, Powers DEF Allowed, Mallow
<1>16. e.minat \in Int /\ e.maxat \in Int
  BY <1>6, <1>8, <1>10, <1>11
<1>17. Bounding(e, to + 1, end)
  BY <1>12, <1>13, <1>15, <1>16 DEF Bounding
<1>18. /\ to + 1 \in Int /\ 1 <= to + 1 /\ to + 1 <= end /\ ~TooWide(e)
  BY <1>1, <1>3, <1>4
<1>19. /\ GroupOK(h) /\ h.from = to + 1 /\ h.to = end
       /\ h.minat = e.minat /\ h.maxat = e.maxat
       /\ ~h.miss /\ h.min = e.min /\ h.max = e.max
       /\ h.bits = Bits(e.max - e.min + lmiss)
  BY <1>4, <1>15, <1>17, <1>18, NewGroup
<1> HIDE DEF h
<1>20. Reach(h, to)
  <2>1. h.to = ToTail(Wanted(to), field.minpk)
    BY <1>19 DEF end
  <2> QED BY <2>1 DEF Reach
\* Nothing that is seen for a second time before the point after to is outside.
<1>21. ASSUME NEW k \in Valued(S), ~(g.min <= field.ic[k] /\ field.ic[k] <= g.max)
       PROVE  u < k
  <2>1. k \in S /\ ~Missing(k)
    BY DEF Valued
  <2>2. k \notin Valued(g.from..u)
    BY <1>7, <1>21
  <2>3. k \notin g.from..u
    BY <2>1, <2>2 DEF Valued
  <2> QED BY <2>1, <2>3, <1>4, <1>6
<1>22. ASSUME NEW v \in 1..nxy, u <= v, end <= v
       PROVE  Attained(h, v)
  <2>1. \A k \in Valued(S) : k \in 1..nxy /\ (to < k => k \in Valued((to + 1)..v))
    BY <1>4, <1>6, <1>8, <1>22 DEF Valued
  <2>2. to < u
    BY <1>14, <1>6 DEF Valued
  <2>3. /\ g.minat \in Valued((to + 1)..v)
        /\ g.maxat \in Valued((to + 1)..v)
    BY <1>6, <1>14, <1>22 DEF Valued
  <2>4. \E k \in Valued((to + 1)..v) : field.ic[k] = e.min
    <3>1. CASE e.min = g.min
      BY <1>14, <2>3, <3>1
    <3>2. CASE e.min # g.min
      <4>1. e.minat \in Valued(S) /\ field.ic[e.minat] = e.min /\ ~(g.min <= e.min)
        BY <1>6, <1>10, <3>2
      <4>2. u < e.minat
        BY <1>21, <4>1
      <4> QED BY <2>1, <2>2, <4>1, <4>2
    <3> QED BY <3>1, <3>2
  <2>5. \E k \in Valued((to + 1)..v) : field.ic[k] = e.max
    <3>1. CASE e.max = g.max
      BY <1>14, <2>3, <3>1
    <3>2. CASE e.max # g.max
      <4>1. e.maxat \in Valued(S) /\ field.ic[e.maxat] = e.max /\ ~(e.max <= g.max)
        BY <1>6, <1>10, <3>2
      <4>2. u < e.maxat
        BY <1>21, <4>1
      <4> QED BY <2>1, <2>2, <4>1, <4>2
    <3> QED BY <3>1, <3>2
  <2>6. to + 1 <= e.minat => e.minat \in Valued((to + 1)..v) /\ field.ic[e.minat] = e.min
    BY <1>10, <1>14, <1>16, <2>1, <2>3
  <2>7. to + 1 <= e.maxat => e.maxat \in Valued((to + 1)..v) /\ field.ic[e.maxat] = e.max
    BY <1>10, <1>14, <1>16, <2>1, <2>3
  <2> QED BY <1>19, <2>4, <2>5, <2>6, <2>7 DEF Attained
<1>23. CASE u <= end
  <2>1. end \in 1..nxy
    BY <1>4, <1>8, <1>18
  <2>2. Attained(h, h.to)
    BY <1>19, <1>22, <1>23, <2>1
  <2>3. Whole(h)
    BY <1>19, <2>2 DEF Whole
  <2> QED BY <1>3, <1>19, <1>20, <2>3 DEF h
<1>24. CASE ~(u <= end)
  <2>1. PICK s \in 1..nxy : /\ field.is523 = 0 /\ end < s /\ s <= u /\ Short(s, u)
                            /\ Uniform(g.from, s) /\ Ends(s)
    <3>1. CASE u = g.to /\ Whole(g)
      <4>1. Wanted(g.from - 1) \in Int /\ Wanted(g.from - 1) <= Wanted(to)
        BY <1>6, <1>8 DEF Ready, Wanted
      <4>2. ToTail(Wanted(g.from - 1), field.minpk) <= end
        BY <1>1, <4>1, TailGrows DEF end
      <4>3. g.to # ToTail(Wanted(g.from - 1), field.minpk)
        BY <1>4, <1>24, <3>1, <4>2, <1>6
      <4>4. PICK s \in 1..nxy : /\ field.is523 = 0 /\ g.to = ToTail(s, field.minpk)
                                /\ Uniform(g.from, s) /\ Ends(s)
        BY <4>3 DEF Reach
      <4>5. end < s
        <5>1. SUFFICES ASSUME s <= end PROVE FALSE
          BY <1>4
        <5>2. ToTail(s, field.minpk) <= end
          BY <1>4, <1>5, <5>1, TailGrows
        <5> QED BY <5>2, <4>4, <1>24, <3>1, <1>4, <1>6
      <4>6. s <= u /\ Short(s, u)
        <5>1. s <= nxy /\ s \in Int
          BY <1>8
        <5> QED BY <4>4, <3>1, <5>1, <1>8 DEF Short, ToTail, Ready
      <4> QED BY <4>4, <4>5, <4>6
    <3>2. CASE field.is523 = 0 /\ \E s \in 1..nxy : Looked(g, s, u)
      <4>1. PICK s \in 1..nxy : Looked(g, s, u)
        BY <3>2
      <4>2. end < s
        <5>1. SUFFICES ASSUME s <= end PROVE FALSE
          BY <1>4
        <5>2. ToTail(s, field.minpk) <= end
          BY <1>4, <1>5, <5>1, TailGrows
        <5>3. u <= ToTail(s, field.minpk)
          BY <4>1, <1>8 DEF Looked, Short, ToTail, Ready
        <5>4. ToTail(s, field.minpk) \in Int
          BY <1>8, TailEnd
        <5> QED BY <5>2, <5>3, <5>4, <1>4, <1>24
      <4> QED BY <4>1, <4>2, <3>2 DEF Looked
    <3> QED BY <1>7, <3>1, <3>2
  <2>2. Uniform(to + 1, s)
    <3>1. to + 1 \in g.from..s /\ \A k \in (to + 1)..s : k \in g.from..s
      BY <1>4, <1>6, <1>18, <2>1
    <3> QED BY <2>1, <3>1 DEF Uniform
  <2>3. Attained(h, u)
    BY <1>4, <1>22, <1>24
  <2>4. \A k \in (to + 1)..u : e.min <= field.ic[k] /\ field.ic[k] <= e.max
    <3> SUFFICES ASSUME NEW k \in (to + 1)..u
                 PROVE  e.min <= field.ic[k] /\ field.ic[k] <= e.max
      OBVIOUS
    <3>1. k \in Valued(g.from..u)
      BY <1>6, <2>1, NoneMissing
    <3>2. g.from..u \in SUBSET (1..nxy)
      BY <1>6, <1>8
    <3>3. field.ic[k] \in Int
      BY <3>1, <3>2, ValuesAllowed DEF Allowed
    <3> QED BY <1>6, <1>7, <1>10, <3>1, <3>3
  <2>5. Looked(h, s, u)
    BY <1>19, <2>1, <2>2, <2>3, <2>4 DEF Looked
  <2>6. Cut(h)
    BY <1>19, <2>1, <2>5 DEF Cut
  <2> QED BY <1>3, <1>19, <1>20, <2>6 DEF h
<1> QED BY <1>4, <1>23, <1>24
-----------------------------------------------------------------------------
(* The inductive invariant of a call of pack_gp.                           *)

(* The points of a group need its bits.                                    *)
Tight(g) ==
  \A w \in 0..30 : (MissBits <= w /\ w < g.bits) =>
    \E p, q \in Valued(g.from..g.to) : 2^w <= field.ic[p] - field.ic[q] + lmiss

(* The groups before a group of which the number is k hold lminpk points   *)
(* on average, and so does this group with them.                           *)
Room(k) == k * field.minpk <= nxy
Far(g, k) == g.to = nxy \/ k * field.minpk <= g.to

Follows(g) == g.from = IF groups = <<>> THEN 1 ELSE Last(groups).to + 1

(* A is made.                                                              *)
AHolds ==
  /\ GroupOK(a) /\ Follows(a) /\ ~adda
  /\ Tight(a) \/ Cut(a)
  /\ Room(Len(groups)) /\ Far(a, Len(groups) + 1)

(* A and B are made and compared.  Only an A that has gained no points     *)
(* gives any back, and it does not give all.                               *)
ABHold ==
  /\ GroupOK(a) /\ Follows(a) /\ a.to < nxy
  /\ GroupOK(b) /\ b.from = a.to + 1
  /\ Whole(b) \/ Cut(b)
  /\ ~adda => Whole(b)
  /\ Reach(b, a.to)
  /\ ~adda /\ b.bits < a.bits => Tight(a)
  /\ Room(Len(groups)) /\ (Len(groups) + 1) * field.minpk <= a.to

(* B is the next A, unless A was the last group.                           *)
ALast ==
  /\ GroupOK(a) /\ Follows(a) /\ Room(Len(groups))
  /\ a.to < nxy => /\ GroupOK(b) /\ b.from = a.to + 1
                   /\ Tight(b) \/ Cut(b)
                   /\ Room(Len(groups) + 1) /\ Far(b, Len(groups) + 2)

ClosedGroup ==
  [from : Int, to : Int, bits : Int, miss : BOOLEAN, min : Int, max : Int, nov : Int]

Closed ==
  /\ groups \in Seq(ClosedGroup) /\ ChainFrom(groups, 1) /\ Len(groups) <= field.ndg
  /\ \A i \in DOMAIN groups : Holds(groups[i])

Arguments ==
  /\ nxy \in Nat \ {0} /\ field.is523 \in 0..2 /\ field.minpk \in Nat \ {0}
  /\ field.ndg = nxy \div field.minpk + 1
  /\ sizes = [kinc |-> sizes.kinc, lminpk |-> field.minpk, ired |-> sizes.ired]
  /\ adda \in BOOLEAN

Groups ==
  /\ Closed
  /\ pc = "L133" => AHolds
  /\ pc = "L170" => ABHold
  /\ pc = "L200" => ALast
  /\ pc = "L209" => Last(groups).to = nxy

PackInv ==
  /\ job \in Jobs
  /\ step = "encode" => groups = <<>> /\ adda \in BOOLEAN
  /\ step = "groups" /\ job.by = "g2" =>
       Arguments /\ (Packable => Groups /\ sizes.kinc \in Nat \ {0})

LEMMA PowersBelow == \A j \in 0..30 : 2^j <= 2^30
<1> DEFINE Below(j) == 2^j <= 2^30
<1> SUFFICES ASSUME NEW j \in 0..30 PROVE Below(j)
  OBVIOUS
<1>1. j \in 0..7 => Below(j)
  <2>1. j \in 0..7 => (j = 0 \/ j = 1 \/ j = 2 \/ j = 3 \/ j = 4 \/ j = 5 \/ j = 6 \/ j = 7)
    OBVIOUS
  <2>2. Below(0) /\ Below(1) /\ Below(2) /\ Below(3) /\ Below(4) /\ Below(5) /\ Below(6)
        /\ Below(7)
    OBVIOUS
  <2> HIDE DEF Below
  <2> QED BY ONLY <2>1, <2>2, Zenon
<1>2. j \in 8..15 => Below(j)
  <2>1. j \in 8..15 => (j = 8 \/ j = 9 \/ j = 10 \/ j = 11 \/ j = 12 \/ j = 13 \/ j = 14 \/ j = 15)
    OBVIOUS
  <2>2. Below(8) /\ Below(9) /\ Below(10) /\ Below(11) /\ Below(12) /\ Below(13) /\
        Below(14) /\ Below(15)
    OBVIOUS
  <2> HIDE DEF Below
  <2> QED BY ONLY <2>1, <2>2, Zenon
<1>3. j \in 16..23 => Below(j)
  <2>1. j \in 16..23 => (j = 16 \/ j = 17 \/ j = 18 \/ j = 19 \/ j = 20 \/ j = 21 \/ j = 22 \/ j = 23)
    OBVIOUS
  <2>2. Below(16) /\ Below(17) /\ Below(18) /\ Below(19) /\ Below(20) /\ Below(21) /\
        Below(22) /\ Below(23)
    OBVIOUS
  <2> HIDE DEF Below
  <2> QED BY ONLY <2>1, <2>2, Zenon
<1>4. j \in 24..30 => Below(j)
  <2>1. j \in 24..30 => (j = 24 \/ j = 25 \/ j = 26 \/ j = 27 \/ j = 28 \/ j = 29 \/ j = 30)
    OBVIOUS
  <2>2. Below(24) /\ Below(25) /\ Below(26) /\ Below(27) /\ Below(28) /\ Below(29) /\
        Below(30)
    OBVIOUS
  <2> HIDE DEF Below
  <2> QED BY ONLY <2>1, <2>2, Zenon
<1>5. j \in 0..7 \/ j \in 8..15 \/ j \in 16..23 \/ j \in 24..30
  OBVIOUS
<1> HIDE DEF Below
<1> QED BY <1>1, <1>2, <1>3, <1>4, <1>5

LEMMA BitsLeast ==
  ASSUME NEW n \in Int, NEW v \in 0..30, n < 2^v
  PROVE  /\ n < 2^30
         /\ \A w \in 0..30 : w < Bits(n) => 2^w <= n
<1>1. n < 2^30
  <2>1. 2^v \in Int /\ 2^30 \in Int
    BY Powers
  <2>2. 2^v <= 2^30
    BY PowersBelow
  <2>3. \A i, j, k \in Int : i < j /\ j <= k => i < k
    OBVIOUS
  <2> QED BY <2>1, <2>2, <2>3
<1> QED BY <1>1, BitsIs

LEMMA PlacesOf ==
  ASSUME Ready, NEW g, GroupOK(g)
  PROVE  /\ g.from..g.to \in SUBSET (1..nxy)
         /\ \A k \in Valued(g.from..g.to) : k \in g.from..g.to /\ field.ic[k] \in Int
<1>1. g.from..g.to \in SUBSET (1..nxy)
  BY DEF GroupOK, GroupType, Ready
<1>2. \A k \in Valued(g.from..g.to) : k \in g.from..g.to
  BY DEF Valued
<1> QED BY <1>1, <1>2, ValuesAllowed DEF Allowed

LEMMA WholeIsTight ==
  ASSUME Ready, NEW g, GroupOK(g), Whole(g)
  PROVE  Tight(g)
<1> SUFFICES ASSUME NEW w \in 0..30, MissBits <= w, w < g.bits
             PROVE  \E p, q \in Valued(g.from..g.to) :
                      2^w <= field.ic[p] - field.ic[q] + lmiss
  BY DEF Tight
<1>1. /\ ~g.miss /\ g.bits = Bits(g.max - g.min + lmiss)
      /\ Attained(g, g.to)
  <2>1. g.bits # MissBits
    BY LmissIs
  <2> QED BY <2>1 DEF Whole
<1>2. PICK q \in Valued(g.from..g.to) : field.ic[q] = g.min
  BY <1>1 DEF Attained
<1>3. PICK p \in Valued(g.from..g.to) : field.ic[p] = g.max
  BY <1>1 DEF Attained
<1>4. g.max - g.min + lmiss \in Int /\ g.bits \in 0..30 /\ g.max - g.min + lmiss < 2^g.bits
  BY <1>2, LmissIs DEF GroupOK, GroupType
<1>5. PICK n \in Int : n = g.max - g.min + lmiss
  BY <1>4
<1>6. PICK v \in 0..30 : v = g.bits
  BY <1>4
<1>7. n < 2^v
  BY <1>4, <1>5, <1>6
<1>8. \A j \in 0..30 : j < Bits(n) => 2^j <= n
  BY ONLY <1>7, BitsLeast
<1>9. 2^w <= n
  BY <1>1, <1>5, <1>8
<1> QED BY <1>2, <1>3, <1>5, <1>9

(* A group that gains points and keeps its bits needs them as before.      *)
LEMMA TightOfMore ==
  ASSUME NEW g, Tight(g), NEW h, h.bits = g.bits,
         \A k \in Valued(g.from..g.to) : k \in Valued(h.from..h.to)
  PROVE  Tight(h)
BY DEF Tight

LEMMA LessRoom ==
  ASSUME NEW k \in Nat, NEW m \in Nat \ {0}, NEW n \in Nat, k * m <= n
  PROVE  k <= n \div m
<1>1. n \div m \in Nat /\ n < (n \div m + 1) * m
  <2>1. n = m * (n \div m) + (n % m) /\ n % m \in 0..(m - 1) /\ n \div m \in Nat
    OBVIOUS
  <2> QED BY <2>1
<1>2. CASE k > n \div m
  <2>1. PICK q \in Nat : q = n \div m
    BY <1>1
  <2>2. PICK d \in Nat : k = q + 1 + d
    <3>1. k - (q + 1) \in Nat /\ k = q + 1 + (k - (q + 1))
      BY <1>2, <2>1
    <3> QED BY <3>1
  <2>3. k * m = (q + 1) * m + d * m
    BY <2>2
  <2>4. d * m >= 0
    OBVIOUS
  <2> QED BY <1>1, <2>1, <2>3, <2>4
<1> QED BY <1>1, <1>2

LEMMA NextRoom ==
  ASSUME NEW k \in Nat, NEW m \in Nat
  PROVE  (k + 1) * m = k * m + m /\ k * m \in Nat /\ (k + 1) * m \in Nat
OBVIOUS
-----------------------------------------------------------------------------
(* A step that leaves the field as it is means by a group what it meant.   *)

LEMMA SameField ==
  ASSUME field' = field
  PROVE  nxy' = nxy /\ (Packable' <=> Packable) /\ (Ready' <=> Ready)
BY DEF Ready, Packable, Missing, nxy

LEMMA SameA ==
  ASSUME field' = field, NEW g, g = a'
  PROVE  /\ GroupOK(a)' <=> GroupOK(g)
         /\ Tight(a)' <=> Tight(g)
         /\ Cut(a)' <=> Cut(g)
<1>1. GroupOK(a)' <=> GroupOK(g)
  BY DEF GroupOK, Valued, Missing, nxy, lmiss, MissBits, Allowed
<1>2. Tight(a)' <=> Tight(g)
  BY DEF Tight, Valued, Missing, lmiss, MissBits
<1>3. Cut(a)' <=> Cut(g)
  BY DEF Cut, Looked, Attained, Uniform, Short, Ends, Valued, Missing, lmiss, nxy
<1> QED BY <1>1, <1>2, <1>3

LEMMA SameB ==
  ASSUME field' = field, NEW g, g = b'
  PROVE  /\ GroupOK(b)' <=> GroupOK(g)
         /\ Tight(b)' <=> Tight(g)
         /\ Cut(b)' <=> Cut(g)
         /\ Whole(b)' <=> Whole(g)
         /\ \A i : a.to' = i => (Reach(b, a.to)' <=> Reach(g, i))
<1>1. GroupOK(b)' <=> GroupOK(g)
  BY DEF GroupOK, Valued, Missing, nxy, lmiss, MissBits, Allowed
<1>2. Tight(b)' <=> Tight(g)
  BY DEF Tight, Valued, Missing, lmiss, MissBits
<1>3. Cut(b)' <=> Cut(g)
  BY DEF Cut, Looked, Attained, Uniform, Short, Ends, Valued, Missing, lmiss, nxy
<1>4. Whole(b)' <=> Whole(g)
  BY DEF Whole, Attained, Valued, Missing, lmiss, MissBits
<1>5. ASSUME NEW i, a.to' = i
      PROVE  Reach(b, a.to)' <=> Reach(g, i)
  BY <1>5 DEF Reach, Wanted, ToTail, Uniform, Ends, nxy
<1> QED BY <1>1, <1>2, <1>3, <1>4, <1>5

LEMMA StaysA ==
  ASSUME field' = field, a' = a
  PROVE  /\ GroupOK(a)' <=> GroupOK(a)
         /\ Tight(a)' <=> Tight(a)
         /\ Cut(a)' <=> Cut(a)
         /\ groups' = groups => (Follows(a)' <=> Follows(a))
<1>1. PICK g : g = a'
  OBVIOUS
<1>2. /\ GroupOK(a)' <=> GroupOK(g)
      /\ Tight(a)' <=> Tight(g)
      /\ Cut(a)' <=> Cut(g)
  BY <1>1, SameA
<1>3. groups' = groups => (Follows(a)' <=> Follows(a))
  BY DEF Follows
<1> QED BY <1>1, <1>2, <1>3

LEMMA StaysB ==
  ASSUME field' = field, b' = b
  PROVE  /\ GroupOK(b)' <=> GroupOK(b)
         /\ Tight(b)' <=> Tight(b)
         /\ Cut(b)' <=> Cut(b)
<1>1. PICK g : g = b'
  OBVIOUS
<1>2. /\ GroupOK(b)' <=> GroupOK(g)
      /\ Tight(b)' <=> Tight(g)
      /\ Cut(b)' <=> Cut(g)
  BY <1>1, SameB
<1> QED BY <1>1, <1>2

LEMMA SameClosed ==
  ASSUME field' = field, groups' = groups, Closed
  PROVE  Closed'
<1>1. \A i \in DOMAIN groups' : Holds(groups[i])'
  <2> SUFFICES ASSUME NEW i \in DOMAIN groups' PROVE Holds(groups[i])'
    OBVIOUS
  <2>1. Holds(groups[i])
    BY DEF Closed
  <2> QED BY <2>1 DEF Holds, ValuesAt, Missing, lmiss
<1>2. ChainFrom(groups, 1)'
  BY DEF Closed, ChainFrom
<1> QED BY <1>1, <1>2 DEF Closed

LEMMA NoneClosed ==
  ASSUME groups' = <<>>, field.ndg \in Nat, field' = field
  PROVE  Closed'
<1>1. <<>> \in Seq(ClosedGroup) /\ Len(<<>>) = 0 /\ DOMAIN <<>> = {}
  OBVIOUS
<1> QED BY <1>1 DEF Closed, ChainFrom

(* The steps of pack_gp.                                                   *)

Given == Arguments /\ Packable /\ sizes.kinc \in Nat \ {0}

LEMMA GivenIs ==
  ASSUME Given
  PROVE  Ready /\ sizes.lminpk = field.minpk /\ field.ndg \in Nat
<1>1. sizes.lminpk = field.minpk
  BY DEF Given, Arguments
<1> QED BY <1>1 DEF Given, Arguments, Ready

LEMMA FirstGroupStep ==
  ASSUME Given, Groups, FirstGroup
  PROVE  Groups'
<1>1. Ready /\ sizes.lminpk = field.minpk /\ field.ndg \in Nat
  BY GivenIs
<1>2. nxy \in Nat \ {0} /\ field.minpk \in Nat \ {0}
  BY <1>1 DEF Ready
<1> DEFINE start == IF field.minpk <= nxy THEN field.minpk ELSE nxy
           end == ToTail(start, field.minpk)
           str == StringEnd(1, TRUE)
<1>3. Min({sizes.lminpk, nxy}) = start
  BY <1>1, <1>2, MinOfTwo
<1>4. start \in Int /\ 1 <= start /\ start <= nxy /\ (start = nxy \/ field.minpk <= start)
  BY <1>2
<1> HIDE DEF start
<1>5. end \in Int /\ start <= end /\ end <= nxy
  BY <1>1, <1>4, TailEnd
<1>6. FirstEnd = IF end # nxy /\ field.ic[1] = field.ic[2] THEN Max({end, str}) ELSE end
  BY <1>1, <1>3 DEF FirstEnd
<1>7. str \in 1..nxy
  <2>1. 1 \in 1..nxy /\ TRUE \in BOOLEAN
    BY <1>2
  <2> QED BY ONLY <1>1, <2>1, StringIs
<1> HIDE DEF end, str
<1>8. Max({end, str}) = IF end <= str THEN str ELSE end
  BY <1>2, <1>5, <1>7, MinOfTwo
<1>9. PICK to \in Int : to = FirstEnd
  BY <1>5, <1>6, <1>7, <1>8
<1>10. /\ 1 <= to /\ to <= nxy
       /\ to = nxy \/ field.minpk <= to
  BY <1>2, <1>4, <1>5, <1>6, <1>7, <1>8, <1>9
<1>11. field' = field
  BY DEF FirstGroup
<1>12. CASE pc' = "failed"
  <2>1. groups' = groups
    BY <1>12 DEF FirstGroup
  <2> QED BY <1>11, <1>12, <2>1, SameClosed DEF Groups
<1>13. CASE pc' # "failed"
  <2> DEFINE e == With(Nothing, 1..to, FALSE, FALSE)
  <2>1. /\ ~TooWide(e) /\ a' = Group(e, 1, to)
        /\ pc' = "L133" /\ adda' = FALSE /\ groups' = <<>>
    BY <1>9, <1>13 DEF FirstGroup
  <2>2. PICK g : g = a'
    OBVIOUS
  <2>3. GroupOK(g) /\ Whole(g) /\ g.from = 1 /\ g.to = to
    <3>1. FALSE \in BOOLEAN /\ 1 \in Int /\ 1 <= 1
      OBVIOUS
    <3>2. ~TooWide(With(Nothing, 1..to, FALSE, FALSE))
      BY <2>1
    <3>3. LET h == Group(With(Nothing, 1..to, FALSE, FALSE), 1, to)
          IN  GroupOK(h) /\ Whole(h) /\ h.from = 1 /\ h.to = to
      BY ONLY <1>1, <1>9, <1>10, <3>1, <3>2, FreshIsWhole
    <3> QED BY <2>1, <2>2, <3>3
  <2>4. Tight(g)
    BY <1>1, <2>3, WholeIsTight
  <2>5. Closed'
    BY <1>1, <1>11, <2>1, NoneClosed
  <2>6. GroupOK(a)' /\ Tight(a)'
    BY <1>11, <2>2, <2>3, <2>4, SameA
  <2>7. Follows(a)'
    BY <2>1, <2>2, <2>3 DEF Follows
  <2>8. Len(groups)' = 0 /\ nxy' = nxy /\ field.minpk' = field.minpk
    BY <1>11, <2>1 DEF nxy
  <2>9. Room(Len(groups))' /\ Far(a, Len(groups) + 1)'
    BY <1>2, <1>10, <2>2, <2>3, <2>8 DEF Room, Far
  <2>10. AHolds'
    BY <2>1, <2>6, <2>7, <2>9 DEF AHolds
  <2> QED BY <2>1, <2>5, <2>10 DEF Groups
<1> QED BY <1>12, <1>13

(* A group that was cut before the end of its string needs no more bits    *)
(* than the group after it, which has the rest of the string and the tail. *)
LEMMA CutNeedsLess ==
  ASSUME Ready, NEW g, GroupOK(g), Cut(g), g.to < nxy,
         NEW h, GroupOK(h), Whole(h), h.from = g.to + 1, Reach(h, g.to),
         field.is523 = 0 /\ g.to + 1 < nxy => StringEnd(g.to + 1, FALSE) <= h.to
  PROVE  g.bits <= h.bits
<1>1. PICK s, u \in 1..nxy : Looked(g, s, u)
  BY DEF Cut
<1>2. /\ g.to < s /\ s <= u /\ Uniform(g.from, s) /\ Ends(s) /\ Short(s, u)
      /\ Attained(g, u)
  BY <1>1 DEF Looked
<1>3. /\ nxy \in Nat \ {0} /\ field.minpk \in Nat \ {0} /\ field.is523 = 0
      /\ ~g.miss /\ g.bits = Bits(g.max - g.min + lmiss)
  BY DEF Ready, Cut
<1>4. /\ g.from \in Int /\ g.to \in Int /\ 1 <= g.from /\ g.from <= g.to /\ g.to <= nxy
      /\ g.min \in Int /\ g.max \in Int
  BY DEF GroupOK, GroupType
<1>5. /\ h.from \in Int /\ h.to \in Int /\ h.from <= h.to /\ h.to <= nxy
      /\ h.min \in Int /\ h.max \in Int /\ h.bits \in 0..30
  BY DEF GroupOK, GroupType
<1>6. s <= h.to
  <2>1. CASE g.to + 1 < nxy
    <3>1. g.to + 1 \in 1..nxy /\ FALSE \in BOOLEAN
      BY <1>3, <1>4, <2>1
    <3>2. PICK str : str = StringEnd(g.to + 1, FALSE)
      OBVIOUS
    <3>3. str \in (g.to + 1)..nxy /\ Ends(str)
      BY <3>1, <3>2, StringIs
    <3>4. ~(str < s)
      <4>1. SUFFICES ASSUME str < s PROVE FALSE
        OBVIOUS
      <4>2. str \in g.from..s /\ str + 1 \in g.from..s
        BY <1>4, <3>3, <4>1
      <4>3. field.ic[str] = field.ic[g.from] /\ field.ic[str + 1] = field.ic[g.from]
        BY <1>2, <4>2 DEF Uniform
      <4>4. str # nxy
        BY <1>3, <3>3, <4>1
      <4> QED BY <3>3, <4>3, <4>4 DEF Ends
    <3>5. str <= h.to
      BY <1>3, <2>1, <3>2
    <3> QED BY <1>3, <1>5, <3>3, <3>4, <3>5
  <2>2. CASE ~(g.to + 1 < nxy)
    <3>1. g.to = nxy - 1
      BY <1>3, <1>4, <2>2
    <3>2. s = nxy
      BY <1>2, <1>3, <1>4, <3>1
    <3> QED BY <1>3, <1>5, <3>1, <3>2
  <2> QED BY <2>1, <2>2
<1>7. u <= h.to
  <2>1. ToTail(h.to, field.minpk) = h.to
    <3>1. PICK t \in Int : t <= nxy /\ h.to = ToTail(t, field.minpk)
      <4>1. Wanted(g.to) \in Int /\ Wanted(g.to) <= nxy
        BY <1>3, <1>4 DEF Wanted
      <4>2. \A t \in 1..nxy : t \in Int /\ t <= nxy
        BY <1>3
      <4> QED BY <4>1, <4>2 DEF Reach
    <3> QED BY <3>1, TailTwice
  <2>2. CASE u = s
    BY <1>6, <2>2
  <2>3. CASE u = nxy /\ nxy - s <= field.minpk \div 2
    <3>1. nxy - h.to <= field.minpk \div 2
      BY <1>3, <1>5, <1>6, <2>3
    <3> QED BY <1>5, <2>1, <2>3, <3>1, TailEnd
  <2> QED BY <1>2, <2>2, <2>3 DEF Short
<1>8. ASSUME NEW k \in Valued(g.from..u)
      PROVE  /\ Valued(h.from..h.to) # {}
             /\ h.min <= field.ic[k] /\ field.ic[k] <= h.max
  <2>1. k \in g.from..u
    BY DEF Valued
  <2>2. s \in h.from..h.to /\ s \in g.from..s
    BY <1>2, <1>4, <1>5, <1>6
  <2>3. CASE k > g.to
    <3>1. k \in Valued(h.from..h.to)
      BY <1>3, <1>4, <1>5, <1>7, <2>1, <2>3, NoneMissing
    <3> QED BY <3>1 DEF GroupOK
  <2>4. CASE ~(k > g.to)
    <3>1. k \in g.from..s
      BY <1>2, <1>4, <2>1, <2>4
    <3>2. field.ic[k] = field.ic[s]
      BY <1>2, <2>2, <3>1 DEF Uniform
    <3>3. s \in Valued(h.from..h.to)
      BY <1>3, <2>2, NoneMissing
    <3> QED BY <3>2, <3>3 DEF GroupOK
  <2> QED BY <2>3, <2>4
<1>9. PICK p, q \in Valued(g.from..u) : field.ic[p] = g.min /\ field.ic[q] = g.max
  BY <1>2 DEF Attained
<1>10. Valued(h.from..h.to) # {} /\ h.min <= g.min /\ g.max <= h.max
  BY <1>8, <1>9
<1>11. h.max - h.min + lmiss < 2^h.bits
  BY <1>10 DEF GroupOK
<1>12. PICK m, n \in Int : m = g.max - g.min + lmiss /\ n = h.max - h.min + lmiss
  <2>1. lmiss \in Int
    BY LmissIs
  <2>2. g.max - g.min + lmiss \in Int /\ h.max - h.min + lmiss \in Int
    BY <1>4, <1>5, <2>1
  <2> QED BY <2>2
<1>13. m <= n
  BY <1>4, <1>5, <1>10, <1>12, LmissIs
<1>14. PICK w \in 0..30 : w = h.bits
  BY <1>5
<1>15. n < 2^w
  BY <1>11, <1>12, <1>14
<1>16. Bits(m) <= w
  BY ONLY <1>13, <1>15, BitsGrow
<1> QED BY <1>3, <1>12, <1>14, <1>16

LEMMA SecondGroupStep ==
  ASSUME Given, Groups, SecondGroup
  PROVE  Groups'
<1>1. Ready /\ sizes.lminpk = field.minpk
  BY GivenIs
<1>2. /\ field' = field /\ groups' = groups /\ a' = a /\ adda' = adda
      /\ pc = "L133" /\ AHolds
  BY DEF SecondGroup, Groups
<1>3. Closed'
  BY <1>2, SameClosed DEF Groups
<1>4. /\ GroupOK(a) /\ Follows(a) /\ ~adda
      /\ Tight(a) \/ Cut(a)
      /\ Room(Len(groups)) /\ Far(a, Len(groups) + 1)
  BY <1>2 DEF AHolds
<1>5. nxy' = nxy /\ field.minpk' = field.minpk /\ Len(groups)' = Len(groups)
  BY <1>2 DEF nxy
<1>6. GroupOK(a)' /\ Follows(a)' /\ Room(Len(groups))' /\ (Tight(a) => Tight(a)')
  <2>1. GroupOK(a)' /\ (Tight(a) => Tight(a)')
    BY <1>2, <1>4, StaysA
  <2>2. Follows(a)'
    BY <1>2, <1>4, StaysA
  <2>3. Room(Len(groups))'
    BY <1>4, <1>5 DEF Room
  <2> QED BY <2>1, <2>2, <2>3
<1>7. a.from \in Int /\ a.to \in Nat /\ a.to <= nxy /\ nxy \in Nat
  <2>1. a.from \in Int /\ a.to \in Int /\ 1 <= a.from /\ a.from <= a.to /\ a.to <= nxy
    BY <1>4 DEF GroupOK, GroupType
  <2> QED BY <1>1, <2>1 DEF Ready
<1>8. CASE a.to >= nxy
  <2>1. pc' = "L200"
    BY <1>8 DEF SecondGroup
  <2>2. ~(a.to < nxy)'
    BY <1>2, <1>5, <1>7, <1>8
  <2>3. ALast'
    BY <1>6, <2>2 DEF ALast
  <2> QED BY <1>3, <2>1, <2>3 DEF Groups
<1>9. CASE ~(a.to >= nxy)
  <2>0. a.to < nxy
    BY <1>7, <1>9
  <2>1. Compared(LookAhead(a.to), a.to)
    BY <1>9 DEF SecondGroup
  <2>2. CASE pc' = "failed"
    BY <1>3, <2>2 DEF Groups
  <2>3. CASE pc' # "failed"
    <3> DEFINE h == Group(LookAhead(a.to).e, a.to + 1, LookAhead(a.to).to)
    <3>1. ~TooWide(LookAhead(a.to).e) /\ pc' = "L170" /\ b' = h
      BY <2>1, <2>3 DEF Compared
    <3>2. PICK to \in Nat : to = a.to
      BY <1>7
    <3>3. /\ GroupOK(h) /\ Whole(h) /\ Reach(h, to) /\ h.from = to + 1
          /\ h.to = LookAhead(to).to
          /\ field.is523 = 0 /\ to + 1 < nxy => StringEnd(to + 1, FALSE) <= h.to
      BY <1>1, <2>0, <3>1, <3>2, LookedAhead
    <3>4. PICK g : g = b'
      OBVIOUS
    <3>5. /\ GroupOK(g) /\ Whole(g) /\ Reach(g, to) /\ g.from = to + 1
          /\ field.is523 = 0 /\ to + 1 < nxy => StringEnd(to + 1, FALSE) <= g.to
      BY <3>1, <3>3, <3>4
    <3> HIDE DEF h
    <3>6. GroupOK(b)' /\ Whole(b)' /\ Reach(b, a.to)'
      BY <1>2, <3>2, <3>4, <3>5, SameB
    <3>7. Cut(a) => a.bits <= g.bits
      BY <1>1, <1>4, <2>0, <3>2, <3>5, CutNeedsLess
    <3>8. (~adda /\ b.bits < a.bits => Tight(a))'
      <4>1. a.bits \in Int /\ g.bits \in Int
        BY <1>4, <3>5 DEF GroupOK, GroupType
      <4>2. Cut(a) => ~(g.bits < a.bits)
        BY <3>7, <4>1
      <4> QED BY <1>2, <1>4, <1>6, <3>4, <4>2
    <3>9. (b.from = a.to + 1 /\ a.to < nxy)'
      BY <1>2, <1>5, <2>0, <3>2, <3>4, <3>5
    <3>10. ((Len(groups) + 1) * field.minpk <= a.to)'
      BY <1>2, <1>4, <1>5, <1>7, <1>9 DEF Far
    <3>11. ABHold'
      BY <1>6, <3>6, <3>8, <3>9, <3>10 DEF ABHold
    <3> QED BY <1>3, <3>1, <3>11 DEF Groups
  <2> QED BY <2>2, <2>3
<1> QED BY <1>8, <1>9

LEMMA ReachFar ==
  ASSUME Ready, NEW to \in Nat, to < nxy, NEW g, GroupOK(g), Reach(g, to),
         NEW k \in Nat, k * field.minpk <= to
  PROVE  Far(g, k + 1)
<1>1. nxy \in Nat /\ field.minpk \in Nat
  BY DEF Ready
<1>2. /\ Wanted(to) \in Int /\ to < Wanted(to) /\ Wanted(to) <= nxy
      /\ Wanted(to) = nxy \/ Wanted(to) = to + field.minpk
  BY WantedIs DEF Wanted
<1>3. g.to \in Int /\ g.to <= nxy
  BY DEF GroupOK, GroupType
<1>4. Wanted(to) <= g.to
  <2>1. PICK t \in Int : t <= nxy /\ Wanted(to) <= t /\ g.to = ToTail(t, field.minpk)
    <3>1. \A t \in 1..nxy : t \in Int /\ t <= nxy
      BY <1>1
    <3> QED BY <1>2, <3>1 DEF Reach
  <2>2. t <= g.to
    BY <2>1, TailEnd
  <2> QED BY <1>2, <1>3, <2>1, <2>2
<1>5. (k + 1) * field.minpk = k * field.minpk + field.minpk /\ k * field.minpk \in Nat
  BY <1>1, NextRoom
<1>6. CASE Wanted(to) = nxy
  BY <1>2, <1>3, <1>4, <1>6 DEF Far
<1>7. CASE Wanted(to) = to + field.minpk
  BY <1>1, <1>3, <1>4, <1>5, <1>7 DEF Far
<1> QED BY <1>2, <1>6, <1>7

LEMMA ABIs ==
  ASSUME Given, Groups, pc = "L170"
  PROVE  /\ Ready /\ sizes.lminpk = field.minpk /\ ABHold
         /\ Len(groups) \in Nat /\ a.to \in Nat /\ a.from \in Nat /\ nxy \in Nat
         /\ GroupOK(a) /\ GroupOK(b) /\ b.from = a.to + 1 /\ a.to < nxy
         /\ 1 <= a.from /\ a.from <= a.to
<1>1. Ready /\ sizes.lminpk = field.minpk
  BY GivenIs
<1>2. ABHold /\ Closed
  BY DEF Groups
<1>3. GroupOK(a) /\ GroupOK(b) /\ b.from = a.to + 1 /\ a.to < nxy
  BY <1>2 DEF ABHold
<1>4. groups \in Seq(ClosedGroup)
  BY <1>2 DEF Closed
<1>5. Len(groups) \in Nat
  BY <1>4
<1>6. a.from \in Int /\ a.to \in Int /\ 1 <= a.from /\ a.from <= a.to
  BY <1>3 DEF GroupOK, GroupType
<1>7. nxy \in Nat
  BY <1>1 DEF Ready
<1> QED BY <1>1, <1>2, <1>3, <1>5, <1>6, <1>7

LEMMA CloseNow ==
  ASSUME Given, Groups, pc = "L170"
  PROVE  ALast
<1>1. /\ Ready /\ sizes.lminpk = field.minpk /\ ABHold
      /\ Len(groups) \in Nat /\ a.to \in Nat /\ a.from \in Nat /\ nxy \in Nat
      /\ GroupOK(a) /\ GroupOK(b) /\ b.from = a.to + 1 /\ a.to < nxy
  BY ABIs
<1>2. /\ Whole(b) \/ Cut(b)
      /\ Reach(b, a.to) /\ Follows(a)
      /\ Room(Len(groups)) /\ (Len(groups) + 1) * field.minpk <= a.to
  BY <1>1 DEF ABHold
<1>3. Tight(b) \/ Cut(b)
  BY <1>1, <1>2, WholeIsTight
<1>4. Room(Len(groups) + 1)
  <2>1. field.minpk \in Nat
    BY <1>1 DEF Ready
  <2>2. (Len(groups) + 1) * field.minpk \in Nat
    BY <1>1, <2>1, NextRoom
  <2> QED BY <1>1, <1>2, <2>2 DEF Room
<1>5. Far(b, Len(groups) + 2)
  <2>1. PICK k \in Nat : k = Len(groups) + 1
    BY <1>1
  <2>2. PICK to \in Nat : to = a.to
    BY <1>1
  <2>3. PICK g : g = b
    OBVIOUS
  <2>4. k * field.minpk <= to /\ GroupOK(g) /\ Reach(g, to) /\ to < nxy
    BY <1>1, <1>2, <2>1, <2>2, <2>3
  <2>5. Far(g, k + 1)
    BY ONLY <1>1, <2>4, ReachFar
  <2>6. k + 1 = Len(groups) + 2
    BY <1>1, <2>1
  <2> QED BY <2>3, <2>5, <2>6
<1> QED BY <1>1, <1>2, <1>3, <1>4, <1>5 DEF ALast

LEMMA SameLast ==
  ASSUME field' = field, groups' = groups, a' = a, b' = b, ALast
  PROVE  ALast'
<1>1. nxy' = nxy /\ field.minpk' = field.minpk
  BY DEF nxy
<1>2. GroupOK(a)' /\ Follows(a)'
  BY StaysA DEF ALast
<1>3. Room(Len(groups))'
  BY <1>1 DEF ALast, Room
<1>4. a.to < nxy => /\ GroupOK(b)' /\ (b.from = a.to + 1)'
                    /\ (Tight(b) \/ Cut(b))'
                    /\ Room(Len(groups) + 1)' /\ Far(b, Len(groups) + 2)'
  <2> SUFFICES ASSUME a.to < nxy
               PROVE  /\ GroupOK(b)' /\ (b.from = a.to + 1)'
                      /\ (Tight(b) \/ Cut(b))'
                      /\ Room(Len(groups) + 1)' /\ Far(b, Len(groups) + 2)'
    OBVIOUS
  <2>1. GroupOK(b)' /\ (Tight(b) \/ Cut(b))'
    BY StaysB DEF ALast
  <2>2. Room(Len(groups) + 1)' /\ Far(b, Len(groups) + 2)'
    BY <1>1 DEF ALast, Room, Far
  <2> QED BY <2>1, <2>2 DEF ALast
<1> QED BY <1>1, <1>2, <1>3, <1>4 DEF ALast

LEMMA CloseAStep ==
  ASSUME Given, Groups, CloseA
  PROVE  Groups'
<1>1. /\ field' = field /\ groups' = groups /\ a' = a /\ b' = b
      /\ pc = "L170" /\ pc' = "L200"
  BY DEF CloseA
<1>2. Closed'
  BY <1>1, SameClosed DEF Groups
<1>3. ALast'
  BY <1>1, CloseNow, SameLast
<1> QED BY <1>1, <1>2, <1>3 DEF Groups

LEMMA KeepAStep ==
  ASSUME Given, Groups, KeepA
  PROVE  Groups'
<1>1. /\ field' = field /\ groups' = groups /\ a' = a /\ b' = b
      /\ pc = "L170" /\ pc' = "L200"
  BY DEF KeepA
<1>2. Closed'
  BY <1>1, SameClosed DEF Groups
<1>3. ALast'
  BY <1>1, CloseNow, SameLast
<1> QED BY <1>1, <1>2, <1>3 DEF Groups

LEMMA HoldsSame ==
  ASSUME field' = field, NEW g, Holds(g), NEW c,
         c.from = g.from, c.to = g.to, c.bits = g.bits,
         c.miss = g.miss, c.min = g.min, c.max = g.max
  PROVE  Holds(c)'
BY DEF Holds, ValuesAt, Missing, lmiss

LEMMA CloseStep ==
  ASSUME Given, Groups, Close
  PROVE  Groups'
<1>1. Ready /\ sizes.lminpk = field.minpk /\ field.ndg = nxy \div field.minpk + 1
  BY GivenIs DEF Given, Arguments
<1>2. nxy \in Nat /\ field.minpk \in Nat \ {0}
  BY <1>1 DEF Ready
<1>3. field' = field /\ pc = "L200" /\ ALast /\ Closed
  BY DEF Close, Groups
<1>4. GroupOK(a) /\ Follows(a) /\ Room(Len(groups))
  BY <1>3 DEF ALast
<1>5. a \in GroupType /\ a.from \in Int /\ a.to \in Int /\ a.to <= nxy
  BY <1>4 DEF GroupOK, GroupType
<1>6. PICK c : c = Kept
  OBVIOUS
<1>7. /\ c \in ClosedGroup /\ c.from = a.from /\ c.to = a.to /\ c.bits = a.bits
      /\ c.miss = a.miss /\ c.min = a.min /\ c.max = a.max
  BY <1>5, <1>6 DEF Kept, GroupType, ClosedGroup
<1>8. groups \in Seq(ClosedGroup) /\ groups' = Append(groups, c)
  BY <1>3, <1>6 DEF Closed, Close
<1>9. PICK n \in Nat : n = Len(groups)
  BY <1>8
<1>10. /\ groups' \in Seq(ClosedGroup) /\ Len(groups') = n + 1 /\ groups' # <<>>
       /\ DOMAIN groups = 1..n /\ DOMAIN groups' = 1..(n + 1)
       /\ groups'[n + 1] = c /\ \A i \in 1..n : groups'[i] = groups[i]
  BY <1>7, <1>8, <1>9
<1>11. Last(groups') = c
  BY <1>10 DEF Last
<1>12. Closed'
  <2>1. ChainFrom(groups', 1)
    <3> SUFFICES ASSUME NEW i \in DOMAIN groups'
                 PROVE  groups'[i].from = IF i = 1 THEN 1 ELSE groups'[i - 1].to + 1
      BY DEF ChainFrom
    <3>1. CASE i \in 1..n
      <4>1. i # 1 => i - 1 \in 1..n
        BY <3>1
      <4>2. groups[i].from = IF i = 1 THEN 1 ELSE groups[i - 1].to + 1
        BY <1>3, <1>10, <3>1 DEF Closed, ChainFrom
      <4> QED BY <1>10, <3>1, <4>1, <4>2
    <3>2. CASE i = n + 1
      <4>1. CASE n = 0
        <5>1. groups = <<>>
          <6>1. Len(groups) = 0
            BY <1>9, <4>1
          <6> QED BY <1>8, <6>1
        <5> QED BY <1>4, <1>7, <1>10, <3>2, <4>1, <5>1 DEF Follows
      <4>2. CASE n # 0
        <5>1. groups # <<>> /\ Last(groups) = groups[n] /\ n \in 1..n /\ i # 1 /\ i - 1 = n
          BY <1>9, <3>2, <4>2 DEF Last
        <5>2. groups'[i - 1] = Last(groups) /\ groups'[i] = c
          BY <1>10, <3>2, <5>1
        <5> QED BY <1>4, <1>7, <5>1, <5>2 DEF Follows
      <4> QED BY <4>1, <4>2
    <3> QED BY <1>10, <3>1, <3>2
  <2>2. n + 1 <= field.ndg
    <3>1. n * field.minpk <= nxy
      BY <1>4, <1>9 DEF Room
    <3>2. n <= nxy \div field.minpk
      BY <1>2, <3>1, LessRoom
    <3>3. nxy \div field.minpk \in Nat
      BY <1>2
    <3> QED BY <1>1, <3>2, <3>3
  <2>3. \A i \in DOMAIN groups' : Holds(groups[i])'
    <3> SUFFICES ASSUME NEW i \in DOMAIN groups' PROVE Holds(groups[i])'
      OBVIOUS
    <3>1. PICK g : g = groups'[i]
      OBVIOUS
    <3>2. Holds(g)'
      <4>1. CASE i \in 1..n
        <5>1. Holds(groups[i]) /\ g = groups[i]
          BY <1>3, <1>10, <3>1, <4>1 DEF Closed
        <5>2. Holds(g)
          BY <5>1
        <5> QED BY <1>3, <5>2, HoldsSame
      <4>2. CASE i = n + 1
        <5>1. Holds(a) /\ g = c
          BY <1>1, <1>4, <1>10, <3>1, <4>2, GroupHolds
        <5>2. PICK h : h = a
          OBVIOUS
        <5> QED BY <1>3, <1>7, <5>1, <5>2, HoldsSame
      <4> QED BY <1>10, <4>1, <4>2
    <3> QED BY <3>1, <3>2 DEF Holds, ValuesAt, Missing, lmiss
  <2>4. Len(groups') <= field'.ndg
    BY <1>3, <1>10, <2>2
  <2> QED BY <1>10, <2>1, <2>3, <2>4 DEF Closed, ChainFrom
<1>13. nxy' = nxy /\ field.minpk' = field.minpk
  BY <1>3 DEF nxy
<1>14. CASE a.to >= nxy
  <2>1. pc' = "L209" /\ (Last(groups).to = nxy)'
    BY <1>2, <1>5, <1>7, <1>11, <1>13, <1>14 DEF Close
  <2> QED BY <1>12, <2>1 DEF Groups
<1>15. CASE ~(a.to >= nxy)
  <2>1. pc' = "L133" /\ a' = b /\ adda' = FALSE
    BY <1>15 DEF Close
  <2>2. /\ GroupOK(b) /\ b.from = a.to + 1
        /\ Tight(b) \/ Cut(b)
        /\ Room(Len(groups) + 1) /\ Far(b, Len(groups) + 2)
    BY <1>2, <1>3, <1>5, <1>15 DEF ALast
  <2>3. PICK g : g = b
    OBVIOUS
  <2>4. GroupOK(a)' /\ (Tight(a) \/ Cut(a))'
    BY <1>3, <2>1, <2>2, <2>3, SameA
  <2>5. Follows(a)'
    BY <1>7, <1>10, <1>11, <2>1, <2>2 DEF Follows
  <2>6. Len(groups)' = n + 1 /\ n + 1 + 1 = n + 2
    BY <1>9, <1>10
  <2>7. Room(Len(groups))' /\ Far(a, Len(groups) + 1)'
    BY <1>9, <1>13, <2>1, <2>2, <2>6 DEF Room, Far
  <2>8. AHolds'
    BY <2>1, <2>4, <2>5, <2>7 DEF AHolds
  <2> QED BY <1>12, <2>1, <2>8 DEF Groups
<1> QED BY <1>14, <1>15

(* Points given back.                                                      *)

LEMMA WithSame ==
  ASSUME NEW e, NEW S, NEW T, NEW ties, NEW last, Valued(S) = Valued(T)
  PROVE  With(e, S, ties, last) = With(e, T, ties, last)
<1>1. {k \in S : ~Missing(k)} = {k \in T : ~Missing(k)}
  BY DEF Valued
<1>2. PICK seen : seen = {k \in S : ~Missing(k)} /\ seen = {k \in T : ~Missing(k)}
  BY <1>1
<1> QED BY <1>2 DEF With

AB == /\ GroupOK(a) /\ GroupOK(b) /\ b.from = a.to + 1

LEMMA TakenIs ==
  ASSUME Ready, AB, NEW k \in Int, a.from <= k
  PROVE  Widened(Taken(k), b, k..a.to) /\ k..a.to \in SUBSET (1..nxy)
<1>1. /\ a.from \in Int /\ a.to \in Int /\ 1 <= a.from /\ a.to <= nxy
      /\ b.min \in Int /\ b.max \in Int
  BY DEF AB, GroupOK, GroupType
<1>2. k..a.to \in SUBSET (1..nxy)
  BY <1>1 DEF Ready
<1>3. KnownOf(b).min \in Int /\ KnownOf(b).max \in Int /\ FALSE \in BOOLEAN /\ TRUE \in BOOLEAN
  BY <1>1 DEF KnownOf
<1>4. PICK e : e = KnownOf(b)
  OBVIOUS
<1>5. Widened(With(e, k..a.to, FALSE, TRUE), e, k..a.to)
  BY ONLY Ready, <1>2, <1>3, <1>4, WithIs
<1>6. Taken(k) = With(e, k..a.to, FALSE, TRUE)
  BY <1>4 DEF Taken, KnownOf
<1>7. e.min = b.min /\ e.max = b.max /\ e.minat = b.minat /\ e.maxat = b.maxat
  BY <1>4 DEF KnownOf
<1> QED BY <1>2, <1>5, <1>6, <1>7 DEF Widened

LEMMA StaysIs ==
  ASSUME Ready, AB, Tight(a), b.bits < a.bits
  PROVE  /\ Stays \in Int /\ a.from <= Stays /\ Stays <= a.to
         /\ \A k \in Valued((Stays + 1)..a.to) : FitsB(Taken(k))
<1> DEFINE T == {k \in a.from..a.to : ~Missing(k) /\ ~FitsB(Taken(k))}
           R == {a.from - 1} \cup T
<1>1. /\ a.from \in Int /\ a.to \in Int /\ 1 <= a.from /\ a.from <= a.to /\ a.to <= nxy
      /\ b.bits \in 0..30 /\ MissBits <= b.bits
  BY DEF AB, GroupOK, GroupType
<1>2. T \subseteq a.from..a.to
  OBVIOUS
<1>3. Stays = Max(R)
  BY DEF Stays
<1>4. PICK p, q \in Valued(a.from..a.to) : 2^b.bits <= field.ic[p] - field.ic[q] + lmiss
  BY <1>1 DEF Tight
<1>5. /\ p \in a.from..a.to /\ ~Missing(p) /\ field.ic[p] \in Int
      /\ q \in a.from..a.to /\ ~Missing(q) /\ field.ic[q] \in Int
  <2>1. a.from..a.to \in SUBSET (1..nxy)
    BY <1>1 DEF Ready
  <2>2. field.ic[p] \in Int /\ field.ic[q] \in Int
    BY <2>1, ValuesAllowed DEF Allowed
  <2> QED BY <2>2 DEF Valued
<1>6. PICK k \in {p, q} : k <= p /\ k <= q
  BY <1>1, <1>5
<1>7. k \in T
  <2>1. k \in a.from..a.to /\ ~Missing(k) /\ k \in Int /\ a.from <= k
    BY <1>1, <1>5, <1>6
  <2>2. Widened(Taken(k), b, k..a.to)
    BY <2>1, TakenIs
  <2>3. p \in Valued(k..a.to) /\ q \in Valued(k..a.to)
    BY <1>1, <1>5, <1>6, <2>1 DEF Valued
  <2>4. PICK e : e = Taken(k)
    OBVIOUS
  <2>5. /\ e.min \in Int /\ e.max \in Int
        /\ e.min <= field.ic[q] /\ field.ic[p] <= e.max
    BY <2>2, <2>3, <2>4 DEF Widened
  <2>6. PICK w \in Int : w = 2^b.bits
    BY <1>1, Powers
  <2>7. PICK l \in Int : l = lmiss
    BY LmissIs
  <2>8. ~(e.max - e.min < w - l)
    BY <1>4, <1>5, <2>5, <2>6, <2>7
  <2>9. ~FitsB(Taken(k))
    BY <2>4, <2>6, <2>7, <2>8 DEF FitsB
  <2> QED BY <2>1, <2>9
<1> HIDE DEF T
<1>8. R \in SUBSET Nat /\ R # {} /\ a.to \in Nat /\ \A i \in R : i <= a.to
  <2>1. a.from - 1 \in Nat /\ a.from - 1 <= a.to /\ a.to \in Nat
    BY <1>1
  <2>2. \A i \in T : i \in Nat /\ i <= a.to
    BY <1>1, <1>2
  <2>3. \A i \in R : i \in Nat /\ i <= a.to
    BY <2>1, <2>2
  <2>4. R # {}
    OBVIOUS
  <2> HIDE DEF R
  <2> QED BY <2>1, <2>3, <2>4
<1>9. PICK m \in R : \A i \in R : i <= m
  <2> HIDE DEF R
  <2> QED BY <1>8, GreatestNatural
<1>10. R \subseteq Int
  BY <1>8
<1>11. Max(R) \in R /\ \A i \in R : i <= Max(R)
  <2> HIDE DEF R
  <2> QED BY <1>9, <1>10, MaxIs
<1>12. PICK s \in Int : s = Stays
  BY <1>3, <1>8, <1>11
<1>13. s <= a.to /\ k <= s
  BY <1>3, <1>7, <1>8, <1>11, <1>12
<1>14. a.from <= s
  BY <1>1, <1>5, <1>6, <1>13
<1>15. \A i \in Valued((s + 1)..a.to) : FitsB(Taken(i))
  <2> SUFFICES ASSUME NEW i \in Valued((s + 1)..a.to), ~FitsB(Taken(i)) PROVE FALSE
    OBVIOUS
  <2>1. i \in (s + 1)..a.to /\ ~Missing(i)
    BY DEF Valued
  <2>2. i \in T
    BY <1>1, <1>14, <2>1 DEF T
  <2>3. i <= s
    BY <1>3, <1>11, <1>12, <2>2
  <2> QED BY <1>1, <2>1, <2>3
<1> QED BY <1>12, <1>13, <1>14, <1>15

\* B with the points that are given back to it, and A without them.
GivenTo(g) ==
  LET to == Stays
      e == Taken(to + 1)
  IN /\ g.from = to + 1 /\ g.to = b.to /\ g.bits = b.bits
     /\ g.min = e.min /\ g.max = e.max /\ g.minat = e.minat /\ g.maxat = e.maxat
     /\ g.miss = (b.miss /\ ~\E k \in (to + 1)..a.to : ~Missing(k))

LEMMA GivenToHolds ==
  ASSUME Ready, AB, Whole(b), Tight(a), b.bits < a.bits, NEW g \in GroupType, GivenTo(g)
  PROVE  GroupOK(g) /\ Tight(g)
<1>1. PICK to \in Int : to = Stays
  BY StaysIs
<1>2. /\ a.from <= to /\ to <= a.to
      /\ \A k \in Valued((to + 1)..a.to) : FitsB(Taken(k))
  BY <1>1, StaysIs
<1>3. /\ a.from \in Int /\ a.to \in Int /\ 1 <= a.from /\ a.from <= a.to /\ a.to <= nxy
      /\ b.to \in Int /\ a.to < b.to /\ b.to <= nxy /\ b.from = a.to + 1
      /\ b.min \in Int /\ b.max \in Int /\ Allowed(b.min) /\ Allowed(b.max)
      /\ b.bits \in 0..30 /\ MissBits <= b.bits /\ b.miss \in BOOLEAN
  BY DEF AB, GroupOK, GroupType
<1>4. PICK e : e = Taken(to + 1)
  OBVIOUS
<1> DEFINE S == (to + 1)..a.to
<1>5. to + 1 \in Int /\ a.from <= to + 1
  BY <1>2, <1>3
<1>6. Widened(e, b, S) /\ S \in SUBSET (1..nxy)
  BY <1>4, <1>5, TakenIs
<1>7. /\ g.from = to + 1 /\ g.to = b.to /\ g.bits = b.bits
      /\ g.min = e.min /\ g.max = e.max
      /\ g.miss = (b.miss /\ ~\E k \in S : ~Missing(k))
  BY <1>1, <1>4 DEF GivenTo
<1>8. \A k \in Valued(S) : k \in 1..nxy /\ field.ic[k] \in Int /\ Allowed(field.ic[k])
  BY <1>6, ValuesAllowed DEF Allowed
<1>9. /\ e.min \in Int /\ e.max \in Int /\ e.min <= b.min /\ b.max <= e.max
      /\ Allowed(e.min) /\ Allowed(e.max)
      /\ \A k \in Valued(S) : e.min <= field.ic[k] /\ field.ic[k] <= e.max
  BY <1>3, <1>6, <1>8 DEF Widened
<1>10. ASSUME NEW k \in Valued(g.from..g.to)
       PROVE  k \in Valued(S) \/ k \in Valued(b.from..b.to)
  BY <1>2, <1>3, <1>7 DEF Valued
<1>11. \A k \in Valued(b.from..b.to) :
         k \in Valued(g.from..g.to) /\ b.min <= field.ic[k] /\ field.ic[k] <= b.max
               /\ field.ic[k] \in Int
  <2> SUFFICES ASSUME NEW k \in Valued(b.from..b.to)
               PROVE  k \in Valued(g.from..g.to) /\ b.min <= field.ic[k] /\ field.ic[k] <= b.max
                      /\ field.ic[k] \in Int
    OBVIOUS
  <2>1. k \in Valued(g.from..g.to)
    BY <1>2, <1>3, <1>7 DEF Valued
  <2>2. b.min <= field.ic[k] /\ field.ic[k] <= b.max
    BY DEF AB, GroupOK
  <2>3. field.ic[k] \in Int
    BY PlacesOf DEF AB
  <2> QED BY <2>1, <2>2, <2>3
<1>12. \A k \in Valued(g.from..g.to) : g.min <= field.ic[k] /\ field.ic[k] <= g.max
  BY <1>3, <1>7, <1>9, <1>10, <1>11
<1>13. g.miss => Valued(g.from..g.to) = {}
  <2> SUFFICES ASSUME g.miss PROVE Valued(g.from..g.to) = {}
    OBVIOUS
  <2>1. Valued(S) = {}
    BY <1>7 DEF Valued
  <2>2. Valued(b.from..b.to) = {}
    BY <1>7 DEF AB, GroupOK
  <2> QED BY <1>10, <2>1, <2>2
<1>14. Valued(g.from..g.to) # {} => g.max - g.min + lmiss < 2^g.bits
  <2> SUFFICES ASSUME Valued(g.from..g.to) # {} PROVE g.max - g.min + lmiss < 2^g.bits
    OBVIOUS
  <2>1. PICK w \in Int : w = 2^b.bits
    BY <1>3, Powers
  <2>2. PICK l \in Int : l = lmiss
    BY LmissIs
  <2>3. CASE Valued(S) = {}
    <3>1. Valued(b.from..b.to) # {}
      BY <1>10, <2>3
    <3>2. b.max - b.min + l < w
      BY <2>1, <2>2, <3>1 DEF AB, GroupOK
    <3>3. e.min = b.min /\ e.max = b.max
      <4>1. PICK f, Z, no, yes :
              f = KnownOf(b) /\ Z = S /\ no = FALSE /\ yes = TRUE
        OBVIOUS
      <4>2. e = With(f, Z, no, yes)
        BY <1>4, <4>1 DEF Taken, KnownOf
      <4>3. Valued(Z) = {}
        BY <2>3, <4>1
      <4>4. e.min = f.min /\ e.max = f.max
        BY ONLY <4>2, <4>3, WithNothingSeen
      <4> QED BY <4>1, <4>4 DEF KnownOf
    <3> QED BY <1>7, <2>1, <2>2, <3>2, <3>3
  <2>4. CASE Valued(S) # {}
    <3>1. nxy \in Nat /\ Valued(S) \in SUBSET (1..nxy)
      BY <1>8 DEF Ready
    <3>2. PICK k \in Valued(S) : \A j \in Valued(S) : k <= j
      <4>1. Min(Valued(S)) \in Valued(S) /\ \A j \in Valued(S) : Min(Valued(S)) <= j
        BY <2>4, <3>1, Places
      <4> QED BY <4>1
    <3>3. k \in S
      BY DEF Valued
    <3>4. Valued(k..a.to) = Valued(S)
      <4>1. \A j \in Valued(k..a.to) : j \in Valued(S)
        BY <1>3, <3>3 DEF Valued
      <4>2. \A j \in Valued(S) : j \in Valued(k..a.to)
        <5> SUFFICES ASSUME NEW j \in Valued(S) PROVE j \in Valued(k..a.to)
          OBVIOUS
        <5>1. j \in S /\ ~Missing(j) /\ k <= j
          BY <3>2 DEF Valued
        <5> QED BY <1>3, <3>3, <5>1 DEF Valued
      <4> QED BY <4>1, <4>2
    <3>5. Taken(k) = e
      <4>1. PICK f, Z, T, no, yes :
              f = KnownOf(b) /\ Z = S /\ T = k..a.to /\ no = FALSE /\ yes = TRUE
        OBVIOUS
      <4>2. e = With(f, Z, no, yes) /\ Taken(k) = With(f, T, no, yes)
        BY <1>4, <4>1 DEF Taken, KnownOf
      <4>3. Valued(T) = Valued(Z)
        BY <3>4, <4>1
      <4> QED BY ONLY <4>2, <4>3, WithSame
    <3>6. FitsB(e)
      BY <1>2, <3>2, <3>5
    <3>7. e.max - e.min < w - l
      BY <2>1, <2>2, <3>6 DEF FitsB
    <3>8. e.max - e.min + l < w
      BY <1>9, <3>7
    <3> QED BY <1>7, <2>1, <2>2, <3>8
  <2> QED BY <2>3, <2>4
<1>15. GroupOK(g)
  <2>1. 1 <= g.from /\ g.from <= g.to /\ g.to <= nxy
    BY <1>2, <1>3, <1>7
  <2>2. g.bits \in 0..30 /\ MissBits <= g.bits /\ Allowed(g.min) /\ Allowed(g.max)
    BY <1>3, <1>7, <1>9
  <2> QED BY <1>12, <1>13, <1>14, <2>1, <2>2 DEF GroupOK
<1>16. Tight(b)
  BY WholeIsTight DEF AB
<1>17. \A k \in Valued(b.from..b.to) : k \in Valued(g.from..g.to)
  BY <1>11
<1>18. Tight(g)
  BY <1>7, <1>16, <1>17, TightOfMore
<1> QED BY <1>15, <1>18

LEMMA GiverHolds ==
  ASSUME Ready, GroupOK(a), NEW to \in Int, a.from <= to, to <= a.to
  PROVE  /\ GroupOK([a EXCEPT !.to = to]) /\ [a EXCEPT !.to = to].from = a.from
         /\ [a EXCEPT !.to = to].to = to
         /\ LET rest == With(Nothing, a.from..to, FALSE, FALSE)
                g == [Group(rest, a.from, to) EXCEPT !.minat = a.minat, !.maxat = a.maxat]
            IN  GroupOK(g) /\ g.from = a.from /\ g.to = to
<1>1. /\ a \in GroupType /\ a.from \in Int /\ a.to \in Int /\ 1 <= a.from /\ a.to <= nxy
      /\ a.min \in Int /\ a.max \in Int /\ a.minat \in Int /\ a.maxat \in Int
      /\ a.bits \in 0..30 /\ MissBits <= a.bits
  BY DEF GroupOK, GroupType
<1>2. \A k \in Valued(a.from..to) : k \in Valued(a.from..a.to)
  BY <1>1 DEF Valued
<1>3. PICK h : h = [a EXCEPT !.to = to]
  OBVIOUS
<1>4. /\ h \in GroupType /\ h.from = a.from /\ h.to = to /\ h.bits = a.bits /\ h.miss = a.miss
      /\ h.min = a.min /\ h.max = a.max
  BY <1>1, <1>3 DEF GroupType
<1>5. GroupOK(h)
  <2>1. h.miss => Valued(h.from..h.to) = {}
    BY <1>2, <1>4 DEF GroupOK
  <2>2. \A k \in Valued(h.from..h.to) : h.min <= field.ic[k] /\ field.ic[k] <= h.max
    BY <1>2, <1>4 DEF GroupOK
  <2>3. Valued(h.from..h.to) # {} => h.max - h.min + lmiss < 2^h.bits
    BY <1>2, <1>4 DEF GroupOK
  <2>4. Allowed(h.min) /\ Allowed(h.max)
    BY <1>4 DEF GroupOK
  <2>5. 1 <= h.from /\ h.from <= h.to /\ h.to <= nxy /\ h.bits \in 0..30 /\ MissBits <= h.bits
    <3>1. nxy \in Int
      BY DEF Ready
    <3> QED BY <1>1, <1>4, <3>1
  <2> QED BY <1>4, <2>1, <2>2, <2>3, <2>4, <2>5 DEF GroupOK
<1> DEFINE rest == With(Nothing, a.from..to, FALSE, FALSE)
           f == Group(rest, a.from, to)
           g == [f EXCEPT !.minat = a.minat, !.maxat = a.maxat]
<1>6. nxy \in Int /\ to <= nxy
  BY <1>1 DEF Ready
<1>7. ~TooWide(rest)
  <2>1. a.from..to \in SUBSET (1..nxy)
    BY <1>1, <1>6
  <2>2. PICK r : r = rest
    OBVIOUS
  <2>3. /\ Valued(a.from..to) = {} => r.min = Mallow
        /\ Valued(a.from..to) # {} =>
             /\ r.minat \in Valued(a.from..to) /\ field.ic[r.minat] = r.min
             /\ r.maxat \in Valued(a.from..to) /\ field.ic[r.maxat] = r.max
             /\ Allowed(r.min) /\ Allowed(r.max)
    BY <2>1, <2>2, WithNothing
  <2>4. CASE Valued(a.from..to) = {}
    BY <2>2, <2>3, <2>4 DEF TooWide
  <2>5. CASE Valued(a.from..to) # {}
    <3>1. a.min <= r.min /\ r.max <= a.max /\ a.max - a.min + lmiss < 2^a.bits
      BY <1>2, <2>3, <2>5 DEF GroupOK
    <3>2. PICK l \in Int : l = lmiss
      BY LmissIs
    <3>3. PICK v \in 0..30 : v = a.bits
      BY <1>1
    <3>4. PICK n \in Int : n = a.max - a.min + l
      BY <1>1
    <3>5. n < 2^v
      BY <3>1, <3>2, <3>3, <3>4
    <3>6. n < 2^30
      BY ONLY <3>5, BitsLeast
    <3>7. r.min \in Int /\ r.max \in Int
      BY <2>3, <2>5 DEF Allowed
    <3>8. r.max - r.min + l \in Int /\ r.max - r.min + l <= n
      BY <1>1, <3>1, <3>4, <3>7
    <3>9. ~(r.max - r.min + l >= 2^30)
      BY <3>6, <3>8, Powers
    <3> QED BY <2>2, <3>2, <3>9 DEF TooWide
  <2> QED BY <2>4, <2>5
<1>8. GroupOK(f) /\ f.from = a.from /\ f.to = to
  <2>1. FALSE \in BOOLEAN
    OBVIOUS
  <2>2. Bounding(rest, a.from, to)
    BY <1>1, <1>6, <2>1, NothingBounds
  <2>3. PICK r : r = rest
    OBVIOUS
  <2> HIDE DEF rest
  <2> QED BY <1>1, <1>6, <1>7, <2>2, <2>3, NewGroup
<1> HIDE DEF f
<1>9. PICK m : m = [f EXCEPT !.minat = a.minat]
  OBVIOUS
<1>10. f \in GroupType
  BY <1>8 DEF GroupOK
<1>11. /\ m \in GroupType /\ m.from = f.from /\ m.to = f.to /\ m.bits = f.bits
       /\ m.miss = f.miss /\ m.min = f.min /\ m.max = f.max
  BY ONLY <1>1, <1>9, <1>10 DEF GroupType
<1>12. PICK o : o = [m EXCEPT !.maxat = a.maxat]
  OBVIOUS
<1>13. /\ o \in GroupType /\ o.from = f.from /\ o.to = f.to /\ o.bits = f.bits
       /\ o.miss = f.miss /\ o.min = f.min /\ o.max = f.max
  BY ONLY <1>1, <1>11, <1>12 DEF GroupType
<1>14. o = g
  BY <1>9, <1>12
<1>15. GroupOK(o)
  BY <1>8, <1>13 DEF GroupOK
<1> QED BY <1>3, <1>4, <1>5, <1>8, <1>13, <1>14, <1>15 DEF f

LEMMA GiveBackStep ==
  ASSUME Given, Groups, GiveBack
  PROVE  Groups'
<1>1. /\ field' = field /\ groups' = groups /\ pc = "L170" /\ pc' = "L200"
      /\ b.bits < a.bits /\ ~adda
  BY DEF GiveBack
<1>2. /\ Ready /\ ABHold /\ a.to \in Nat /\ a.from \in Nat /\ nxy \in Nat
      /\ GroupOK(a) /\ GroupOK(b) /\ b.from = a.to + 1 /\ a.to < nxy
  BY <1>1, ABIs
<1>3. Whole(b) /\ Tight(a) /\ Follows(a)
  BY <1>1, <1>2 DEF ABHold
<1>4. /\ Room(Len(groups)) /\ Room(Len(groups) + 1) /\ Far(b, Len(groups) + 2)
  BY <1>1, <1>2, CloseNow DEF ALast
<1>5. AB
  BY <1>2 DEF AB
<1>6. PICK to \in Int : to = Stays
  BY <1>1, <1>2, <1>3, <1>5, StaysIs
<1>7. a.from <= to /\ to <= a.to
  BY <1>1, <1>2, <1>3, <1>5, <1>6, StaysIs
<1>8. PICK g : g = a'
  OBVIOUS
<1>9. GroupOK(g) /\ g.from = a.from /\ g.to = to
  <2> DEFINE r == [Group(With(Nothing, a.from..to, FALSE, FALSE), a.from, to)
                     EXCEPT !.minat = a.minat, !.maxat = a.maxat]
             s == [a EXCEPT !.to = to]
  <2>1. GroupOK(s) /\ s.from = a.from /\ s.to = to
    BY <1>2, <1>7, GiverHolds
  <2>2. GroupOK(r) /\ r.from = a.from /\ r.to = to
    BY <1>2, <1>7, GiverHolds
  <2>3. g = s \/ g = r
    BY <1>6, <1>8 DEF GiveBack
  <2> HIDE DEF r, s
  <2> QED BY <2>1, <2>2, <2>3
<1>10. PICK e : e = Taken(to + 1)
  OBVIOUS
<1>11. PICK miss \in BOOLEAN : miss = (b.miss /\ ~\E k \in (to + 1)..a.to : ~Missing(k))
  BY <1>2 DEF GroupOK, GroupType
<1>12. b' = [b EXCEPT !.from = to + 1, !.min = e.min, !.max = e.max, !.minat = e.minat,
                      !.maxat = e.maxat, !.miss = miss]
  BY <1>6, <1>10, <1>11 DEF GiveBack
<1>13. PICK h : h = b'
  OBVIOUS
<1>14. e.min \in Int /\ e.max \in Int /\ e.minat \in Int /\ e.maxat \in Int
  <2>1. to + 1 \in Int /\ a.from <= to + 1
    BY <1>2, <1>7
  <2>2. Widened(e, b, (to + 1)..a.to) /\ (to + 1)..a.to \in SUBSET (1..nxy)
    BY <1>2, <1>5, <1>10, <2>1, TakenIs
  <2>3. \A k \in Valued((to + 1)..a.to) : k \in Int
    BY <2>2 DEF Valued
  <2>4. b.minat \in Int /\ b.maxat \in Int
    BY <1>2 DEF GroupOK, GroupType
  <2> QED BY <2>2, <2>3, <2>4 DEF Widened
<1>15. b \in GroupType
  BY <1>2 DEF GroupOK
<1>16. /\ h \in GroupType /\ h.from = to + 1 /\ h.to = b.to /\ h.bits = b.bits
       /\ h.min = e.min /\ h.max = e.max /\ h.minat = e.minat /\ h.maxat = e.maxat
       /\ h.miss = miss
  <2>1. h = [from |-> to + 1, to |-> b.to, bits |-> b.bits, miss |-> miss,
             min |-> e.min, max |-> e.max, minat |-> e.minat, maxat |-> e.maxat]
    BY ONLY <1>12, <1>13, <1>15 DEF GroupType
  <2>2. to + 1 \in Int
    OBVIOUS
  <2> QED BY ONLY <1>14, <1>15, <2>1, <2>2, miss \in BOOLEAN DEF GroupType
<1>17. GivenTo(h)
  BY <1>6, <1>10, <1>11, <1>16 DEF GivenTo
<1>18. GroupOK(h) /\ Tight(h)
  BY <1>1, <1>2, <1>3, <1>5, <1>16, <1>17, GivenToHolds
<1>19. GroupOK(a)' /\ GroupOK(b)' /\ Tight(b)'
  BY <1>1, <1>8, <1>9, <1>13, <1>18, SameA, SameB
<1>20. nxy' = nxy /\ field.minpk' = field.minpk
  BY <1>1 DEF nxy
<1>21. Follows(a)' /\ (b.from = a.to + 1)'
  <2>1. Follows(a)'
    BY <1>1, <1>3, <1>8, <1>9 DEF Follows
  <2> QED BY <1>8, <1>9, <1>13, <1>16, <2>1
<1>22. Room(Len(groups))' /\ Room(Len(groups) + 1)' /\ Far(b, Len(groups) + 2)'
  BY <1>1, <1>4, <1>13, <1>16, <1>20 DEF Room, Far
<1>23. ALast'
  BY <1>19, <1>21, <1>22 DEF ALast
<1>24. Closed'
  BY <1>1, SameClosed DEF Groups
<1> QED BY <1>1, <1>23, <1>24 DEF Groups

(* Points added to A.                                                      *)

LEMMA TakenEndIs ==
  ASSUME Given, GroupOK(a), a.to < nxy
  PROVE  /\ TakenEnd \in Int /\ a.to < TakenEnd /\ TakenEnd <= nxy
         /\ MoreKinc \in Nat \ {0}
<1>1. /\ nxy \in Nat /\ field.minpk \in Nat \ {0}
      /\ sizes.kinc \in Nat \ {0} /\ sizes.lminpk = field.minpk
  BY GivenIs DEF Given, Arguments
<1>2. a.to \in Int
  BY DEF GroupOK, GroupType
<1>3. MoreKinc \in Nat \ {0}
  BY <1>1, <1>2 DEF MoreKinc
<1>4. PICK m \in Nat \ {0} : m = MoreKinc
  BY <1>3
<1>5. Min({a.to + m, nxy}) = IF a.to + m <= nxy THEN a.to + m ELSE nxy
  BY <1>1, <1>2, MinOfTwo
<1>6. TakenEnd = Min({a.to + m, nxy})
  BY <1>4 DEF TakenEnd
<1> QED BY <1>1, <1>2, <1>3, <1>5, <1>6

LEMMA ExtendedHolds ==
  ASSUME Given, GroupOK(a), a.to < nxy, FitsA
  PROVE  GroupOK(Extended) /\ Extended.from = a.from /\ Extended.to = TakenEnd
<1>1. Ready
  BY GivenIs
<1>2. PICK to \in Int : to = TakenEnd
  BY TakenEndIs
<1>3. a.to < to /\ to <= nxy /\ nxy \in Nat
  BY <1>1, <1>2, TakenEndIs DEF Ready
<1>4. /\ a \in GroupType /\ a.from \in Int /\ a.to \in Int /\ 1 <= a.from /\ a.from <= a.to
      /\ a.min \in Int /\ a.max \in Int /\ a.minat \in Int /\ a.maxat \in Int
      /\ Allowed(a.min) /\ Allowed(a.max) /\ a.miss \in BOOLEAN
      /\ a.bits \in 0..30 /\ MissBits <= a.bits
  BY DEF GroupOK, GroupType
<1> DEFINE S == (a.to + 1)..to
<1>5. S \in SUBSET (1..nxy)
  BY <1>3, <1>4
<1>6. PICK e : e = GroupC
  OBVIOUS
<1>7. \A k \in Valued(S) : k \in Int /\ field.ic[k] \in Int /\ Allowed(field.ic[k])
  <2>1. \A k \in Valued(S) : k \in 1..nxy /\ Allowed(field.ic[k])
    <3> HIDE DEF S
    <3> QED BY <1>1, <1>5, ValuesAllowed
  <2> QED BY <2>1 DEF Allowed
<1>8. \/ e.min = Mallow /\ Valued(S) = {} /\ a.miss
      \/ /\ e.min # Mallow /\ Allowed(e.min) /\ Allowed(e.max)
         /\ e.minat \in Int /\ e.maxat \in Int
         /\ \A k \in Valued(S) : e.min <= field.ic[k] /\ field.ic[k] <= e.max
         /\ ~a.miss => e.min <= a.min /\ a.max <= e.max
  <2>1. CASE a.miss
    <3>1. e = With(Nothing, S, FALSE, FALSE)
      BY <1>2, <1>6, <2>1 DEF GroupC
    <3>2. PICK no \in BOOLEAN : no = FALSE
      OBVIOUS
    <3>3. e = With(Nothing, S, no, no)
      BY <3>1, <3>2
    <3>4. /\ Valued(S) = {} => e.min = Mallow
          /\ Valued(S) # {} =>
               /\ e.minat \in Valued(S) /\ e.maxat \in Valued(S)
               /\ \A k \in Valued(S) : e.min <= field.ic[k] /\ field.ic[k] <= e.max
               /\ Allowed(e.min) /\ Allowed(e.max) /\ e.min # Mallow
      BY ONLY <1>1, <1>5, <3>3, WithNothing
    <3> QED BY <1>7, <2>1, <3>4
  <2>2. CASE ~a.miss
    <3>1. PICK f : f = [min |-> a.min, max |-> a.max, minat |-> a.minat, maxat |-> a.minat]
      OBVIOUS
    <3>2. PICK no \in BOOLEAN : no = FALSE
      OBVIOUS
    <3>3. e = With(f, S, no, no)
      BY <1>2, <1>6, <2>2, <3>1, <3>2 DEF GroupC
    <3>4. f.min = a.min /\ f.max = a.max /\ f.minat = a.minat /\ f.maxat = a.minat
      BY <3>1
    <3>5. f.min \in Int /\ f.max \in Int
      BY <1>4, <3>4
    <3>6. Widened(e, f, S)
      BY ONLY <1>1, <1>5, <3>3, <3>5, WithIs
    <3>7. /\ e.min \in Int /\ e.max \in Int /\ e.min <= a.min /\ a.max <= e.max
          /\ \A k \in Valued(S) : e.min <= field.ic[k] /\ field.ic[k] <= e.max
          /\ \/ e.min = a.min /\ e.minat = a.minat
             \/ e.minat \in Valued(S) /\ field.ic[e.minat] = e.min
          /\ \/ e.max = a.max /\ e.maxat = a.minat
             \/ e.maxat \in Valued(S) /\ field.ic[e.maxat] = e.max
      BY <3>4, <3>6 DEF Widened
    <3>8. Allowed(e.min) /\ Allowed(e.max) /\ e.minat \in Int /\ e.maxat \in Int
      BY <1>4, <1>7, <3>7
    <3>9. e.min # Mallow
      BY <1>4, <3>7, Powers DEF Allowed, Mallow
    <3> QED BY <2>2, <3>7, <3>8, <3>9
  <2> QED BY <2>1, <2>2
<1>9. \A k \in Valued(a.from..to) : k \in Valued(S) \/ k \in Valued(a.from..a.to)
  BY <1>3, <1>4 DEF Valued
<1>10. PICK g : g = Extended
  OBVIOUS
<1>11. CASE e.min = Mallow
  <2>1. Valued(S) = {} /\ a.miss
    BY <1>8, <1>11
  <2>2. g = [a EXCEPT !.to = to, !.miss = TRUE]
    BY <1>2, <1>6, <1>10, <1>11 DEF Extended
  <2>3. /\ g \in GroupType /\ g.from = a.from /\ g.to = to /\ g.bits = a.bits
        /\ g.min = a.min /\ g.max = a.max
    BY ONLY <1>2, <1>4, <2>2 DEF GroupType
  <2>4. Valued(g.from..g.to) = {}
    <3>1. Valued(a.from..a.to) = {}
      BY <2>1 DEF GroupOK
    <3> QED BY <1>9, <2>1, <2>3, <3>1
  <2>5. 1 <= g.from /\ g.from <= g.to /\ g.to <= nxy
    BY <1>3, <1>4, <2>3
  <2>6. GroupOK(g)
    BY <1>4, <2>3, <2>4, <2>5 DEF GroupOK
  <2> QED BY <1>2, <1>10, <2>3, <2>6
<1>12. CASE e.min # Mallow
  <2>1. /\ Allowed(e.min) /\ Allowed(e.max) /\ e.minat \in Int /\ e.maxat \in Int
        /\ \A k \in Valued(S) : e.min <= field.ic[k] /\ field.ic[k] <= e.max
        /\ ~a.miss => e.min <= a.min /\ a.max <= e.max
    BY <1>8, <1>12
  <2>2. g = [a EXCEPT !.to = to, !.miss = FALSE, !.min = e.min, !.max = e.max,
                      !.minat = e.minat, !.maxat = e.maxat]
    BY <1>2, <1>6, <1>10, <1>12 DEF Extended
  <2>3. e.min \in Int /\ e.max \in Int
    BY <2>1 DEF Allowed
  <2>4. /\ g \in GroupType /\ g.from = a.from /\ g.to = to /\ g.bits = a.bits
        /\ g.min = e.min /\ g.max = e.max /\ g.miss = FALSE
    <3>1. g = [from |-> a.from, to |-> to, bits |-> a.bits, miss |-> FALSE,
               min |-> e.min, max |-> e.max, minat |-> e.minat, maxat |-> e.maxat]
      BY ONLY <1>4, <2>2 DEF GroupType
    <3> QED BY ONLY <1>2, <1>4, <2>1, <2>3, <3>1 DEF GroupType
  <2>5. \A k \in Valued(a.from..a.to) : e.min <= field.ic[k] /\ field.ic[k] <= e.max
    <3> SUFFICES ASSUME NEW k \in Valued(a.from..a.to)
                 PROVE  e.min <= field.ic[k] /\ field.ic[k] <= e.max
      OBVIOUS
    <3>1. ~a.miss /\ a.min <= field.ic[k] /\ field.ic[k] <= a.max
      BY DEF GroupOK
    <3>2. field.ic[k] \in Int
      BY <1>1, PlacesOf
    <3> QED BY <1>4, <2>1, <2>3, <3>1, <3>2
  <2>6. \A k \in Valued(g.from..g.to) : g.min <= field.ic[k] /\ field.ic[k] <= g.max
    BY <1>9, <2>1, <2>4, <2>5
  <2>7. g.max - g.min + lmiss < 2^g.bits
    <3>1. PICK w \in Int : w = 2^a.bits
      BY <1>4, Powers
    <3>2. PICK l \in Int : l = lmiss
      BY <1>1, LmissIs
    <3>3. e.max - e.min < w - l
      BY <1>6, <1>12, <3>1, <3>2 DEF FitsA
    <3>4. e.max - e.min + l < w
      BY <2>3, <3>3
    <3> QED BY <2>4, <3>1, <3>2, <3>4
  <2>8. 1 <= g.from /\ g.from <= g.to /\ g.to <= nxy
    BY <1>3, <1>4, <2>4
  <2>9. GroupOK(g)
    BY <1>4, <2>1, <2>4, <2>6, <2>7, <2>8 DEF GroupOK
  <2> QED BY <1>2, <1>10, <2>4, <2>9
<1> QED BY <1>11, <1>12

LEMMA ExtendAStep ==
  ASSUME Given, Groups, ExtendA
  PROVE  Groups'
<1>1. /\ field' = field /\ groups' = groups /\ pc = "L170" /\ FitsA
      /\ a' = Extended /\ adda' = TRUE
  BY DEF ExtendA
<1>2. /\ Ready /\ sizes.lminpk = field.minpk /\ ABHold /\ Len(groups) \in Nat
      /\ a.to \in Nat /\ a.from \in Nat /\ nxy \in Nat
      /\ GroupOK(a) /\ GroupOK(b) /\ b.from = a.to + 1 /\ a.to < nxy
  BY <1>1, ABIs
<1>3. /\ Follows(a) /\ Reach(b, a.to) /\ Room(Len(groups))
      /\ (Len(groups) + 1) * field.minpk <= a.to
      /\ Whole(b) \/ Cut(b)
  BY <1>2 DEF ABHold
<1>4. PICK to \in Int : to = TakenEnd
  BY <1>2, TakenEndIs
<1>5. a.to < to /\ to <= nxy /\ to \in Nat
  <2>1. a.to < to /\ to <= nxy
    BY <1>2, <1>4, TakenEndIs
  <2> QED BY <1>2, <2>1
<1>6. PICK g : g = a'
  OBVIOUS
<1>7. GroupOK(g) /\ g.from = a.from /\ g.to = to
  BY <1>1, <1>2, <1>4, <1>6, ExtendedHolds
<1>8. GroupOK(a)' /\ Follows(a)'
  <2>1. GroupOK(a)'
    BY <1>1, <1>6, <1>7, SameA
  <2> QED BY <1>1, <1>3, <1>6, <1>7, <2>1 DEF Follows
<1>9. nxy' = nxy /\ field.minpk' = field.minpk /\ Len(groups)' = Len(groups)
  BY <1>1 DEF nxy
<1>10. Room(Len(groups))'
  BY <1>3, <1>9 DEF Room
<1>11. Closed'
  BY <1>1, SameClosed DEF Groups
<1>12. CASE to >= nxy
  <2>1. pc' = "L200"
    BY <1>4, <1>12 DEF ExtendA
  <2>2. ~(a.to < nxy)'
    BY <1>2, <1>5, <1>6, <1>7, <1>9, <1>12
  <2>3. ALast'
    BY <1>8, <1>10, <2>2 DEF ALast
  <2> QED BY <1>11, <2>1, <2>3 DEF Groups
<1>13. CASE ~(to >= nxy)
  <2>0. to < nxy
    BY <1>2, <1>5, <1>13
  <2> DEFINE again == b.minat > to /\ b.maxat > to
             grown == IF again THEN LookAt(KnownOf(b), b.to + 1, 1, to) ELSE LookAhead(to)
  <2>1. Compared(grown, to)
    BY <1>4, <1>13 DEF ExtendA, KnownOf
  <2>2. CASE pc' = "failed"
    BY <1>11, <2>2 DEF Groups
  <2>3. CASE pc' # "failed"
    <3>1. ~TooWide(grown.e) /\ pc' = "L170" /\ b' = Group(grown.e, to + 1, grown.to)
      BY <2>1, <2>3 DEF Compared
    <3>2. PICK h : h = b'
      OBVIOUS
    <3>3. /\ GroupOK(h) /\ Reach(h, to) /\ h.from = to + 1
          /\ Whole(h) \/ Cut(h)
      <4>1. CASE again
        <5>1. /\ ~TooWide(LookAt(KnownOf(b), b.to + 1, 1, to).e)
              /\ h = Group(LookAt(KnownOf(b), b.to + 1, 1, to).e, to + 1,
                           LookAt(KnownOf(b), b.to + 1, 1, to).to)
          BY <3>1, <3>2, <4>1
        <5>2. PICK o : o = b
          OBVIOUS
        <5>3. o.from - 1 = a.to /\ o.from <= to
          BY <1>2, <1>5, <5>2
        <5>4. Reach(o, o.from - 1)
          BY <1>3, <5>2, <5>3
        <5>5. GroupOK(o) /\ o.minat > to /\ o.maxat > to
          BY <1>2, <4>1, <5>2
        <5>6. Whole(o) \/ Cut(o)
          BY <1>3, <5>2
        <5>7. /\ ~TooWide(LookAt(KnownOf(o), o.to + 1, 1, to).e)
              /\ h = Group(LookAt(KnownOf(o), o.to + 1, 1, to).e, to + 1,
                           LookAt(KnownOf(o), o.to + 1, 1, to).to)
          BY <5>1, <5>2
        <5>8. PICK l : l = LookAt(KnownOf(o), o.to + 1, 1, to)
          OBVIOUS
        <5>9. LET f == Group(l.e, to + 1, l.to)
               IN  /\ GroupOK(f)
                   /\ Whole(f) \/ Cut(f)
                   /\ Reach(f, to) /\ f.from = to + 1
          BY <1>2, <1>5, <2>0, <5>3, <5>4, <5>5, <5>6, <5>7, <5>8, LookedAgain
        <5> QED BY <5>7, <5>8, <5>9
      <4>2. CASE ~again
        <5>1. ~TooWide(LookAhead(to).e) /\ h = Group(LookAhead(to).e, to + 1, LookAhead(to).to)
          BY <3>1, <3>2, <4>2
        <5>2. PICK l : l = LookAhead(to)
          OBVIOUS
        <5>3. LET f == Group(l.e, to + 1, l.to)
              IN  GroupOK(f) /\ Whole(f) /\ Reach(f, to) /\ f.from = to + 1
          BY <1>2, <1>5, <2>0, <5>1, <5>2, LookedAhead
        <5> QED BY <5>1, <5>2, <5>3
      <4> QED BY <4>1, <4>2
    <3> HIDE DEF grown, again
    <3>4. GroupOK(b)' /\ (Whole(b) \/ Cut(b))' /\ Reach(b, a.to)'
      BY <1>1, <1>6, <1>7, <3>2, <3>3, SameB
    <3>5. (b.from = a.to + 1 /\ a.to < nxy)'
      BY <1>6, <1>7, <1>9, <2>0, <3>2, <3>3
    <3>6. ((Len(groups) + 1) * field.minpk <= a.to)'
      <4>1. field.minpk \in Nat
        BY <1>2 DEF Ready
      <4>2. PICK r \in Nat : r = (Len(groups) + 1) * field.minpk
        BY <1>2, <4>1, NextRoom
      <4>3. r <= to
        BY <1>2, <1>3, <1>5, <4>2
      <4> QED BY <1>6, <1>7, <1>9, <4>2, <4>3
    <3>7. ABHold'
      BY <1>1, <1>8, <1>10, <3>4, <3>5, <3>6 DEF ABHold
    <3> QED BY <1>11, <3>1, <3>7 DEF Groups
  <2> QED BY <2>2, <2>3
<1> QED BY <1>12, <1>13

LEMMA FinishStep ==
  ASSUME Given, Groups, Finish
  PROVE  Groups'
<1>1. field' = field /\ groups' = groups /\ pc' \in {"done", "L105"}
  BY DEF Finish
<1>2. Closed'
  BY <1>1, SameClosed DEF Groups
<1> QED BY <1>1, <1>2 DEF Groups

LEMMA NothingMoves ==
  ASSUME UNCHANGED groupVars, Groups
  PROVE  Groups'
<1>1. /\ field' = field /\ groups' = groups /\ a' = a /\ b' = b /\ adda' = adda /\ pc' = pc
  BY DEF groupVars
<1>2. Closed'
  BY <1>1, SameClosed DEF Groups
<1>3. nxy' = nxy /\ field.minpk' = field.minpk
  BY <1>1 DEF nxy
<1>4. ASSUME pc = "L133" PROVE AHolds'
  <2>1. AHolds
    BY <1>4 DEF Groups
  <2>2. GroupOK(a)' /\ Follows(a)' /\ (Tight(a) \/ Cut(a))'
    BY <1>1, <2>1, StaysA DEF AHolds
  <2>3. Room(Len(groups))' /\ Far(a, Len(groups) + 1)'
    BY <1>1, <1>3, <2>1 DEF AHolds, Room, Far
  <2> QED BY <1>1, <2>1, <2>2, <2>3 DEF AHolds
<1>5. ASSUME pc = "L170" PROVE ABHold'
  <2>1. ABHold
    BY <1>5 DEF Groups
  <2>2. GroupOK(a)' /\ Follows(a)' /\ (Tight(a)' <=> Tight(a))
    BY <1>1, <2>1, StaysA DEF ABHold
  <2>3. PICK g, i : g = b' /\ i = a.to
    OBVIOUS
  <2>4. GroupOK(b)' /\ (Whole(b)' <=> Whole(b)) /\ (Cut(b)' <=> Cut(b)) /\ Reach(b, a.to)'
    <3>1. g = b /\ a.to' = i /\ GroupOK(g) /\ Reach(g, i)
      BY <1>1, <2>1, <2>3 DEF ABHold
    <3> QED BY <1>1, <2>3, <3>1, SameB
  <2>5. Room(Len(groups))' /\ ((Len(groups) + 1) * field.minpk <= a.to)'
    BY <1>1, <1>3, <2>1 DEF ABHold, Room
  <2> QED BY <1>1, <1>3, <2>1, <2>2, <2>4, <2>5 DEF ABHold
<1>6. ASSUME pc = "L200" PROVE ALast'
  BY <1>1, <1>6, SameLast DEF Groups
<1> QED BY <1>1, <1>2, <1>3, <1>4, <1>5, <1>6 DEF Groups

LEMMA GroupsStep ==
  ASSUME Given, Groups, PackGp
  PROVE  Groups'
BY FirstGroupStep, SecondGroupStep, CloseAStep, GiveBackStep, KeepAStep, ExtendAStep,
   CloseStep, FinishStep DEF PackGp

LEMMA ArgumentsStep ==
  ASSUME Arguments, PackGp
  PROVE  Arguments'
<1>1. field' = field
  BY DEF PackGp, FirstGroup, SecondGroup, CloseA, GiveBack, KeepA, ExtendA, Close, Finish
<1>2. nxy' = nxy
  BY <1>1 DEF nxy
<1>3. adda' \in BOOLEAN
  BY DEF Arguments, PackGp, FirstGroup, SecondGroup, CloseA, GiveBack, KeepA, ExtendA, Close,
         Finish
<1>4. PICK s : s = sizes'
  OBVIOUS
<1>5. s = [kinc |-> s.kinc, lminpk |-> field.minpk, ired |-> s.ired]
  <2>1. PICK k, m, i : sizes = [kinc |-> k, lminpk |-> m, ired |-> i] /\ m = field.minpk
    BY DEF Arguments
  <2>2. \/ s = sizes \/ s = [sizes EXCEPT !.kinc = MoreKinc]
        \/ s = [kinc |-> Inc, lminpk |-> field.minpk, ired |-> 1]
    BY <1>4 DEF PackGp, FirstGroup, SecondGroup, CloseA, GiveBack, KeepA, ExtendA, Close, Finish
  <2>3. PICK n : n = MoreKinc
    OBVIOUS
  <2> QED BY <2>1, <2>2, <2>3
<1> QED BY <1>1, <1>2, <1>3, <1>4, <1>5 DEF Arguments

LEMMA KincStep ==
  ASSUME Given, Groups, PackGp
  PROVE  sizes.kinc' \in Nat \ {0}
<1>1. sizes' = sizes \/ sizes' = [kinc |-> Inc, lminpk |-> field.minpk, ired |-> 1]
      \/ (pc = "L170" /\ sizes' = [sizes EXCEPT !.kinc = MoreKinc])
  BY DEF PackGp, FirstGroup, SecondGroup, CloseA, GiveBack, KeepA, ExtendA, Close, Finish
<1>2. CASE sizes' = sizes
  BY <1>2 DEF Given
<1>3. CASE sizes' = [kinc |-> Inc, lminpk |-> field.minpk, ired |-> 1]
  BY <1>3, PackAssumption
<1>4. CASE pc = "L170" /\ sizes' = [sizes EXCEPT !.kinc = MoreKinc]
  <2>1. MoreKinc \in Nat \ {0}
    BY <1>4, ABIs, TakenEndIs
  <2>2. PICK k, m, i : sizes = [kinc |-> k, lminpk |-> m, ired |-> i]
    BY DEF Given, Arguments
  <2>3. PICK n \in Nat \ {0} : n = MoreKinc
    BY <2>1
  <2>4. sizes' = [kinc |-> n, lminpk |-> m, ired |-> i]
    BY <1>4, <2>2, <2>3
  <2> QED BY <2>3, <2>4
<1> QED BY <1>1, <1>2, <1>3, <1>4

-----------------------------------------------------------------------------
(* Calls, and what goes on around them.                                    *)

LEMMA SpreadIs ==
  ASSUME job \in Jobs, job.by = "g2"
  PROVE  /\ Len(Spread.ic) \in Nat \ {0}
         /\ Spread.ndg = Len(Spread.ic) \div Spread.minpk + 1
         /\ Spread.is523 \in 0..2 /\ Spread.minpk \in Nat \ {0}
<1>1. /\ job.fld \in Seq(Int \cup {None, Second}) /\ job.fld # <<>>
      /\ job.missing \in 0..2 /\ job.minpk \in Nat \ {0}
  BY JobsAssumption
<1>2. PICK n \in Nat : n = Len(job.fld)
  BY <1>1
<1>3. DOMAIN job.fld = 1..n /\ n # 0
  BY <1>1, <1>2
<1> DEFINE d == Shifted(Differences(ScaledValues, job.order))
           miss1 == (IF d = <<>> THEN 0 ELSE Least(d)) - 1
           nth(i) == Cardinality({j \in 1..i : job.fld[j] \notin {None, Second}})
           v(i) == IF job.fld[i] = None THEN miss1
                   ELSE IF job.fld[i] = Second THEN miss1 - 1 ELSE d[nth(i)]
<1>4. /\ Spread.ic = [i \in DOMAIN job.fld |-> v(i)]
      /\ Spread.is523 = job.missing /\ Spread.minpk = job.minpk
      /\ Spread.ndg = n \div job.minpk + 1
  BY <1>2 DEF Spread
<1> HIDE DEF v
<1>5. Len([i \in 1..n |-> v(i)]) = n
  OBVIOUS
<1> QED BY <1>1, <1>3, <1>4, <1>5

LEMMA CallStep ==
  ASSUME job \in Jobs, job.by = "g2", groups = <<>>, adda \in BOOLEAN, Call(Spread)
  PROVE  Arguments' /\ (Groups /\ sizes.kinc \in Nat \ {0})'
<1>1. PICK f : f = Spread
  OBVIOUS
<1>2. /\ field' = f /\ pc' = "L105" /\ groups' = <<>> /\ adda' = adda
      /\ sizes' = [kinc |-> Inc, lminpk |-> f.minpk, ired |-> 0]
  BY <1>1 DEF Call
<1>3. /\ Len(f.ic) \in Nat \ {0} /\ f.ndg = Len(f.ic) \div f.minpk + 1
      /\ f.is523 \in 0..2 /\ f.minpk \in Nat \ {0}
  BY <1>1, SpreadIs
<1>4. Arguments'
  BY <1>2, <1>3 DEF Arguments, nxy
<1>5. f.ndg \in Nat
  BY <1>3
<1>6. Closed'
  <2>1. <<>> \in Seq(ClosedGroup) /\ Len(<<>>) = 0 /\ DOMAIN <<>> = {}
    OBVIOUS
  <2> QED BY <1>2, <1>5, <2>1 DEF Closed, ChainFrom
<1>7. sizes.kinc' \in Nat \ {0}
  BY <1>2, PackAssumption
<1> QED BY <1>2, <1>4, <1>6, <1>7 DEF Groups

LEMMA PackInvInit == Init => PackInv
<1> SUFFICES ASSUME Init PROVE PackInv
  OBVIOUS
<1>1. job \in Jobs /\ step = "encode" /\ groups = <<>> /\ adda = FALSE
  BY DEF Init
<1> QED BY <1>1 DEF PackInv

LEMMA PackInvStep == PackInv /\ [Next]_vars => PackInv'
<1> SUFFICES ASSUME PackInv, [Next]_vars PROVE PackInv'
  OBVIOUS
<1>1. job \in Jobs /\ (step = "encode" => groups = <<>> /\ adda \in BOOLEAN)
  BY DEF PackInv
<1>2. CASE CallPackGp
  <2>1. step = "encode" /\ job.by = "g2" /\ job' = job
    BY <1>2 DEF CallPackGp
  <2>2. CASE step' = "groups"
    <3>1. Call(Spread)
      BY <1>2, <2>2 DEF CallPackGp
    <3>2. Arguments' /\ (Groups /\ sizes.kinc \in Nat \ {0})'
      BY <1>1, <2>1, <3>1, CallStep
    <3> QED BY <1>1, <2>1, <2>2, <3>2 DEF PackInv
  <2>3. CASE step' # "groups"
    <3>1. step' = "read"
      BY <1>2, <2>3 DEF CallPackGp
    <3> QED BY <1>1, <2>1, <3>1 DEF PackInv
  <2> QED BY <2>2, <2>3
<1>3. CASE InPackGp
  <2>1. step = "groups" /\ job.by = "g2" /\ PackGp /\ job' = job /\ step' = step
    BY <1>3 DEF InPackGp
  <2>2. Arguments /\ (Packable => Groups /\ sizes.kinc \in Nat \ {0})
    BY <2>1 DEF PackInv
  <2>3. Arguments'
    BY <2>1, <2>2, ArgumentsStep
  <2>4. field' = field
    BY <2>1 DEF PackGp, FirstGroup, SecondGroup, CloseA, GiveBack, KeepA, ExtendA, Close, Finish
  <2>5. Packable' <=> Packable
    BY <2>4, SameField
  <2>6. Packable => Groups' /\ sizes.kinc' \in Nat \ {0}
    BY <2>1, <2>2, GroupsStep, KincStep DEF Given
  <2> QED BY <1>1, <2>1, <2>3, <2>5, <2>6 DEF PackInv
<1>4. CASE End \/ UNCHANGED vars
  <2>1. UNCHANGED groupVars /\ job' = job /\ step' = step
    BY <1>4 DEF End, vars
  <2>2. field' = field /\ sizes' = sizes /\ adda' = adda /\ groups' = groups
    BY <2>1 DEF groupVars
  <2>3. CASE step = "groups" /\ job.by = "g2"
    <3>1. Arguments /\ (Packable => Groups /\ sizes.kinc \in Nat \ {0})
      BY <2>3 DEF PackInv
    <3>2. Arguments'
      BY <2>2, <3>1 DEF Arguments, nxy
    <3>3. Packable' <=> Packable
      BY <2>2, SameField
    <3>4. Packable => Groups'
      BY <2>1, <3>1, NothingMoves
    <3> QED BY <1>1, <2>1, <2>2, <2>3, <3>1, <3>2, <3>3, <3>4 DEF PackInv
  <2>4. CASE ~(step = "groups" /\ job.by = "g2")
    BY <1>1, <2>1, <2>2, <2>4 DEF PackInv
  <2> QED BY <2>3, <2>4
<1>5. CASE WriteGroups \/ WriteSections \/ PackSimple \/ Read
  <2>1. job' = job /\ step' \in {"read", "end"}
    BY <1>5 DEF WriteGroups, WriteSections, PackSimple, Read
  <2> QED BY <1>1, <2>1 DEF PackInv
<1>6. CASE StartSections \/ InSections
  <2>1. job' = job /\ job.by = "complex" /\ step' \in {"read", "groups"}
    BY <1>6 DEF StartSections, InSections
  <2> QED BY <1>1, <2>1 DEF PackInv
<1> QED BY <1>2, <1>3, <1>4, <1>5, <1>6 DEF Next

LEMMA PackInvCovers == PackInv => GroupsCover
<1> SUFFICES ASSUME PackInv, step = "groups", job.by = "g2", Packable
             PROVE  /\ ChainFrom(groups, 1) /\ Len(groups) <= field.ndg
                    /\ \A i \in DOMAIN groups : Holds(groups[i])
                    /\ pc \in {"L133", "L170"} =>
                         Holds(a) /\ a.from = (IF groups = <<>> THEN 1 ELSE Last(groups).to + 1)
                    /\ pc = "L170" => Holds(b) /\ b.from = a.to + 1
                    /\ pc = "L209" => Last(groups).to = nxy
  BY DEF GroupsCover
<1>1. Given /\ Groups
  BY DEF PackInv, Given
<1>2. Ready /\ Closed
  BY <1>1, GivenIs DEF Groups
<1>3. ASSUME pc \in {"L133", "L170"} PROVE GroupOK(a) /\ Follows(a)
  BY <1>1, <1>3 DEF Groups, AHolds, ABHold
<1>4. ASSUME pc = "L170" PROVE GroupOK(b) /\ b.from = a.to + 1
  BY <1>1, <1>4 DEF Groups, ABHold
<1>5. pc \in {"L133", "L170"} =>
         Holds(a) /\ a.from = (IF groups = <<>> THEN 1 ELSE Last(groups).to + 1)
  BY <1>2, <1>3, GroupHolds DEF Follows
<1>6. pc = "L170" => Holds(b) /\ b.from = a.to + 1
  BY <1>2, <1>4, GroupHolds
<1> QED BY <1>1, <1>2, <1>5, <1>6 DEF Groups, Closed

(* Whatever moves between group A and group B of pack_gp, and wherever a   *)
(* long string of values is cut: the groups cover the field in order, each *)
(* holds its values in its bits, and there is room for all of them in the  *)
(* arrays of compack.                                                      *)
THEOREM GroupsAreCovered == Spec => []GroupsCover
<1>1. Init => PackInv
  BY PackInvInit
<1>2. PackInv /\ [Next]_vars => PackInv'
  BY PackInvStep
<1>3. PackInv => GroupsCover
  BY PackInvCovers
<1> QED BY <1>1, <1>2, <1>3, PTL DEF Spec

-----------------------------------------------------------------------------
(* Sections.  What is said of the extremes is said of the values v.        *)

Section == [mn : Int, mx : Int, missing : BOOLEAN, i0 : Int, i1 : Int]

Lowest(v, s) == (\E i \in s.i0..s.i1 : v[i] = s.mn) /\ \A i \in s.i0..s.i1 : s.mn <= v[i]

Highest(v, s) ==
  IF s.mn = IntMax THEN s.mx = IntMax
  ELSE /\ s.mx # IntMax
       /\ \E i \in s.i0..s.i1 : v[i] = s.mx
       /\ \A i \in s.i0..s.i1 : v[i] # IntMax => v[i] <= s.mx

Exact(v, s) ==
  /\ s \in Section /\ 1 <= s.i0 /\ s.i0 <= s.i1 /\ s.i1 <= Len(v)
  /\ s.missing <=> \E i \in s.i0..s.i1 : v[i] = IntMax
  /\ Lowest(v, s) /\ Highest(v, s)

(* The sections l are those of all points, none longer than room + 1.      *)
Chain(v, l, room) ==
  /\ l \in Seq(Section) /\ l # <<>> /\ l[1].i0 = 1 /\ l[Len(l)].i1 = Len(v)
  /\ \A j \in 1..Len(l) : /\ Exact(v, l[j]) /\ l[j].i1 - l[j].i0 <= room
                          /\ j > 1 => l[j].i0 = l[j - 1].i1 + 1

(* The values that are packed.                                             *)
Values(v) ==
  /\ v \in Seq(Int) /\ v # <<>>
  /\ \A i \in 1..Len(v) : v[i] = IntMax \/ v[i] \in 0..(2^30 - 2)

LEMMA Limits == 2^30 \in Nat /\ 2^30 - 2 < IntMax /\ IntMax \in Nat
BY DEF IntMax

LEMMA Antisymmetry == \A x, y \in Int : x <= y /\ y <= x => x = y
OBVIOUS

LEMMA ValuesAre ==
  ASSUME NEW v, Values(v)
  PROVE  /\ v \in Seq(Int) /\ Len(v) \in Nat \ {0} /\ IntMax \in Nat
         /\ \A i \in 1..Len(v) : v[i] \in Int /\ v[i] <= IntMax
<1>1. Len(v) \in Nat \ {0} /\ \A i \in 1..Len(v) : v[i] \in Int
  BY DEF Values
<1>2. ASSUME NEW i \in 1..Len(v) PROVE v[i] <= IntMax
  <2> DEFINE top == 2^30
  <2>1. top \in Nat /\ top - 2 < IntMax /\ IntMax \in Nat
    BY Limits
  <2>2. v[i] = IntMax \/ v[i] \in 0..(top - 2)
    BY DEF Values
  <2> HIDE DEF top
  <2> QED BY <2>1, <2>2
<1> QED BY <1>1, <1>2, Limits DEF Values

(* A section of exact extremes is what the property asks for.              *)
LEMMA ExactIs ==
  ASSUME NEW v, Values(v), NEW s, Exact(v, s)
  PROVE  LET values == {v[i] : i \in s.i0..s.i1} IN
         /\ s.missing <=> IntMax \in values
         /\ s.mn = Min(values)
         /\ s.mx = IF values = {IntMax} THEN IntMax ELSE Max(values \ {IntMax})
<1> DEFINE values == {v[i] : i \in s.i0..s.i1}
<1>1. s \in Section /\ s.i0..s.i1 \subseteq 1..Len(v)
  BY ValuesAre DEF Exact, Section
<1>2. values \subseteq Int /\ \A x \in values : x <= IntMax
  BY <1>1, ValuesAre
<1>3. s.missing <=> IntMax \in values
  BY DEF Exact
<1>4. s.mn \in values /\ \A x \in values : s.mn <= x
  BY DEF Exact, Lowest
<1>5. s.mn \in Int /\ IntMax \in Int
  BY <1>1, ValuesAre DEF Section
<1>6. s.mn = IntMax => s.mx = IntMax
  BY DEF Exact, Highest
<1>7. s.mn # IntMax => /\ s.mx \in values \ {IntMax}
                       /\ \A x \in values \ {IntMax} : x <= s.mx
  BY DEF Exact, Highest
<1> HIDE DEF values
<1>8. Min(values) \in values /\ \A x \in values : Min(values) <= x
  BY <1>4, MinIs
<1>9. s.mn = Min(values)
  BY <1>2, <1>4, <1>8, Antisymmetry
<1>10. CASE s.mn = IntMax
  <2>1. ASSUME NEW x \in values PROVE x = IntMax
    <3>1. IntMax <= x /\ x <= IntMax /\ x \in Int
      BY <1>2, <1>4, <1>10
    <3> QED BY <1>5, <3>1, Antisymmetry
  <2>2. values = {IntMax}
    BY <1>4, <1>10, <2>1
  <2> QED BY <1>3, <1>6, <1>9, <1>10, <2>2 DEF values
<1>11. CASE s.mn # IntMax
  <2> DEFINE rest == values \ {IntMax}
  <2>1. s.mx \in rest /\ (\A x \in rest : x <= s.mx) /\ rest \subseteq Int
    BY <1>2, <1>7, <1>11
  <2>2. values # {IntMax}
    BY <2>1
  <2> HIDE DEF rest
  <2>3. Max(rest) \in rest /\ \A x \in rest : x <= Max(rest)
    BY <2>1, MaxIs
  <2>4. s.mx = Max(rest)
    BY <2>1, <2>3, Antisymmetry
  <2> QED BY <1>3, <1>9, <2>2, <2>4 DEF values, rest
<1> QED BY <1>10, <1>11

-----------------------------------------------------------------------------
(* Two neighbours joined. *)

Neighbours(v, s, t) == Exact(v, s) /\ Exact(v, t) /\ t.i0 = s.i1 + 1

LEMMA JoinedIs ==
  ASSUME NEW s \in Section, NEW t \in Section
  PROVE  /\ Joined(s, t) \in Section
         /\ Joined(s, t).i0 = s.i0 /\ Joined(s, t).i1 = t.i1
         /\ Joined(s, t).missing <=> (s.missing \/ t.missing)
         /\ Joined(s, t).mn = (IF s.mn < t.mn THEN s.mn ELSE t.mn)
         /\ Joined(s, t).mx = (IF t.mn = IntMax THEN s.mx
                               ELSE IF s.mn = IntMax THEN t.mx
                               ELSE IF s.mx > t.mx THEN s.mx ELSE t.mx)
BY DEF Joined, Section

LEMMA JoinedExact ==
  ASSUME NEW v, Values(v), NEW s, NEW t, Neighbours(v, s, t)
  PROVE  Exact(v, Joined(s, t))
<1>1. /\ s \in Section /\ 1 <= s.i0 /\ s.i0 <= s.i1 /\ s.i1 <= Len(v)
      /\ t \in Section /\ 1 <= t.i0 /\ t.i0 <= t.i1 /\ t.i1 <= Len(v) /\ t.i0 = s.i1 + 1
  BY DEF Neighbours, Exact
<1>2. PICK u : u = Joined(s, t)
  OBVIOUS
<1>3. /\ u \in Section /\ u.i0 = s.i0 /\ u.i1 = t.i1
      /\ u.missing <=> (s.missing \/ t.missing)
      /\ u.mn = (IF s.mn < t.mn THEN s.mn ELSE t.mn)
      /\ u.mx = (IF t.mn = IntMax THEN s.mx ELSE IF s.mn = IntMax THEN t.mx
                 ELSE IF s.mx > t.mx THEN s.mx ELSE t.mx)
  BY <1>1, <1>2, JoinedIs
<1>4. Len(v) \in Nat /\ IntMax \in Nat /\ \A i \in 1..Len(v) : v[i] \in Int /\ v[i] <= IntMax
  BY ValuesAre
<1>5. /\ s.i0 \in Int /\ s.i1 \in Int /\ t.i0 \in Int /\ t.i1 \in Int /\ s.mn \in Int
      /\ t.mn \in Int /\ s.mx \in Int /\ t.mx \in Int
  BY <1>1 DEF Section
<1>6. \A i : i \in u.i0..u.i1 <=> i \in s.i0..s.i1 \/ i \in t.i0..t.i1
  BY <1>1, <1>3, <1>5
<1>7. (s.i0..s.i1) \subseteq 1..Len(v) /\ (t.i0..t.i1) \subseteq 1..Len(v)
  BY <1>1, <1>4, <1>5
<1>8. u.missing <=> \E i \in u.i0..u.i1 : v[i] = IntMax
  BY <1>3, <1>6 DEF Neighbours, Exact
<1>9. (\E i \in s.i0..s.i1 : v[i] = s.mn) /\ \A i \in s.i0..s.i1 : s.mn <= v[i]
  BY DEF Neighbours, Exact, Lowest
<1>10. (\E i \in t.i0..t.i1 : v[i] = t.mn) /\ \A i \in t.i0..t.i1 : t.mn <= v[i]
  BY DEF Neighbours, Exact, Lowest
<1>11. s.mn <= IntMax /\ t.mn <= IntMax
  BY <1>4, <1>7, <1>9, <1>10
<1>12. Lowest(v, u)
  <2>1. CASE s.mn < t.mn
    <3>1. u.mn = s.mn
      BY <1>3, <2>1
    <3>2. \A i \in t.i0..t.i1 : s.mn <= v[i]
      BY <1>4, <1>5, <1>7, <1>10, <2>1
    <3> QED BY <1>6, <1>9, <3>1, <3>2 DEF Lowest
  <2>2. CASE ~(s.mn < t.mn)
    <3>1. u.mn = t.mn
      BY <1>3, <2>2
    <3>2. \A i \in s.i0..s.i1 : t.mn <= v[i]
      BY <1>4, <1>5, <1>7, <1>9, <2>2
    <3> QED BY <1>6, <1>10, <3>1, <3>2 DEF Lowest
  <2> QED BY <2>1, <2>2
<1>13. /\ s.mn = IntMax => s.mx = IntMax /\ \A i \in s.i0..s.i1 : v[i] = IntMax
       /\ s.mn # IntMax => /\ s.mx # IntMax
                           /\ \E i \in s.i0..s.i1 : v[i] = s.mx
                           /\ \A i \in s.i0..s.i1 : v[i] # IntMax => v[i] <= s.mx
  <2>1. s.mn = IntMax => \A i \in s.i0..s.i1 : v[i] = IntMax
    BY <1>4, <1>7, <1>9, Antisymmetry
  <2> QED BY <2>1 DEF Neighbours, Exact, Highest
<1>14. /\ t.mn = IntMax => t.mx = IntMax /\ \A i \in t.i0..t.i1 : v[i] = IntMax
       /\ t.mn # IntMax => /\ t.mx # IntMax
                           /\ \E i \in t.i0..t.i1 : v[i] = t.mx
                           /\ \A i \in t.i0..t.i1 : v[i] # IntMax => v[i] <= t.mx
  <2>1. t.mn = IntMax => \A i \in t.i0..t.i1 : v[i] = IntMax
    BY <1>4, <1>7, <1>10, Antisymmetry
  <2> QED BY <2>1 DEF Neighbours, Exact, Highest
<1>15. u.mn = IntMax <=> s.mn = IntMax /\ t.mn = IntMax
  BY <1>3, <1>5, <1>11
<1>16. Highest(v, u)
  <2>1. CASE t.mn = IntMax /\ s.mn = IntMax
    BY <1>3, <1>13, <1>15, <2>1 DEF Highest
  <2>2. CASE t.mn = IntMax /\ s.mn # IntMax
    BY <1>3, <1>6, <1>13, <1>14, <1>15, <2>2 DEF Highest
  <2>3. CASE t.mn # IntMax /\ s.mn = IntMax
    BY <1>3, <1>6, <1>13, <1>14, <1>15, <2>3 DEF Highest
  <2>4. CASE t.mn # IntMax /\ s.mn # IntMax
    <3>1. u.mx = (IF s.mx > t.mx THEN s.mx ELSE t.mx) /\ u.mn # IntMax
      BY <1>3, <1>15, <2>4
    <3>2. u.mx # IntMax
      BY <1>13, <1>14, <2>4, <3>1
    <3>3. \E i \in u.i0..u.i1 : v[i] = u.mx
      BY <1>6, <1>13, <1>14, <2>4, <3>1
    <3>4. s.mx <= u.mx /\ t.mx <= u.mx
      BY <1>5, <3>1
    <3>5. ASSUME NEW i \in u.i0..u.i1, v[i] # IntMax PROVE v[i] <= u.mx
      <4>1. u.mx \in Int /\ v[i] \in Int
        BY <1>3, <1>4, <1>6, <1>7 DEF Section
      <4>2. CASE i \in s.i0..s.i1
        <5>1. v[i] <= s.mx
          BY <1>13, <2>4, <3>5, <4>2
        <5> QED BY <1>5, <3>4, <4>1, <5>1
      <4>3. CASE i \in t.i0..t.i1
        <5>1. v[i] <= t.mx
          BY <1>14, <2>4, <3>5, <4>3
        <5> QED BY <1>5, <3>4, <4>1, <5>1
      <4> QED BY <1>6, <4>2, <4>3
    <3> QED BY <3>1, <3>2, <3>3, <3>5 DEF Highest
  <2> QED BY <2>1, <2>2, <2>3, <2>4
<1>17. 1 <= u.i0 /\ u.i0 <= u.i1 /\ u.i1 <= Len(v)
  BY <1>1, <1>3, <1>4, <1>5
<1> QED BY <1>2, <1>3, <1>8, <1>12, <1>16, <1>17 DEF Exact

LEMMA ConcatIs ==
  ASSUME NEW S, NEW r \in Seq(S), NEW q \in Seq(S)
  PROVE  /\ r \o q \in Seq(S) /\ Len(r \o q) = Len(r) + Len(q)
         /\ \A j \in 1..Len(r) : (r \o q)[j] = r[j]
         /\ \A j \in 1..Len(q) : (r \o q)[Len(r) + j] = q[j]
OBVIOUS

(* The list l with u in place of sections i and i + 1. *)
Spliced(l, i, u) == SubSeq(l, 1, i - 1) \o <<u>> \o SubSeq(l, i + 2, Len(l))

Replaces(m, l, i, u) ==
  /\ m \in Seq(Section) /\ Len(m) = Len(l) - 1
  /\ \A j \in 1..i - 1 : m[j] = l[j]
  /\ m[i] = u
  /\ \A j \in i + 1..Len(l) - 1 : m[j] = l[j + 1]

LEMMA JoinedList ==
  ASSUME NEW l \in Seq(Section), NEW i \in 1..Len(l) - 1, NEW u \in Section,
         NEW m, m = Spliced(l, i, u)
  PROVE  Replaces(m, l, i, u)
<1>1. Len(l) \in Nat /\ i \in Nat \ {0}
  OBVIOUS
<1> DEFINE p == SubSeq(l, 1, i - 1)
           q == SubSeq(l, i + 2, Len(l))
<1>2. p \in Seq(Section) /\ Len(p) = i - 1 /\ \A j \in 1..i - 1 : p[j] = l[j]
  BY <1>1
<1>3. /\ q \in Seq(Section) /\ Len(q) = Len(l) - i - 1
      /\ \A j \in 1..Len(l) - i - 1 : q[j] = l[j + i + 1]
  <2>1. q \in Seq(Section)
    BY <1>1
  <2>2. Len(q) = Len(l) - i - 1
    BY <1>1
  <2>3. ASSUME NEW j \in 1..Len(l) - i - 1 PROVE q[j] = l[j + i + 1]
    <3>1. q[j] = l[i + 2 + j - 1]
      BY <1>1
    <3>2. i + 2 + j - 1 = j + i + 1
      BY <1>1
    <3> QED BY <3>1, <3>2
  <2> QED BY <2>1, <2>2, <2>3
<1> HIDE DEF p, q
<1>4. PICK r : r = p \o <<u>>
  OBVIOUS
<1>5. /\ r \in Seq(Section) /\ Len(r) = i /\ r[i] = u
      /\ \A j \in 1..i - 1 : r[j] = l[j]
  BY <1>1, <1>2, <1>4
<1>6. m = r \o q
  BY <1>4 DEF p, q, Spliced
<1>7. /\ m \in Seq(Section) /\ Len(m) = Len(l) - 1
      /\ \A j \in 1..i : m[j] = r[j]
      /\ \A j \in 1..Len(l) - i - 1 : m[i + j] = q[j]
  <2>1. m \in Seq(Section) /\ Len(m) = Len(r) + Len(q) /\ (\A j \in 1..Len(r) : m[j] = r[j])
        /\ \A j \in 1..Len(q) : m[Len(r) + j] = q[j]
    <3>1. r \in Seq(Section) /\ q \in Seq(Section)
      BY <1>3, <1>5
    <3> QED BY ONLY <1>6, <3>1, ConcatIs
  <2>2. Len(l) \in Int /\ i \in Int
    BY <1>1
  <2>3. i + (Len(l) - i - 1) = Len(l) - 1
    BY <2>2
  <2> QED BY ONLY <1>3, <1>5, <2>1, <2>3
<1>8. ASSUME NEW j \in 1..i - 1 PROVE m[j] = l[j]
  <2>1. j \in 1..i
    BY <1>1
  <2> QED BY <1>5, <1>7, <2>1
<1>9. m[i] = u
  <2>1. i \in 1..i
    BY <1>1
  <2> QED BY <1>5, <1>7, <2>1
<1>10. ASSUME NEW j \in i + 1..Len(l) - 1 PROVE m[j] = l[j + 1]
  <2>1. j - i \in 1..Len(l) - i - 1 /\ i + (j - i) = j /\ (j - i) + i + 1 = j + 1
    BY <1>1
  <2>2. m[i + (j - i)] = q[j - i] /\ q[j - i] = l[(j - i) + i + 1]
    BY <1>3, <1>7, <2>1
  <2> QED BY <2>1, <2>2
<1> QED BY <1>7, <1>8, <1>9, <1>10 DEF Replaces

(* The chain l with sections i and i + 1 replaced by u, the chain m.       *)
LEMMA ShorterChain ==
  ASSUME NEW v, NEW l, NEW room, Chain(v, l, room), NEW i \in Nat \ {0}, NEW n \in Nat,
         i <= n, n = Len(l) - 1,
         NEW u, Exact(v, u), u.i1 - u.i0 <= room, u.i0 = l[i].i0, u.i1 = l[i + 1].i1,
         NEW m \in Seq(Section), Len(m) = n,
         \A j \in 1..i - 1 : m[j] = l[j], m[i] = u, \A j \in i + 1..n : m[j] = l[j + 1]
  PROVE  Chain(v, m, room)
<1>1. /\ l \in Seq(Section) /\ l[1].i0 = 1 /\ l[n + 1].i1 = Len(v) /\ Len(l) = n + 1
      /\ \A j \in 1..n + 1 : /\ Exact(v, l[j]) /\ l[j].i1 - l[j].i0 <= room
                             /\ j > 1 => l[j].i0 = l[j - 1].i1 + 1
  <2>1. l \in Seq(Section) /\ Len(l) \in Nat
    BY DEF Chain
  <2>2. Len(l) = n + 1
    BY <2>1
  <2> QED BY <2>1, <2>2 DEF Chain
<1>2. m # <<>>
  BY SMT
<1>3. m[1].i0 = 1
  <2>1. CASE i = 1
    BY <1>1, <2>1
  <2>2. CASE 1 < i
    <3>1. 1 \in 1..i - 1
      BY <2>2
    <3> QED BY <1>1, <3>1
  <2> QED BY <2>1, <2>2
<1>4. m[n].i1 = Len(v)
  <2>1. CASE i = n
    BY <1>1, <2>1
  <2>2. CASE i < n
    <3>1. n \in i + 1..n
      BY <2>2
    <3> QED BY <1>1, <3>1
  <2> QED BY <2>1, <2>2
<1>5. ASSUME NEW j \in 1..n
      PROVE  /\ Exact(v, m[j]) /\ m[j].i1 - m[j].i0 <= room
             /\ j > 1 => m[j].i0 = m[j - 1].i1 + 1
  <2>1. CASE j < i
    <3>1. j \in 1..n + 1 /\ j \in 1..i - 1 /\ (j > 1 => j - 1 \in 1..i - 1)
      BY <2>1
    <3>2. m[j] = l[j] /\ (j > 1 => m[j - 1] = l[j - 1])
      BY <3>1
    <3> QED BY <1>1, <3>1, <3>2
  <2>2. CASE j = i
    <3>1. i \in 1..n + 1 /\ (i > 1 => i - 1 \in 1..i - 1)
      OBVIOUS
    <3>2. i > 1 => m[i - 1] = l[i - 1]
      BY <3>1
    <3>3. i > 1 => l[i].i0 = l[i - 1].i1 + 1
      BY <1>1, <3>1
    <3> QED BY <2>2, <3>2, <3>3
  <2>3. CASE j = i + 1
    <3>1. j \in i + 1..n /\ j + 1 \in 1..n + 1 /\ j + 1 > 1 /\ (j + 1) - 1 = j /\ j - 1 = i
      BY <2>3
    <3>2. m[j] = l[j + 1] /\ m[j - 1].i1 = l[j].i1
      BY <2>3, <3>1
    <3>3. l[j + 1].i0 = l[j].i1 + 1 /\ Exact(v, l[j + 1]) /\ l[j + 1].i1 - l[j + 1].i0 <= room
      BY <1>1, <3>1
    <3> QED BY <3>2, <3>3
  <2>4. CASE j > i + 1
    <3>1. j \in i + 1..n /\ j + 1 \in 1..n + 1 /\ j + 1 > 1 /\ (j + 1) - 1 = j
          /\ j - 1 \in i + 1..n /\ (j - 1) + 1 = j
      BY <2>4
    <3>2. m[j] = l[j + 1] /\ m[j - 1] = l[(j - 1) + 1]
      BY <3>1
    <3>3. l[j + 1].i0 = l[j].i1 + 1 /\ Exact(v, l[j + 1]) /\ l[j + 1].i1 - l[j + 1].i0 <= room
      BY <1>1, <3>1
    <3> QED BY <3>1, <3>2, <3>3
  <2>5. j < i \/ j = i \/ j = i + 1 \/ j > i + 1
    OBVIOUS
  <2> QED BY <2>1, <2>2, <2>3, <2>4, <2>5
<1> QED BY <1>2, <1>3, <1>4, <1>5 DEF Chain

LEMMA JoinedChain ==
  ASSUME NEW v, Values(v), NEW l, NEW room \in Int, Chain(v, l, room), NEW i \in 1..Len(l) - 1,
         l[i + 1].i1 - l[i].i0 <= room
  PROVE  Chain(v, Spliced(l, i, Joined(l[i], l[i + 1])), room)
<1>1. l \in Seq(Section) /\ Len(l) \in Nat
  BY DEF Chain
<1>2. PICK n \in Nat : n = Len(l) - 1
  BY <1>1
<1>3. i \in Nat \ {0} /\ i <= n /\ i \in 1..Len(l) /\ i + 1 \in 1..Len(l) /\ i + 1 > 1 /\ (i + 1) - 1 = i
  BY <1>1, <1>2
<1>4. PICK u : u = Joined(l[i], l[i + 1])
  OBVIOUS
<1>5. l[i] \in Section /\ l[i + 1] \in Section /\ Neighbours(v, l[i], l[i + 1])
  BY <1>1, <1>3 DEF Neighbours, Chain
<1>6. Exact(v, u) /\ u \in Section /\ u.i0 = l[i].i0 /\ u.i1 = l[i + 1].i1
  BY <1>4, <1>5, JoinedExact, JoinedIs
<1>7. PICK m : m = Spliced(l, i, u)
  OBVIOUS
<1>8. /\ m \in Seq(Section) /\ Len(m) = n /\ (\A j \in 1..i - 1 : m[j] = l[j]) /\ m[i] = u
      /\ \A j \in i + 1..n : m[j] = l[j + 1]
  <2>1. /\ m \in Seq(Section) /\ Len(m) = Len(l) - 1 /\ (\A j \in 1..i - 1 : m[j] = l[j])
        /\ m[i] = u /\ \A j \in i + 1..Len(l) - 1 : m[j] = l[j + 1]
    <3>1. i \in 1..Len(l) - 1 /\ l \in Seq(Section) /\ u \in Section
      BY <1>1, <1>6
    <3>2. Replaces(m, l, i, u)
      BY ONLY <1>7, <3>1, JoinedList
    <3> QED BY <3>2 DEF Replaces
  <2> QED BY ONLY <1>2, <2>1
<1>9. u.i1 - u.i0 <= room
  BY <1>6
<1>10. Chain(v, m, room)
  BY <1>2, <1>3, <1>6, <1>8, <1>9, ShorterChain
<1> QED BY <1>4, <1>7, <1>10

LEMMA LongerRoom ==
  ASSUME NEW v, NEW l, NEW room \in Int, NEW more \in Int, room <= more, Chain(v, l, room)
  PROVE  Chain(v, l, more)
<1>1. ASSUME NEW j \in 1..Len(l) PROVE l[j].i1 - l[j].i0 <= more
  <2>1. l[j] \in Section /\ l[j].i1 - l[j].i0 <= room
    BY DEF Chain, Exact
  <2>2. l[j].i1 - l[j].i0 \in Int
    BY <2>1 DEF Section
  <2> QED BY <2>1, <2>2
<1> QED BY <1>1 DEF Chain

-----------------------------------------------------------------------------
(* A point passed over a border. *)

(* s takes the first point of t.                                           *)
LEMMA TakenExact ==
  ASSUME NEW v, Values(v), NEW s, Exact(v, s), ~s.missing, NEW i \in 1..Len(v),
         s.mn <= v[i], v[i] <= s.mx, v[i] # IntMax,
         NEW u \in Section, u.mn = s.mn, u.mx = s.mx, u.missing = s.missing,
         \A k : k \in u.i0..u.i1 <=> k \in s.i0..s.i1 \/ k = i,
         1 <= u.i0, u.i0 <= u.i1, u.i1 <= Len(v)
  PROVE  Exact(v, u)
<1>1. /\ s.missing <=> \E k \in s.i0..s.i1 : v[k] = IntMax
      /\ (\E k \in s.i0..s.i1 : v[k] = s.mn) /\ \A k \in s.i0..s.i1 : s.mn <= v[k]
  BY DEF Exact, Lowest
<1>2. s.mn # IntMax
  BY <1>1
<1>3. /\ s.mx # IntMax /\ \E k \in s.i0..s.i1 : v[k] = s.mx
      /\ \A k \in s.i0..s.i1 : v[k] # IntMax => v[k] <= s.mx
  BY <1>2 DEF Exact, Highest
<1>4. u.missing <=> \E k \in u.i0..u.i1 : v[k] = IntMax
  BY <1>1
<1>5. Lowest(v, u)
  BY <1>1 DEF Lowest
<1>6. Highest(v, u)
  BY <1>2, <1>3 DEF Highest
<1> QED BY <1>4, <1>5, <1>6 DEF Exact

(* t without point i, at one of its ends.                                  *)
LEMMA WithoutExact ==
  ASSUME NEW t, Values(grid.v), Exact(grid.v, t), ~t.missing, t.mn # t.mx,
         NEW i \in t.i0..t.i1, NEW i0 \in Int, NEW i1 \in Int, 1 <= i0, i0 <= i1, i1 <= Len(grid.v),
         \A k : k \in i0..i1 <=> k \in t.i0..t.i1 /\ k # i
  PROVE  LET u == Without(t, i0, i1, grid.v[i]) IN
         /\ Exact(grid.v, u) /\ u.i0 = i0 /\ u.i1 = i1
<1> DEFINE v == grid.v
           values == {v[k] : k \in i0..i1}
<1>1. PICK u : u = Without(t, i0, i1, v[i])
  OBVIOUS
<1>2. /\ t \in Section /\ t.i0 \in Int /\ t.i1 \in Int /\ t.mn \in Int /\ t.mx \in Int
      /\ t.missing \in BOOLEAN
  BY DEF Exact, Section
<1>3. Len(v) \in Nat /\ \A k \in 1..Len(v) : v[k] \in Int
  BY ValuesAre
<1>4. i0..i1 \in SUBSET (1..Len(v)) /\ i0..i1 # {}
  <2>1. i0 \in i0..i1
    OBVIOUS
  <2>2. ASSUME NEW k \in i0..i1 PROVE k \in 1..Len(v)
    BY <1>3
  <2> QED BY <2>1, <2>2
<1>5. Min(values) \in values /\ Max(values) \in values
      /\ \A k \in i0..i1 : Min(values) <= v[k] /\ v[k] <= Max(values)
  <2>1. PICK n \in Nat : n = Len(v)
    BY <1>3
  <2>2. PICK T : T = i0..i1
    OBVIOUS
  <2>3. T \in SUBSET (1..n) /\ T # {} /\ \A k \in T : v[k] \in Int
    BY <1>3, <1>4, <2>1, <2>2
  <2>4. PICK V : V = {v[k] : k \in T}
    OBVIOUS
  <2>5. /\ Min(V) \in V /\ \A x \in V : Min(V) <= x
        /\ Max(V) \in V /\ \A x \in V : x <= Max(V)
    <3> HIDE DEF v
    <3> QED BY ONLY <2>3, <2>4, Extremes
  <2>6. V = values
    BY <2>2, <2>4
  <2>7. \A k \in i0..i1 : v[k] \in V
    BY <2>2, <2>4
  <2> QED BY <2>5, <2>6, <2>7
<1>6. Min(values) \in Int /\ Max(values) \in Int
  BY <1>3, <1>4, <1>5
<1>7. /\ \A k \in t.i0..t.i1 : v[k] # IntMax
      /\ (\E k \in t.i0..t.i1 : v[k] = t.mn) /\ \A k \in t.i0..t.i1 : t.mn <= v[k]
  BY DEF Exact, Lowest
<1>8. t.mn # IntMax
  BY <1>7
<1>9. t.mx # IntMax /\ (\E k \in t.i0..t.i1 : v[k] = t.mx) /\ \A k \in t.i0..t.i1 : v[k] <= t.mx
  BY <1>7, <1>8 DEF Exact, Highest
<1>10. /\ u \in Section /\ u.i0 = i0 /\ u.i1 = i1 /\ u.missing = t.missing
       /\ u.mx = IF v[i] = t.mx THEN Max(values) ELSE t.mx
       /\ u.mn = IF v[i] # t.mx /\ v[i] = t.mn THEN Min(values) ELSE t.mn
  BY <1>1, <1>2, <1>6 DEF Without, Section
<1> HIDE DEF values
<1>11. \A k \in i0..i1 : k \in t.i0..t.i1
  OBVIOUS
<1>12. Lowest(v, u)
  <2>1. CASE v[i] # t.mx /\ v[i] = t.mn
    BY <1>5, <1>10, <2>1 DEF Lowest, values
  <2>2. CASE ~(v[i] # t.mx /\ v[i] = t.mn)
    <3>1. v[i] # t.mn /\ u.mn = t.mn
      BY <1>10, <2>2
    <3>2. PICK k \in t.i0..t.i1 : v[k] = t.mn
      BY <1>7
    <3>3. k \in i0..i1
      BY <3>1, <3>2
    <3> QED BY <1>7, <1>10, <1>11, <3>1, <3>2, <3>3 DEF Lowest
  <2> QED BY <2>1, <2>2
<1>13. u.mn # IntMax
  BY <1>7, <1>10, <1>11, <1>12 DEF Lowest
<1>14. u.mx # IntMax /\ (\E k \in i0..i1 : v[k] = u.mx) /\ \A k \in i0..i1 : v[k] <= u.mx
  <2>1. CASE v[i] = t.mx
    <3>1. u.mx = Max(values)
      BY <1>10, <2>1
    <3>2. PICK k \in i0..i1 : v[k] = u.mx
      BY <1>5, <3>1 DEF values
    <3> QED BY <1>5, <1>7, <1>11, <3>1, <3>2
  <2>2. CASE v[i] # t.mx
    <3>1. u.mx = t.mx
      BY <1>10, <2>2
    <3>2. PICK k \in t.i0..t.i1 : v[k] = t.mx
      BY <1>9
    <3>3. k \in i0..i1
      BY <2>2, <3>2
    <3> QED BY <1>9, <1>11, <3>1, <3>2, <3>3
  <2> QED BY <2>1, <2>2
<1>15. Highest(v, u)
  BY <1>10, <1>13, <1>14 DEF Highest
<1>16. u.missing <=> \E k \in u.i0..u.i1 : v[k] = IntMax
  BY <1>7, <1>10, <1>11
<1>17. Exact(v, u)
  BY <1>10, <1>12, <1>15, <1>16 DEF Exact
<1> QED BY <1>1, <1>10, <1>17

(* Two neighbours with a border elsewhere.                                 *)
Border(l, i, x, y) == [l EXCEPT ![i] = x, ![i + 1] = y]

LEMMA BorderChain ==
  ASSUME NEW v, NEW l, NEW room, Chain(v, l, room), NEW n \in Nat, n = Len(l),
         NEW i \in Nat \ {0}, i + 1 <= n,
         NEW x, Exact(v, x), x.i1 - x.i0 <= room, x.i0 = l[i].i0,
         NEW y, Exact(v, y), y.i1 - y.i0 <= room, y.i0 = x.i1 + 1, y.i1 = l[i + 1].i1
  PROVE  Chain(v, Border(l, i, x, y), room)
<1>1. /\ l \in Seq(Section) /\ l # <<>> /\ l[1].i0 = 1 /\ l[n].i1 = Len(v)
      /\ \A j \in 1..n : /\ Exact(v, l[j]) /\ l[j].i1 - l[j].i0 <= room
                         /\ j > 1 => l[j].i0 = l[j - 1].i1 + 1
  BY DEF Chain
<1>2. x \in Section /\ y \in Section
  BY DEF Exact
<1>3. PICK m : m = Border(l, i, x, y)
  OBVIOUS
<1>4. /\ m \in Seq(Section) /\ Len(m) = n /\ m[i] = x /\ m[i + 1] = y
      /\ \A j \in 1..n : j # i /\ j # i + 1 => m[j] = l[j]
  <2>1. i \in 1..Len(l) /\ i + 1 \in 1..Len(l) /\ i # i + 1
    OBVIOUS
  <2>2. DOMAIN l = 1..Len(l) /\ \A j \in 1..Len(l) : l[j] \in Section
    BY <1>1
  <2>3. m \in [1..Len(l) -> Section] /\ DOMAIN m = 1..Len(l)
    BY <1>2, <1>3, <2>1, <2>2 DEF Border
  <2>4. m[i] = x /\ m[i + 1] = y
    BY <1>3, <2>1, <2>2 DEF Border
  <2>5. \A j \in 1..n : j # i /\ j # i + 1 => m[j] = l[j]
    BY <1>3, <2>2 DEF Border
  <2>6. m \in Seq(Section) /\ Len(m) = n
    BY <2>3
  <2> QED BY <2>4, <2>5, <2>6
<1>5. m # <<>>
  BY <1>4
<1>6. m[1].i0 = 1
  BY <1>1, <1>4
<1>7. m[n].i1 = Len(v)
  BY <1>1, <1>4
<1>8. ASSUME NEW j \in 1..n
      PROVE  /\ Exact(v, m[j]) /\ m[j].i1 - m[j].i0 <= room
             /\ j > 1 => m[j].i0 = m[j - 1].i1 + 1
  <2>1. CASE j < i
    <3>1. m[j] = l[j] /\ (j > 1 => m[j - 1] = l[j - 1])
      BY <1>4, <2>1
    <3> QED BY <1>1, <3>1
  <2>2. CASE j = i
    <3>1. j > 1 => m[j - 1] = l[j - 1]
      BY <1>4, <2>2
    <3>2. j > 1 => x.i0 = l[j - 1].i1 + 1
      BY <1>1, <2>2
    <3> QED BY <1>4, <2>2, <3>1, <3>2
  <2>3. CASE j = i + 1
    <3>1. j - 1 = i
      BY <2>3
    <3> QED BY <1>4, <2>3, <3>1
  <2>4. CASE j = i + 2
    <3>1. j - 1 = i + 1 /\ j # i /\ j # i + 1 /\ j > 1 /\ i + 1 \in 1..n
      BY <2>4
    <3>2. m[j] = l[j] /\ m[j - 1] = y
      BY <1>4, <3>1
    <3>3. /\ Exact(v, l[j]) /\ l[j].i1 - l[j].i0 <= room
          /\ l[j].i0 = l[i + 1].i1 + 1
      BY <1>1, <3>1
    <3> QED BY <3>2, <3>3
  <2>5. CASE j > i + 2
    <3>1. j - 1 # i + 1 /\ j - 1 # i /\ j # i /\ j # i + 1 /\ j - 1 \in 1..n /\ j > 1
      BY <2>5
    <3>2. m[j] = l[j] /\ m[j - 1] = l[j - 1]
      BY <1>4, <3>1
    <3> QED BY <1>1, <3>1, <3>2
  <2>6. j < i \/ j = i \/ j = i + 1 \/ j = i + 2 \/ j > i + 2
    OBVIOUS
  <2> QED BY <2>1, <2>2, <2>3, <2>4, <2>5, <2>6
<1>9. Chain(v, m, room)
  BY <1>4, <1>5, <1>6, <1>7, <1>8 DEF Chain
<1> QED BY <1>3, <1>9

(* Bits are counted. *)
LEMMA CountedBits ==
  ASSUME NEW n \in Nat, n < 2^30
  PROVE  find_nbits(n) \in Nat
<1> DEFINE T == {j \in 0..30 : n < 2^j}
<1>1. T \in SUBSET Nat /\ 30 \in T
  OBVIOUS
<1> HIDE DEF T
<1>2. PICK m \in T : \A j \in T : m <= j
  BY <1>1, LeastNatural
<1>3. Min(T) \in T
  BY <1>2, MinIs
<1> QED BY <1>1, <1>3 DEF T, find_nbits

LEMMA Ranges ==
  ASSUME NEW s, Values(grid.v), Exact(grid.v, s), ~s.missing, grid.has_undef \in 0..1
  PROVE  /\ s.mn \in 0..(2^30 - 2) /\ s.mx \in 0..(2^30 - 2) /\ s.mn <= s.mx
         /\ SectionBits(s) \in Nat
         /\ SectionBits(s) > 0 => s.mn # s.mx
<1> DEFINE v == grid.v
           top == 2^30
<1>1. /\ s \in Section /\ s.i0..s.i1 \subseteq 1..Len(v)
      /\ Len(v) \in Nat
  BY ValuesAre DEF Exact, Section
<1>2. \A k \in s.i0..s.i1 : v[k] # IntMax
  BY DEF Exact
<1>3. \A k \in s.i0..s.i1 : v[k] \in 0..(top - 2)
  BY <1>1, <1>2 DEF Values
<1>4. (\E k \in s.i0..s.i1 : v[k] = s.mn) /\ \A k \in s.i0..s.i1 : s.mn <= v[k]
  BY DEF Exact, Lowest
<1>5. s.mn # IntMax
  BY <1>2, <1>4
<1>6. \E k \in s.i0..s.i1 : v[k] = s.mx
  BY <1>5 DEF Exact, Highest
<1>7. top \in Nat
  BY Limits
<1> HIDE DEF top, v
<1>8. s.mn \in 0..(top - 2) /\ s.mx \in 0..(top - 2) /\ s.mn <= s.mx
  BY <1>3, <1>4, <1>6
<1>9. s.mx - s.mn + grid.has_undef \in Nat /\ s.mx - s.mn + grid.has_undef < top
  BY <1>7, <1>8
<1>10. find_nbits(s.mx - s.mn + grid.has_undef) \in Nat
  BY <1>9, CountedBits DEF top
<1>11. SectionBits(s) = IF s.mn = s.mx THEN 0 ELSE find_nbits(s.mx - s.mn + grid.has_undef)
  BY <1>5 DEF SectionBits
<1> QED BY <1>8, <1>10, <1>11 DEF top

LEMMA TwoPoints ==
  ASSUME NEW v, Values(v), NEW s, Exact(v, s), ~s.missing, s.mn # s.mx
  PROVE  s.i0 < s.i1
<1>1. s.i0 \in Int /\ s.i1 \in Int /\ s.i0 <= s.i1
  BY DEF Exact, Section
<1>2. (\E k \in s.i0..s.i1 : v[k] = s.mn) /\ \A k \in s.i0..s.i1 : v[k] # IntMax
  BY DEF Exact, Lowest
<1>3. s.mn # IntMax
  BY <1>2
<1>4. \E k \in s.i0..s.i1 : v[k] = s.mx
  BY <1>3 DEF Exact, Highest
<1>5. ASSUME s.i0 = s.i1 PROVE FALSE
  <2>1. \A k \in s.i0..s.i1 : k = s.i0
    BY <1>1, <1>5
  <2> QED BY <1>2, <1>4, <2>1
<1> QED BY <1>1, <1>5

LEMMA MovedLeft ==
  ASSUME NEW s, NEW t, Values(grid.v), Neighbours(grid.v, s, t), ~s.missing, ~t.missing,
         t.mn # t.mx, s.mn <= grid.v[t.i0], grid.v[t.i0] <= s.mx
  PROVE  LET x == [s EXCEPT !.i1 = t.i0]
             y == Without(t, t.i0 + 1, t.i1, grid.v[t.i0])
         IN /\ Exact(grid.v, x) /\ Exact(grid.v, y)
            /\ x.i0 = s.i0 /\ x.i1 = s.i1 + 1 /\ y.i0 = x.i1 + 1 /\ y.i1 = t.i1
<1> DEFINE v == grid.v
<1>1. /\ Exact(v, s) /\ Exact(v, t) /\ t.i0 = s.i1 + 1
      /\ s \in Section /\ t \in Section /\ 1 <= s.i0 /\ s.i0 <= s.i1
      /\ t.i1 <= Len(v) /\ s.i0 \in Int /\ s.i1 \in Int /\ t.i0 \in Int /\ t.i1 \in Int
      /\ Len(v) \in Nat
  BY ValuesAre DEF Neighbours, Exact, Section
<1>2. t.i0 < t.i1
  BY <1>1, TwoPoints
<1>3. t.i0 \in 1..Len(v) /\ t.i0 \in t.i0..t.i1
  BY <1>1, <1>2
<1>4. v[t.i0] # IntMax
  BY <1>1, <1>3 DEF Exact
<1>5. PICK x : x = [s EXCEPT !.i1 = t.i0]
  OBVIOUS
<1>6. /\ x \in Section /\ x.mn = s.mn /\ x.mx = s.mx /\ x.missing = s.missing /\ x.i0 = s.i0
      /\ x.i1 = t.i0
  BY <1>1, <1>5 DEF Section
<1>7. \A k : k \in x.i0..x.i1 <=> k \in s.i0..s.i1 \/ k = t.i0
  BY <1>1, <1>6
<1>8. 1 <= x.i0 /\ x.i0 <= x.i1 /\ x.i1 <= Len(v)
  BY <1>1, <1>2, <1>6
<1>9. Exact(v, x)
  BY <1>1, <1>3, <1>4, <1>6, <1>7, <1>8, TakenExact
<1>10. PICK y : y = Without(t, t.i0 + 1, t.i1, v[t.i0])
  OBVIOUS
<1>11. PICK i0 \in Int : i0 = t.i0 + 1
  BY <1>1
<1>12. \A k : k \in i0..t.i1 <=> k \in t.i0..t.i1 /\ k # t.i0
  BY <1>1, <1>11
<1>13. 1 <= i0 /\ i0 <= t.i1
  BY <1>1, <1>2, <1>11
<1>14. Exact(v, y) /\ y.i0 = i0 /\ y.i1 = t.i1
  BY <1>1, <1>3, <1>10, <1>11, <1>12, <1>13, WithoutExact
<1> QED BY <1>1, <1>5, <1>6, <1>9, <1>10, <1>11, <1>14

LEMMA MovedRight ==
  ASSUME NEW s, NEW t, Values(grid.v), Neighbours(grid.v, s, t), ~s.missing, ~t.missing,
         s.mn # s.mx, t.mn <= grid.v[s.i1], grid.v[s.i1] <= t.mx
  PROVE  LET x == Without(s, s.i0, s.i1 - 1, grid.v[s.i1])
             y == [t EXCEPT !.i0 = s.i1]
         IN /\ Exact(grid.v, x) /\ Exact(grid.v, y)
            /\ x.i0 = s.i0 /\ x.i1 = s.i1 - 1 /\ y.i0 = x.i1 + 1 /\ y.i1 = t.i1
<1> DEFINE v == grid.v
<1>1. /\ Exact(v, s) /\ Exact(v, t) /\ t.i0 = s.i1 + 1
      /\ s \in Section /\ t \in Section /\ 1 <= s.i0 /\ t.i0 <= t.i1
      /\ t.i1 <= Len(v) /\ s.i0 \in Int /\ s.i1 \in Int /\ t.i0 \in Int /\ t.i1 \in Int
      /\ Len(v) \in Nat
  BY ValuesAre DEF Neighbours, Exact, Section
<1>2. s.i0 < s.i1
  BY <1>1, TwoPoints
<1>3. s.i1 \in 1..Len(v) /\ s.i1 \in s.i0..s.i1
  BY <1>1, <1>2
<1>4. v[s.i1] # IntMax
  BY <1>1, <1>3 DEF Exact
<1>5. PICK y : y = [t EXCEPT !.i0 = s.i1]
  OBVIOUS
<1>6. /\ y \in Section /\ y.mn = t.mn /\ y.mx = t.mx /\ y.missing = t.missing /\ y.i0 = s.i1
      /\ y.i1 = t.i1
  BY <1>1, <1>5 DEF Section
<1>7. \A k : k \in y.i0..y.i1 <=> k \in t.i0..t.i1 \/ k = s.i1
  BY <1>1, <1>6
<1>8. 1 <= y.i0 /\ y.i0 <= y.i1 /\ y.i1 <= Len(v)
  BY <1>1, <1>2, <1>6
<1>9. Exact(v, y)
  BY <1>1, <1>3, <1>4, <1>6, <1>7, <1>8, TakenExact
<1>10. PICK x : x = Without(s, s.i0, s.i1 - 1, v[s.i1])
  OBVIOUS
<1>11. PICK i1 \in Int : i1 = s.i1 - 1
  BY <1>1
<1>12. \A k : k \in s.i0..i1 <=> k \in s.i0..s.i1 /\ k # s.i1
  BY <1>1, <1>11
<1>13. s.i0 <= i1 /\ i1 <= Len(v)
  BY <1>1, <1>2, <1>11
<1>14. Exact(v, x) /\ x.i0 = s.i0 /\ x.i1 = i1
  BY <1>1, <1>3, <1>10, <1>11, <1>12, <1>13, WithoutExact
<1> QED BY <1>1, <1>5, <1>6, <1>9, <1>10, <1>11, <1>14

LEMMA ExchangeChain ==
  ASSUME Values(grid.v), grid.has_undef \in 0..1, limit.max \in Nat, at \in Nat \ {0},
         Chain(grid.v, list, limit.max), Exchange
  PROVE  Chain(grid.v, list', limit.max) /\ at' \in Nat \ {0}
<1>1. PICK n \in Nat : n = Len(list)
  BY DEF Chain
<1>2. at + 1 <= n /\ at \in 1..Len(list) /\ at + 1 \in 1..Len(list) /\ at + 1 > 1 /\ (at + 1) - 1 = at
  BY <1>1 DEF Exchange
<1>3. PICK s : s = list[at]
  OBVIOUS
<1>4. PICK t : t = list[at + 1]
  OBVIOUS
<1>5. /\ Neighbours(grid.v, s, t) /\ s \in Section /\ t \in Section
      /\ s.i1 - s.i0 <= limit.max /\ t.i1 - t.i0 <= limit.max
  BY <1>2, <1>3, <1>4 DEF Chain, Neighbours, Exact
<1>6. /\ s.i0 \in Int /\ s.i1 \in Int /\ t.i0 \in Int /\ t.i1 \in Int /\ t.i0 = s.i1 + 1
      /\ Exact(grid.v, s) /\ Exact(grid.v, t)
  BY <1>5 DEF Neighbours, Section
<1>7. DOMAIN list = 1..Len(list) /\ \A j \in 1..Len(list) : list[j] \in Section
  BY DEF Chain
<1>8. \/ /\ ~s.missing /\ ~t.missing /\ SectionBits(s) < SectionBits(t)
         /\ s.i1 - s.i0 < limit.max /\ grid.v[t.i0] >= s.mn /\ grid.v[t.i0] <= s.mx
         /\ list' = [list EXCEPT ![at].i1 = t.i0,
                                 ![at + 1] = Without(t, t.i0 + 1, t.i1, grid.v[t.i0])]
         /\ at' = at
      \/ /\ ~s.missing /\ ~t.missing /\ SectionBits(s) > SectionBits(t)
         /\ t.i1 - t.i0 < limit.max /\ grid.v[s.i1] >= t.mn /\ grid.v[s.i1] <= t.mx
         /\ list' = [list EXCEPT ![at] = Without(s, s.i0, s.i1 - 1, grid.v[s.i1]),
                                 ![at + 1].i0 = s.i1]
         /\ at' = at
      \/ at' = at + 1 /\ list' = list
  BY <1>3, <1>4 DEF Exchange
<1>9. CASE /\ ~s.missing /\ ~t.missing /\ SectionBits(s) < SectionBits(t)
           /\ s.i1 - s.i0 < limit.max /\ grid.v[t.i0] >= s.mn /\ grid.v[t.i0] <= s.mx
           /\ list' = [list EXCEPT ![at].i1 = t.i0,
                                   ![at + 1] = Without(t, t.i0 + 1, t.i1, grid.v[t.i0])]
           /\ at' = at
  <2>1. SectionBits(s) \in Nat /\ SectionBits(t) \in Nat /\ (SectionBits(t) > 0 => t.mn # t.mx)
    BY <1>6, <1>9, Ranges
  <2>2. t.mn # t.mx
    BY <1>9, <2>1
  <2>3. PICK x : x = [s EXCEPT !.i1 = t.i0]
    OBVIOUS
  <2>4. PICK y : y = Without(t, t.i0 + 1, t.i1, grid.v[t.i0])
    OBVIOUS
  <2>5. s.mn <= grid.v[t.i0]
    BY <1>9
  <2>6. /\ Exact(grid.v, x) /\ Exact(grid.v, y)
        /\ x.i0 = s.i0 /\ x.i1 = s.i1 + 1 /\ y.i0 = x.i1 + 1 /\ y.i1 = t.i1
    BY <1>5, <1>9, <2>2, <2>3, <2>4, <2>5, MovedLeft
  <2>7. x.i1 - x.i0 <= limit.max /\ y.i1 - y.i0 <= limit.max
    BY <1>5, <1>6, <1>9, <2>6
  <2>8. list' = Border(list, at, x, y)
    BY <1>2, <1>3, <1>4, <1>7, <1>9, <2>3, <2>4 DEF Border
  <2>9. Chain(grid.v, Border(list, at, x, y), limit.max)
    BY <1>1, <1>2, <1>3, <1>4, <2>6, <2>7, BorderChain
  <2> QED BY <1>9, <2>8, <2>9
<1>10. CASE /\ ~s.missing /\ ~t.missing /\ SectionBits(s) > SectionBits(t)
            /\ t.i1 - t.i0 < limit.max /\ grid.v[s.i1] >= t.mn /\ grid.v[s.i1] <= t.mx
            /\ list' = [list EXCEPT ![at] = Without(s, s.i0, s.i1 - 1, grid.v[s.i1]),
                                    ![at + 1].i0 = s.i1]
            /\ at' = at
  <2>1. SectionBits(s) \in Nat /\ SectionBits(t) \in Nat /\ (SectionBits(s) > 0 => s.mn # s.mx)
    BY <1>6, <1>10, Ranges
  <2>2. s.mn # s.mx
    BY <1>10, <2>1
  <2>3. PICK x : x = Without(s, s.i0, s.i1 - 1, grid.v[s.i1])
    OBVIOUS
  <2>4. PICK y : y = [t EXCEPT !.i0 = s.i1]
    OBVIOUS
  <2>5. t.mn <= grid.v[s.i1]
    BY <1>10
  <2>6. /\ Exact(grid.v, x) /\ Exact(grid.v, y)
        /\ x.i0 = s.i0 /\ x.i1 = s.i1 - 1 /\ y.i0 = x.i1 + 1 /\ y.i1 = t.i1
    BY <1>5, <1>10, <2>2, <2>3, <2>4, <2>5, MovedRight
  <2>7. x.i1 - x.i0 <= limit.max /\ y.i1 - y.i0 <= limit.max
    BY <1>5, <1>6, <1>10, <2>6
  <2>8. list' = Border(list, at, x, y)
    <3>1. list' = [list EXCEPT ![at] = x, ![at + 1].i0 = s.i1]
      BY <1>10, <2>3
    <3>2. at \in DOMAIN list /\ at + 1 \in DOMAIN list /\ at # at + 1
      BY <1>2, <1>7
    <3>3. PICK h : h = [list EXCEPT ![at] = x]
      OBVIOUS
    <3>4. h[at + 1] = t /\ DOMAIN h = DOMAIN list
      BY <1>4, <3>2, <3>3
    <3>5. [h EXCEPT ![at + 1].i0 = s.i1] = [h EXCEPT ![at + 1] = y]
      BY <2>4, <3>2, <3>4
    <3> QED BY <3>1, <3>3, <3>5 DEF Border
  <2>9. Chain(grid.v, Border(list, at, x, y), limit.max)
    BY <1>1, <1>2, <1>3, <1>4, <2>6, <2>7, BorderChain
  <2> QED BY <1>10, <2>8, <2>9
<1> QED BY <1>8, <1>9, <1>10

-----------------------------------------------------------------------------
(* The runs of equal values. *)

(* The runs r are those of the points up to e.                             *)
Upto(v, r, room, e) ==
  /\ r \in Seq(Section) /\ r # <<>> /\ r[1].i0 = 1 /\ r[Len(r)].i1 = e
  /\ \A j \in 1..Len(r) : /\ Exact(v, r[j]) /\ r[j].i1 - r[j].i0 <= room
                          /\ j > 1 => r[j].i0 = r[j - 1].i1 + 1

LEMMA SingleExact ==
  ASSUME Values(grid.v), NEW i \in 1..Len(grid.v)
  PROVE  Exact(grid.v, Single(i)) /\ Single(i).i0 = i /\ Single(i).i1 = i
<1> DEFINE v == grid.v
<1>1. PICK s : s = Single(i)
  OBVIOUS
<1>2. v[i] \in Int /\ Len(v) \in Nat
  BY ValuesAre
<1>3. /\ s \in Section /\ s.i0 = i /\ s.i1 = i /\ s.mn = v[i] /\ s.mx = v[i]
      /\ s.missing <=> v[i] = IntMax
  <2> DEFINE none == v[i] = IntMax
  <2>1. none \in BOOLEAN
    OBVIOUS
  <2>2. s = [mn |-> v[i], mx |-> v[i], missing |-> none, i0 |-> i, i1 |-> i]
    BY <1>1 DEF Single
  <2>3. i \in Int
    OBVIOUS
  <2>4. s.missing <=> none
    BY <2>2
  <2>5. s.i0 = i /\ s.i1 = i /\ s.mn = v[i] /\ s.mx = v[i]
    BY <2>2
  <2>6. s \in Section
    <3> HIDE DEF none, v
    <3> QED BY <1>2, <2>1, <2>2, <2>3 DEF Section
  <2> QED BY <2>4, <2>5, <2>6
<1>4. \A k : k \in s.i0..s.i1 <=> k = i
  BY <1>3
<1>5. Lowest(v, s)
  BY <1>2, <1>3, <1>4 DEF Lowest
<1>6. Highest(v, s)
  BY <1>2, <1>3, <1>4 DEF Highest
<1>7. 1 <= s.i0 /\ s.i0 <= s.i1 /\ s.i1 <= Len(v)
  BY <1>2, <1>3
<1> QED BY <1>1, <1>3, <1>4, <1>5, <1>6, <1>7 DEF Exact

LEMMA LongerRun ==
  ASSUME NEW v, Values(v), NEW s, Exact(v, s), NEW i \in 1..Len(v), i = s.i1 + 1, v[i] = s.mn
  PROVE  Exact(v, [s EXCEPT !.i1 = i])
<1>1. /\ s \in Section /\ s.i0 \in Int /\ s.i1 \in Int /\ 1 <= s.i0 /\ s.i0 <= s.i1
      /\ Len(v) \in Nat
      /\ s.missing <=> \E k \in s.i0..s.i1 : v[k] = IntMax
      /\ (\E k \in s.i0..s.i1 : v[k] = s.mn) /\ \A k \in s.i0..s.i1 : s.mn <= v[k]
  BY ValuesAre DEF Exact, Lowest, Section
<1>2. PICK u : u = [s EXCEPT !.i1 = i]
  OBVIOUS
<1>3. /\ u \in Section /\ u.mn = s.mn /\ u.mx = s.mx /\ u.missing = s.missing /\ u.i0 = s.i0
      /\ u.i1 = i
  <2>1. s \in Section /\ i \in Int
    BY <1>1
  <2> QED BY <1>2, <2>1 DEF Section
<1>4. \A k : k \in u.i0..u.i1 <=> k \in s.i0..s.i1 \/ k = i
  BY <1>1, <1>3
<1>5. u.missing <=> \E k \in u.i0..u.i1 : v[k] = IntMax
  BY <1>1, <1>3, <1>4
<1>6. s.mn <= v[i]
  <2>1. v[i] \in Int
    BY ValuesAre
  <2> QED BY <2>1
<1>7. Lowest(v, u)
  BY <1>1, <1>3, <1>4, <1>6 DEF Lowest
<1>8. Highest(v, u)
  <2>1. CASE s.mn = IntMax
    BY <1>3, <2>1 DEF Exact, Highest
  <2>2. CASE s.mn # IntMax
    <3>1. /\ s.mx # IntMax /\ \E k \in s.i0..s.i1 : v[k] = s.mx
          /\ \A k \in s.i0..s.i1 : v[k] # IntMax => v[k] <= s.mx
      BY <2>2 DEF Exact, Highest
    <3>2. v[i] <= s.mx
      BY <1>1, <2>2, <3>1
    <3> QED BY <1>3, <1>4, <2>2, <3>1, <3>2 DEF Highest
  <2> QED BY <2>1, <2>2
<1>9. 1 <= u.i0 /\ u.i0 <= u.i1 /\ u.i1 <= Len(v)
  BY <1>1, <1>3
<1> QED BY <1>2, <1>3, <1>5, <1>7, <1>8, <1>9 DEF Exact

LEMMA FirstPoint ==
  ASSUME Values(grid.v), limit.max \in Nat \ {0}
  PROVE  Upto(grid.v, AddPoint(<<>>, 1), limit.max - 1, 1)
<1>1. 1 \in 1..Len(grid.v)
  BY ValuesAre
<1>2. PICK s : s = Single(1)
  OBVIOUS
<1>3. Exact(grid.v, s) /\ s.i0 = 1 /\ s.i1 = 1
  BY <1>1, <1>2, SingleExact
<1>4. s \in Section
  BY <1>3 DEF Exact
<1>5. AddPoint(<<>>, 1) = <<s>>
  BY <1>2 DEF AddPoint
<1>6. <<s>> \in Seq(Section) /\ <<s>> # <<>> /\ Len(<<s>>) = 1 /\ <<s>>[1] = s
  BY <1>4
<1>7. s.i1 - s.i0 <= limit.max - 1
  BY <1>3
<1>8. \A j \in 1..1 : j = 1
  OBVIOUS
<1>9. PICK r : r = <<s>>
  OBVIOUS
<1>10. r \in Seq(Section) /\ r # <<>> /\ Len(r) = 1 /\ r[1] = s
  BY <1>6, <1>9
<1>11. \A j \in 1..Len(r) : /\ Exact(grid.v, r[j]) /\ r[j].i1 - r[j].i0 <= limit.max - 1
                            /\ j > 1 => r[j].i0 = r[j - 1].i1 + 1
  BY <1>3, <1>7, <1>8, <1>10
<1>12. r[1].i0 = 1 /\ r[Len(r)].i1 = 1
  BY <1>3, <1>10
<1>13. Upto(grid.v, r, limit.max - 1, 1)
  BY <1>10, <1>11, <1>12 DEF Upto
<1> QED BY <1>5, <1>9, <1>13

LEMMA NextPoint ==
  ASSUME Values(grid.v), limit.max \in Nat \ {0}, NEW i \in 2..Len(grid.v), NEW r,
         Upto(grid.v, r, limit.max - 1, i - 1)
  PROVE  Upto(grid.v, AddPoint(r, i), limit.max - 1, i)
<1> DEFINE v == grid.v
           room == limit.max - 1
<1>1. /\ r \in Seq(Section) /\ r # <<>> /\ r[1].i0 = 1 /\ r[Len(r)].i1 = i - 1
      /\ \A j \in 1..Len(r) : /\ Exact(v, r[j]) /\ r[j].i1 - r[j].i0 <= room
                              /\ j > 1 => r[j].i0 = r[j - 1].i1 + 1
  BY DEF Upto
<1>2. PICK n \in Nat \ {0} : n = Len(r)
  BY <1>1
<1>3. PICK s : s = r[n]
  OBVIOUS
<1>4. /\ Exact(v, s) /\ s.i1 = i - 1 /\ Last(r) = s /\ s.i0 \in Int
      /\ s.i1 - s.i0 <= room
  BY <1>1, <1>2, <1>3 DEF Last, Exact, Section
<1>5. i \in 1..Len(v) /\ i \in Int /\ i = s.i1 + 1
  BY <1>4
<1>6. room \in Int /\ room = limit.max - 1
  OBVIOUS
<1> HIDE DEF room, v
<1>7. CASE i - s.i0 < limit.max /\ v[i] = s.mn
  <2>1. PICK u : u = [s EXCEPT !.i1 = i]
    OBVIOUS
  <2>2. Exact(v, u)
    BY <1>4, <1>5, <1>7, <2>1, LongerRun DEF v
  <2>3. u.i0 = s.i0 /\ u.i1 = i /\ u \in Section
    BY <1>4, <2>1, <2>2 DEF Exact, Section
  <2>4. PICK m : m = AddPoint(r, i)
    OBVIOUS
  <2>5. m = [r EXCEPT ![Len(r)].i1 = i]
    BY <1>1, <1>4, <1>7, <2>4 DEF AddPoint, v
  <2>6. DOMAIN r = 1..n /\ n \in 1..n /\ \A j \in 1..n : r[j] \in Section
    BY <1>1, <1>2
  <2>7. m = [r EXCEPT ![n] = u]
    BY <1>2, <1>3, <2>1, <2>5, <2>6
  <2>8. m \in [1..n -> Section] /\ m[n] = u /\ \A j \in 1..n : j # n => m[j] = r[j]
    BY <2>3, <2>6, <2>7
  <2>9. m \in Seq(Section) /\ Len(m) = n
    BY <2>8
  <2>10. u.i1 - u.i0 <= room
    BY <1>4, <1>5, <1>6, <1>7, <2>3
  <2>11. m[1].i0 = 1
    BY <1>1, <1>2, <1>3, <2>3, <2>8
  <2>12. m # <<>>
    BY <2>9
  <2>13. ASSUME NEW j \in 1..n
         PROVE  /\ Exact(v, m[j]) /\ m[j].i1 - m[j].i0 <= room
                /\ j > 1 => m[j].i0 = m[j - 1].i1 + 1
    <3>1. j > 1 => j - 1 \in 1..n /\ j - 1 # n
      OBVIOUS
    <3>2. CASE j = n
      <4>1. j > 1 => s.i0 = r[j - 1].i1 + 1 /\ m[j - 1] = r[j - 1]
        BY <1>1, <1>2, <1>3, <2>8, <3>1, <3>2
      <4> QED BY <2>2, <2>3, <2>8, <2>10, <3>2, <4>1
    <3>3. CASE j # n
      <4>1. m[j] = r[j] /\ (j > 1 => m[j - 1] = r[j - 1])
        BY <2>8, <3>1, <3>3
      <4> QED BY <1>1, <1>2, <4>1
    <3> QED BY <3>2, <3>3
  <2>14. m[n].i1 = i
    BY <2>3, <2>8
  <2>15. Upto(v, m, room, i)
    BY <2>9, <2>11, <2>12, <2>13, <2>14 DEF Upto
  <2> QED BY <1>6, <2>4, <2>15 DEF v
<1>8. CASE ~(i - s.i0 < limit.max /\ v[i] = s.mn)
  <2>1. PICK u : u = Single(i)
    OBVIOUS
  <2>2. Exact(v, u) /\ u.i0 = i /\ u.i1 = i
    BY <1>5, <2>1, SingleExact DEF v
  <2>3. u \in Section
    BY <2>2 DEF Exact
  <2>4. PICK m : m = AddPoint(r, i)
    OBVIOUS
  <2>5. m = Append(r, u)
    BY <1>1, <1>4, <1>8, <2>1, <2>4 DEF AddPoint, v
  <2>6. /\ m \in Seq(Section) /\ Len(m) = n + 1 /\ m[n + 1] = u
        /\ \A j \in 1..n : m[j] = r[j]
    BY <1>1, <1>2, <2>3, <2>5
  <2>7. m[1].i0 = 1 /\ m # <<>>
    BY <1>1, <1>2, <2>6
  <2>8. u.i1 - u.i0 <= room
    BY <1>5, <1>6, <2>2
  <2>9. ASSUME NEW j \in 1..n + 1
        PROVE  /\ Exact(v, m[j]) /\ m[j].i1 - m[j].i0 <= room
               /\ j > 1 => m[j].i0 = m[j - 1].i1 + 1
    <3>1. CASE j = n + 1
      <4>1. m[j] = u /\ j - 1 = n /\ m[n] = r[n]
        BY <2>6, <3>1
      <4> QED BY <1>3, <1>5, <2>2, <2>8, <4>1
    <3>2. CASE j # n + 1
      <4>1. j \in 1..n /\ (j > 1 => j - 1 \in 1..n)
        BY <3>2
      <4>2. m[j] = r[j] /\ (j > 1 => m[j - 1] = r[j - 1])
        BY <2>6, <4>1
      <4> QED BY <1>1, <1>2, <4>1, <4>2
    <3> QED BY <3>1, <3>2
  <2>10. Upto(v, m, room, i)
    BY <2>2, <2>6, <2>7, <2>9 DEF Upto
  <2> QED BY <1>6, <2>4, <2>10 DEF v
<1> QED BY <1>7, <1>8

LEMMA RunsGrow ==
  ASSUME Values(grid.v), limit.max \in Nat \ {0}, NEW g, g[0] = <<>>,
         \A p \in 1..Len(grid.v) : AddPoint(g[p - 1], p) \in Seq(Section)
                                     => g[p] = AddPoint(g[p - 1], p)
  PROVE  \A p \in 1..Len(grid.v) : Upto(grid.v, g[p], limit.max - 1, p)
<1> DEFINE S == {p \in Nat : p \in 1..Len(grid.v) => Upto(grid.v, g[p], limit.max - 1, p)}
<1>1. Len(grid.v) \in Nat \ {0}
  BY ValuesAre
<1>2. 0 \in S
  BY <1>1
<1>3. ASSUME NEW p \in Nat, p \in S PROVE p + 1 \in S
  <2>1. SUFFICES ASSUME p + 1 \in 1..Len(grid.v)
                 PROVE  Upto(grid.v, g[p + 1], limit.max - 1, p + 1)
    OBVIOUS
  <2>2. PICK q \in 1..Len(grid.v) : q = p + 1
    BY <2>1
  <2>3. q - 1 = p
    BY <2>2
  <2>4. Upto(grid.v, AddPoint(g[p], q), limit.max - 1, q)
    <3>1. CASE p = 0
      <4>1. g[p] = <<>> /\ q = 1
        BY <2>2, <3>1
      <4> QED BY <4>1, FirstPoint
    <3>2. CASE p # 0
      <4>1. p \in 1..Len(grid.v) /\ q \in 2..Len(grid.v)
        BY <1>1, <2>2, <3>2
      <4>2. Upto(grid.v, g[p], limit.max - 1, q - 1)
        BY <1>3, <2>3, <4>1
      <4> QED BY <4>1, <4>2, NextPoint
    <3> QED BY <3>1, <3>2
  <2>5. AddPoint(g[q - 1], q) \in Seq(Section)
    BY <2>3, <2>4 DEF Upto
  <2>6. g[q] = AddPoint(g[p], q)
    BY <2>3, <2>5
  <2> QED BY <2>2, <2>4, <2>6
<1>4. \A p \in Nat : p \in S
  <2> HIDE DEF S
  <2> QED BY <1>2, <1>3, SetInduction
<1> QED BY <1>4

LEMMA RunsChain ==
  ASSUME Values(grid.v), limit.max \in Nat \ {0}
  PROVE  Chain(grid.v, Runs, limit.max - 1)
<1> DEFINE X == Seq(Section)
           Solves(f) == f = [i \in 0..Len(grid.v) |-> IF i = 0 THEN <<>> ELSE AddPoint(f[i - 1], i)]
           Added(p, r) == IF AddPoint(r, p) \in X THEN AddPoint(r, p) ELSE r
           taken == [p \in Nat |-> [r \in X |-> Added(p, r)]]
<1>1. PICK n \in Nat \ {0} : n = Len(grid.v)
  BY ValuesAre
<1>2. Runs = (CHOOSE f : Solves(f))[n]
  BY <1>1 DEF Runs
<1>3. taken \in [Nat -> [X -> X]]
  OBVIOUS
<1>4. PICK g : /\ g \in [0..n -> X] /\ g[0] = <<>>
               /\ \A p \in 1..n : g[p] = taken[p][g[p - 1]]
  <2>1. <<>> \in X
    OBVIOUS
  <2> HIDE DEF X, taken
  <2>2. Steps(X, <<>>, taken, n)
    BY <1>3, <2>1 DEF Steps
  <2>3. PICK g : Takes(g, X, <<>>, taken, n)
    BY <2>2, StepFunction
  <2> QED BY <2>3 DEF Takes
<1>5. \A p \in 1..n : g[p] = Added(p, g[p - 1])
  <2>1. ASSUME NEW p \in 1..n PROVE g[p] = Added(p, g[p - 1])
    <3>1. p \in Nat /\ g[p - 1] \in X
      BY <1>4
    <3> HIDE DEF X, Added
    <3> QED BY <1>4, <3>1
  <2> QED BY <2>1
<1>6. \A p \in 1..n : Upto(grid.v, g[p], limit.max - 1, p)
  <2>1. \A p \in 1..Len(grid.v) : AddPoint(g[p - 1], p) \in Seq(Section)
                                     => g[p] = AddPoint(g[p - 1], p)
    BY <1>1, <1>5
  <2> QED BY <1>1, <1>4, <2>1, RunsGrow
<1>7. \A p \in 1..n : g[p] = AddPoint(g[p - 1], p)
  <2>1. ASSUME NEW p \in 1..n PROVE AddPoint(g[p - 1], p) \in X
    <3>1. CASE p = 1
      <4>1. g[p - 1] = <<>>
        BY <1>4, <3>1
      <4>2. Upto(grid.v, AddPoint(<<>>, 1), limit.max - 1, 1)
        BY FirstPoint
      <4> QED BY <3>1, <4>1, <4>2 DEF Upto
    <3>2. CASE p # 1
      <4>1. p \in 2..Len(grid.v) /\ p - 1 \in 1..n
        BY <1>1, <3>2
      <4>2. Upto(grid.v, AddPoint(g[p - 1], p), limit.max - 1, p)
        BY <1>6, <4>1, NextPoint
      <4> QED BY <4>2 DEF Upto
    <3> QED BY <3>1, <3>2
  <2> HIDE DEF X
  <2> QED BY <1>5, <2>1
<1>8. Solves(g)
  <2>1. \A p \in 0..n : g[p] = IF p = 0 THEN <<>> ELSE AddPoint(g[p - 1], p)
    BY <1>4, <1>7
  <2>2. 0..Len(grid.v) = 0..n
    BY <1>1
  <2> HIDE DEF X
  <2> QED BY <1>4, <2>1, <2>2
<1>9. PICK w : w = CHOOSE f : Solves(f)
  OBVIOUS
<1>10. Solves(w)
  <2> HIDE DEF Solves
  <2> QED BY <1>8, <1>9
<1>11. w[0] = <<>> /\ \A p \in 1..n : w[p] = AddPoint(w[p - 1], p)
  <2>1. w[0] = <<>>
    BY <1>1, <1>10
  <2>2. ASSUME NEW p \in 1..n PROVE w[p] = AddPoint(w[p - 1], p)
    <3>1. p \in 0..Len(grid.v) /\ p # 0
      BY <1>1
    <3> QED BY <1>10, <3>1
  <2> QED BY <2>1, <2>2
<1>12. Upto(grid.v, w[n], limit.max - 1, n)
  <2>1. n \in 1..Len(grid.v)
    BY <1>1
  <2>2. \A p \in 1..Len(grid.v) : w[p] = AddPoint(w[p - 1], p)
    BY <1>1, <1>11
  <2> QED BY <1>11, <2>1, <2>2, RunsGrow
<1> QED BY <1>1, <1>2, <1>9, <1>12 DEF Upto, Chain

-----------------------------------------------------------------------------
(* The steps of complex_pk.c. *)

(* The most that the last point of a section may be after the first.       *)
Longest == IF label \in {"exchange", "last", "sections"} THEN limit.max ELSE limit.max - 1

(* What is taken back was made for half the length.                        *)
Half == (limit.max - 1) \div 2

SectionsInv ==
  (step = "groups" /\ job.by = "complex") =>
    /\ grid.has_undef \in 0..1 /\ limit.max \in Nat \ {0}
    /\ label # "runs" => at \in Nat \ {0} /\ Chain(grid.v, list, Longest)
    /\ label = "longer" => Half \in Nat \ {0} /\ Chain(grid.v, backup.list, Half - 1)

(* The guard and what it gives, before a step of complex_pk.c.             *)
InRuns == /\ Values(grid.v) /\ grid.has_undef \in 0..1 /\ limit.max \in Nat \ {0}

Chained == at \in Nat \ {0} /\ Chain(grid.v, list, Longest)

LEMMA JoinKeeps ==
  ASSUME Values(grid.v), limit.max \in Nat \ {0}, NEW room \in Int, limit.max - 1 <= room,
         Chain(grid.v, list, room), NEW i \in Nat \ {0}, SavingAt(i) >= 0
  PROVE  Chain(grid.v, JoinAt(i), room)
<1>1. list \in Seq(Section) /\ Len(list) \in Nat
  BY DEF Chain
<1>2. i < Len(list)
  BY DEF SavingAt
<1>3. i \in 1..Len(list) - 1
  BY <1>1, <1>2
<1>4. PICK s : s = list[i]
  OBVIOUS
<1>5. PICK t : t = list[i + 1]
  OBVIOUS
<1>6. s \in Section /\ t \in Section
  BY <1>1, <1>3, <1>4, <1>5
<1>7. s.i0 \in Int /\ t.i1 \in Int
  BY <1>6 DEF Section
<1>8. Saving(s, t) >= 0
  BY <1>2, <1>4, <1>5 DEF SavingAt
<1>9. t.i1 - s.i0 < limit.max
  BY <1>8 DEF Saving
<1>10. list[i + 1].i1 - list[i].i0 <= room
  BY <1>4, <1>5, <1>7, <1>9
<1>11. Chain(grid.v, Spliced(list, i, Joined(list[i], list[i + 1])), room)
  BY <1>3, <1>10, JoinedChain
<1> QED BY <1>11 DEF JoinAt, Spliced

LEMMA MergeKeeps ==
  ASSUME InRuns, Chained, MergeStep
  PROVE  at' \in Nat \ {0} /\ Chain(grid.v, list', Longest)
<1>1. Values(grid.v) /\ limit.max \in Nat \ {0} /\ Chain(grid.v, list, Longest)
  BY DEF InRuns, Chained
<1>2. Longest \in Int /\ limit.max - 1 <= Longest
  BY <1>1 DEF Longest
<1>3. at \in Nat \ {0} /\ at + 1 \in Nat \ {0}
  BY DEF Chained
<1>4. CASE SavingAt(at) >= 0 /\ list' = JoinAt(at) /\ at' = Max({1, at - 1})
  <2>1. Chain(grid.v, JoinAt(at), Longest)
    BY <1>1, <1>2, <1>3, <1>4, JoinKeeps
  <2>2. Max({1, at - 1}) \in {1, at - 1} /\ Max({1, at - 1}) >= 1
    <3>1. PICK places : places = {1, at - 1}
      OBVIOUS
    <3>2. places \subseteq Int /\ 1 \in places
      BY <1>3, <3>1
    <3>3. \E m \in places : \A y \in places : y <= m
      BY <1>3, <3>1
    <3>4. Max(places) \in places /\ \A y \in places : y <= Max(places)
      BY <3>2, <3>3, MaxIs
    <3>5. Max(places) >= 1
      BY <3>2, <3>4
    <3> QED BY <3>1, <3>4, <3>5
  <2>3. Max({1, at - 1}) \in Nat \ {0}
    BY <1>3, <2>2
  <2> QED BY <1>4, <2>1, <2>3
<1>5. CASE SavingAt(at + 1) >= 0 /\ list' = JoinAt(at + 1) /\ at' = at
  <2>1. Chain(grid.v, JoinAt(at + 1), Longest)
    BY <1>1, <1>2, <1>3, <1>5, JoinKeeps
  <2> QED BY <1>3, <1>5, <2>1
<1>6. CASE at' = at + 1 /\ list' = list
  BY <1>1, <1>3, <1>6
<1> QED BY <1>4, <1>5, <1>6 DEF MergeStep

LEMMA ExchangeKeeps ==
  ASSUME InRuns, Chained, Exchange
  PROVE  at' \in Nat \ {0} /\ Chain(grid.v, list', limit.max)
<1>1. Longest = limit.max
  BY DEF Exchange, Longest
<1>2. Chain(grid.v, list, limit.max) /\ at \in Nat \ {0} /\ limit.max \in Nat
  BY <1>1 DEF Chained, InRuns
<1> QED BY <1>2, ExchangeChain DEF InRuns

LEMMA SectionsStep ==
  ASSUME SectionsInv, InRuns, step = "groups", job.by = "complex", Sections, job' = job
  PROVE  SectionsInv'
<1>1. /\ grid.has_undef \in 0..1 /\ limit.max \in Nat \ {0} /\ Values(grid.v)
      /\ label # "runs" => Chained
      /\ label = "longer" => Half \in Nat \ {0} /\ Chain(grid.v, backup.list, Half - 1)
  BY DEF SectionsInv, InRuns, Chained
<1>2. limit.max - 1 \in Int /\ limit.max \in Int /\ limit.max - 1 <= limit.max
  BY <1>1
<1>3. CASE MakeRuns
  <2>1. Chain(grid.v, list', limit.max - 1)
    BY <1>1, <1>3, RunsChain DEF MakeRuns
  <2>2. /\ at' = 1 /\ grid' = grid /\ limit' = limit
        /\ label' \in {"grow", "try"}
    BY <1>3 DEF MakeRuns
  <2>3. Longest' = limit.max - 1
    BY <2>2 DEF Longest
  <2> QED BY <1>1, <2>1, <2>2, <2>3 DEF SectionsInv
<1>4. CASE MergeStep
  <2>1. label # "runs" /\ Chained
    BY <1>1, <1>4 DEF MergeStep
  <2>2. at' \in Nat \ {0} /\ Chain(grid.v, list', Longest)
    BY <1>4, <2>1, MergeKeeps
  <2>3. grid' = grid /\ label' = label /\ limit' = limit /\ backup' = backup
    BY <1>4 DEF MergeStep
  <2>4. Longest' = Longest /\ Half' = Half
    BY <2>3 DEF Longest, Half
  <2> QED BY <1>1, <2>2, <2>3, <2>4 DEF SectionsInv
<1>5. CASE Grown
  <2>1. /\ at' = 1 /\ grid' = grid /\ limit' = limit /\ list' = list
        /\ label = "grow" /\ label' \in {"grow", "try"}
    BY <1>5 DEF Grown
  <2>2. Longest' = Longest
    BY <2>1 DEF Longest
  <2> QED BY <1>1, <2>1, <2>2 DEF SectionsInv, Chained
<1>6. CASE TryLonger
  <2>1. /\ at' = 1 /\ grid' = grid /\ list' = list /\ label = "try" /\ label' = "longer"
        /\ limit'.max = 2 * limit.max + 1 /\ backup'.list = list
    BY <1>6 DEF TryLonger
  <2>2. Chain(grid.v, list, limit.max - 1)
    BY <1>1, <2>1 DEF Chained, Longest
  <2>3. limit'.max \in Nat \ {0} /\ Half' = limit.max /\ Longest' = limit'.max - 1
        /\ limit.max - 1 <= limit'.max - 1 /\ limit'.max - 1 \in Int
    BY <1>1, <2>1 DEF Half, Longest
  <2>4. Chain(grid.v, list, limit'.max - 1)
    BY <1>2, <2>2, <2>3, LongerRoom
  <2> QED BY <1>1, <2>1, <2>2, <2>3, <2>4 DEF SectionsInv
<1>7. CASE Longer
  <2>1. /\ at' = 1 /\ grid' = grid /\ label = "longer" /\ label' \in {"try", "exchange"}
    BY <1>7 DEF Longer
  <2>2. Chain(grid.v, list, limit.max - 1) /\ Half \in Nat \ {0}
        /\ Chain(grid.v, backup.list, Half - 1)
    BY <1>1, <2>1 DEF Chained, Longest
  <2>3. limit'.max \in Nat \ {0} /\ Chain(grid.v, list', limit'.max - 1)
    <3>1. CASE size_all > backup.size
      <4>1. list' = backup.list /\ limit'.max = Half
        BY <1>7, <3>1 DEF Longer, Half
      <4> QED BY <2>2, <4>1
    <3>2. CASE ~(size_all > backup.size)
      <4>1. list' = list /\ limit' = limit
        BY <1>7, <3>2 DEF Longer
      <4> QED BY <1>1, <2>2, <4>1
    <3> QED BY <3>1, <3>2
  <2>4. Chain(grid.v, list', limit'.max)
    <3>1. limit'.max - 1 \in Int /\ limit'.max \in Int /\ limit'.max - 1 <= limit'.max
      BY <2>3
    <3> QED BY <2>3, <3>1, LongerRoom
  <2>5. Longest' \in {limit'.max, limit'.max - 1}
    BY DEF Longest
  <2>6. Chain(grid.v, list', Longest')
    BY <2>3, <2>4, <2>5
  <2> QED BY <1>1, <2>1, <2>3, <2>6 DEF SectionsInv
<1>8. CASE Exchange
  <2>1. label = "exchange" /\ Chained
    BY <1>1, <1>8 DEF Exchange
  <2>2. at' \in Nat \ {0} /\ Chain(grid.v, list', limit.max)
    BY <1>8, <2>1, ExchangeKeeps
  <2>3. grid' = grid /\ label' = label /\ limit' = limit
    BY <1>8 DEF Exchange
  <2>4. Longest' = limit.max
    BY <2>1, <2>3 DEF Longest
  <2> QED BY <1>1, <2>1, <2>2, <2>3, <2>4 DEF SectionsInv
<1>9. CASE Exchanged
  <2>1. /\ at' = 1 /\ grid' = grid /\ limit' = limit /\ list' = list
        /\ label = "exchange" /\ label' = "last"
    BY <1>9 DEF Exchanged
  <2>2. Longest' = Longest
    BY <2>1 DEF Longest
  <2> QED BY <1>1, <2>1, <2>2 DEF SectionsInv, Chained
<1>10. CASE LastMerged
  <2>1. /\ at' = at /\ grid' = grid /\ limit' = limit /\ list' = list
        /\ label = "last" /\ label' = "sections"
    BY <1>10 DEF LastMerged
  <2>2. Longest' = Longest
    BY <2>1 DEF Longest
  <2> QED BY <1>1, <2>1, <2>2 DEF SectionsInv, Chained
<1> QED BY <1>3, <1>4, <1>5, <1>6, <1>7, <1>8, <1>9, <1>10 DEF Sections

LEMMA CodableIs ==
  ASSUME Codable, SectionsInv, step = "groups", job.by = "complex"
  PROVE  InRuns
<1>1. Values(grid.v)
  BY DEF Codable, Values
<1> QED BY <1>1 DEF SectionsInv, InRuns

LEMMA SectionsStart == ASSUME Init PROVE SectionsInv
BY DEF Init, SectionsInv

LEMMA SectionsNext ==
  ASSUME SectionsInv, Codable, [Next]_vars
  PROVE  SectionsInv'
<1>1. CASE StartSections
  <2>1. CASE step' = "groups"
    <3>1. grid' = InPlace /\ label' = "runs" /\ limit' = [max |-> LenSecMax, bits |-> LenBits]
      BY <1>1, <2>1 DEF StartSections
    <3>2. grid'.has_undef \in 0..1 /\ limit'.max \in Nat \ {0}
      BY <3>1, SectionAssumption DEF InPlace
    <3> QED BY <3>1, <3>2 DEF SectionsInv
  <2>2. CASE step' # "groups"
    BY <2>2 DEF SectionsInv
  <2> QED BY <2>1, <2>2
<1>2. CASE InSections
  <2>1. /\ step = "groups" /\ job.by = "complex" /\ Sections /\ job' = job
    BY <1>2 DEF InSections
  <2> QED BY <2>1, CodableIs, SectionsStep
<1>3. CASE CallPackGp \/ InPackGp
  <2>1. job' = job /\ job.by = "g2"
    BY <1>3 DEF CallPackGp, InPackGp
  <2> QED BY <2>1 DEF SectionsInv
<1>4. CASE WriteGroups \/ WriteSections \/ PackSimple \/ Read
  <2>1. step' \in {"read", "end"}
    BY <1>4 DEF WriteGroups, WriteSections, PackSimple, Read
  <2> QED BY <2>1 DEF SectionsInv
<1>5. CASE End \/ UNCHANGED vars
  <2>1. UNCHANGED <<sectionVars, job, step>>
    BY <1>5 DEF End, vars
  <2> QED BY <2>1 DEF SectionsInv, sectionVars, Longest, Half
<1> QED BY <1>1, <1>2, <1>3, <1>4, <1>5 DEF Next

LEMMA SectionsMean ==
  ASSUME SectionsInv, Codable
  PROVE  SectionsExact
<1>1. SUFFICES ASSUME step = "groups", job.by = "complex", label # "runs"
               PROVE  SectionsExact
  BY DEF SectionsExact
<1>2. Values(grid.v) /\ limit.max \in Nat \ {0} /\ Chain(grid.v, list, Longest)
  BY <1>1, CodableIs DEF SectionsInv, InRuns
<1>3. PICK n \in Nat \ {0} : n = Len(list) /\ DOMAIN list = 1..n
  BY <1>2 DEF Chain
<1>4. list[1].i0 = 1 /\ Last(list).i1 = Len(grid.v)
  BY <1>2 DEF Chain, Last
<1>5. ASSUME NEW j \in 1..n
      PROVE  /\ j > 1 => list[j].i0 = list[j - 1].i1 + 1
             /\ Exact(grid.v, list[j]) /\ list[j].i1 - list[j].i0 <= Longest
  BY <1>2, <1>3 DEF Chain
<1>6. ASSUME NEW j \in 1..n
      PROVE  list[j].i1 - list[j].i0 \in 0..Longest
  <2>1. PICK s : s = list[j]
    OBVIOUS
  <2>2. s.i0 \in Int /\ s.i1 \in Int /\ s.i0 <= s.i1 /\ s.i1 - s.i0 <= Longest
    BY <1>5, <2>1 DEF Exact, Section
  <2>3. Longest \in Int
    BY <1>2 DEF Longest
  <2> QED BY <2>1, <2>2, <2>3
<1>7. ASSUME NEW j \in 1..n
      PROVE  LET s == list[j]
                 values == {grid.v[i] : i \in s.i0..s.i1}
             IN /\ s.missing <=> IntMax \in values
                /\ s.mn = Min(values)
                /\ s.mx = IF values = {IntMax} THEN IntMax ELSE Max(values \ {IntMax})
  <2>1. PICK u : u = list[j]
    OBVIOUS
  <2>2. PICK v : v = grid.v
    OBVIOUS
  <2>3. Values(v) /\ Exact(v, u)
    BY <1>2, <1>5, <2>1, <2>2
  <2> DEFINE values == {v[i] : i \in u.i0..u.i1}
  <2>4. /\ u.missing <=> IntMax \in values
        /\ u.mn = Min(values)
        /\ u.mx = IF values = {IntMax} THEN IntMax ELSE Max(values \ {IntMax})
    BY ONLY <2>3, ExactIs
  <2> QED BY <2>1, <2>2, <2>4
<1>8. \A j \in DOMAIN list :
         LET s == list[j]
             values == {grid.v[i] : i \in s.i0..s.i1}
         IN /\ j > 1 => s.i0 = list[j - 1].i1 + 1
            /\ s.i1 - s.i0 \in 0..(IF label \in {"exchange", "last", "sections"}
                                  THEN limit.max ELSE limit.max - 1)
            /\ s.missing <=> IntMax \in values
            /\ s.mn = Min(values)
            /\ s.mx = IF values = {IntMax} THEN IntMax ELSE Max(values \ {IntMax})
  BY <1>3, <1>5, <1>6, <1>7 DEF Longest
<1> QED BY <1>4, <1>8 DEF SectionsExact

(* As long as find_nbits is given what it can count, the sections that     *)
(* complex_pk.c makes, merges, takes back and moves the borders of are     *)
(* those of all points, with exact extremes and of no more than the length *)
(* that it allows: for all fields, limits and widths, whatever a section   *)
(* costs.                                                                  *)
THEOREM SectionsAreExact == Spec /\ []Codable => []SectionsExact
<1>1. Init => SectionsInv
  BY SectionsStart
<1>2. SectionsInv /\ Codable /\ [Next]_vars => SectionsInv'
  BY SectionsNext
<1>3. SectionsInv /\ Codable => SectionsExact
  BY SectionsMean
<1> QED BY <1>1, <1>2, <1>3, PTL DEF Spec

-----------------------------------------------------------------------------
(* Totals of the lengths. *)

(* A running sum: what Total makes. *)
Adds(u, s, n) ==
  /\ u \in [0..n -> Int] /\ u[0] = 0
  /\ \A i \in 1..n : u[i] = u[i - 1] + s[i]

LEMMA TotalIs ==
  ASSUME NEW s, NEW n \in Nat, Len(s) = n, \A i \in 1..n : s[i] \in Int
  PROVE  \E u : Adds(u, s, n) /\ Total(s) = u[n]
<1> DEFINE Solves(u) == u = [i \in 0..n |-> IF i = 0 THEN 0 ELSE u[i - 1] + s[i]]
           more == [i \in Nat |-> [x \in Int |-> IF i \in 1..n THEN x + s[i] ELSE x]]
<1>1. Steps(Int, 0, more, n)
  BY DEF Steps
<1>2. PICK g : Takes(g, Int, 0, more, n)
  <2> HIDE DEF more
  <2> QED BY <1>1, StepFunction
<1>3. g \in [0..n -> Int] /\ g[0] = 0
  BY <1>2 DEF Takes
<1>4. ASSUME NEW i \in 1..n PROVE g[i] = g[i - 1] + s[i]
  <2>1. i \in Nat /\ g[i - 1] \in Int
    BY <1>3
  <2>2. g[i] = more[i][g[i - 1]]
    <3> HIDE DEF more
    <3> QED BY <1>2 DEF Takes
  <2> QED BY <2>1, <2>2
<1>5. Solves(g)
  BY <1>3, <1>4
<1>6. PICK w : w = (CHOOSE u : Solves(u))
  OBVIOUS
<1>7. Solves(w)
  <2> HIDE DEF Solves
  <2> QED BY <1>5, <1>6
<1>8. Total(s) = w[n]
  BY <1>6 DEF Total
<1>9. w[0] = 0 /\ \A i \in 1..n : w[i] = w[i - 1] + s[i]
  <2>1. ASSUME NEW i \in 1..n PROVE w[i] = w[i - 1] + s[i]
    <3>1. i \in 0..n /\ i # 0
      OBVIOUS
    <3> QED BY <1>7, <3>1
  <2>2. 0 \in 0..n
    OBVIOUS
  <2> QED BY <1>7, <2>1, <2>2
<1>10. \A i \in 0..n : w[i] = g[i]
  <2>1. PICK lo \in Int, hi \in Int : lo = 0 /\ hi = n
    OBVIOUS
  <2>2. w[lo] = g[lo] /\ \A i \in lo + 1..hi : w[i - 1] = g[i - 1] => w[i] = g[i]
    BY <1>3, <1>4, <1>9, <2>1
  <2>3. \A i \in lo..hi : w[i] = g[i]
    BY ONLY <2>2, SameSteps, lo \in Int, hi \in Int
  <2> QED BY <2>1, <2>3
<1> QED BY <1>3, <1>4, <1>8, <1>10 DEF Adds

LEMMA TotalBy ==
  ASSUME NEW s, NEW n \in Nat, Len(s) = n, \A i \in 1..n : s[i] \in Int,
         NEW f, f[0] = 0, \A i \in 1..n : f[i] = f[i - 1] + s[i]
  PROVE  Total(s) = f[n]
<1>1. PICK u : Adds(u, s, n) /\ Total(s) = u[n]
  BY TotalIs
<1>2. PICK lo \in Int, hi \in Int : lo = 0 /\ hi = n
  OBVIOUS
<1>3. u[lo] = f[lo] /\ \A i \in lo + 1..hi : u[i - 1] = f[i - 1] => u[i] = f[i]
  BY <1>1, <1>2 DEF Adds
<1>4. \A i \in lo..hi : u[i] = f[i]
  BY ONLY <1>3, SameSteps, lo \in Int, hi \in Int
<1> QED BY <1>1, <1>2, <1>4

LEMMA TotalOfBoth ==
  ASSUME NEW r \in Seq(Int), NEW q \in Seq(Int)
  PROVE  Total(r) \in Int /\ Total(r \o q) = Total(r) + Total(q)
<1>1. PICK m \in Nat, n \in Nat : m = Len(r) /\ n = Len(q)
  OBVIOUS
<1>2. (\A i \in 1..m : r[i] \in Int) /\ (\A i \in 1..n : q[i] \in Int)
  BY <1>1
<1>3. PICK u : Adds(u, r, m) /\ Total(r) = u[m]
  BY <1>1, <1>2, TotalIs
<1>4. PICK v : Adds(v, q, n) /\ Total(q) = v[n]
  BY <1>1, <1>2, TotalIs
<1>5. PICK s : s = r \o q
  OBVIOUS
<1>6. /\ Len(s) = m + n /\ (\A i \in 1..m : s[i] = r[i])
      /\ \A i \in 1..n : s[m + i] = q[i]
  BY <1>1, <1>5, ConcatIs
<1> DEFINE f == [i \in 0..m + n |-> IF i <= m THEN u[i] ELSE u[m] + v[i - m]]
<1>7. u[m] \in Int /\ v[n] \in Int /\ f[0] = 0
  BY <1>3, <1>4 DEF Adds
<1>8. ASSUME NEW i \in 1..m + n PROVE s[i] \in Int /\ f[i] = f[i - 1] + s[i]
  <2>1. i \in 0..m + n /\ i - 1 \in 0..m + n
    OBVIOUS
  <2>2. CASE i <= m
    <3>1. i \in 1..m /\ i - 1 <= m
      BY <2>2
    <3>2. f[i] = u[i] /\ f[i - 1] = u[i - 1] /\ u[i] = u[i - 1] + r[i]
      BY <1>3, <2>1, <2>2, <3>1 DEF Adds
    <3> QED BY <1>2, <1>6, <3>1, <3>2
  <2>3. CASE ~(i <= m)
    <3>1. i - m \in 1..n /\ m + (i - m) = i
      BY <2>3
    <3>2. v[i - m] = v[(i - m) - 1] + q[i - m] /\ v[(i - m) - 1] \in Int /\ q[i - m] \in Int
      BY <1>2, <1>4, <3>1 DEF Adds
    <3>3. s[i] = q[i - m]
      BY <1>6, <3>1
    <3>4. f[i] = u[m] + v[i - m]
      BY <2>1, <2>3
    <3>5. f[i - 1] = u[m] + v[(i - m) - 1]
      <4>1. CASE i - 1 = m
        BY <1>4, <1>7, <2>1, <4>1 DEF Adds
      <4>2. CASE i - 1 # m
        <5>1. ~(i - 1 <= m) /\ (i - 1) - m = (i - m) - 1
          BY <2>3, <4>2
        <5> QED BY <2>1, <5>1
      <4> QED BY <4>1, <4>2
    <3> QED BY <1>7, <3>2, <3>3, <3>4, <3>5
  <2> QED BY <2>2, <2>3
<1>9. f[m + n] = u[m] + v[n]
  <2>1. CASE n = 0
    BY <1>4, <1>7, <2>1 DEF Adds
  <2>2. CASE n # 0
    <3>1. ~(m + n <= m) /\ m + n \in 0..m + n /\ (m + n) - m = n
      BY <2>2
    <3> QED BY <3>1
  <2> QED BY <2>1, <2>2
<1>10. Total(s) = f[m + n]
  <2>1. PICK k \in Nat : k = m + n
    OBVIOUS
  <2> HIDE DEF f
  <2>2. Len(s) = k /\ (\A i \in 1..k : s[i] \in Int) /\ f[0] = 0
        /\ \A i \in 1..k : f[i] = f[i - 1] + s[i]
    BY <1>6, <1>7, <1>8, <2>1
  <2>3. Total(s) = f[k]
    BY ONLY <2>2, TotalBy, k \in Nat
  <2> QED BY <2>1, <2>3
<1> QED BY <1>3, <1>4, <1>5, <1>7, <1>9, <1>10

-----------------------------------------------------------------------------
(* The boxes of a group. *)

LEMMA Multiples ==
  ASSUME NEW e \in Int
  PROVE  /\ \A k \in Int : k * e \in Int /\ (k - 1) * e + e = k * e /\ e * k = k * e
                           /\ (k + 1) * e = k * e + e
         /\ 0 * e = 0
         /\ e >= 1 => \A k, n \in Int : k <= n => k * e <= n * e
<1>1. \A k \in Int : k * e \in Int /\ (k - 1) * e + e = k * e /\ e * k = k * e
                     /\ (k + 1) * e = k * e + e
  OBVIOUS
<1>2. ASSUME e >= 1, NEW k \in Int, NEW n \in Int, k <= n PROVE k * e <= n * e
  <2>1. PICK d \in Nat : n = k + d
    <3>1. n - k \in Nat /\ n = k + (n - k)
      BY <1>2
    <3> QED BY <3>1
  <2>2. d * e >= 0 /\ d * e \in Int
    BY <1>2
  <2>3. n * e = k * e + d * e
    BY <2>1
  <2> QED BY <2>2, <2>3
<1> QED BY <1>1, <1>2

LEMMA BoxesAre ==
  ASSUME NEW i, NEW n \in Nat, n = NewBoxP(i), NEW N \in Nat, N = Nov[i],
         NEW r \in Nat \ {0}, r = novref, NEW M \in Int, M = Movmin(i),
         n = 0 => N <= M,
         n # 0 => (M + r) * n + r <= N + r /\ (M + r) * (n + 1) >= N + r
  PROVE  /\ BoxesOf(i) \in Seq(Nat \ {0}) /\ Len(BoxesOf(i)) = n + 1
         /\ Total(BoxesOf(i)) = N + r
<1> DEFINE Solves(left) ==
             left = [k \in 0..NewBoxP(i) |->
                       IF k = 0 THEN Nov[i]
                       ELSE left[k - 1] - Min({Movmin(i), left[k - 1]}) - novref]
<1>1. PICK w : w = (CHOOSE left : Solves(left))
  OBVIOUS
<1>2. BoxesOf(i) = Reverse([k \in 1..(NewBoxP(i) + 1) |-> Min({Movmin(i), w[k - 1]}) + novref])
  BY <1>1 DEF BoxesOf
<1>3. PICK e \in Int : e = M + r
  OBVIOUS
<1>4. /\ \A k \in Int : k * e \in Int /\ (k - 1) * e + e = k * e /\ e * k = k * e
                         /\ (k + 1) * e = k * e + e
      /\ 0 * e = 0
      /\ e >= 1 => \A k, m \in Int : k <= m => k * e <= m * e
  BY Multiples
<1>5. n # 0 => n * e <= N /\ N - n * e <= M
  <2>1. n # 0 => e * n + r <= N + r /\ e * (n + 1) >= N + r
    BY <1>3
  <2>2. n * e \in Int /\ e * n = n * e /\ e * (n + 1) = (n + 1) * e /\ (n + 1) * e = n * e + e
    <3>1. n \in Int /\ n + 1 \in Int
      OBVIOUS
    <3> QED BY ONLY <1>4, <3>1
  <2>3. PICK p \in Int : p = n * e
    BY <2>2
  <2>4. e * n = p /\ e * (n + 1) = p + e
    BY <2>2, <2>3
  <2>5. n # 0 => p <= N /\ N - p <= M
    BY <1>3, <2>1, <2>4
  <2> QED BY <2>3, <2>5
<1>6. n # 0 => e >= 1
  <2> SUFFICES ASSUME n # 0, ~(e >= 1) PROVE FALSE
    OBVIOUS
  <2>1. 0 - e >= 0 /\ (n + 1) * (0 - e) >= 0
    OBVIOUS
  <2>2. (n + 1) * (0 - e) = 0 - (n + 1) * e
    OBVIOUS
  <2>3. (n + 1) * e >= N + r /\ (n + 1) * e \in Int
    BY <1>3, <1>4
  <2> QED BY <2>1, <2>2, <2>3
<1>7. \A k \in 0..n : N - k * e \in Int /\ (k < n => M <= N - k * e)
  <2> SUFFICES ASSUME NEW k \in 0..n, k < n PROVE M <= N - k * e
    BY <1>4
  <2>1. (k + 1) * e <= n * e
    BY <1>4, <1>6
  <2>2. (k + 1) * e = k * e + e /\ k * e \in Int /\ n * e \in Int
    BY <1>4
  <2> QED BY <1>3, <1>5, <2>1, <2>2
<1>8. N - n * e \in Int /\ 0 <= N - n * e /\ N - n * e <= M
  BY <1>4, <1>5, <1>7
<1>9. \A x \in Int : (M <= x => Min({M, x}) = M) /\ (x <= M => Min({M, x}) = x)
  BY MinOfTwo
<1> DEFINE g == [k \in 0..n |-> N - k * e]
<1>10. ASSUME NEW k \in 1..n PROVE g[k] = g[k - 1] - Min({M, g[k - 1]}) - r
  <2>1. k - 1 \in 0..n /\ k - 1 < n /\ k \in 0..n
    OBVIOUS
  <2>2. g[k - 1] = N - (k - 1) * e /\ g[k] = N - k * e
    BY <2>1
  <2>3. Min({M, g[k - 1]}) = M
    BY <1>7, <1>9, <2>1, <2>2
  <2>4. (k - 1) * e + e = k * e /\ (k - 1) * e \in Int
    BY <1>4
  <2>5. PICK p \in Int : p = (k - 1) * e
    BY <2>4
  <2>6. g[k - 1] = N - p /\ g[k] = N - (p + e)
    BY <2>2, <2>4, <2>5
  <2> HIDE DEF g
  <2> QED BY <1>3, <2>3, <2>6
<1>11. g[0] = N
  BY <1>4
<1>12. Solves(g)
  <2>1. \A k \in 0..n : g[k] = IF k = 0 THEN N ELSE g[k - 1] - Min({M, g[k - 1]}) - r
    <3> HIDE DEF g
    <3> QED BY <1>10, <1>11
  <2>2. g = [k \in 0..n |-> g[k]]
    OBVIOUS
  <2> HIDE DEF g
  <2> QED BY <2>1, <2>2
<1>13. Solves(w)
  <2> HIDE DEF Solves
  <2> QED BY <1>1, <1>12
<1>14. w[0] = N /\ \A k \in 1..n : w[k] = w[k - 1] - Min({M, w[k - 1]}) - r
  <2>1. ASSUME NEW k \in 1..n PROVE w[k] = w[k - 1] - Min({M, w[k - 1]}) - r
    <3>1. k \in 0..n /\ k # 0
      OBVIOUS
    <3> QED BY <1>13, <3>1
  <2>2. 0 \in 0..n
    OBVIOUS
  <2> QED BY <1>13, <2>1, <2>2
<1>15. \A k \in 0..n : w[k] = g[k]
  <2>1. PICK lo \in Int, hi \in Int : lo = 0 /\ hi = n
    OBVIOUS
  <2> HIDE DEF g
  <2>2. ASSUME NEW k \in lo + 1..hi, w[k - 1] = g[k - 1] PROVE w[k] = g[k]
    <3>1. k \in 1..n
      BY <2>1
    <3>2. w[k] = w[k - 1] - Min({M, w[k - 1]}) - r
      BY <1>14, <3>1
    <3>3. g[k] = g[k - 1] - Min({M, g[k - 1]}) - r
      BY <1>10, <3>1
    <3> QED BY <2>2, <3>2, <3>3
  <2>3. w[lo] = g[lo]
    BY <1>11, <1>14, <2>1
  <2>4. \A k \in lo..hi : w[k] = g[k]
    BY ONLY <2>2, <2>3, SameSteps, lo \in Int, hi \in Int
  <2> QED BY <2>1, <2>4
<1> DEFINE box == [k \in 1..(n + 1) |-> Min({M, w[k - 1]}) + r]
<1>16. ASSUME NEW k \in 1..n PROVE box[k] = e
  <2>1. k - 1 \in 0..n /\ k - 1 < n /\ k \in 1..(n + 1)
    OBVIOUS
  <2>2. w[k - 1] = N - (k - 1) * e
    BY <1>15, <2>1
  <2> QED BY <1>3, <1>7, <1>9, <2>1, <2>2
<1>17. box[n + 1] = N - n * e + r
  <2>1. w[n] = N - n * e /\ (n + 1) - 1 = n /\ n + 1 \in 1..(n + 1)
    BY <1>15
  <2> QED BY <1>8, <1>9, <2>1
<1> HIDE DEF g, Solves
<1>18. PICK s : s = BoxesOf(i)
  OBVIOUS
<1>19. s = [m \in 1..(n + 1) |-> box[((n + 1) - m) + 1]]
  <2>1. Len(box) = n + 1
    OBVIOUS
  <2>2. s = Reverse(box)
    BY <1>2, <1>18
  <2> HIDE DEF box
  <2> QED BY <2>1, <2>2 DEF Reverse
<1> HIDE DEF box
<1>a. PICK q \in Nat : q = N - n * e
  BY <1>8
<1>20. s[1] = q + r
  <2>1. 1 \in 1..(n + 1) /\ ((n + 1) - 1) + 1 = n + 1
    OBVIOUS
  <2> QED BY <1>17, <1>19, <1>a, <2>1
<1>21. ASSUME NEW m \in 2..(n + 1) PROVE s[m] = e
  <2>1. m \in 1..(n + 1) /\ ((n + 1) - m) + 1 \in 1..n
    OBVIOUS
  <2> QED BY <1>16, <1>19, <2>1
<1>22. ASSUME NEW m \in 1..(n + 1) PROVE s[m] \in Nat \ {0}
  <2>1. CASE m = 1
    BY <1>20, <2>1
  <2>2. CASE m # 1
    <3>1. m \in 2..(n + 1) /\ n # 0
      BY <2>2
    <3> QED BY <1>6, <1>21, <3>1
  <2> QED BY <2>1, <2>2
<1>23. Len(s) = n + 1 /\ s \in Seq(Nat \ {0})
  <2>1. s \in [1..(n + 1) -> Nat \ {0}]
    BY <1>19, <1>22
  <2> QED BY <2>1
<1> DEFINE f == [m \in 0..n + 1 |-> IF m = 0 THEN 0 ELSE (q + r) + (m - 1) * e]
<1>24. ASSUME NEW m \in 1..n + 1 PROVE f[m] = f[m - 1] + s[m]
  <2>1. m \in 0..n + 1 /\ m - 1 \in 0..n + 1
    OBVIOUS
  <2>2. CASE m = 1
    <3>1. f[m] = (q + r) + 0 * e /\ f[m - 1] = 0
      BY <2>1, <2>2
    <3> HIDE DEF f
    <3> QED BY <1>4, <1>20, <2>2, <3>1
  <2>3. CASE m # 1
    <3>1. s[m] = e
      BY <1>21, <2>3
    <3>2. f[m] = (q + r) + (m - 1) * e /\ f[m - 1] = (q + r) + ((m - 1) - 1) * e
      BY <2>1, <2>3
    <3>3. ((m - 1) - 1) * e + e = (m - 1) * e /\ ((m - 1) - 1) * e \in Int
      BY <1>4
    <3>4. PICK p \in Int : p = ((m - 1) - 1) * e
      BY <3>3
    <3>5. f[m] = (q + r) + (p + e) /\ f[m - 1] = (q + r) + p
      BY <3>2, <3>3, <3>4
    <3> HIDE DEF f
    <3> QED BY <3>1, <3>5
  <2> QED BY <2>2, <2>3
<1>25. f[0] = 0 /\ f[n + 1] = N + r
  <2>1. f[n + 1] = (q + r) + ((n + 1) - 1) * e
    <3>1. n + 1 \in 0..n + 1 /\ n + 1 # 0
      OBVIOUS
    <3> QED BY <3>1
  <2>2. ((n + 1) - 1) * e = n * e /\ n * e \in Int
    BY <1>4
  <2>3. PICK p \in Int : p = n * e
    BY <2>2
  <2>4. f[n + 1] = (q + r) + p /\ q = N - p
    BY <1>a, <2>1, <2>2, <2>3
  <2>5. f[0] = 0
    OBVIOUS
  <2> HIDE DEF f
  <2> QED BY <2>4, <2>5
<1>26. Total(s) = f[n + 1]
  <2> HIDE DEF f
  <2>1. PICK k \in Nat : k = n + 1
    OBVIOUS
  <2>2. Len(s) = k /\ (\A m \in 1..k : s[m] \in Int) /\ f[0] = 0
        /\ \A m \in 1..k : f[m] = f[m - 1] + s[m]
    BY <1>22, <1>23, <1>24, <1>25, <2>1
  <2>3. Total(s) = f[k]
    BY ONLY <2>2, TotalBy, k \in Nat
  <2> QED BY <2>1, <2>3
<1> QED BY <1>18, <1>23, <1>25, <1>26

Positive == Nat \ {0}

LEMMA MoreValues ==
  ASSUME NEW S, NEW T, S \subseteq T, NEW s \in Seq(S)
  PROVE  s \in Seq(T)
<1>1. PICK k \in Nat : k = Len(s)
  OBVIOUS
<1>2. s = [i \in 1..k |-> s[i]] /\ \A i \in 1..k : s[i] \in S
  BY <1>1
<1>3. \A i \in 1..k : s[i] \in T
  BY <1>2
<1>4. [i \in 1..k |-> s[i]] \in Seq(T)
  BY <1>3
<1> QED BY <1>2, <1>4

(* Sequences of lengths one after another: t and l are the totals and the  *)
(* numbers so far.                                                         *)
Counts(q, t, l, n) ==
  /\ q \in [1..n -> Seq(Positive)]
  /\ t[0] = 0 /\ \A i \in 1..n : t[i] = t[i - 1] + Total(q[i])
  /\ l[0] = 0 /\ \A i \in 1..n : l[i] = l[i - 1] + Len(q[i])

LEMMA FlattenIs ==
  ASSUME NEW n \in Nat \ {0}, NEW q, NEW t, NEW l, Counts(q, t, l, n)
  PROVE  /\ FlattenSeq(q) \in Seq(Positive)
         /\ Total(FlattenSeq(q)) = t[n] /\ Len(FlattenSeq(q)) = l[n]
<1>a. /\ q \in [1..n -> Seq(Positive)]
      /\ t[0] = 0 /\ \A i \in 1..n : t[i] = t[i - 1] + Total(q[i])
      /\ l[0] = 0 /\ \A i \in 1..n : l[i] = l[i - 1] + Len(q[i])
  BY DEF Counts
<1> DEFINE X == Seq(Positive)
           Solves(f) == f = [i \in 1..n |-> IF i = 1 THEN q[i] ELSE f[i - 1] \o q[i]]
           more == [i \in Nat |-> [x \in X |-> IF i + 1 \in 1..n THEN x \o q[i + 1] ELSE x]]
<1>0. Len(q) = n
  BY <1>a
<1>1. FlattenSeq(q) = (CHOOSE f : Solves(f))[n]
  BY <1>0 DEF FlattenSeq
<1>2. \A i \in 1..n : q[i] \in X
  BY <1>a
<1>3. PICK g : /\ g \in [0..n -> X] /\ g[0] = q[1]
               /\ \A i \in 1..n : g[i] = more[i][g[i - 1]]
  <2>1. ASSUME NEW i \in Nat, NEW x \in X
        PROVE  (IF i + 1 \in 1..n THEN x \o q[i + 1] ELSE x) \in X
    <3>1. i + 1 \in 1..n => q[i + 1] \in X
      BY <1>2
    <3>2. i + 1 \in 1..n => x \o q[i + 1] \in X
      BY <3>1, ConcatIs
    <3> HIDE DEF X
    <3> QED BY <3>2
  <2>2. q[1] \in X
    BY <1>2
  <2>3. more \in [Nat -> [X -> X]]
    <3> HIDE DEF X
    <3> QED BY <2>1
  <2> HIDE DEF X, more
  <2>4. Steps(X, q[1], more, n)
    BY <2>2, <2>3 DEF Steps
  <2>5. PICK g : Takes(g, X, q[1], more, n)
    BY <2>4, StepFunction
  <2> QED BY <2>5 DEF Takes
<1>4. ASSUME NEW i \in 1..n, i + 1 \in 1..n PROVE g[i] = g[i - 1] \o q[i + 1]
  <2>1. i \in Nat /\ g[i - 1] \in X
    BY <1>3
  <2>2. g[i] = more[i][g[i - 1]]
    <3> HIDE DEF more
    <3> QED BY <1>3
  <2> HIDE DEF X
  <2> QED BY <1>4, <2>1, <2>2
<1>5. Solves([i \in 1..n |-> g[i - 1]])
  <2>1. ASSUME NEW i \in 1..n, i # 1 PROVE g[i - 1] = g[(i - 1) - 1] \o q[i]
    <3>1. i - 1 \in 1..n /\ (i - 1) + 1 = i
      BY <2>1
    <3> QED BY <1>4, <3>1
  <2>2. g[1 - 1] = q[1]
    BY <1>3
  <2> DEFINE h == [i \in 1..n |-> g[i - 1]]
  <2>3. \A i \in 1..n : h[i] = IF i = 1 THEN q[i] ELSE h[i - 1] \o q[i]
    <3>1. ASSUME NEW i \in 1..n, i # 1 PROVE h[i] = h[i - 1] \o q[i]
      <4>1. i - 1 \in 1..n
        BY <3>1
      <4> QED BY <2>1, <3>1, <4>1
    <3>2. h[1] = q[1]
      BY <2>2
    <3> HIDE DEF h
    <3> QED BY <3>1, <3>2
  <2>4. h = [i \in 1..n |-> h[i]]
    OBVIOUS
  <2> HIDE DEF h
  <2>5. Solves(h)
    BY <2>3, <2>4
  <2> QED BY <2>5 DEF h
<1>6. PICK w : w = CHOOSE f : Solves(f)
  OBVIOUS
<1>7. Solves(w)
  <2> HIDE DEF Solves
  <2> QED BY <1>5, <1>6
<1>8. w[1] = q[1] /\ \A i \in 2..n : w[i] = w[i - 1] \o q[i]
  <2>1. ASSUME NEW i \in 2..n PROVE w[i] = w[i - 1] \o q[i]
    <3>1. i \in 1..n /\ i # 1
      OBVIOUS
    <3> QED BY <1>7, <3>1
  <2>2. 1 \in 1..n
    OBVIOUS
  <2> QED BY <1>7, <2>1, <2>2
<1>9. X \subseteq Seq(Int)
  BY MoreValues DEF Positive
<1> DEFINE Good(k) == w[k] \in X /\ Total(w[k]) = t[k] /\ Len(w[k]) = l[k]
           S == {k \in Nat : k + 1 <= n => Good(k + 1)}
<1>10. Good(1)
  <2>1. 1 \in 1..n /\ 1 - 1 = 0
    OBVIOUS
  <2>2. t[1] = 0 + Total(q[1]) /\ l[1] = 0 + Len(q[1])
    BY <1>a, <2>1
  <2>3. q[1] \in X
    BY <1>2, <2>1
  <2>4. <<>> \in Seq(Int) /\ q[1] \in Seq(Int)
    BY <1>9, <2>3
  <2>5. Total(q[1]) \in Int
    BY <2>4, TotalOfBoth
  <2>6. Len(q[1]) \in Int
    BY <2>4
  <2>7. PICK x \in Int, y \in Int : x = Total(q[1]) /\ y = Len(q[1])
    BY <2>5, <2>6
  <2>8. t[1] = x /\ l[1] = y
    BY ONLY <2>2, <2>7
  <2>9. w[1] = q[1]
    BY <1>8
  <2>10. w[1] \in X
    BY <2>3, <2>9
  <2>11. Total(w[1]) = t[1] /\ Len(w[1]) = l[1]
    BY ONLY <2>7, <2>8, <2>9
  <2> HIDE DEF X
  <2> QED BY <2>10, <2>11
<1>11. ASSUME NEW k \in 1..n, k + 1 \in 1..n, Good(k) PROVE Good(k + 1)
  <2>1. w[k + 1] = w[k] \o q[k + 1]
    <3>1. k + 1 \in 2..n /\ (k + 1) - 1 = k
      BY <1>11
    <3> QED BY ONLY <1>8, <3>1
  <2>2. w[k] \in X /\ q[k + 1] \in X
    BY <1>2, <1>11
  <2>3. w[k + 1] \in X /\ Len(w[k + 1]) = Len(w[k]) + Len(q[k + 1])
    BY <2>1, <2>2, ConcatIs
  <2>4. Total(w[k + 1]) = Total(w[k]) + Total(q[k + 1])
    BY <1>9, <2>1, <2>2, TotalOfBoth
  <2>5. t[k + 1] = t[k] + Total(q[k + 1]) /\ l[k + 1] = l[k] + Len(q[k + 1])
    <3>1. (k + 1) - 1 = k
      OBVIOUS
    <3> QED BY <1>a, <1>11, <3>1
  <2> QED BY <1>11, <2>3, <2>4, <2>5
<1>12. \A k \in Nat : k \in S
  <2>1. 0 \in S
    BY <1>10
  <2>2. ASSUME NEW k \in Nat, k \in S PROVE k + 1 \in S
    <3>1. CASE (k + 1) + 1 <= n
      <4>1. k + 1 \in 1..n /\ (k + 1) + 1 \in 1..n
        BY <3>1
      <4>2. Good(k + 1)
        BY <2>2, <4>1
      <4>3. Good((k + 1) + 1)
        <5> HIDE DEF Good
        <5> QED BY <1>11, <4>1, <4>2
      <4> QED BY <4>3
    <3>2. CASE ~((k + 1) + 1 <= n)
      BY <3>2
    <3> QED BY <3>1, <3>2
  <2> HIDE DEF S
  <2> QED BY <2>1, <2>2, SetInduction
<1>13. Good(n)
  <2>1. n - 1 \in Nat /\ (n - 1) + 1 = n
    OBVIOUS
  <2>2. n - 1 \in S
    BY <1>12, <2>1
  <2> HIDE DEF Good
  <2> QED BY <2>1, <2>2
<1> QED BY <1>1, <1>6, <1>13

-----------------------------------------------------------------------------
(* What reduce makes of the closed groups. *)

(* What is known of the closed groups when all points are in one.          *)
Measured == \A i \in 1..Len(groups) : /\ groups[i].nov = groups[i].to - groups[i].from + 1
                                      /\ groups[i].bits \in 0..30

Covering ==
  /\ groups \in Seq(ClosedGroup) /\ groups # <<>> /\ ChainFrom(groups, 1) /\ Measured
  /\ \A i \in 1..Len(groups) : groups[i].from <= groups[i].to
  /\ nxy \in Nat /\ groups[Len(groups)].to = nxy

LEMMA LengthsAre ==
  ASSUME Covering
  PROVE  /\ lx \in Nat \ {0} /\ DOMAIN groups = 1..lx
         /\ \A i \in 1..lx : /\ groups[i] \in ClosedGroup
                             /\ groups[i].nov \in 1..nxy
                             /\ groups[i].to = (IF i = 1 THEN 0 ELSE groups[i - 1].to)
                                                 + groups[i].nov
<1>1. lx \in Nat \ {0} /\ DOMAIN groups = 1..lx
  BY DEF Covering, lx
<1>2. \A i \in 1..lx : /\ groups[i] \in ClosedGroup /\ groups[i].from <= groups[i].to
                       /\ groups[i].from = (IF i = 1 THEN 1 ELSE groups[i - 1].to + 1)
                       /\ groups[i].nov = groups[i].to - groups[i].from + 1
                       /\ groups[i].from \in Int /\ groups[i].to \in Int
  <2> SUFFICES ASSUME NEW i \in 1..lx
               PROVE  /\ groups[i] \in ClosedGroup /\ groups[i].from <= groups[i].to
                      /\ groups[i].from = (IF i = 1 THEN 1 ELSE groups[i - 1].to + 1)
                      /\ groups[i].nov = groups[i].to - groups[i].from + 1
                      /\ groups[i].from \in Int /\ groups[i].to \in Int
    OBVIOUS
  <2>1. groups[i] \in ClosedGroup
    BY <1>1 DEF Covering
  <2>2. groups[i].from <= groups[i].to /\ groups[i].nov = groups[i].to - groups[i].from + 1
    BY DEF Covering, Measured, lx
  <2>3. groups[i].from = (IF i = 1 THEN 1 ELSE groups[i - 1].to + 1)
    BY <1>1 DEF Covering, ChainFrom
  <2>4. groups[i].from \in Int /\ groups[i].to \in Int
    BY <2>1 DEF ClosedGroup
  <2> QED BY <2>1, <2>2, <2>3, <2>4
<1> DEFINE S == {k \in Nat : k + 1 \in 1..lx => groups[k + 1].from >= 1}
           T == {k \in Nat : lx - k \in 1..lx => groups[lx - k].to <= nxy}
<1>3. \A k \in Nat : k \in S
  <2>1. 0 \in S
    BY <1>1, <1>2
  <2>2. ASSUME NEW k \in Nat, k \in S PROVE k + 1 \in S
    <3> SUFFICES ASSUME (k + 1) + 1 \in 1..lx PROVE groups[(k + 1) + 1].from >= 1
      OBVIOUS
    <3>1. k + 1 \in 1..lx /\ (k + 1) + 1 # 1 /\ ((k + 1) + 1) - 1 = k + 1
      BY <1>1
    <3>2. groups[k + 1].from >= 1
      BY <2>2, <3>1
    <3>3. groups[(k + 1) + 1].from = groups[k + 1].to + 1
      BY <1>2, <3>1
    <3> QED BY <1>2, <3>1, <3>2, <3>3
  <2> HIDE DEF S
  <2> QED BY <2>1, <2>2, SetInduction
<1>4. \A k \in Nat : k \in T
  <2>1. 0 \in T
    BY <1>1 DEF Covering, lx
  <2>2. ASSUME NEW k \in Nat, k \in T PROVE k + 1 \in T
    <3> SUFFICES ASSUME lx - (k + 1) \in 1..lx PROVE groups[lx - (k + 1)].to <= nxy
      OBVIOUS
    <3>1. lx - k \in 1..lx /\ lx - k # 1 /\ (lx - k) - 1 = lx - (k + 1)
      BY <1>1
    <3>2. groups[lx - k].to <= nxy
      BY <2>2, <3>1
    <3>3. groups[lx - k].from = groups[lx - (k + 1)].to + 1
      BY <1>2, <3>1
    <3>4. nxy \in Nat
      BY DEF Covering
    <3> QED BY <1>2, <3>1, <3>2, <3>3, <3>4
  <2> HIDE DEF T
  <2> QED BY <2>1, <2>2, SetInduction
<1>5. ASSUME NEW i \in 1..lx
      PROVE  /\ groups[i].nov \in 1..nxy
             /\ groups[i].to = (IF i = 1 THEN 0 ELSE groups[i - 1].to) + groups[i].nov
  <2>1. i - 1 \in Nat /\ (i - 1) + 1 = i /\ lx - i \in Nat /\ lx - (lx - i) = i
    BY <1>1
  <2>2. i - 1 \in S /\ lx - i \in T
    BY <1>3, <1>4, <2>1
  <2>3. groups[i].from >= 1 /\ groups[i].to <= nxy
    BY <2>1, <2>2
  <2>4. nxy \in Nat
    BY DEF Covering
  <2>5. i # 1 => groups[i - 1].to \in Int
    BY <1>1, <1>2
  <2> HIDE DEF S, T
  <2> QED BY <1>2, <2>3, <2>4, <2>5
<1> QED BY <1>1, <1>2, <1>5

(* The reference of the lengths, and the lengths less it.                  *)
LEMMA NovIs ==
  ASSUME Covering, nxy <= 2^30
  PROVE  /\ novref \in Nat \ {0} /\ kbit \in 0..30
         /\ \A i \in 1..lx : Nov[i] \in Nat /\ Nov[i] < 2^30 /\ Nov[i] + novref = groups[i].nov
<1>1. /\ lx \in Nat \ {0} /\ \A i \in 1..lx : groups[i].nov \in 1..nxy
  BY LengthsAre
<1>2. nxy \in Nat
  BY DEF Covering
<1> DEFINE f == [i \in 1..lx |-> groups[i].nov]
           V == {f[i] : i \in 1..lx}
<1>3. V # {} /\ V = {groups[i].nov : i \in 1..lx}
  <2>1. 1 \in 1..lx
    BY <1>1
  <2> QED BY <2>1
<1>4. Min(V) \in V /\ \A v \in V : Min(V) <= v
  <2>1. 1..lx \in SUBSET (1..lx) /\ 1..lx # {} /\ lx \in Nat
    BY <1>1
  <2>2. \A k \in 1..lx : f[k] \in Int
    BY <1>1, <1>2
  <2> HIDE DEF f
  <2> QED BY <2>1, <2>2, Extremes
<1>5. novref = Min(V)
  BY <1>3 DEF novref
<1>6. novref \in Nat \ {0} /\ \A i \in 1..lx : novref <= groups[i].nov
  <2>1. \A i \in 1..lx : groups[i].nov \in V
    OBVIOUS
  <2>2. PICK i \in 1..lx : novref = groups[i].nov
    BY <1>4, <1>5
  <2>3. novref \in 1..nxy
    BY <1>1, <2>2
  <2> HIDE DEF V
  <2> QED BY <1>2, <1>4, <1>5, <2>1, <2>3
<1>7. Nov = [i \in 1..lx |-> groups[i].nov - novref]
  BY DEF Nov
<1>8. ASSUME NEW i \in 1..lx
      PROVE  Nov[i] \in Nat /\ Nov[i] < 2^30 /\ Nov[i] + novref = groups[i].nov
  <2>1. Nov[i] = groups[i].nov - novref
    BY <1>7
  <2>2. groups[i].nov \in 1..nxy /\ novref <= groups[i].nov
    BY <1>1, <1>6
  <2>3. PICK p \in Nat : p = 2^30
    BY Powers
  <2> QED BY <1>2, <1>6, <2>1, <2>2, <2>3
<1>9. kbit \in 0..30
  <2> DEFINE W == {Nov[i] : i \in 1..lx}
  <2>1. Max(W) \in W
    <3>1. 1..lx \in SUBSET (1..lx) /\ 1..lx # {} /\ lx \in Nat
      BY <1>1
    <3>2. \A k \in 1..lx : Nov[k] \in Int
      BY <1>8
    <3> QED BY <3>1, <3>2, Extremes
  <2>2. Max(W) \in Int /\ Max(W) < 2^30
    BY <1>8, <2>1
  <2>3. Range(Nov) = W
    BY <1>7 DEF Range
  <2> HIDE DEF W
  <2> QED BY <2>2, <2>3, BitsIs DEF kbit
<1> QED BY <1>6, <1>8, <1>9

(* The bits of all groups are a number.                                    *)
LEMMA InfoIs ==
  ASSUME Covering, nxy <= 2^30, \A i \in 1..lx : groups[i].min < 2^30
  PROVE  iorigb \in Int
<1>1. lx \in Nat \ {0} /\ \A i \in 1..lx : groups[i] \in ClosedGroup /\ groups[i].bits \in 0..30
  BY LengthsAre DEF Covering, Measured, lx
<1>2. 1..lx \in SUBSET (1..lx) /\ 1..lx # {} /\ lx \in Nat
  BY <1>1
<1> DEFINE f == [i \in 1..lx |-> groups[i].bits]
           W == {f[i] : i \in 1..lx}
           h == [i \in 1..lx |-> groups[i].min]
           V == {h[i] : i \in 1..lx}
<1>3. W = {groups[i].bits : i \in 1..lx} /\ V = {groups[i].min : i \in 1..lx}
  OBVIOUS
<1>4. (\A i \in 1..lx : f[i] \in 0..30) /\ \A i \in 1..lx : h[i] \in Int /\ h[i] < 2^30
  BY <1>1 DEF ClosedGroup
<1>5. Min(W) \in 0..30 /\ Max(W) \in 0..30
  <2>1. Min(W) \in W /\ Max(W) \in W
    <3>1. \A i \in 1..lx : f[i] \in Int
      BY <1>4
    <3> HIDE DEF f
    <3> QED BY <1>2, <3>1, Extremes
  <2> QED BY <1>4, <2>1
<1>6. Bits(Max(W) - Min(W)) \in 0..30
  <2> HIDE DEF W
  <2>1. PICK n \in Int : n = Max(W) - Min(W)
    BY <1>5
  <2>2. n < 2^30
    BY <1>5, <2>1
  <2> QED BY <2>1, <2>2, BitsIs
<1>7. PICK m \in V : \A v \in V : v <= m
  <2>1. Max(V) \in V /\ \A v \in V : v <= Max(V)
    <3>1. \A i \in 1..lx : h[i] \in Int
      BY <1>4
    <3> HIDE DEF h
    <3> QED BY <1>2, <3>1, Extremes
  <2> QED BY <2>1
<1>8. Bits(Max({0} \cup V)) \in 0..30
  <2>1. V \subseteq Int /\ \A v \in V : v < 2^30
    BY <1>4
  <2> HIDE DEF V
  <2>2. PICK k \in {0} \cup V : \A v \in {0} \cup V : v <= k
    <3>1. CASE m <= 0
      BY <1>7, <2>1, <3>1
    <3>2. CASE ~(m <= 0)
      BY <1>7, <2>1, <3>2
    <3> QED BY <3>1, <3>2
  <2>3. Max({0} \cup V) \in {0} \cup V
    <3>1. {0} \cup V \subseteq Int
      BY <2>1
    <3> QED BY <2>2, <3>1, MaxIs
  <2>4. Max({0} \cup V) \in Int /\ Max({0} \cup V) < 2^30
    <3>1. \A v \in {0} \cup V : v \in Int /\ v < 2^30
      BY <2>1
    <3> QED BY ONLY <2>3, <3>1
  <2> QED BY <2>4, BitsIs
<1>9. InfoBits \in Int
  <2> HIDE DEF V, W
  <2>1. InfoBits = Bits(Max({0} \cup V)) + Bits(Max(W) - Min(W))
    BY <1>3 DEF InfoBits
  <2> QED BY <1>6, <1>8, <2>1
<1> QED BY <1>1, <1>9, NovIs DEF iorigb

(* When something is gained and not by the word before the totals, lengths *)
(* are of jj bits, fewer than now, and the boxes counted are those for them. *)
LEMMA BestIs ==
  ASSUME kbit \in 0..30, iorigb \in Int, Better, jj # 0
  PROVE  jj \in 3..29 /\ LastBetter = jj
<1> DEFINE rises == {j \in 2..(kbit - 1) : TotalBits(j) >= TotalBits(j + 1)}
<1>1. jj = IF rises = {} THEN 0 ELSE Max(rises) + 1
  BY DEF jj
<1>2. rises # {} /\ jj = Max(rises) + 1
  BY <1>1
<1>3. Max(rises) \in rises
  <2>1. rises \in SUBSET (1..30)
    <3>1. \A j \in rises : j \in 2..(kbit - 1)
      OBVIOUS
    <3> HIDE DEF rises
    <3> QED BY <3>1
  <2> HIDE DEF rises
  <2> QED BY <1>2, <2>1, Places
<1>4. jj \in 3..kbit
  <2>1. Max(rises) \in 2..(kbit - 1)
    BY <1>3
  <2> HIDE DEF rises
  <2> QED BY <1>2, <2>1
<1>5. jj # kbit
  <2> SUFFICES ASSUME jj = kbit PROVE FALSE
    OBVIOUS
  <2>1. BestTotal = iorigb
    BY <1>4 DEF BestTotal, TotalBits
  <2> QED BY <2>1 DEF Better
<1> QED BY <1>4, <1>5 DEF LastBetter

LEMMA PowersFromFour == \A j \in 2..30 : 2^j \in Int /\ 2^j >= 4
<1> DEFINE Ok(j) == 2^j \in Int /\ 2^j >= 4
<1> SUFFICES ASSUME NEW j \in 2..30 PROVE Ok(j)
  OBVIOUS
<1>1. j \in 2..9 => Ok(j)
  <2>1. j \in 2..9 => (j = 2 \/ j = 3 \/ j = 4 \/ j = 5 \/ j = 6 \/ j = 7 \/ j = 8 \/ j = 9)
    OBVIOUS
  <2>2. Ok(2) /\ Ok(3) /\ Ok(4) /\ Ok(5) /\ Ok(6) /\ Ok(7) /\ Ok(8) /\ Ok(9)
    OBVIOUS
  <2> HIDE DEF Ok
  <2> QED BY ONLY <2>1, <2>2, Zenon
<1>2. j \in 10..16 => Ok(j)
  <2>1. j \in 10..16 => (j = 10 \/ j = 11 \/ j = 12 \/ j = 13 \/ j = 14 \/ j = 15 \/ j = 16)
    OBVIOUS
  <2>2. Ok(10) /\ Ok(11) /\ Ok(12) /\ Ok(13) /\ Ok(14) /\ Ok(15) /\ Ok(16)
    OBVIOUS
  <2> HIDE DEF Ok
  <2> QED BY ONLY <2>1, <2>2, Zenon
<1>3. j \in 17..23 => Ok(j)
  <2>1. j \in 17..23 => (j = 17 \/ j = 18 \/ j = 19 \/ j = 20 \/ j = 21 \/ j = 22 \/ j = 23)
    OBVIOUS
  <2>2. Ok(17) /\ Ok(18) /\ Ok(19) /\ Ok(20) /\ Ok(21) /\ Ok(22) /\ Ok(23)
    OBVIOUS
  <2> HIDE DEF Ok
  <2> QED BY ONLY <2>1, <2>2, Zenon
<1>4. j \in 24..30 => Ok(j)
  <2>1. j \in 24..30 => (j = 24 \/ j = 25 \/ j = 26 \/ j = 27 \/ j = 28 \/ j = 29 \/ j = 30)
    OBVIOUS
  <2>2. Ok(24) /\ Ok(25) /\ Ok(26) /\ Ok(27) /\ Ok(28) /\ Ok(29) /\ Ok(30)
    OBVIOUS
  <2> HIDE DEF Ok
  <2> QED BY ONLY <2>1, <2>2, Zenon
<1>5. j \in 2..9 \/ j \in 10..16 \/ j \in 17..23 \/ j \in 24..30
  OBVIOUS
<1> HIDE DEF Ok
<1> QED BY <1>1, <1>2, <1>3, <1>4, <1>5

LEMMA SmallQuotient ==
  ASSUME NEW x \in Nat, NEW q \in Nat \ {0}, x < 2 * q
  PROVE  x \div q < 2
OBVIOUS

LEMMA OneAtLeast ==
  ASSUME NEW x \in Nat, NEW q \in Nat \ {0}, q <= x
  PROVE  x \div q >= 1 /\ x \div q \in Int
OBVIOUS

(* Boxes are made of a group that has too many points, and of no other.    *)
LEMMA NewBoxesIs ==
  ASSUME NEW i, NEW N \in Nat, N = Nov[i], NEW j \in 2..30
  PROVE  NewBoxes(i, j) \in Nat /\ (NewBoxes(i, j) = 0 => N < 2^j)
<1>1. PICK p \in Int : p = 2^j /\ p >= 4
  BY PowersFromFour
<1>2. CASE N < p
  BY <1>1, <1>2 DEF NewBoxes
<1>3. CASE ~(N < p)
  <2> DEFINE first == (N - 1) \div (p - 1) + 1
             T == {q \in first..(first + N) : (N + q - 1) \div q < p}
  <2>1. first \in Nat /\ first >= 2
    <3>1. N - 1 \in Nat /\ p - 1 \in Nat \ {0} /\ p - 1 <= N - 1
      BY <1>1, <1>3
    <3> QED BY <3>1, OneAtLeast
  <2> HIDE DEF first
  <2>2. first + N \in T
    <3>1. first + N \in Nat \ {0} /\ N + (first + N) - 1 \in Nat
          /\ N + (first + N) - 1 < 2 * (first + N)
      BY <2>1
    <3>2. (N + (first + N) - 1) \div (first + N) < 2
      BY <3>1, SmallQuotient
    <3>3. (N + (first + N) - 1) \div (first + N) \in Int
      BY <3>1
    <3>4. (N + (first + N) - 1) \div (first + N) < p
      BY <1>1, <3>2, <3>3
    <3>5. first + N \in first..(first + N)
      BY <2>1
    <3> QED BY <3>4, <3>5
  <2>3. T \in SUBSET Nat /\ T # {} /\ \A q \in T : q >= 2
    <3>1. \A q \in T : q \in Nat /\ q >= 2
      BY <2>1
    <3> HIDE DEF T
    <3> QED BY <2>2, <3>1
  <2>4. Min(T) \in T
    <3> HIDE DEF T
    <3>1. PICK m \in T : \A q \in T : m <= q
      BY <2>3, LeastNatural
    <3> QED BY <3>1, MinIs
  <2>5. NewBoxes(i, j) = Min(T) - 1
    BY <1>1, <1>3 DEF NewBoxes, first
  <2>6. PICK m \in Nat : m = Min(T) /\ m >= 2
    <3> HIDE DEF T
    <3> QED BY <2>3, <2>4
  <2>7. NewBoxes(i, j) = m - 1
    BY ONLY <2>5, <2>6
  <2>8. NewBoxes(i, j) \in Nat /\ NewBoxes(i, j) # 0
    BY ONLY <2>6, <2>7, m \in Nat
  <2> QED BY <2>8
<1> QED BY <1>2, <1>3

(* What is moved into each box.                                            *)
LEMMA MovedIs ==
  ASSUME NEW i, NEW n \in Nat, n = NewBoxP(i), NEW N \in Nat, N = Nov[i],
         NEW r \in Nat \ {0}, r = novref, NEW p \in Int, p = 2^jj,
         n = 0 => N < p, Divides(i), N + r = groups[i].nov
  PROVE  /\ Movmin(i) \in Int
         /\ n = 0 => N <= Movmin(i)
         /\ n # 0 => /\ (Movmin(i) + r) * n + r <= N + r
                     /\ (Movmin(i) + r) * (n + 1) >= N + r
<1>1. Movmin(i) = IF n * ((p - 1) + r) + r > N + r THEN Quotient(N - n * r, n) ELSE p - 1
  BY DEF Movmin
<1>2. CASE n = 0
  <2>1. PICK z \in Int : z = n * ((p - 1) + r) /\ z = 0
    BY <1>2
  <2>2. Movmin(i) = IF z + r > N + r THEN Quotient(N - n * r, n) ELSE p - 1
    BY ONLY <1>1, <2>1
  <2>3. ~(z + r > N + r)
    BY ONLY <2>1, N \in Nat, r \in Nat \ {0}
  <2>4. Movmin(i) = p - 1
    BY ONLY <2>2, <2>3
  <2>5. Movmin(i) \in Int /\ N <= Movmin(i)
    BY ONLY <1>2, <2>4, n = 0 => N < p, N \in Nat, p \in Int
  <2> QED BY <1>2, <2>5
<1>3. CASE n # 0
  <2>1. Quotient(N - n * r, n) \in Int
    <3>1. PICK x \in Int : x = N - n * r
      OBVIOUS
    <3>2. x >= 0 => x \div n \in Int
      BY <1>3
    <3>3. x < 0 => (-x) \div n \in Int
      BY <1>3
    <3> QED BY <3>1, <3>2, <3>3 DEF Quotient
  <2>2. Movmin(i) \in Int
    BY <1>1, <2>1
  <2>3. (Movmin(i) + r) * n + r <= N + r /\ (Movmin(i) + r) * (n + 1) >= N + r
    BY <1>3 DEF Divides
  <2> QED BY <1>3, <2>2, <2>3
<1> QED BY <1>2, <1>3

(* The lengths after reduce.                                               *)
LEMMA ReducedIs ==
  ASSUME Covering, nxy <= 2^30, \A i \in 1..lx : groups[i].min < 2^30,
         Better, jj # 0, ~Aborts, field.ndg \in Nat
  PROVE  Reduced \in Seq(Positive) /\ Total(Reduced) = nxy /\ Len(Reduced) <= field.ndg
<1>1. /\ lx \in Nat \ {0}
      /\ \A i \in 1..lx : /\ groups[i] \in ClosedGroup
                          /\ groups[i].nov \in 1..nxy
                          /\ groups[i].to = (IF i = 1 THEN 0 ELSE groups[i - 1].to)
                                              + groups[i].nov
  BY LengthsAre
<1>2. /\ novref \in Nat \ {0} /\ kbit \in 0..30
      /\ \A i \in 1..lx : Nov[i] \in Nat /\ Nov[i] + novref = groups[i].nov
  BY NovIs
<1>3. jj \in 3..29 /\ LastBetter = jj
  BY <1>2, InfoIs, BestIs
<1>4. newboxtp = SumBoxes(jj) /\ \A i \in 1..lx : NewBoxP(i) = NewBoxes(i, jj)
  BY <1>3 DEF newboxtp, NewBoxP
<1>5. lx + SumBoxes(jj) <= field.ndg /\ \A i \in 1..lx : Divides(i)
  <2>1. ~(lx + newboxtp > field.ndg) /\ \A i \in 1..lx : Divides(i)
    BY DEF Aborts
  <2>2. SumBoxes(jj) \in Int
    <3> DEFINE s == [i \in 1..lx |-> NewBoxes(i, jj)]
    <3>1. \A i \in 1..lx : s[i] \in Int
      <4> SUFFICES ASSUME NEW i \in 1..lx PROVE s[i] \in Int
        OBVIOUS
      <4>1. PICK N \in Nat : N = Nov[i]
        BY <1>2
      <4>2. jj \in 2..30
        BY <1>3
      <4>3. NewBoxes(i, jj) \in Nat
        BY ONLY <4>1, <4>2, NewBoxesIs, N \in Nat
      <4> QED BY <4>3
    <3>2. Len(s) = lx /\ lx \in Nat
      BY <1>1
    <3> HIDE DEF s
    <3>3. PICK u : Adds(u, s, lx) /\ Total(s) = u[lx]
      BY ONLY <3>1, <3>2, TotalIs
    <3>4. Total(s) \in Int
      BY <3>2, <3>3 DEF Adds
    <3> QED BY <3>4 DEF SumBoxes, s
  <2> QED BY <1>1, <1>4, <2>1, <2>2
<1>6. ASSUME NEW i \in 1..lx
      PROVE  /\ BoxesOf(i) \in Seq(Positive) /\ Len(BoxesOf(i)) = NewBoxes(i, jj) + 1
             /\ Total(BoxesOf(i)) = groups[i].nov /\ NewBoxes(i, jj) \in Nat
  <2>1. PICK N \in Nat : N = Nov[i]
    BY <1>2
  <2>2. PICK r \in Nat \ {0} : r = novref
    BY <1>2
  <2>3. N + r = groups[i].nov
    BY <1>2, <2>1, <2>2
  <2>4. PICK p \in Int : p = 2^jj
    BY <1>3, Powers
  <2>5. NewBoxes(i, jj) \in Nat /\ (NewBoxes(i, jj) = 0 => N < p)
    <3>1. jj \in 2..30
      BY <1>3
    <3> QED BY ONLY <2>1, <2>4, <3>1, NewBoxesIs, N \in Nat
  <2>6. PICK n \in Nat : n = NewBoxP(i) /\ n = NewBoxes(i, jj)
    BY <1>4, <2>5
  <2>7. /\ Movmin(i) \in Int
        /\ n = 0 => N <= Movmin(i)
        /\ n # 0 => /\ (Movmin(i) + r) * n + r <= N + r
                    /\ (Movmin(i) + r) * (n + 1) >= N + r
    BY <1>5, <2>1, <2>2, <2>3, <2>4, <2>5, <2>6, MovedIs
  <2>8. PICK M \in Int : M = Movmin(i)
    BY <2>7
  <2>9. /\ n = 0 => N <= M
        /\ n # 0 => (M + r) * n + r <= N + r /\ (M + r) * (n + 1) >= N + r
    BY <2>7, <2>8
  <2>10. /\ BoxesOf(i) \in Seq(Nat \ {0}) /\ Len(BoxesOf(i)) = n + 1
         /\ Total(BoxesOf(i)) = N + r
    BY <2>1, <2>2, <2>6, <2>8, <2>9, BoxesAre
  <2> QED BY <2>3, <2>5, <2>6, <2>10 DEF Positive
<1> DEFINE q == [i \in 1..lx |-> BoxesOf(i)]
           t == [i \in 0..lx |-> IF i = 0 THEN 0 ELSE groups[i].to]
           s == [i \in 1..lx |-> NewBoxes(i, jj)]
<1>7. PICK u : Adds(u, s, lx) /\ SumBoxes(jj) = u[lx]
  <2>1. \A i \in 1..lx : s[i] \in Int
    BY <1>6
  <2>2. Len(s) = lx /\ lx \in Nat
    BY <1>1
  <2>3. SumBoxes(jj) = Total(s)
    BY DEF SumBoxes
  <2> HIDE DEF s
  <2> QED BY ONLY <2>1, <2>2, <2>3, TotalIs
<1> DEFINE l == [i \in 0..lx |-> u[i] + i]
<1>8. q \in [1..lx -> Seq(Positive)]
  BY <1>6
<1>9. t[0] = 0 /\ \A i \in 1..lx : t[i] = t[i - 1] + Total(q[i])
  <2>1. t[0] = 0
    BY <1>1
  <2>2. ASSUME NEW i \in 1..lx PROVE t[i] = t[i - 1] + Total(q[i])
    <3>1. i \in 0..lx /\ i - 1 \in 0..lx /\ i # 0 /\ (i - 1 = 0 <=> i = 1)
      BY <1>1
    <3>2. Total(q[i]) = groups[i].nov
      BY <1>6
    <3>3. t[i] = groups[i].to /\ t[i - 1] = IF i = 1 THEN 0 ELSE groups[i - 1].to
      BY <3>1
    <3> QED BY <1>1, <3>2, <3>3
  <2> QED BY <2>1, <2>2
<1>10. l[0] = 0 /\ \A i \in 1..lx : l[i] = l[i - 1] + Len(q[i])
  <2>1. l[0] = 0
    BY <1>1, <1>7 DEF Adds
  <2>2. ASSUME NEW i \in 1..lx PROVE l[i] = l[i - 1] + Len(q[i])
    <3>1. i \in 0..lx /\ i - 1 \in 0..lx
      BY <1>1
    <3>2. Len(q[i]) = NewBoxes(i, jj) + 1 /\ s[i] = NewBoxes(i, jj) /\ NewBoxes(i, jj) \in Nat
      BY <1>6
    <3>3. u[i] = u[i - 1] + s[i] /\ u[i - 1] \in Int
      <4> HIDE DEF s
      <4> QED BY <1>7, <3>1 DEF Adds
    <3>4. l[i] = u[i] + i /\ l[i - 1] = u[i - 1] + (i - 1)
      BY <3>1
    <3> HIDE DEF l, s, q
    <3> QED BY <3>2, <3>3, <3>4
  <2> QED BY <2>1, <2>2
<1>11. t[lx] = nxy /\ l[lx] = lx + SumBoxes(jj)
  <2>1. lx \in 0..lx /\ lx # 0
    BY <1>1
  <2>2. t[lx] = nxy
    BY <2>1 DEF Covering, lx
  <2>3. l[lx] = u[lx] + lx /\ u[lx] \in Int
    BY <1>7, <2>1 DEF Adds
  <2> HIDE DEF t, l
  <2> QED BY <1>1, <1>7, <2>2, <2>3
<1>12. /\ FlattenSeq(q) \in Seq(Positive)
       /\ Total(FlattenSeq(q)) = t[lx] /\ Len(FlattenSeq(q)) = l[lx]
  <2> HIDE DEF q, t, l
  <2>1. PICK k \in Nat \ {0} : k = lx
    BY <1>1
  <2>2. PICK Q, T, L : Q = q /\ T = t /\ L = l
    OBVIOUS
  <2>3. Counts(Q, T, L, k)
    BY ONLY <1>8, <1>9, <1>10, <2>1, <2>2 DEF Counts
  <2>4. /\ FlattenSeq(Q) \in Seq(Positive)
        /\ Total(FlattenSeq(Q)) = T[k] /\ Len(FlattenSeq(Q)) = L[k]
    BY ONLY <2>3, FlattenIs, k \in Nat \ {0}
  <2> QED BY ONLY <2>1, <2>2, <2>4
<1>13. Reduced = FlattenSeq(q)
  <2>1. Unreduced = [i \in 1..lx |-> groups[i].nov] /\ Unreduced \in Seq(Int)
    <3>1. \A i \in 1..lx : groups[i].nov \in Int
      BY <1>1 DEF ClosedGroup
    <3> QED BY <1>1, <3>1 DEF Unreduced
  <2>2. SubSeq(Unreduced, 1, 0) = <<>>
    BY <2>1
  <2>3. LastBetter # 0
    BY <1>3
  <2>4. Reduced = SubSeq(Unreduced, 1, 0) \o FlattenSeq(q)
    BY <2>3 DEF Reduced
  <2>5. PICK f \in Seq(Positive) : f = FlattenSeq(q)
    BY <1>12
  <2>6. <<>> \o f = f
    OBVIOUS
  <2> QED BY <2>2, <2>4, <2>5, <2>6
<1> HIDE DEF q, t, l
<1> QED BY <1>5, <1>11, <1>12, <1>13

LEMMA UnreducedIs ==
  ASSUME Covering
  PROVE  /\ Unreduced \in Seq(Positive) /\ Total(Unreduced) = nxy
         /\ Len(Unreduced) = Len(groups)
<1>1. /\ lx \in Nat \ {0}
      /\ \A i \in 1..lx : /\ groups[i].nov \in 1..nxy
                          /\ groups[i].to = (IF i = 1 THEN 0 ELSE groups[i - 1].to)
                                              + groups[i].nov
  BY LengthsAre
<1>2. nxy \in Nat /\ groups[lx].to = nxy
  BY DEF Covering, lx
<1>3. PICK s : s = Unreduced
  OBVIOUS
<1>4. s = [i \in 1..lx |-> groups[i].nov]
  BY <1>3 DEF Unreduced
<1>5. \A i \in 1..lx : s[i] \in Positive /\ s[i] \in Int /\ s[i] = groups[i].nov
  BY <1>1, <1>2, <1>4 DEF Positive
<1>6. s \in Seq(Positive) /\ Len(s) = lx
  <2>1. s \in [1..lx -> Positive]
    BY <1>4, <1>5
  <2> QED BY <1>1, <2>1
<1> DEFINE t == [i \in 0..lx |-> IF i = 0 THEN 0 ELSE groups[i].to]
<1>7. ASSUME NEW i \in 1..lx PROVE t[i] = t[i - 1] + s[i]
  <2>1. i \in 0..lx /\ i - 1 \in 0..lx /\ i # 0 /\ (i - 1 = 0 <=> i = 1)
    BY <1>1
  <2>2. t[i] = groups[i].to /\ t[i - 1] = IF i = 1 THEN 0 ELSE groups[i - 1].to
    BY <2>1
  <2> QED BY <1>1, <1>5, <2>2
<1>8. t[0] = 0 /\ t[lx] = nxy
  BY <1>1, <1>2
<1>9. Total(s) = t[lx]
  <2> HIDE DEF t
  <2>1. PICK k \in Nat : k = lx
    BY <1>1
  <2>2. Len(s) = k /\ (\A i \in 1..k : s[i] \in Int) /\ t[0] = 0
        /\ \A i \in 1..k : t[i] = t[i - 1] + s[i]
    BY <1>5, <1>6, <1>7, <1>8, <2>1
  <2>3. Total(s) = t[k]
    BY ONLY <2>2, TotalBy, k \in Nat
  <2> QED BY <2>1, <2>3
<1> QED BY <1>3, <1>6, <1>8, <1>9 DEF lx

(* What reduce counts depends on the groups and the field alone.           *)
LEMMA SameReducible ==
  ASSUME field' = field, groups' = groups
  PROVE  Reducible' <=> Reducible
<1>1. lx' = lx /\ nxy' = nxy
  BY DEF lx, nxy
<1>2. \A i : groups[i]' = groups[i]
  OBVIOUS
<1>3. novref' = novref
  <2>1. {groups[i].nov : i \in 1..lx}' = {groups[i].nov : i \in 1..lx}
    BY <1>1, <1>2
  <2> QED BY <2>1 DEF novref
<1>4. Nov' = Nov
  BY <1>1, <1>2, <1>3 DEF Nov
<1>5. kbit' = kbit
  BY <1>4 DEF kbit
<1>6. InfoBits' = InfoBits
  <2>1. {groups[i].bits : i \in 1..lx}' = {groups[i].bits : i \in 1..lx}
    BY <1>1, <1>2
  <2>2. {groups[i].min : i \in 1..lx}' = {groups[i].min : i \in 1..lx}
    BY <1>1, <1>2
  <2> QED BY <2>1, <2>2 DEF InfoBits
<1>7. iorigb' = iorigb
  BY <1>1, <1>5, <1>6 DEF iorigb
<1>8. ASSUME NEW i, NEW j PROVE NewBoxes(i, j)' = NewBoxes(i, j)
  BY <1>4 DEF NewBoxes
<1>9. ASSUME NEW j PROVE SumBoxes(j)' = SumBoxes(j)
  <2>1. [i \in 1..lx |-> NewBoxes(i, j)]' = [i \in 1..lx |-> NewBoxes(i, j)]
    BY <1>1, <1>8
  <2> QED BY <2>1 DEF SumBoxes
<1>10. ASSUME NEW j PROVE TotalBits(j)' = TotalBits(j)
  BY <1>1, <1>5, <1>6, <1>7, <1>9 DEF TotalBits
<1>11. jj' = jj
  <2>1. {j \in 2..(kbit - 1) : TotalBits(j) >= TotalBits(j + 1)}'
          = {j \in 2..(kbit - 1) : TotalBits(j) >= TotalBits(j + 1)}
    BY <1>5, <1>10
  <2> QED BY <2>1 DEF jj
<1>12. BestTotal' = BestTotal
  <2>1. PICK k : k = jj
    OBVIOUS
  <2>2. TotalBits(jj)' = TotalBits(jj)
    BY <1>10, <1>11
  <2> QED BY <1>5, <1>7, <1>11, <2>2 DEF BestTotal
<1>13. Better' <=> Better
  BY <1>7, <1>12 DEF Better
<1> QED BY <1>1, <1>2, <1>11, <1>13 DEF Reducible

LengthsGiven ==
  /\ Total(lens) = nxy /\ \A i \in DOMAIN lens : lens[i] > 0
  /\ Len(lens) <= field.ndg

(* Closed groups have their numbers of points, and in the end there are    *)
(* some.                                                                   *)
LensInv ==
  (step = "groups" /\ job.by = "g2" /\ Packable) =>
    /\ Measured
    /\ pc = "L209" => groups # <<>>
    /\ pc = "done" /\ Reducible => LengthsGiven

LEMMA FinishLengths ==
  ASSUME Given, Groups, Measured, groups # <<>>, Finish, pc' = "done", Reducible
  PROVE  LengthsGiven'
<1>1. field' = field /\ groups' = groups /\ pc = "L209"
  BY DEF Finish
<1>2. nxy \in Nat /\ Ready /\ field.ndg \in Nat /\ Closed /\ Last(groups).to = nxy
  BY <1>1, GivenIs DEF Groups, Ready
<1>3. Covering
  <2>1. groups \in Seq(ClosedGroup) /\ ChainFrom(groups, 1)
    BY <1>2 DEF Closed
  <2>2. \A i \in 1..Len(groups) : groups[i].from <= groups[i].to
    <3>1. DOMAIN groups = 1..Len(groups)
      BY <2>1
    <3> QED BY <1>2, <3>1 DEF Closed, Holds
  <2>3. groups[Len(groups)].to = nxy
    BY <1>2 DEF Last
  <2> QED BY <1>2, <2>1, <2>2, <2>3 DEF Covering
<1>4. PICK s : s = lens'
  OBVIOUS
<1>5. s \in Seq(Positive) /\ Total(s) = nxy /\ Len(s) <= field.ndg
  <2>1. CASE lens' = Unreduced
    <3>1. Unreduced \in Seq(Positive) /\ Total(Unreduced) = nxy /\ Len(Unreduced) = Len(groups)
      BY <1>3, UnreducedIs
    <3>2. Len(groups) <= field.ndg
      BY <1>2 DEF Closed
    <3> QED BY <1>4, <2>1, <3>1, <3>2
  <2>2. CASE Better /\ ~Aborts /\ lens' = Reduced
    <3>1. nxy <= 2^30 /\ (\A i \in 1..lx : groups[i].min < 2^30) /\ jj # 0
      BY <2>2 DEF Reducible
    <3>2. Reduced \in Seq(Positive) /\ Total(Reduced) = nxy /\ Len(Reduced) <= field.ndg
      BY <1>2, <1>3, <2>2, <3>1, ReducedIs
    <3> QED BY <1>4, <2>2, <3>2
  <2>3. lens' = Unreduced \/ (Better /\ ~Aborts /\ lens' = Reduced)
    BY DEF Finish
  <2> QED BY <2>1, <2>2, <2>3
<1>6. \A i \in DOMAIN s : s[i] > 0
  BY <1>5 DEF Positive
<1>7. nxy' = nxy
  BY <1>1 DEF nxy
<1> QED BY <1>1, <1>4, <1>5, <1>6, <1>7 DEF LengthsGiven

LEMMA MeasuredStep ==
  ASSUME Given, Groups, Measured, PackGp
  PROVE  Measured'
<1>1. CASE groups' = groups
  BY <1>1 DEF Measured
<1>2. CASE groups' = <<>>
  <2>1. Len(<<>>) = 0
    OBVIOUS
  <2> QED BY <1>2, <2>1 DEF Measured
<1>3. CASE Close
  <2>1. ALast /\ Closed
    BY <1>3 DEF Close, Groups
  <2>2. a.bits \in 0..30 /\ a \in GroupType
    BY <2>1 DEF ALast, GroupOK
  <2>3. PICK c : c = Kept
    OBVIOUS
  <2>4. c.nov = c.to - c.from + 1 /\ c.bits \in 0..30 /\ c \in ClosedGroup
    BY <2>2, <2>3 DEF Kept, GroupType, ClosedGroup
  <2>5. groups \in Seq(ClosedGroup) /\ groups' = Append(groups, c)
    BY <1>3, <2>1, <2>3 DEF Closed, Close
  <2>6. PICK n \in Nat : n = Len(groups)
    BY <2>5
  <2>7. Len(groups') = n + 1 /\ groups'[n + 1] = c /\ \A i \in 1..n : groups'[i] = groups[i]
    BY <2>4, <2>5, <2>6
  <2>8. ASSUME NEW i \in 1..(n + 1)
        PROVE  groups'[i].nov = groups'[i].to - groups'[i].from + 1 /\ groups'[i].bits \in 0..30
    <3>1. CASE i \in 1..n
      BY <2>6, <2>7, <3>1 DEF Measured
    <3>2. CASE i = n + 1
      BY <2>4, <2>7, <3>2
    <3> QED BY <3>1, <3>2
  <2> QED BY <2>7, <2>8 DEF Measured
<1>4. groups' = groups \/ groups' = <<>> \/ Close
  BY DEF PackGp, FirstGroup, SecondGroup, CloseA, GiveBack, KeepA, ExtendA, Finish
<1> QED BY <1>1, <1>2, <1>3, <1>4

LEMMA LensInvStep == PackInv /\ LensInv /\ [Next]_vars => LensInv'
<1> SUFFICES ASSUME PackInv, LensInv, [Next]_vars, (step = "groups" /\ job.by = "g2" /\ Packable)'
             PROVE  /\ Measured'
                    /\ (pc = "L209" => groups # <<>>)'
                    /\ (pc = "done" /\ Reducible => LengthsGiven)'
  BY DEF LensInv
<1>1. CASE CallPackGp
  <2>1. step = "encode" /\ groups = <<>>
    BY <1>1 DEF CallPackGp, PackInv
  <2>2. Call(Spread)
    BY <1>1 DEF CallPackGp
  <2>3. groups' = <<>> /\ pc' = "L105"
    BY <2>1, <2>2 DEF Call
  <2>4. Len(<<>>) = 0
    OBVIOUS
  <2> QED BY <2>3, <2>4 DEF Measured
<1>2. CASE InPackGp
  <2>1. step = "groups" /\ job.by = "g2" /\ PackGp
    BY <1>2 DEF InPackGp
  <2>2. field' = field
    BY <2>1 DEF PackGp, FirstGroup, SecondGroup, CloseA, GiveBack, KeepA, ExtendA, Close, Finish
  <2>3. Packable
    BY <2>2, SameField
  <2>4. Given /\ Groups /\ Measured /\ (pc = "L209" => groups # <<>>)
    BY <2>1, <2>3 DEF PackInv, LensInv, Given
  <2>5. Measured'
    BY <2>1, <2>4, MeasuredStep
  <2>6. (pc = "L209" => groups # <<>>)'
    <3>1. pc' = "L209" => Close
      BY <2>1 DEF PackGp, FirstGroup, SecondGroup, CloseA, GiveBack, KeepA, ExtendA, Finish, Compared
    <3>2. Close => groups' # <<>>
      <4>1. groups \in Seq(ClosedGroup)
        BY <2>4 DEF Groups, Closed
      <4>2. PICK c : c = Kept
        OBVIOUS
      <4> QED BY <4>1, <4>2 DEF Close
    <3> QED BY <3>1, <3>2
  <2>7. ASSUME pc' = "done", Reducible' PROVE LengthsGiven'
    <3>1. Finish
      BY <2>1, <2>7 DEF PackGp, FirstGroup, SecondGroup, CloseA, GiveBack, KeepA, ExtendA, Close,
                        Compared
    <3>2. pc = "L209" /\ groups' = groups
      BY <3>1 DEF Finish
    <3>3. Reducible
      BY <2>2, <2>7, <3>2, SameReducible
    <3> QED BY <2>4, <2>7, <3>1, <3>2, <3>3, FinishLengths
  <2> QED BY <2>5, <2>6, <2>7
<1>3. CASE End \/ UNCHANGED vars
  <2>1. UNCHANGED groupVars /\ job' = job /\ step' = step
    BY <1>3 DEF End, vars
  <2>2. field' = field /\ groups' = groups /\ pc' = pc /\ lens' = lens
    BY <2>1 DEF groupVars
  <2>3. step = "groups" /\ job.by = "g2" /\ Packable
    BY <2>1, <2>2, SameField
  <2>4. Measured /\ (pc = "L209" => groups # <<>>) /\ (pc = "done" /\ Reducible => LengthsGiven)
    BY <2>3 DEF LensInv
  <2>5. Measured'
    BY <2>2, <2>4 DEF Measured
  <2>6. LengthsGiven => LengthsGiven'
    BY <2>2 DEF LengthsGiven, nxy
  <2>7. Reducible' <=> Reducible
    BY <2>2, SameReducible
  <2> QED BY <2>2, <2>4, <2>5, <2>6, <2>7
<1>4. CASE WriteGroups \/ WriteSections \/ PackSimple \/ Read
  BY <1>4 DEF WriteGroups, WriteSections, PackSimple, Read
<1>5. CASE StartSections \/ InSections
  BY <1>5 DEF StartSections, InSections
<1> QED BY <1>1, <1>2, <1>3, <1>4, <1>5 DEF Next

(* Whatever groups are split, the lengths given back are those of all      *)
(* points, none is zero, and they fit in the arrays of compack.            *)
THEOREM LengthsAreCovered == Spec => []LengthsCover
<1>1. Init => PackInv /\ LensInv
  <2>1. Init => LensInv
    BY DEF Init, LensInv
  <2> QED BY <2>1, PackInvInit
<1>2. (PackInv /\ LensInv) /\ [Next]_vars => (PackInv /\ LensInv)'
  BY PackInvStep, LensInvStep
<1>3. PackInv /\ LensInv => LengthsCover
  BY DEF LensInv, LengthsCover, LengthsGiven
<1> QED BY <1>1, <1>2, <1>3, PTL DEF Spec
=============================================================================

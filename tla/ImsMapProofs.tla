---------------------------- MODULE ImsMapProofs ----------------------------
(***************************************************************************)
(* For every grid, land mask and sequence of model points, and whatever    *)
(* AREA held before: a model point takes its snow or ice from the nearest  *)
(* ring that has a point with its surface.                                 *)
(***************************************************************************)
EXTENDS ImsMap, DataInduction

-----------------------------------------------------------------------------
(* Distances and rings.                                                    *)

LEMMA DistanceType ==
  ASSUME NEW a \in Ims, NEW b \in Ims
  PROVE  Distance(a, b) \in Nat /\ (Distance(a, b) = 0 => a = b)
<1>1. N \in Nat
  BY ImsMapAssumption
<1>2. PICK x \in 1..N, y \in 1..N : a = <<x, y>>
  BY DEF Ims
<1>3. PICK u \in 1..N, v \in 1..N : b = <<u, v>>
  BY DEF Ims
<1> QED BY <1>1, <1>2, <1>3 DEF Distance

LEMMA RingDistance ==
  ASSUME NEW a \in Ims, NEW q \in Ims, NEW LL \in Nat
  PROVE  q \in Ring(a, LL) <=> Distance(q, a) <= LL
<1>1. N \in Nat
  BY ImsMapAssumption
<1>2. PICK x \in 1..N, y \in 1..N : a = <<x, y>>
  BY DEF Ims
<1>3. PICK u \in 1..N, v \in 1..N : q = <<u, v>>
  BY DEF Ims
<1> QED BY <1>1, <1>2, <1>3 DEF Distance, Ring

(* The loops over a part of the grid that is not empty have a first point. *)
LEMMA FirstPoint ==
  ASSUME NEW S, S \subseteq Ims, S # {}
  PROVE  FirstInLoops(S) \in S
<1> DEFINE Rows == {i \in 1..N : \E q \in S : q[1] = i}
<1>1. N \in Nat /\ \A q \in S : q[1] \in 1..N /\ q[2] \in 1..N
  BY ImsMapAssumption DEF Ims
<1>2. Rows \in SUBSET Nat /\ Rows # {}
  BY <1>1
<1>3. PICK i \in Rows : \A k \in Rows : i <= k
  <2> HIDE DEF Rows
  <2> QED BY <1>2, LeastNatural
<1> DEFINE Columns == {j \in 1..N : \E q \in S : q[1] = i /\ q[2] = j}
<1>4. Columns \in SUBSET Nat /\ Columns # {}
  BY <1>1, <1>3
<1>5. PICK j \in Columns : \A k \in Columns : j <= k
  <2> HIDE DEF Columns
  <2> QED BY <1>4, LeastNatural
<1>6. PICK q \in S : q[1] = i /\ q[2] = j
  BY <1>5
<1>7. \A s \in S : q[1] < s[1] \/ (q[1] = s[1] /\ q[2] <= s[2])
  <2> SUFFICES ASSUME NEW s \in S, ~(q[1] < s[1])
               PROVE  q[1] = s[1] /\ q[2] <= s[2]
    OBVIOUS
  <2>1. s[1] \in Rows /\ i <= s[1]
    BY <1>1, <1>3
  <2>2. s[1] = i
    BY <1>1, <1>6, <2>1
  <2>3. s[2] \in Columns
    BY <1>1, <2>2
  <2> QED BY <1>5, <1>6, <2>2, <2>3
<1> HIDE DEF Rows, Columns
<1> QED BY <1>6, <1>7 DEF FirstInLoops

-----------------------------------------------------------------------------
LEMMA NearestInside ==
  ASSUME NEW p \in ModelPoints, ~Skipped(p)
  PROVE  /\ NINT(p.X) \in 1..N - 1 /\ NINT(p.Y) \in 1..N - 1
         /\ p.X \in Nat /\ p.Y \in Nat /\ N \in Nat /\ Q \in Nat
         /\ Nearest(p) \in Ims /\ Distance(Nearest(p), Nearest(p)) = 0
<1>1. /\ NINT(p.X) \in 1..N - 1 /\ NINT(p.Y) \in 1..N - 1
      /\ p.X \in Nat /\ p.Y \in Nat /\ N \in Nat /\ Q \in Nat
  BY ImsMapAssumption DEF WellFormedPoint, Skipped
<1> QED BY <1>1 DEF Nearest, Ims, Distance

LEMMA FourPoints ==
  ASSUME NEW p \in ModelPoints, ~Skipped(p), NEW n \in 1..4
  PROVE  /\ Four(p)[n].at \in Ims /\ Four(p)[n].area \in Int
         /\ Distance(Four(p)[n].at, Nearest(p)) <= 1
<1> DEFINE IS == NINT(p.X)
           JS == NINT(p.Y)
           x == p.X - Q * IS
           y == p.Y - Q * JS
<1>1. IS \in 1..N - 1 /\ JS \in 1..N - 1 /\ N \in Nat /\ x \in Int /\ y \in Int /\ Q \in Nat
  BY NearestInside
<1>2. Nearest(p) = <<IS, JS>>
  BY DEF Nearest
<1>3. /\ Four(p)[1] = [at |-> <<IS, JS>>, area |-> (Q - x) * (Q - y)]
      /\ Four(p)[2] = [at |-> <<IS, JS + 1>>, area |-> (Q - x) * y]
      /\ Four(p)[3] = [at |-> <<IS + 1, JS>>, area |-> x * (Q - y)]
      /\ Four(p)[4] = [at |-> <<IS + 1, JS + 1>>, area |-> x * y]
  BY DEF Four
<1> HIDE DEF IS, JS, x, y
<1>4. /\ (Q - x) * (Q - y) \in Int /\ (Q - x) * y \in Int
      /\ x * (Q - y) \in Int /\ x * y \in Int
  BY <1>1
<1>5. ASSUME NEW i \in {IS, IS + 1}, NEW j \in {JS, JS + 1}
      PROVE  <<i, j>> \in Ims /\ Distance(<<i, j>>, <<IS, JS>>) <= 1
  BY <1>1 DEF Ims, Distance
<1>6. n = 1 \/ n = 2 \/ n = 3 \/ n = 4
  OBVIOUS
<1> QED BY <1>2, <1>3, <1>4, <1>5, <1>6

(* What is kept while the four points are examined: once one of them has   *)
(* been counted, the best is a neighbour with the surface of the point.    *)
Bests(p) ==
  {b \in [KOUNT : Nat, at : Ims, area : Int] :
     b.KOUNT > 0 => SameSurface(p, b.at) /\ Distance(b.at, Nearest(p)) <= 1}

LEMMA Examined ==
  ASSUME NEW p \in ModelPoints, ~Skipped(p), NEW n \in 1..4, NEW b \in Bests(p)
  PROVE  Examine(p, n, b) \in Bests(p)
<1> DEFINE c == Four(p)[n]
<1>1. c.at \in Ims /\ c.area \in Int /\ Distance(c.at, Nearest(p)) <= 1
  BY FourPoints
<1>2. b \in [KOUNT : Nat, at : Ims, area : Int]
  BY DEF Bests
<1>3. /\ b.KOUNT \in Nat /\ b.at \in Ims /\ b.area \in Int
      /\ b.KOUNT > 0 => SameSurface(p, b.at) /\ Distance(b.at, Nearest(p)) <= 1
  BY DEF Bests
<1>4. ASSUME NEW k \in Nat, NEW area \in Int, SameSurface(p, c.at)
      PROVE  [KOUNT |-> k, at |-> c.at, area |-> area] \in Bests(p)
  BY <1>1, <1>4 DEF Bests
<1> HIDE DEF c
<1>5. CASE ~SameSurface(p, c.at)
  BY <1>5 DEF Examine, c
<1>6. CASE SameSurface(p, c.at) /\ b.KOUNT = 0
  <2>1. Examine(p, n, b)
          = [KOUNT |-> 1, at |-> c.at, area |-> IF n = 2 THEN b.area ELSE c.area]
    BY <1>6 DEF Examine, c
  <2>2. (IF n = 2 THEN b.area ELSE c.area) \in Int
    BY <1>1, <1>3
  <2> QED BY <1>4, <1>6, <2>1, <2>2
<1>7. CASE SameSurface(p, c.at) /\ b.KOUNT # 0 /\ c.area > b.area
  <2>1. Examine(p, n, b) = [KOUNT |-> b.KOUNT + 1, at |-> c.at, area |-> c.area]
    BY <1>7 DEF Examine, c
  <2> QED BY <1>1, <1>3, <1>4, <1>7, <2>1
<1>8. CASE SameSurface(p, c.at) /\ b.KOUNT # 0 /\ ~(c.area > b.area)
  <2>1. Examine(p, n, b) = [b EXCEPT !.KOUNT = @ + 1]
    BY <1>8 DEF Examine, c
  <2>2. [b EXCEPT !.KOUNT = @ + 1] = [KOUNT |-> b.KOUNT + 1, at |-> b.at, area |-> b.area]
    BY <1>2
  <2>3. b.KOUNT > 0
    BY <1>3, <1>8
  <2> QED BY <1>3, <2>1, <2>2, <2>3 DEF Bests
<1> QED BY <1>5, <1>6, <1>7, <1>8

LEMMA BestOfFourTaken ==
  ASSUME TypeOK, NEW p \in ModelPoints, ~Skipped(p)
  PROVE  BestOfFour(p) \in Bests(p)
<1> DEFINE none == [KOUNT |-> 0, at |-> Nearest(p), area |-> AREA]
<1>1. none \in Bests(p)
  BY NearestInside DEF Bests, TypeOK
<1> HIDE DEF none
<1>2. Examine(p, 1, none) \in Bests(p)
  BY <1>1, Examined
<1>3. Examine(p, 2, Examine(p, 1, none)) \in Bests(p)
  BY <1>2, Examined
<1>4. Examine(p, 3, Examine(p, 2, Examine(p, 1, none))) \in Bests(p)
  BY <1>3, Examined
<1>5. Examine(p, 4, Examine(p, 3, Examine(p, 2, Examine(p, 1, none)))) \in Bests(p)
  BY <1>4, Examined
<1> QED BY <1>5 DEF BestOfFour, none

LEMMA OtherSurface ==
  ASSUME NEW p \in ModelPoints, ~Skipped(p), ~SameSurface(p, Nearest(p)),
         NEW q \in Ims, SameSurface(p, q)
  PROVE  Distance(q, Nearest(p)) >= 1
<1>1. q # Nearest(p) /\ Nearest(p) \in Ims
  BY NearestInside
<1> QED BY <1>1, DistanceType

LEMMA FoundClosest ==
  ASSUME NEW p \in ModelPoints, ~Skipped(p), ~SameSurface(p, Nearest(p))
  PROVE  Found(p) \in Ims /\ Closest(p, Found(p))
<1> DEFINE near == Nearest(p)
           match(LL) == {q \in Ring(near, LL) : SameSurface(p, q)}
           rings == {LL \in 1..Radius : match(LL) # {}}
           first == CHOOSE LL \in rings : \A M \in rings : LL <= M
<1>0. Radius \in Nat /\ near \in Ims
  BY ImsMapAssumption, NearestInside
<1>1. \A LL \in Nat : \A q : q \in match(LL)
                           <=> q \in Ims /\ SameSurface(p, q) /\ Distance(q, near) <= LL
  BY <1>0, RingDistance DEF Ring
<1>2. \A q \in Same(p) : Distance(q, near) \in rings /\ q \in match(Distance(q, near))
  <2> SUFFICES ASSUME NEW q \in Same(p)
               PROVE  Distance(q, near) \in rings /\ q \in match(Distance(q, near))
    OBVIOUS
  <2>1. q \in Ims /\ SameSurface(p, q) /\ Distance(q, near) <= Radius
    BY DEF Same
  <2>2. Distance(q, near) \in Nat /\ Distance(q, near) >= 1
    BY <1>0, <2>1, DistanceType, OtherSurface
  <2> DEFINE d == Distance(q, near)
  <2>3. q \in match(d)
    <3> HIDE DEF match, d
    <3>1. d \in Nat /\ d <= d
      BY <2>2 DEF d
    <3>2. Distance(q, near) <= d
      BY <3>1 DEF d
    <3> QED BY <1>1, <2>1, <3>1, <3>2
  <2>4. d \in Nat /\ 1 <= d /\ d <= Radius
    BY <2>1, <2>2
  <2>5. match(d) # {}
    <3> HIDE DEF match, d
    <3> QED BY <2>3
  <2>6. d \in 1..Radius
    <3> HIDE DEF d
    <3> QED BY <1>0, <2>4
  <2>7. d \in rings
    <3> HIDE DEF match, d
    <3> QED BY <2>5, <2>6
  <2> QED BY <2>3, <2>7
<1>3. CASE rings = {}
  <2>1. Found(p) = near
    BY <1>3 DEF Found
  <2>2. Same(p) = {}
    BY <1>2, <1>3
  <2> QED BY <1>0, <2>1, <2>2 DEF Closest
<1>4. CASE rings # {}
  <2>1. rings \in SUBSET Nat
    BY <1>0
  <2>2. first \in rings /\ \A M \in rings : first <= M
    <3>1. \E LL \in rings : \A M \in rings : LL <= M
      <4> HIDE DEF rings
      <4> QED BY <1>4, <2>1, LeastNatural
    <3> HIDE DEF rings
    <3> QED BY <3>1
  <2>3. first \in 1..Radius /\ match(first) # {} /\ first \in Nat
    <3>1. first \in 1..Radius /\ match(first) # {}
      <4> HIDE DEF first
      <4> QED BY <2>2
    <3>2. first \in Nat
      <4> HIDE DEF first, match
      <4> QED BY <1>0, <3>1
    <3> QED BY <3>1, <3>2
  <2>4. Found(p) = FirstInLoops(match(first))
    BY <1>4 DEF Found
  <2>5. match(first) \subseteq Ims
    BY DEF Ring
  <2>6. Found(p) \in match(first)
    <3> HIDE DEF match, first
    <3> QED BY <2>3, <2>4, <2>5, FirstPoint
  <2>7. Found(p) \in Ims /\ SameSurface(p, Found(p)) /\ Distance(Found(p), near) <= first
    <3> HIDE DEF match, first
    <3> QED BY <1>1, <2>3, <2>6
  <2>8. Distance(Found(p), near) \in Nat
    BY <1>0, <2>7, DistanceType
  <2>9. Found(p) \in Same(p)
    <3> HIDE DEF first
    <3> QED BY <1>0, <2>3, <2>7, <2>8 DEF Same
  <2>10. \A q \in Same(p) : Distance(Found(p), near) <= Distance(q, near)
    <3> SUFFICES ASSUME NEW q \in Same(p)
                 PROVE  Distance(Found(p), near) <= Distance(q, near)
      OBVIOUS
    <3>1. first <= Distance(q, near)
      <4> HIDE DEF rings, first
      <4> QED BY <1>2, <2>2
    <3>2. Distance(q, near) \in Nat
      BY <1>0, DistanceType DEF Same
    <3> HIDE DEF first
    <3> QED BY <2>3, <2>7, <2>8, <3>1, <3>2
  <2> HIDE DEF first, rings, match
  <2> QED BY <2>7, <2>9, <2>10 DEF Closest
<1> HIDE DEF rings
<1> QED BY <1>3, <1>4

-----------------------------------------------------------------------------
(* One model point.                                                        *)

LEMMA Taken ==
  ASSUME TypeOK, Next, Pending
  PROVE  /\ UNCHANGED <<maskims, points>> /\ Point \in ModelPoints /\ AREA' \in Int
         /\ \E at \in Ims \cup {Zero} :
              /\ source' = Append(source, at)
              /\ ~Skipped(Point) => at \in Ims /\ Closest(Point, at)
<1>1. npoints \in Nat /\ Len(source) \in Nat /\ Len(source) < npoints
  BY ImsMapAssumption DEF TypeOK, Pending
<1>2. Point \in ModelPoints /\ AREA \in Int
  BY <1>1 DEF Point, TypeOK
<1> DEFINE p == Point
<1>3. CASE Skip
  BY <1>2, <1>3 DEF Skip
<1>4. CASE TakeNearest
  <2>1. ~Skipped(p) /\ SameSurface(p, Nearest(p)) /\ source' = Append(source, Nearest(p))
    BY <1>4 DEF TakeNearest
  <2>2. Nearest(p) \in Ims /\ Distance(Nearest(p), Nearest(p)) = 0
    BY <1>2, <2>1, NearestInside
  <2>3. Nearest(p) \in Same(p)
    BY <2>1, <2>2, ImsMapAssumption DEF Same
  <2>4. \A q \in Same(p) : Distance(Nearest(p), Nearest(p)) <= Distance(q, Nearest(p))
    BY <2>2, DistanceType DEF Same
  <2>5. Closest(p, Nearest(p))
    BY <2>3, <2>4 DEF Closest
  <2> QED BY <1>2, <1>4, <2>1, <2>2, <2>5 DEF TakeNearest
<1>5. CASE TakeBestOfFour
  <2> DEFINE b == BestOfFour(p)
  <2>1. /\ ~Skipped(p) /\ ~SameSurface(p, Nearest(p)) /\ source' = Append(source, b.at)
        /\ b.KOUNT > 0 /\ AREA' = b.area
    BY <1>5 DEF TakeBestOfFour
  <2>2. b \in Bests(p)
    BY <1>2, <2>1, BestOfFourTaken
  <2>3. /\ b.at \in Ims /\ b.area \in Int
        /\ SameSurface(p, b.at) /\ Distance(b.at, Nearest(p)) <= 1
    <3> HIDE DEF b
    <3> QED BY <2>1, <2>2 DEF Bests
  <2>4. Nearest(p) \in Ims /\ Distance(b.at, Nearest(p)) \in Nat
    BY <1>2, <2>1, <2>3, NearestInside, DistanceType
  <2>5. b.at \in Same(p)
    <3> HIDE DEF b
    <3> QED BY <2>3, <2>4, ImsMapAssumption DEF Same
  <2>6. \A q \in Same(p) : Distance(b.at, Nearest(p)) <= Distance(q, Nearest(p))
    <3> SUFFICES ASSUME NEW q \in Same(p)
                 PROVE  Distance(b.at, Nearest(p)) <= Distance(q, Nearest(p))
      OBVIOUS
    <3>1. q \in Ims /\ SameSurface(p, q)
      BY DEF Same
    <3>2. Distance(q, Nearest(p)) >= 1 /\ Distance(q, Nearest(p)) \in Nat
      BY <1>2, <2>1, <2>4, <3>1, OtherSurface, DistanceType
    <3> QED BY <2>3, <2>4, <3>2
  <2>7. Closest(p, b.at)
    BY <2>5, <2>6 DEF Closest
  <2> QED BY <1>2, <1>5, <2>1, <2>3, <2>7 DEF TakeBestOfFour
<1>6. CASE Search
  <2>1. ~Skipped(p) /\ ~SameSurface(p, Nearest(p)) /\ source' = Append(source, Found(p))
    BY <1>6 DEF Search
  <2>2. Found(p) \in Ims /\ Closest(p, Found(p))
    BY <1>2, <2>1, FoundClosest
  <2> QED BY <1>2, <1>6, <2>1, <2>2 DEF Search
<1> QED BY <1>3, <1>4, <1>5, <1>6 DEF Next, Mapped

MapInv == TypeOK /\ ClosestRing

LEMMA MapInit == Init => MapInv
BY ImsMapAssumption DEF Init, MapInv, TypeOK, ClosestRing, Placed

LEMMA MapStep == MapInv /\ [Next]_vars => MapInv'
<1> SUFFICES ASSUME MapInv, [Next]_vars PROVE MapInv'
  OBVIOUS
<1>1. TypeOK /\ ClosestRing /\ npoints \in Nat
  BY ImsMapAssumption DEF MapInv
<1>2. CASE UNCHANGED vars
  <2>1. /\ maskims' = maskims /\ points' = points /\ AREA' = AREA /\ source' = source
    BY <1>2 DEF vars
  <2>2. TypeOK'
    BY <1>1, <2>1 DEF TypeOK
  <2>3. ClosestRing'
    BY <1>1, <2>1 DEF ClosestRing, Closest, Same, Placed, SameSurface
  <2> QED BY <2>2, <2>3 DEF MapInv
<1>3. CASE Next /\ Pending
  <2>1. UNCHANGED <<maskims, points>> /\ AREA' \in Int
    BY <1>1, <1>3, Taken
  <2>2. PICK at \in Ims \cup {Zero} :
          /\ source' = Append(source, at)
          /\ ~Skipped(Point) => at \in Ims /\ Closest(Point, at)
    BY <1>1, <1>3, Taken
  <2> DEFINE L == Len(source)
  <2>3. source \in Seq(Ims \cup {Zero}) /\ L \in Nat /\ L < npoints
    BY <1>1, <1>3 DEF TypeOK, Pending
  <2>4. /\ source' \in Seq(Ims \cup {Zero}) /\ Len(source') = L + 1
        /\ source'[L + 1] = at /\ \A n \in 1..L : source'[n] = source[n]
        /\ DOMAIN source' = 1..L + 1 /\ DOMAIN source = 1..L
    BY <2>2, <2>3
  <2>5. TypeOK'
    BY <1>1, <2>1, <2>3, <2>4 DEF TypeOK
  <2>6. ASSUME NEW n \in Placed' PROVE Closest(points[n], source'[n])
    <3>1. n \in 1..L + 1 /\ ~Skipped(points[n])
      BY <2>1, <2>4, <2>6 DEF Placed
    <3>2. CASE n = L + 1
      BY <2>2, <2>4, <3>1, <3>2 DEF Point
    <3>3. CASE n \in 1..L
      <4>1. n \in Placed /\ source'[n] = source[n]
        BY <2>4, <3>1, <3>3 DEF Placed
      <4> QED BY <1>1, <4>1 DEF ClosestRing, Closest, Same
    <3> QED BY <2>3, <3>1, <3>2, <3>3
  <2>7. ClosestRing'
    <3>1. ASSUME NEW p, NEW q, Closest(p, q) PROVE Closest(p, q)'
      BY <2>1, <3>1 DEF Closest, Same, SameSurface
    <3>2. points' = points
      BY <2>1
    <3> QED BY <2>6, <3>1, <3>2 DEF ClosestRing
  <2> QED BY <2>5, <2>7 DEF MapInv
<1>4. CASE Next /\ ~Pending
  <2>1. UNCHANGED vars
    BY <1>4 DEF Next, Skip, TakeNearest, TakeBestOfFour, Search, Mapped
  <2> QED BY <1>2, <2>1
<1> QED BY <1>2, <1>3, <1>4

(* Whatever was mapped before a model point and whatever AREA held at the  *)
(* start, every point done has an IMS point inside the grid, or none.      *)
THEOREM MapTypeCorrect == Spec => []TypeOK
<1>1. MapInv => TypeOK
  BY DEF MapInv
<1> QED BY <1>1, MapInit, MapStep, PTL DEF Spec

(* A model point takes its value from the nearest ring that has a point    *)
(* with its surface: among the next four whichever AREA prefers, and ring  *)
(* by ring after that.                                                     *)
THEOREM ClosestRingTaken == Spec => []ClosestRing
<1>1. MapInv => ClosestRing
  BY DEF MapInv
<1> QED BY <1>1, MapInit, MapStep, PTL DEF Spec
=============================================================================

--------------------------- MODULE SnowIceProofs ----------------------------
(***************************************************************************)
(* For every grid, surface, background and content of unassigned memory:   *)
(* the snow about to be written respects IMS, and a run that ends leaves   *)
(* consistent land parameters, whatever runs were cut off before.          *)
(***************************************************************************)
EXTENDS SnowIce, DataInduction

-----------------------------------------------------------------------------
(* The grid.                                                               *)

LEMMA GridFacts ==
  /\ npoint \in Nat \ {0}
  /\ Point = 1..npoint
  /\ \A i \in 1..nlon, j \in 1..nlat : At(i, j) \in Point
  /\ \A p \in Point : I(p) \in 1..nlon /\ J(p) \in Int
<1>1. nlon \in Nat \ {0} /\ nlat \in Nat \ {0}
  BY SnowIceAssumption
<1>2. npoint \in Nat \ {0}
  BY <1>1 DEF npoint
<1>3. ASSUME NEW i \in 1..nlon, NEW j \in 1..nlat PROVE At(i, j) \in Point
  <2>1. (j - 1) * nlon \in Nat /\ (nlat - j) * nlon \in Nat
    BY <1>1
  <2>2. (j - 1) * nlon + nlon + (nlat - j) * nlon = nlon * nlat
    BY <1>1
  <2> QED BY <1>1, <2>1, <2>2 DEF At, Point, npoint
<1>4. ASSUME NEW p \in Point PROVE I(p) \in 1..nlon /\ J(p) \in Int
  BY <1>1, <1>2 DEF I, J, Point
<1> QED BY <1>2, <1>3, <1>4 DEF Point

-----------------------------------------------------------------------------
(* Sums over the rich points of a window.                                  *)

Term(p, x, q) == IF q \in Rich(p) THEN x[q] ELSE 0
SumOf(g, p, x) ==
  /\ g \in [0..npoint -> Int] /\ g[0] = 0
  /\ \A q \in 1..npoint : g[q] = g[q - 1] + Term(p, x, q)

LEMMA RichSums ==
  ASSUME NEW p \in Point, NEW x, x \in [Point -> Int]
  PROVE  \E g : SumOf(g, p, x) /\ RichSum(p, x) = g[npoint]
<1> DEFINE step == [i \in Nat |-> [v \in Int |-> IF i \in Point THEN v + Term(p, x, i) ELSE v]]
           Solves(g) == g = [q \in 0..npoint |-> IF q = 0 THEN 0 ELSE g[q - 1] + Term(p, x, q)]
<1>0. npoint \in Nat /\ Point = 1..npoint
  BY GridFacts
<1>1. \A q \in Point : Term(p, x, q) \in Int
  BY DEF Term
<1>2. Steps(Int, 0, step, npoint)
  BY <1>0, <1>1 DEF Steps
<1>3. PICK g : Takes(g, Int, 0, step, npoint)
  <2> HIDE DEF step
  <2> QED BY <1>2, StepFunction
<1>4. ASSUME NEW q \in 1..npoint PROVE g[q] = g[q - 1] + Term(p, x, q)
  <2>1. q \in Nat /\ q \in Point /\ q - 1 \in 0..npoint /\ g[q - 1] \in Int
    BY <1>0, <1>3 DEF Takes
  <2>2. g[q] = step[q][g[q - 1]]
    BY <1>3 DEF Takes
  <2> QED BY <2>1, <2>2
<1>5. g[0] = 0 /\ g \in [0..npoint -> Int]
  BY <1>3 DEF Takes
<1>6. Solves(g)
  BY <1>4, <1>5, <1>0
<1>7. RichSum(p, x) = (CHOOSE h : Solves(h))[npoint]
  BY DEF RichSum, Term
<1>8. PICK h : h = (CHOOSE f : Solves(f))
  OBVIOUS
<1>9. Solves(h)
  <2> HIDE DEF Solves
  <2> QED BY <1>6, <1>8
<1>10. h[npoint] = g[npoint]
  <2>1. \A i \in 0 + 1..npoint : h[i - 1] = g[i - 1] => h[i] = g[i]
    BY <1>0, <1>4, <1>9
  <2>2. h[0] = g[0]
    BY <1>0, <1>5, <1>9
  <2>3. PICK lo \in Int, hi \in Int : lo = 0 /\ hi = npoint
    BY <1>0
  <2>4. h[lo] = g[lo] /\ \A i \in lo + 1..hi : h[i - 1] = g[i - 1] => h[i] = g[i]
    BY <2>1, <2>2, <2>3
  <2>5. \A i \in lo..hi : h[i] = g[i]
    BY ONLY <2>4, SameSteps, lo \in Int, hi \in Int
  <2> QED BY <1>0, <2>3, <2>5
<1> QED BY <1>4, <1>5, <1>7, <1>8, <1>10 DEF SumOf

(* The number of rich points, and a bound of a sum over them.              *)
LEMMA RichBounds ==
  ASSUME NEW p \in Point, NEW x, x \in [Point -> Int], NEW hi \in Nat,
         \A q \in Rich(p) : x[q] <= hi
  PROVE  /\ numnb(p) \in Nat /\ RichSum(p, x) \in Int
         /\ RichSum(p, x) <= hi * numnb(p)
         /\ Rich(p) # {} => numnb(p) > 0
<1> DEFINE ones == [q \in Point |-> 1]
<1>0. npoint \in Nat /\ Point = 1..npoint /\ Rich(p) \subseteq Point
  BY GridFacts DEF Rich, Window
<1>1. PICK g : SumOf(g, p, x) /\ RichSum(p, x) = g[npoint]
  BY RichSums
<1>2. PICK h : SumOf(h, p, ones) /\ numnb(p) = h[npoint]
  BY RichSums DEF numnb
<1> DEFINE OK(n) == n <= npoint =>
                      /\ h[n] \in Nat /\ g[n] \in Int /\ g[n] <= hi * h[n]
                      /\ \A q \in Rich(p) : q <= n => h[n] > 0
           S == {n \in Nat : OK(n)}
<1>3. 0 \in S
  <2>1. h[0] = 0 /\ g[0] = 0 /\ hi * 0 = 0
    BY <1>1, <1>2 DEF SumOf
  <2>2. \A q \in Rich(p) : ~(q <= 0)
    BY <1>0
  <2> QED BY <2>1, <2>2
<1>4. ASSUME NEW n \in Nat, n \in S PROVE n + 1 \in S
  <2> SUFFICES ASSUME n + 1 <= npoint
               PROVE  /\ h[n + 1] \in Nat /\ g[n + 1] \in Int /\ g[n + 1] <= hi * h[n + 1]
                      /\ \A q \in Rich(p) : q <= n + 1 => h[n + 1] > 0
    OBVIOUS
  <2>1. n + 1 \in 1..npoint /\ n + 1 \in Point /\ (n + 1) - 1 = n
    BY <1>0
  <2>2. /\ h[n] \in Nat /\ g[n] \in Int /\ g[n] <= hi * h[n]
        /\ \A q \in Rich(p) : q <= n => h[n] > 0
    BY <1>0, <1>4
  <2>3. g[n + 1] = g[n] + Term(p, x, n + 1) /\ h[n + 1] = h[n] + Term(p, ones, n + 1)
    BY <1>1, <1>2, <2>1 DEF SumOf
  <2>4. CASE n + 1 \in Rich(p)
    <3>1. x[n + 1] \in Int /\ x[n + 1] <= hi
      BY <2>1, <2>4
    <3>2. g[n + 1] = g[n] + x[n + 1] /\ h[n + 1] = h[n] + 1
      BY <2>1, <2>3, <2>4 DEF Term
    <3>3. hi * (h[n] + 1) = hi * h[n] + hi /\ hi * h[n] \in Nat
      BY <2>2
    <3> QED BY <2>2, <3>1, <3>2, <3>3
  <2>5. CASE n + 1 \notin Rich(p)
    <3>1. g[n + 1] = g[n] /\ h[n + 1] = h[n]
      BY <2>2, <2>3, <2>5 DEF Term
    <3>2. \A q \in Rich(p) : q <= n + 1 => q <= n
      BY <1>0, <2>5
    <3> QED BY <2>2, <3>1, <3>2
  <2> QED BY <2>4, <2>5
<1>5. npoint \in S
  <2> HIDE DEF S
  <2> QED BY <1>0, <1>3, <1>4, SetInduction
<1> QED BY <1>0, <1>1, <1>2, <1>5

(* A mean of bounded values is bounded.                                    *)
LEMMA Mean ==
  ASSUME NEW s \in Int, NEW n \in Nat, n > 0, NEW hi \in Nat, s <= hi * n
  PROVE  s \div n \in Int /\ s \div n <= hi
<1>1. PICK d \in Int : d = s \div n
  OBVIOUS
<1>2. n * d <= s
  BY <1>1
<1>3. ASSUME d > hi PROVE FALSE
  <2>1. (d - hi) * n > 0
    BY <1>3
  <2>2. (d - hi) * n = n * d - hi * n
    BY <1>1
  <2>3. n * d \in Int /\ hi * n \in Int
    OBVIOUS
  <2> QED BY <1>2, <2>1, <2>2, <2>3
<1> QED BY <1>1, <1>3

-----------------------------------------------------------------------------
(* One point of the scan.                                                  *)

LEMMA SnowTypes ==
  ASSUME TypeOK
  PROVE  /\ \A p \in Point : SnowAt(p) \in Snow
         /\ \A p \in Point : /\ mem["SNOW"][p] \in Int /\ mem["SNOWH"][p] \in Int
                             /\ mem["SNOWC"][p] \in Int
                             /\ RRbk["SNOW"][p] \in Int /\ RRbk["SNOWH"][p] \in Int
         /\ RRbk["SNOW"] \in [Point -> Int] /\ RRbk["SNOWH"] \in [Point -> Int]
         /\ NoSnow \in Snow /\ Minimal \in Snow /\ tr \in Snow
<1>1. "SNOW" \in SnowField \cup LandField /\ "SNOWH" \in SnowField \cup LandField
      /\ "SNOWC" \in SnowField \cup LandField
  BY DEF SnowField
<1>2. mem \in Fields /\ RRbk \in Fields /\ tr \in Snow
  BY DEF TypeOK
<1>3. \A p \in Point : /\ mem["SNOW"][p] \in Int /\ mem["SNOWH"][p] \in Int
                       /\ mem["SNOWC"][p] \in Int
                       /\ RRbk["SNOW"][p] \in Int /\ RRbk["SNOWH"][p] \in Int
  BY <1>1, <1>2 DEF Fields
<1> QED BY <1>1, <1>2, <1>3 DEF SnowAt, Snow, NoSnow, Minimal, Fields

(* The layer made of plausible water and depth is plausible and not empty. *)
LEMMA LayerBounds ==
  ASSUME NEW water \in Int, NEW depth \in Int, depth > 0
  PROVE  LET s == LayerOf(water, depth)
         IN  /\ s \in Snow /\ s.snow >= 1 /\ s.snowh >= 1
             /\ water <= 20000 /\ depth <= 50000 => ~Huge(s)
<1> DEFINE snow == Larger(1, water)
           snowh == IF 10000 * water < 588 * depth THEN (10000 * snow) \div 588
                    ELSE IF 10000 * water > 5000 * depth THEN 2 * snow
                    ELSE depth
<1>1. LayerOf(water, depth) = [snow |-> snow, snowh |-> snowh, snowc |-> Smaller(32, snow)]
  BY DEF LayerOf
<1>2. snow \in Int /\ snow >= 1 /\ (water <= 20000 => snow <= 20000) /\ Smaller(32, snow) \in Int
  BY DEF Larger, Smaller
<1>3. water >= 1 => snow = water
  BY DEF Larger
<1>4. snowh \in Int /\ snowh >= 1 /\ (water <= 20000 /\ depth <= 50000 => snowh <= 50000)
  <2> HIDE DEF snow
  <2>1. CASE 10000 * water < 588 * depth
    <3>1. PICK d \in Int : d = (10000 * snow) \div 588
      BY <1>2
    <3>2. 588 * d <= 10000 * snow /\ 10000 * snow < 588 * d + 588
      BY <1>2, <3>1
    <3>3. d >= 1
      BY <1>2, <3>2
    <3>4. depth <= 50000 => d <= 50000
      <4>1. CASE water >= 1
        BY <1>2, <1>3, <2>1, <3>2, <4>1
      <4>2. CASE water < 1
        <5>1. snow = 1
          BY <4>2 DEF snow, Larger
        <5> QED BY <3>2, <5>1
      <4> QED BY <4>1, <4>2
    <3>5. snowh = d
      BY <2>1, <3>1
    <3> QED BY <3>3, <3>4, <3>5
  <2>2. CASE ~(10000 * water < 588 * depth) /\ 10000 * water > 5000 * depth
    BY <1>2, <2>2
  <2>3. CASE ~(10000 * water < 588 * depth) /\ ~(10000 * water > 5000 * depth)
    BY <2>3
  <2> QED BY <2>1, <2>2, <2>3
<1> HIDE DEF snow, snowh
<1> QED BY <1>1, <1>2, <1>4 DEF Snow, Huge

LEMMA BuiltBounds ==
  ASSUME TypeOK, NEW p \in Point
  PROVE  /\ Built(p) \in Snow /\ Built(p).snow >= 1 /\ Built(p).snowh >= 1
         /\ /\ \A q \in Window(p) : ~Corrupted(Background(q))
            /\ itr \in Window(p) => tr.snow <= 20000 /\ tr.snowh <= 50000
            => ~Huge(Built(p))
<1> DEFINE Plausible == /\ \A q \in Window(p) : ~Corrupted(Background(q))
                        /\ itr \in Window(p) => tr.snow <= 20000 /\ tr.snowh <= 50000
           ones == [q \in Point |-> 1]
<1>1. Minimal \in Snow /\ Minimal.snow = 1 /\ Minimal.snowh = 4 /\ ~Huge(Minimal)
  BY DEF Minimal, Snow, Huge
<1>2. tr.snow \in Int /\ tr.snowh \in Int
  BY SnowTypes DEF Snow
<1>3. RRbk["SNOW"] \in [Point -> Int] /\ RRbk["SNOWH"] \in [Point -> Int]
  BY SnowTypes
<1>4. numnb(p) \in Nat /\ (Rich(p) # {} => numnb(p) > 0)
  <2>1. ones \in [Point -> Int] /\ 1 \in Nat /\ \A q \in Rich(p) : ones[q] <= 1
    BY DEF Rich, Window
  <2> HIDE DEF ones
  <2> QED BY <2>1, RichBounds
<1>5. ASSUME NEW x, x \in [Point -> Int]
      PROVE  RichSum(p, x) \in Int
  <2>1. PICK g : SumOf(g, p, x) /\ RichSum(p, x) = g[npoint]
    BY <1>5, RichSums
  <2> QED BY <2>1, GridFacts DEF SumOf
<1>6. ASSUME Rich(p) # {}
      PROVE  Average(p, "SNOW") \in Int /\ Average(p, "SNOWH") \in Int
  BY <1>3, <1>4, <1>5, <1>6 DEF Average
<1>7. ASSUME Rich(p) # {}, Plausible
      PROVE  Average(p, "SNOW") <= 20000 /\ Average(p, "SNOWH") <= 50000
  <2>1. \A q \in Rich(p) : RRbk["SNOW"][q] <= 20000 /\ RRbk["SNOWH"][q] <= 50000
    <3> SUFFICES ASSUME NEW q \in Rich(p)
                 PROVE  RRbk["SNOW"][q] <= 20000 /\ RRbk["SNOWH"][q] <= 50000
      OBVIOUS
    <3>1. q \in Window(p) /\ q \in Point
      BY DEF Rich, Window
    <3>2. ~Huge(Background(q))
      BY <1>7, <3>1 DEF Corrupted
    <3>3. RRbk["SNOW"][q] \in Int /\ RRbk["SNOWH"][q] \in Int
      BY <3>1, SnowTypes
    <3> QED BY <3>2, <3>3 DEF Huge, Background
  <2>2. RichSum(p, RRbk["SNOW"]) <= 20000 * numnb(p)
    BY <1>3, <2>1, RichBounds
  <2>3. RichSum(p, RRbk["SNOWH"]) <= 50000 * numnb(p)
    BY <1>3, <2>1, RichBounds
  <2>4. RichSum(p, RRbk["SNOW"]) \in Int /\ RichSum(p, RRbk["SNOWH"]) \in Int
    BY <1>3, <1>5
  <2> QED BY <1>4, <1>7, <2>2, <2>3, <2>4, Mean DEF Average
<1>8. CASE itr \in Window(p) /\ tr.snowh > 0
  <2>1. Built(p) = LayerOf(tr.snow, tr.snowh)
    BY <1>8 DEF Built
  <2> QED BY <1>2, <1>8, <2>1, LayerBounds
<1>9. CASE /\ itr \notin Window(p) /\ Rich(p) # {}
           /\ Average(p, "SNOWH") > 0 /\ Average(p, "SNOW") > 0
  <2>1. Built(p) = LayerOf(Average(p, "SNOW"), Average(p, "SNOWH"))
    BY <1>9 DEF Built
  <2> QED BY <1>6, <1>7, <1>9, <2>1, LayerBounds
<1>10. CASE Built(p) = Minimal
  BY <1>1, <1>10
<1> QED BY <1>8, <1>9, <1>10 DEF Built

LEMMA LimitedSnow ==
  ASSUME TypeOK, NEW p \in Point, NEW s \in Snow, NEW outside \in Snow
  PROVE  /\ Limited(p, s, outside) \in Snow
         /\ s.snow >= 0 /\ s.snowh >= 0 /\ ~Huge(s) => Limited(p, s, outside) = s
         /\ s.snow < 0 \/ s.snowh < 0 =>
              Limited(p, s, outside).snow = 0 /\ Limited(p, s, outside).snowh = 0
<1>1. s.snow \in Int /\ s.snowh \in Int /\ s.snowc \in Int
  BY DEF Snow
<1>2. ASSUME NEW a \in {-1, 1}, NEW b \in {-1, 1} PROVE Diagonal(p, a, b) \in Point
  <2>1. nlon \in Nat \ {0} /\ nlat \in Nat \ {0} /\ I(p) \in Int /\ J(p) \in Int
    BY GridFacts, SnowIceAssumption
  <2>2. /\ Smaller(Larger(I(p) + a, 1), nlon) \in 1..nlon
        /\ Smaller(Larger(J(p) + b, 1), nlat) \in 1..nlat
    BY <2>1 DEF Smaller, Larger
  <2> QED BY <2>2, GridFacts DEF Diagonal
<1> DEFINE value(a, b) == IF Diagonal(p, a, b) = p THEN s ELSE SnowAt(Diagonal(p, a, b))
           newvalue == value(-1, -1).snow + value(1, -1).snow + value(-1, 1).snow + value(1, 1).snow
           newvalueh ==
             value(-1, -1).snowh + value(1, -1).snowh + value(-1, 1).snowh + value(1, 1).snowh
           before == IF p - nlon - 1 \in Point THEN SnowAt(p - nlon - 1) ELSE outside
<1>3. \A q \in Point : SnowAt(q) \in Snow
  BY SnowTypes
<1>4. \A a, b \in {-1, 1} : value(a, b) \in Snow
  BY <1>2, <1>3
<1>5. before \in Snow
  BY <1>3
<1>6. Limited(p, s, outside) =
        IF s.snowh < 0 \/ s.snow < 0 THEN [s EXCEPT !.snow = 0, !.snowh = 0]
        ELSE IF ~Huge(s) THEN s
        ELSE IF newvalue < 100000 /\ newvalueh < 200000
          THEN [s EXCEPT !.snow = newvalue \div 4, !.snowh = newvalueh \div 4]
        ELSE [s EXCEPT !.snow = before.snow, !.snowh = before.snowh]
  BY DEF Limited
<1> HIDE DEF value, before
<1>7. newvalue \in Int /\ newvalueh \in Int
  <2>1. /\ value(-1, -1) \in Snow /\ value(1, -1) \in Snow
        /\ value(-1, 1) \in Snow /\ value(1, 1) \in Snow
    BY <1>4
  <2> QED BY <2>1 DEF Snow
<1> HIDE DEF newvalue, newvalueh
<1>8. newvalue \div 4 \in Int /\ newvalueh \div 4 \in Int
  BY <1>7
<1>9. before.snow \in Int /\ before.snowh \in Int
  BY <1>5 DEF Snow
<1>10. Limited(p, s, outside) \in Snow
  <2>1. ASSUME NEW v \in Int, NEW w \in Int, NEW r, r = [s EXCEPT !.snow = v, !.snowh = w]
        PROVE  r \in Snow
    BY <1>1, <2>1 DEF Snow
  <2>4. PICK r : r = Limited(p, s, outside)
    OBVIOUS
  <2>2. \/ r = [s EXCEPT !.snow = 0, !.snowh = 0]
        \/ r = s
        \/ r = [s EXCEPT !.snow = newvalue \div 4, !.snowh = newvalueh \div 4]
        \/ r = [s EXCEPT !.snow = before.snow, !.snowh = before.snowh]
    BY ONLY <1>6, <2>4
  <2>3. 0 \in Int
    OBVIOUS
  <2> QED BY <1>8, <1>9, <2>1, <2>2, <2>3, <2>4, Zenon
<1>11. s.snow >= 0 /\ s.snowh >= 0 /\ ~Huge(s) => Limited(p, s, outside) = s
  BY <1>1, <1>6
<1>12. s.snow < 0 \/ s.snowh < 0 =>
         Limited(p, s, outside).snow = 0 /\ Limited(p, s, outside).snowh = 0
  BY <1>1, <1>6 DEF Snow
<1> QED BY <1>10, <1>11, <1>12

(* The trimmed snow is that of the last point trimmed, or unassigned.      *)
TrimmedSnow ==
  \/ tr \in Garbage
  \/ /\ itr \in Point
     /\ tr.snow = Background(itr).snow /\ tr.snowh = Background(itr).snowh

Unscanned(p) ==
  mem["SNOW"][p] = RRbk["SNOW"][p] /\ mem["SNOWH"][p] = RRbk["SNOWH"][p]

(* What the scan makes of a point.                                         *)
Scanned(p, outside) == Consistent(Limited(p, TrimOrBuild(p), outside))

LEMMA ScannedType ==
  ASSUME TypeOK, NEW p \in Point, NEW outside \in Garbage
  PROVE  /\ TrimOrBuild(p) \in Snow /\ Limited(p, TrimOrBuild(p), outside) \in Snow
         /\ Scanned(p, outside) \in Snow
<1>1. TrimOrBuild(p) \in Snow
  BY SnowTypes, BuiltBounds DEF TrimOrBuild
<1>2. outside \in Snow
  BY SnowIceAssumption
<1>3. Limited(p, TrimOrBuild(p), outside) \in Snow
  BY <1>1, <1>2, LimitedSnow
<1>4. Scanned(p, outside) \in Snow
  BY <1>3, SnowTypes DEF Scanned, Consistent
<1> QED BY <1>1, <1>3, <1>4

LEMMA ScannedBare ==
  ASSUME TypeOK, NEW p \in Point, NEW outside \in Garbage, Unscanned(p),
         OnLand(p), IceFree(p), MustBeBare(p)
  PROVE  Scanned(p, outside).snow = 0 /\ Scanned(p, outside).snowh = 0
<1> DEFINE s == TrimOrBuild(p)
           l == Limited(p, s, outside)
<1>1. s \in Snow /\ l \in Snow /\ outside \in Snow
  BY ScannedType, SnowIceAssumption
<1>2. ~Builds(p)
  BY DEF Builds, MustBeBare
<1>3. NoSnow.snow = 0 /\ NoSnow.snowh = 0
  BY DEF NoSnow
<1>4. /\ s.snow >= 0 /\ s.snowh >= 0 /\ ~Huge(s) => l = s
      /\ s.snow < 0 \/ s.snowh < 0 => l.snow = 0 /\ l.snowh = 0
  BY <1>1, LimitedSnow
<1>5. s.snow \in Int /\ s.snowh \in Int
  BY <1>1 DEF Snow
<1>6. CASE Trims(p)
  <2>1. s.snow = 0 /\ s.snowh = 0
    BY <1>3, <1>6 DEF TrimOrBuild
  <2>2. l = s
    BY <1>4, <2>1 DEF Huge
  <2> HIDE DEF s, l
  <2>3. Consistent(l) = l
    BY <2>1, <2>2 DEF Consistent
  <2> QED BY <2>1, <2>2, <2>3 DEF Scanned, l, s
<1>7. CASE ~Trims(p)
  <2>1. s.snow = RRbk["SNOW"][p] /\ s.snowh = RRbk["SNOWH"][p]
    BY <1>2, <1>7 DEF TrimOrBuild, SnowAt, Unscanned
  <2>2. ~(s.snow > 0) /\ ~(s.snow = 0 /\ s.snowh > 50000)
    BY <1>7, <2>1 DEF Trims, MustBeBare, DeepWithoutWater, Background, Unscanned
  <2> HIDE DEF s, l
  <2>3. CASE s.snow < 0 \/ s.snowh < 0
    <3>1. Consistent(l) = l /\ l.snow = 0 /\ l.snowh = 0
      BY <1>4, <2>3 DEF Consistent
    <3> QED BY <3>1 DEF Scanned, l, s
  <2>4. CASE s.snow = 0 /\ s.snowh >= 0
    <3>1. l = s
      BY <1>4, <1>5, <2>2, <2>4 DEF Huge
    <3>2. Consistent(s).snow = 0 /\ Consistent(s).snowh = 0
      BY <1>3, <1>5, <2>4 DEF Consistent
    <3> QED BY <3>1, <3>2 DEF Scanned, l, s
  <2> QED BY <1>5, <2>2, <2>3, <2>4
<1> QED BY <1>6, <1>7

LEMMA ScannedSnow ==
  ASSUME TypeOK, NEW p \in Point, NEW outside \in Garbage, Unscanned(p),
         TrimmedSnow, OnLand(p), IceFree(p), MustHaveSnow(p)
  PROVE  Scanned(p, outside).snow >= 1 /\ Scanned(p, outside).snowh >= 1
<1> DEFINE s == TrimOrBuild(p)
           l == Limited(p, s, outside)
<1>1. s \in Snow /\ l \in Snow /\ outside \in Snow
  BY ScannedType, SnowIceAssumption
<1>2. p \in Window(p)
  BY GridFacts DEF Window
<1>3. ~Trims(p)
  BY DEF Trims, MustHaveSnow
<1>4. s.snow \in Int /\ s.snowh \in Int
  BY <1>1 DEF Snow
<1>5. s.snow >= 1 /\ s.snowh >= 1 /\ ~Huge(s)
  <2>1. CASE mem["SNOW"][p] = 0
    <3>1. Builds(p)
      BY <2>1 DEF Builds, MustHaveSnow
    <3>2. s = Built(p)
      BY <1>3, <3>1 DEF TrimOrBuild
    <3>3. itr \in Window(p) => tr.snow <= 20000 /\ tr.snowh <= 50000
      <4>1. ASSUME itr \in Window(p) PROVE ~Huge([snow |-> tr.snow, snowh |-> tr.snowh])
        <5>1. CASE tr \in Garbage
          BY <5>1 DEF MustHaveSnow, PlausibleMemory, Corrupted, Huge
        <5>2. CASE /\ itr \in Point
                   /\ tr.snow = Background(itr).snow /\ tr.snowh = Background(itr).snowh
          <6>1. ~Huge(Background(itr))
            BY <4>1 DEF MustHaveSnow, Corrupted
          <6> QED BY <5>2, <6>1 DEF Huge
        <5> QED BY <5>1, <5>2 DEF TrimmedSnow
      <4>2. tr.snow \in Int /\ tr.snowh \in Int
        BY SnowTypes DEF Snow
      <4> QED BY <4>1, <4>2 DEF Huge
    <3> HIDE DEF s
    <3> QED BY <3>2, <3>3, BuiltBounds DEF MustHaveSnow
  <2>2. CASE mem["SNOW"][p] # 0
    <3>1. ~Builds(p)
      BY <2>2 DEF Builds
    <3>2. s.snow = RRbk["SNOW"][p] /\ s.snowh = RRbk["SNOWH"][p]
      BY <1>3, <3>1 DEF TrimOrBuild, SnowAt, Unscanned
    <3>3. ~Corrupted(Background(p)) /\ (Background(p).snow > 0 => Background(p).snowh > 0)
      BY <1>2 DEF MustHaveSnow
    <3>4. Background(p).snow = s.snow /\ Background(p).snowh = s.snowh
      BY <3>2 DEF Background
    <3>5. s.snow # 0
      BY <2>2, <3>2 DEF Unscanned
    <3> HIDE DEF s
    <3> QED BY <1>4, <3>3, <3>4, <3>5 DEF Corrupted, Huge
  <2> QED BY <2>1, <2>2
<1> HIDE DEF s
<1>6. l = s
  BY <1>1, <1>4, <1>5, LimitedSnow
<1> HIDE DEF l
<1>7. Consistent(l) = s
  BY <1>4, <1>5, <1>6 DEF Consistent
<1> QED BY <1>5, <1>7 DEF Scanned, l, s

-----------------------------------------------------------------------------
(* Types.                                                                  *)

LEMMA Orders ==
  /\ Len(WriteOrder) = 8 /\ \A n \in 1..8 : WriteOrder[n] \in SnowField \cup LandField
  /\ Len(CheckOrder) = 5 /\ \A n \in 1..5 : CheckOrder[n] \in LandField
  /\ \A f \in LandField : \E n \in 1..8 : WriteOrder[n] = f
  /\ \A f \in LandField : \E n \in 1..5 : CheckOrder[n] = f
<1>1. Len(WriteOrder) = 8 /\ Len(CheckOrder) = 5
  BY DEF WriteOrder, CheckOrder
<1>2. /\ WriteOrder[1] = "SNOWC" /\ WriteOrder[2] = "SNOWH" /\ WriteOrder[3] = "SNOW"
      /\ WriteOrder[4] = "LANDMASK" /\ WriteOrder[5] = "XLAND" /\ WriteOrder[6] = "LU_INDEX"
      /\ WriteOrder[7] = "ISLTYP" /\ WriteOrder[8] = "IVGTYP"
  BY DEF WriteOrder
<1>3. /\ CheckOrder[1] = "LANDMASK" /\ CheckOrder[2] = "XLAND" /\ CheckOrder[3] = "LU_INDEX"
      /\ CheckOrder[4] = "ISLTYP" /\ CheckOrder[5] = "IVGTYP"
  BY DEF CheckOrder
<1>4. \A n \in 1..8 : n = 1 \/ n = 2 \/ n = 3 \/ n = 4 \/ n = 5 \/ n = 6 \/ n = 7 \/ n = 8
  OBVIOUS
<1>5. \A n \in 1..5 : n = 1 \/ n = 2 \/ n = 3 \/ n = 4 \/ n = 5
  OBVIOUS
<1>6. /\ 1 \in 1..5 /\ 2 \in 1..5 /\ 3 \in 1..5 /\ 4 \in 1..5 /\ 5 \in 1..5
      /\ 4 \in 1..8 /\ 5 \in 1..8 /\ 6 \in 1..8 /\ 7 \in 1..8 /\ 8 \in 1..8
  OBVIOUS
<1>7. \A n \in 1..8 : WriteOrder[n] \in SnowField \cup LandField
  BY <1>2, <1>4 DEF SnowField, LandField
<1>8. \A n \in 1..5 : CheckOrder[n] \in LandField
  BY <1>3, <1>5 DEF LandField
<1>9. \A f \in LandField : \E n \in 1..8 : WriteOrder[n] = f
  BY <1>2, <1>6, Zenon DEF LandField
<1>10. \A f \in LandField : \E n \in 1..5 : CheckOrder[n] = f
  BY <1>3, <1>6, Zenon DEF LandField
<1> QED BY <1>1, <1>7, <1>8, <1>9, <1>10

LEMMA ParameterTypes ==
  /\ \A f \in LandField : /\ LandValues[f] \in Int /\ WaterValues[f] \in Int
                           /\ IceValues[f] \in Int
  /\ \A p \in Point, f \in LandField : SurfaceValues(p)[f] \in Int
<1>1. \A f \in LandField : /\ LandValues[f] \in Int /\ WaterValues[f] \in Int
                          /\ IceValues[f] \in Int
  BY DEF LandField, LandValues, WaterValues, IceValues
<1> QED BY <1>1 DEF SurfaceValues

(* The snow of one point is replaced.                                      *)
Replaced(new, m, p, s) ==
  /\ m \in Fields /\ p \in Point /\ s \in Snow
  /\ new = [m EXCEPT !["SNOW"][p] = s.snow, !["SNOWH"][p] = s.snowh, !["SNOWC"][p] = s.snowc]

LEMMA PointReplaced ==
  ASSUME NEW new, NEW m, NEW p, NEW s, Replaced(new, m, p, s)
  PROVE  /\ new \in Fields
         /\ new["SNOW"][p] = s.snow /\ new["SNOWH"][p] = s.snowh
         /\ \A f \in SnowField \cup LandField, q \in Point :
              q # p \/ f \in LandField => new[f][q] = m[f][q]
<1> DEFINE row(f) == [q \in Point |->
               IF q = p THEN IF f = "SNOW" THEN s.snow ELSE IF f = "SNOWH" THEN s.snowh
                             ELSE IF f = "SNOWC" THEN s.snowc ELSE m[f][q]
               ELSE m[f][q]]
<1>1. s.snow \in Int /\ s.snowh \in Int /\ s.snowc \in Int /\ p \in Point
  BY DEF Snow, Replaced
<1>2. new = [f \in SnowField \cup LandField |-> row(f)]
  BY DEF Fields, SnowField, LandField, Replaced
<1>3. \A f \in SnowField \cup LandField, q \in Point : m[f][q] \in Int
  BY DEF Fields, Replaced
<1>4. ASSUME NEW f \in SnowField \cup LandField PROVE row(f) \in [Point -> Int]
  BY <1>1, <1>3
<1>5. ASSUME NEW f \in SnowField \cup LandField, NEW q \in Point, q # p \/ f \in LandField
      PROVE  row(f)[q] = m[f][q]
  <2>1. f \in LandField => f # "SNOW" /\ f # "SNOWH" /\ f # "SNOWC"
    BY DEF LandField
  <2> QED BY <1>5, <2>1
<1>6. row("SNOW")[p] = s.snow /\ row("SNOWH")[p] = s.snowh
  BY <1>1
<1>7. "SNOW" \in SnowField \cup LandField /\ "SNOWH" \in SnowField \cup LandField
  BY DEF SnowField
<1> HIDE DEF row
<1>8. \A f \in SnowField \cup LandField : new[f] = row(f)
  BY <1>2
<1>9. new \in Fields
  BY <1>2, <1>4 DEF Fields
<1> QED BY <1>5, <1>6, <1>7, <1>8, <1>9

LEMMA ScanStep ==
  ASSUME TypeOK, ScanPoint
  PROVE  /\ next \in Point /\ next' = next + 1 /\ mem' \in Fields
         /\ \E outside \in Garbage : /\ mem'["SNOW"][next] = Scanned(next, outside).snow
                                     /\ mem'["SNOWH"][next] = Scanned(next, outside).snowh
         /\ \A f \in SnowField \cup LandField, q \in Point :
              q # next \/ f \in LandField => mem'[f][q] = mem[f][q]
<1>1. PICK outside \in Garbage :
        mem' = [mem EXCEPT !["SNOW"][next] = Scanned(next, outside).snow,
                           !["SNOWH"][next] = Scanned(next, outside).snowh,
                           !["SNOWC"][next] = Scanned(next, outside).snowc]
  BY DEF ScanPoint, Scanned
<1>2. next \in Point /\ next' = next + 1 /\ mem \in Fields
  BY DEF ScanPoint, TypeOK
<1> DEFINE s == Scanned(next, outside)
<1>3. s \in Snow
  BY <1>2, ScannedType
<1> HIDE DEF s
<1>4. mem' = [mem EXCEPT !["SNOW"][next] = s.snow, !["SNOWH"][next] = s.snowh,
                         !["SNOWC"][next] = s.snowc]
  BY <1>1 DEF s
<1>5. /\ mem' \in Fields
      /\ mem'["SNOW"][next] = s.snow /\ mem'["SNOWH"][next] = s.snowh
      /\ \A f \in SnowField \cup LandField, q \in Point :
           q # next \/ f \in LandField => mem'[f][q] = mem[f][q]
  <2>1. Replaced(mem', mem, next, s)
    BY <1>2, <1>3, <1>4 DEF Replaced
  <2> QED BY ONLY <2>1, PointReplaced
<1> QED BY <1>2, <1>5 DEF s

LEMMA InitType == Init => TypeOK
<1> SUFFICES ASSUME Init PROVE TypeOK
  OBVIOUS
<1>1. PICK b \in [Point -> Backgrounds], v \in {WaterValues, IceValues} :
        file = [f \in SnowField \cup LandField |-> [p \in Point |->
                 CASE f = "SNOW" -> b[p].snow
                   [] f = "SNOWH" -> b[p].snowh
                   [] f = "SNOWC" -> b[p].snowc
                   [] OTHER -> IF OnLand(p) THEN LandValues[f] ELSE v[f]]]
  BY DEF Init
<1>2. \A p \in Point : b[p].snow \in Int /\ b[p].snowh \in Int /\ b[p].snowc \in Int
  BY SnowIceAssumption DEF Snow
<1>3. \A f \in LandField : LandValues[f] \in Int /\ v[f] \in Int
  BY ParameterTypes
<1>4. ASSUME NEW f \in SnowField \cup LandField, NEW p \in Point PROVE file[f][p] \in Int
  <2>1. CASE f \in SnowField
    BY <1>1, <1>2, <2>1 DEF SnowField
  <2>2. CASE f \in LandField
    <3>1. f # "SNOW" /\ f # "SNOWH" /\ f # "SNOWC"
      BY <2>2 DEF LandField
    <3>2. file[f][p] = IF OnLand(p) THEN LandValues[f] ELSE v[f]
      BY <1>1, <3>1
    <3> QED BY <1>3, <2>2, <3>2
  <2> QED BY <2>1, <2>2
<1>5. file \in Fields
  BY <1>1, <1>4 DEF Fields
<1>6. NoSnow \in Snow
  BY DEF NoSnow, Snow
<1>7. 0 \in 0..MaxCrashes /\ 1 \in 1..1
  BY SnowIceAssumption
<1> QED BY <1>5, <1>6, <1>7 DEF Init, TypeOK

LEMMA CheckedFields ==
  ASSUME NEW m \in Fields
  PROVE  /\ SecurityCheck(m) \in Fields /\ SnowOffWater(m) \in Fields
         /\ \A f \in LandField, p \in Point :
              /\ SnowOffWater(m)[f][p] = m[f][p]
              /\ SecurityCheck(m)[f][p] = IF OnLand(p) THEN m[f][p] ELSE SurfaceValues(p)[f]
         /\ \A f \in SnowField, p \in Point :
              /\ SecurityCheck(m)[f][p] = m[f][p]
              /\ OnLand(p) => SnowOffWater(m)[f][p] = m[f][p]
<1>1. \A f \in SnowField \cup LandField, p \in Point : m[f][p] \in Int
  BY DEF Fields
<1>2. \A p \in Point, f \in LandField : SurfaceValues(p)[f] \in Int
  BY ParameterTypes
<1>3. \A f \in LandField : f \notin SnowField
  BY DEF LandField, SnowField
<1>4. SecurityCheck(m) \in Fields
  BY <1>1, <1>2 DEF SecurityCheck, Fields
<1>5. SnowOffWater(m) \in Fields
  BY <1>1 DEF SnowOffWater, Fields
<1>6. ASSUME NEW f \in LandField, NEW p \in Point
      PROVE  /\ SnowOffWater(m)[f][p] = m[f][p]
             /\ SecurityCheck(m)[f][p] = IF OnLand(p) THEN m[f][p] ELSE SurfaceValues(p)[f]
  BY <1>3 DEF SnowOffWater, SecurityCheck
<1>7. ASSUME NEW f \in SnowField, NEW p \in Point
      PROVE  /\ SecurityCheck(m)[f][p] = m[f][p]
             /\ OnLand(p) => SnowOffWater(m)[f][p] = m[f][p]
  BY <1>3 DEF SnowOffWater, SecurityCheck
<1> QED BY <1>4, <1>5, <1>6, <1>7

LEMMA OneWritten ==
  ASSUME file \in Fields, mem \in Fields, NEW f \in SnowField \cup LandField,
         file' = [file EXCEPT ![f] = mem[f]]
  PROVE  /\ file' \in Fields
         /\ \A g \in SnowField \cup LandField : file'[g] = IF g = f THEN mem[f] ELSE file[g]
BY DEF Fields

LEMMA TypeStep ==
  ASSUME TypeOK, [Next]_vars
  PROVE  TypeOK'
<1> USE DEF TypeOK
<1>0. /\ npoint \in Nat \ {0} /\ Point = 1..npoint /\ MaxCrashes \in Nat
      /\ Len(WriteOrder) = 8 /\ Len(CheckOrder) = 5
  BY GridFacts, Orders, SnowIceAssumption
<1>1. CASE UNCHANGED vars \/ Done
  BY <1>1 DEF vars, Done
<1>2. CASE Read
  <2>1. Garbage \subseteq Snow
    BY SnowIceAssumption
  <2>2. stage' = "scan" /\ next' = 1
    BY <1>0, <1>2 DEF Read
  <2> QED BY <1>0, <1>2, <2>1, <2>2 DEF Read
<1>3. CASE ScanPoint
  <2>1. mem' \in Fields /\ next \in Point /\ next' = next + 1
    BY <1>3, ScanStep
  <2>2. itr' \in Point \cup {Nowhere} /\ tr' \in Snow
    BY <1>3, <2>1, SnowTypes DEF ScanPoint
  <2> QED BY <1>0, <1>3, <2>1, <2>2 DEF ScanPoint
<1>4. CASE CheckWater
  <2>1. mem' \in Fields
    BY <1>4, CheckedFields DEF CheckWater
  <2> QED BY <1>0, <1>4, <2>1 DEF CheckWater
<1>5. NoSnow \in Snow
  BY DEF NoSnow, Snow
<1>6. CASE Write
  <2>1. next \in 1..8
    BY <1>0, <1>6 DEF Write
  <2>2. file' \in Fields
    BY <1>6, <2>1, OneWritten, Orders DEF Write
  <2>3. CASE next = 8
    <3>1. /\ stage' = "updated" /\ next' = 1 /\ mem' = file' /\ RRbk' = file'
          /\ itr' = Nowhere /\ tr' = NoSnow /\ surface' = surface /\ crashes' = crashes
      BY <1>0, <1>6, <2>3 DEF Write, Released
    <3> QED BY <1>5, <2>2, <3>1
  <2>4. CASE next # 8
    BY <1>0, <1>6, <2>1, <2>2, <2>4 DEF Write, arrays
  <2> QED BY <2>3, <2>4
<1>7. CASE ReadAndCheck
  <2>1. mem' \in Fields
    BY <1>7, CheckedFields DEF ReadAndCheck
  <2>2. next' = 1 /\ stage' = "check"
    BY <1>7 DEF ReadAndCheck
  <2> QED BY <1>0, <1>7, <2>1, <2>2 DEF ReadAndCheck
<1>8. CASE WriteChecked
  <2>1. next \in 1..5
    BY <1>0, <1>8 DEF WriteChecked
  <2>2. file' \in Fields
    BY <1>8, <2>1, OneWritten, Orders DEF WriteChecked
  <2>3. CASE next = 5
    <3>1. /\ stage' = "checked" /\ next' = 1 /\ mem' = file' /\ RRbk' = file'
          /\ itr' = Nowhere /\ tr' = NoSnow /\ surface' = surface /\ crashes' = crashes
      BY <1>0, <1>8, <2>3 DEF WriteChecked, Released
    <3> QED BY <1>5, <2>2, <3>1
  <2>4. CASE next # 5
    BY <1>0, <1>8, <2>1, <2>2, <2>4 DEF WriteChecked, arrays
  <2> QED BY <2>3, <2>4
<1>9. CASE Crash
  BY <1>0, <1>5, <1>9 DEF Crash, Released
<1> QED BY <1>1, <1>2, <1>3, <1>4, <1>6, <1>7, <1>8, <1>9 DEF Next

(* Every field has a number at every point, in the file and in the arrays. *)
THEOREM TypeCorrect == Spec => []TypeOK
BY InitType, TypeStep, PTL DEF Spec

-----------------------------------------------------------------------------
(* The land parameters.  Those of land are right at any time; the arrays   *)
(* are right when they are written, and the file as far as it was written. *)

Right(p, f) == IF OnLand(p) THEN LandValues[f] ELSE SurfaceValues(p)[f]
LandFixed(m) == \A p \in Point, f \in LandField : OnLand(p) => m[f][p] = LandValues[f]
AllRight(m) == \A p \in Point, f \in LandField : m[f][p] = Right(p, f)
WrittenSoFar(order) == \A n \in 1..next - 1 : file[order[n]] = mem[order[n]]

ParametersInv ==
  /\ TypeOK
  /\ LandFixed(file) /\ LandFixed(mem)
  /\ stage \in {"write", "check"} => AllRight(mem)
  /\ stage = "write" => WrittenSoFar(WriteOrder)
  /\ stage = "check" => WrittenSoFar(CheckOrder)
  /\ stage \in {"updated", "checked"} => AllRight(file)

(* The next field of a list with the land parameters is written.           *)
Writing(order, last) ==
  /\ TypeOK /\ next \in 1..last
  /\ \A n \in 1..last : order[n] \in SnowField \cup LandField
  /\ \A f \in LandField : \E n \in 1..last : order[n] = f
  /\ WrittenSoFar(order) /\ LandFixed(file) /\ AllRight(mem)
  /\ file' = [file EXCEPT ![order[next]] = mem[order[next]]] /\ UNCHANGED surface
Wrote(order, last) ==
  /\ LandFixed(file)'
  /\ \A n \in 1..next : file'[order[n]] = mem[order[n]]
  /\ next = last => AllRight(file)'

LEMMA WrittenParameters ==
  ASSUME NEW order, NEW last, last \in Nat, Writing(order, last)
  PROVE  Wrote(order, last)
<1>0. last \in Nat /\ Writing(order, last)
  OBVIOUS
<1> USE DEF Writing
<1> DEFINE f == order[next]
<1>1. \A g \in SnowField \cup LandField : file'[g] = IF g = f THEN mem[f] ELSE file[g]
  BY OneWritten DEF TypeOK
<1>2. LandFixed(file)'
  BY <1>1 DEF LandFixed, AllRight, Right, OnLand
<1>3. \A n \in 1..next : file'[order[n]] = mem[order[n]]
  <2> SUFFICES ASSUME NEW n \in 1..next PROVE file'[order[n]] = mem[order[n]]
    OBVIOUS
  <2>1. n = next \/ n \in 1..next - 1
    BY <1>0
  <2>2. n \in 1..last
    BY <1>0
  <2> QED BY <1>1, <2>1, <2>2 DEF WrittenSoFar
<1>4. ASSUME next = last PROVE AllRight(file)'
  <2>1. \A g \in LandField : file'[g] = mem[g]
    BY <1>0, <1>3, <1>4
  <2> QED BY <2>1 DEF AllRight, Right, SurfaceValues, OnLand
<1> QED BY <1>2, <1>3, <1>4 DEF Wrote

LEMMA ParametersInit == Init => ParametersInv
<1> SUFFICES ASSUME Init PROVE ParametersInv
  OBVIOUS
<1>1. TypeOK
  BY InitType
<1>2. LandFixed(file)
  BY DEF Init, LandFixed, LandField, OnLand
<1>3. mem = file /\ stage = "idle"
  BY DEF Init
<1> QED BY <1>1, <1>2, <1>3 DEF ParametersInv

LEMMA ParametersStep ==
  ASSUME ParametersInv, [Next]_vars
  PROVE  ParametersInv'
<1>1. TypeOK /\ TypeOK'
  BY TypeStep DEF ParametersInv
<1>2. LandFixed(file) /\ LandFixed(mem)
  BY DEF ParametersInv
<1>3. CASE UNCHANGED vars \/ Done
  BY <1>3 DEF vars, Done, ParametersInv, TypeOK, LandFixed, AllRight, Right, OnLand,
              SurfaceValues, WrittenSoFar
<1>4. CASE Read
  <2>1. stage' = "scan" /\ UNCHANGED <<surface, file, mem>>
    BY <1>4 DEF Read
  <2>2. LandFixed(file)' /\ LandFixed(mem)'
    BY <1>2, <2>1 DEF LandFixed, OnLand
  <2> QED BY <1>1, <2>1, <2>2 DEF ParametersInv
<1>5. CASE ScanPoint
  <2>1. stage' = "scan" /\ UNCHANGED <<surface, file>>
    BY <1>5 DEF ScanPoint
  <2>2. \A f \in LandField, q \in Point : mem'[f][q] = mem[f][q]
    BY <1>1, <1>5, ScanStep
  <2>3. LandFixed(file)' /\ LandFixed(mem)'
    BY <1>2, <2>1, <2>2 DEF LandFixed, OnLand
  <2> QED BY <1>1, <2>1, <2>3 DEF ParametersInv
<1>6. ASSUME NEW m \in Fields, LandFixed(m)
      PROVE  \A p \in Point, f \in LandField : SecurityCheck(m)[f][p] = Right(p, f)
  BY <1>6, CheckedFields DEF LandFixed, Right
<1>7. CASE CheckWater
  <2>1. /\ stage' = "write" /\ next' = 1 /\ UNCHANGED <<surface, file>>
        /\ mem' = SnowOffWater(SecurityCheck(mem))
    BY <1>7 DEF CheckWater
  <2>2. \A p \in Point, f \in LandField : mem'[f][p] = Right(p, f)
    BY <1>1, <1>2, <1>6, <2>1, CheckedFields DEF TypeOK
  <2>3. AllRight(mem)' /\ LandFixed(mem)' /\ LandFixed(file)'
    BY <1>2, <2>1, <2>2 DEF AllRight, LandFixed, Right, SurfaceValues, OnLand
  <2>4. WrittenSoFar(WriteOrder)'
    BY <2>1 DEF WrittenSoFar
  <2> QED BY <1>1, <2>1, <2>3, <2>4 DEF ParametersInv
<1>8. CASE ReadAndCheck
  <2>1. /\ stage' = "check" /\ next' = next /\ UNCHANGED <<surface, file>>
        /\ mem' = SecurityCheck(file) /\ next \in 1..1
    BY <1>1, <1>8 DEF ReadAndCheck, TypeOK
  <2>2. \A p \in Point, f \in LandField : mem'[f][p] = Right(p, f)
    BY <1>1, <1>2, <1>6, <2>1 DEF TypeOK
  <2>3. AllRight(mem)' /\ LandFixed(mem)' /\ LandFixed(file)'
    BY <1>2, <2>1, <2>2 DEF AllRight, LandFixed, Right, SurfaceValues, OnLand
  <2>4. WrittenSoFar(CheckOrder)'
    BY <2>1 DEF WrittenSoFar
  <2> QED BY <1>1, <2>1, <2>3, <2>4 DEF ParametersInv
<1>9. CASE Write
  <2>1. /\ stage = "write" /\ next \in 1..8 /\ UNCHANGED surface
        /\ file' = [file EXCEPT ![WriteOrder[next]] = mem[WriteOrder[next]]]
    BY <1>1, <1>9, Orders DEF Write, TypeOK
  <2>2. WrittenSoFar(WriteOrder) /\ AllRight(mem)
    BY <2>1 DEF ParametersInv
  <2>3. /\ LandFixed(file)'
        /\ \A n \in 1..next : file'[WriteOrder[n]] = mem[WriteOrder[n]]
        /\ next = 8 => AllRight(file)'
    <3>1. Writing(WriteOrder, 8) /\ 8 \in Nat
      BY <1>1, <1>2, <2>1, <2>2, Orders DEF Writing
    <3>2. Wrote(WriteOrder, 8)
      BY ONLY <3>1, WrittenParameters
    <3> QED BY <3>2 DEF Wrote
  <2>4. CASE next = 8
    <3>1. stage' = "updated" /\ mem' = file'
      BY <1>9, <2>4, Orders DEF Write, Released
    <3>2. LandFixed(mem)'
      BY <2>3, <3>1 DEF LandFixed
    <3> QED BY <1>1, <2>3, <2>4, <3>1, <3>2 DEF ParametersInv
  <2>5. CASE next # 8
    <3>1. stage' = "write" /\ mem' = mem /\ next' = next + 1
      BY <1>9, <2>1, <2>5, Orders DEF Write, arrays
    <3>2. WrittenSoFar(WriteOrder)'
      BY <2>1, <2>3, <3>1 DEF WrittenSoFar
    <3>3. LandFixed(mem)' /\ AllRight(mem)'
      BY <1>2, <2>1, <2>2, <3>1 DEF LandFixed, AllRight, Right, SurfaceValues, OnLand
    <3> QED BY <1>1, <2>3, <3>1, <3>2, <3>3 DEF ParametersInv
  <2> QED BY <2>4, <2>5
<1>10. CASE WriteChecked
  <2>1. /\ stage = "check" /\ next \in 1..5 /\ UNCHANGED surface
        /\ file' = [file EXCEPT ![CheckOrder[next]] = mem[CheckOrder[next]]]
    BY <1>1, <1>10, Orders DEF WriteChecked, TypeOK
  <2>2. WrittenSoFar(CheckOrder) /\ AllRight(mem)
    BY <2>1 DEF ParametersInv
  <2>3. /\ LandFixed(file)'
        /\ \A n \in 1..next : file'[CheckOrder[n]] = mem[CheckOrder[n]]
        /\ next = 5 => AllRight(file)'
    <3>1. Writing(CheckOrder, 5) /\ 5 \in Nat
      BY <1>1, <1>2, <2>1, <2>2, Orders DEF Writing
    <3>2. Wrote(CheckOrder, 5)
      BY ONLY <3>1, WrittenParameters
    <3> QED BY <3>2 DEF Wrote
  <2>4. CASE next = 5
    <3>1. stage' = "checked" /\ mem' = file'
      BY <1>10, <2>4, Orders DEF WriteChecked, Released
    <3>2. LandFixed(mem)'
      BY <2>3, <3>1 DEF LandFixed
    <3> QED BY <1>1, <2>3, <2>4, <3>1, <3>2 DEF ParametersInv
  <2>5. CASE next # 5
    <3>1. stage' = "check" /\ mem' = mem /\ next' = next + 1
      BY <1>10, <2>1, <2>5, Orders DEF WriteChecked, arrays
    <3>2. WrittenSoFar(CheckOrder)'
      BY <2>1, <2>3, <3>1 DEF WrittenSoFar
    <3>3. LandFixed(mem)' /\ AllRight(mem)'
      BY <1>2, <2>1, <2>2, <3>1 DEF LandFixed, AllRight, Right, SurfaceValues, OnLand
    <3> QED BY <1>1, <2>3, <3>1, <3>2, <3>3 DEF ParametersInv
  <2> QED BY <2>4, <2>5
<1>11. CASE Crash
  <2>1. stage' = "idle" /\ UNCHANGED <<surface, file>> /\ mem' = file'
    BY <1>11 DEF Crash, Released
  <2>2. LandFixed(file)' /\ LandFixed(mem)'
    BY <1>2, <2>1 DEF LandFixed, OnLand
  <2> QED BY <1>1, <2>1, <2>2 DEF ParametersInv
<1> QED BY <1>3, <1>4, <1>5, <1>7, <1>8, <1>9, <1>10, <1>11 DEF Next

(* Whichever of the two programs ends, and whatever runs were cut off      *)
(* before it, it leaves land, water and ice with consistent parameters.    *)
THEOREM ParametersAreConsistent == Spec => []ParametersConsistent
<1>1. ParametersInv => ParametersConsistent
  BY DEF ParametersInv, ParametersConsistent, AllRight, Right
<1> QED BY <1>1, ParametersInit, ParametersStep, PTL DEF Spec

-----------------------------------------------------------------------------
(* The snow.  The points not scanned yet have their background; what was   *)
(* trimmed last is the background of a point.                              *)

SnowInv ==
  /\ TypeOK
  /\ stage = "idle" => mem = RRbk
  /\ stage = "scan" =>
       /\ TrimmedSnow
       /\ \A p \in Point : p >= next => Unscanned(p)
       /\ \A p \in Point : p < next => ImsRespectedAt(p)
  /\ ImsRespected

(* Whether a point respects IMS depends only on its snow.                  *)
LEMMA SnowOfPoint ==
  ASSUME NEW p, UNCHANGED <<surface, RRbk>>
  PROVE  ImsRespectedAt(p)' =
           (OnLand(p) /\ IceFree(p) =>
              /\ MustBeBare(p) => mem'["SNOW"][p] = 0 /\ mem'["SNOWH"][p] = 0
              /\ MustHaveSnow(p) => mem'["SNOW"][p] >= 1 /\ mem'["SNOWH"][p] >= 1)
<1>1. surface' = surface /\ RRbk' = RRbk
  OBVIOUS
<1>2. OnLand(p)' = OnLand(p) /\ IceFree(p)' = IceFree(p) /\ Window(p)' = Window(p)
  BY <1>1 DEF OnLand, IceFree, Window
<1>3. \A q : Background(q)' = Background(q)
  BY <1>1 DEF Background
<1>4. MustBeBare(p)' = MustBeBare(p)
  BY <1>1, <1>3 DEF MustBeBare
<1>5. \A q : Corrupted(Background(q))' = Corrupted(Background(q))
  BY <1>3 DEF Corrupted, Huge
<1>6. MustHaveSnow(p)' = MustHaveSnow(p)
  <2>1. surface[p]' = surface[p]
    BY <1>1
  <2>2. (\A q \in Window(p) : ~Corrupted(Background(q)))'
          = \A q \in Window(p) : ~Corrupted(Background(q))
    BY <1>2, <1>5
  <2>3. (Background(p).snow > 0 => Background(p).snowh > 0)'
          = (Background(p).snow > 0 => Background(p).snowh > 0)
    BY <1>3
  <2> QED BY <2>1, <2>2, <2>3 DEF MustHaveSnow
<1> QED BY <1>2, <1>4, <1>6 DEF ImsRespectedAt, NoSnowLeft, SomeSnow

LEMMA SnowOfPointKept ==
  ASSUME NEW p, UNCHANGED <<surface, RRbk>>, ImsRespectedAt(p),
         OnLand(p) => mem'["SNOW"][p] = mem["SNOW"][p] /\ mem'["SNOWH"][p] = mem["SNOWH"][p]
  PROVE  ImsRespectedAt(p)'
BY SnowOfPoint DEF ImsRespectedAt, NoSnowLeft, SomeSnow

LEMMA SnowStep ==
  ASSUME SnowInv, [Next]_vars
  PROVE  SnowInv'
<1>1. TypeOK /\ TypeOK' /\ Point = 1..npoint /\ npoint \in Nat
  BY TypeStep, GridFacts DEF SnowInv
<1>2. CASE UNCHANGED vars \/ Done
  <2>1. UNCHANGED vars
    BY <1>2 DEF Done
  <2>2. TrimmedSnow' = TrimmedSnow
    BY <2>1 DEF vars, TrimmedSnow, Background
  <2>3. \A p \in Point : Unscanned(p)' = Unscanned(p)
    BY <2>1 DEF vars, Unscanned
  <2>4. \A p \in Point : ImsRespectedAt(p)' = ImsRespectedAt(p)
    BY <2>1 DEF vars, ImsRespectedAt, OnLand, IceFree, MustBeBare, MustHaveSnow, NoSnowLeft,
                SomeSnow, Window, Background
  <2> QED BY <1>1, <2>1, <2>2, <2>3, <2>4 DEF SnowInv, vars, ImsRespected
<1>3. CASE Read
  <2>1. /\ stage' = "scan" /\ tr' \in Garbage /\ next' = 1 /\ mem' = RRbk'
    BY <1>1, <1>3 DEF Read, SnowInv, TypeOK
  <2>2. TrimmedSnow' /\ \A p \in Point : Unscanned(p)'
    BY <2>1 DEF TrimmedSnow, Unscanned
  <2>3. \A p \in Point : ~(p < next')
    BY <1>1, <2>1
  <2> QED BY <1>1, <2>1, <2>2, <2>3 DEF SnowInv, ImsRespected
<1>4. CASE ScanPoint
  <2>1. /\ next \in Point /\ next' = next + 1 /\ stage' = "scan" /\ stage = "scan"
        /\ UNCHANGED <<surface, RRbk>>
    BY <1>1, <1>4, ScanStep DEF ScanPoint
  <2>2. PICK outside \in Garbage :
          /\ mem'["SNOW"][next] = Scanned(next, outside).snow
          /\ mem'["SNOWH"][next] = Scanned(next, outside).snowh
    BY <1>1, <1>4, ScanStep
  <2>3. \A q \in Point : q # next =>
          mem'["SNOW"][q] = mem["SNOW"][q] /\ mem'["SNOWH"][q] = mem["SNOWH"][q]
    <3>1. "SNOW" \in SnowField /\ "SNOWH" \in SnowField
      BY DEF SnowField
    <3> QED BY <1>1, <1>4, <3>1, ScanStep
  <2>4. Unscanned(next) /\ TrimmedSnow
    BY <1>1, <2>1 DEF SnowInv
  <2>5. \A p \in Point : p = next => ImsRespectedAt(p)'
    <3>1. SUFFICES ASSUME NEW p \in Point, p = next PROVE ImsRespectedAt(p)'
      OBVIOUS
    <3>2. OnLand(p) /\ IceFree(p) /\ MustBeBare(p) =>
            mem'["SNOW"][p] = 0 /\ mem'["SNOWH"][p] = 0
      BY <1>1, <2>1, <2>2, <2>4, <3>1, ScannedBare
    <3>3. OnLand(p) /\ IceFree(p) /\ MustHaveSnow(p) =>
            mem'["SNOW"][p] >= 1 /\ mem'["SNOWH"][p] >= 1
      BY <1>1, <2>1, <2>2, <2>4, <3>1, ScannedSnow
    <3> QED BY <2>1, <3>2, <3>3, SnowOfPoint
  <2>6. \A p \in Point : p < next => ImsRespectedAt(p)'
    <3>1. SUFFICES ASSUME NEW p \in Point, p < next PROVE ImsRespectedAt(p)'
      OBVIOUS
    <3>2. p # next /\ ImsRespectedAt(p)
      BY <1>1, <2>1, <3>1 DEF SnowInv
    <3> QED BY <2>1, <2>3, <3>2, SnowOfPointKept
  <2>7. \A p \in Point : p < next' => ImsRespectedAt(p)'
    BY <1>1, <2>1, <2>5, <2>6
  <2>8. \A p \in Point : p >= next' => Unscanned(p)'
    <3>1. SUFFICES ASSUME NEW p \in Point, p >= next' PROVE Unscanned(p)'
      OBVIOUS
    <3>2. p # next /\ Unscanned(p)
      BY <1>1, <2>1, <3>1 DEF SnowInv
    <3> QED BY <2>1, <2>3, <3>2 DEF Unscanned
  <2>9. TrimmedSnow'
    <3>1. RRbk' = RRbk
      BY <2>1
    <3>2. CASE Trims(next)
      <4>1. itr' = next /\ tr' = SnowAt(next)
        BY <1>4, <3>2 DEF ScanPoint
      <4>2. tr'.snow = RRbk["SNOW"][next] /\ tr'.snowh = RRbk["SNOWH"][next]
        BY <2>4, <4>1 DEF SnowAt, Unscanned
      <4> QED BY <2>1, <3>1, <4>1, <4>2 DEF TrimmedSnow, Background
    <3>3. CASE ~Trims(next)
      <4>1. itr' = itr /\ tr' = tr
        BY <1>4, <3>3 DEF ScanPoint
      <4> QED BY <2>4, <3>1, <4>1 DEF TrimmedSnow, Background
    <3> QED BY <3>2, <3>3
  <2> QED BY <1>1, <2>1, <2>7, <2>8, <2>9 DEF SnowInv, ImsRespected
<1>5. CASE CheckWater
  <2>1. /\ stage = "scan" /\ next = npoint + 1 /\ stage' = "write"
        /\ UNCHANGED <<surface, RRbk>> /\ mem' = SnowOffWater(SecurityCheck(mem))
    BY <1>5 DEF CheckWater
  <2>2. \A p \in Point : p < next
    BY <1>1, <2>1
  <2>3. \A p \in Point : ImsRespectedAt(p)
    BY <2>1, <2>2 DEF SnowInv
  <2>4. "SNOW" \in SnowField /\ "SNOWH" \in SnowField
    BY DEF SnowField
  <2>5. \A p \in Point : OnLand(p) =>
          mem'["SNOW"][p] = mem["SNOW"][p] /\ mem'["SNOWH"][p] = mem["SNOWH"][p]
    BY <1>1, <2>1, <2>4, CheckedFields DEF TypeOK
  <2>6. \A p \in Point : ImsRespectedAt(p)'
    BY <2>1, <2>3, <2>5, SnowOfPointKept
  <2> QED BY <1>1, <2>1, <2>6 DEF SnowInv, ImsRespected
<1>6. CASE Write
  <2>1. stage = "write" /\ UNCHANGED surface /\ next \in 1..8
    BY <1>1, <1>6, Orders DEF Write, SnowInv, TypeOK
  <2>2. CASE next = Len(WriteOrder)
    BY <1>1, <1>6, <2>2 DEF Write, SnowInv, ImsRespected
  <2>3. CASE next # Len(WriteOrder)
    <3>1. stage' = "write" /\ mem' = mem /\ UNCHANGED <<surface, RRbk>>
      BY <1>6, <2>1, <2>3 DEF Write, arrays
    <3>2. \A p \in Point : ImsRespectedAt(p)
      BY <2>1 DEF SnowInv, ImsRespected
    <3>3. \A p \in Point : ImsRespectedAt(p)'
      BY <3>1, <3>2, SnowOfPointKept
    <3> QED BY <1>1, <3>1, <3>3 DEF SnowInv, ImsRespected
  <2> QED BY <2>2, <2>3
<1>7. CASE ReadAndCheck
  BY <1>1, <1>7 DEF ReadAndCheck, SnowInv, ImsRespected
<1>8. CASE WriteChecked
  <2>1. stage' \in {"check", "checked"}
    BY <1>8 DEF WriteChecked
  <2> QED BY <1>1, <2>1 DEF SnowInv, ImsRespected
<1>9. CASE Crash
  <2>1. stage' = "idle" /\ mem' = RRbk'
    BY <1>9 DEF Crash, Released
  <2> QED BY <1>1, <2>1 DEF SnowInv, ImsRespected
<1> QED BY <1>2, <1>3, <1>4, <1>5, <1>6, <1>7, <1>8, <1>9 DEF Next

LEMMA SnowInit == Init => SnowInv
BY InitType DEF Init, SnowInv, ImsRespected

(* The snow of every run respects IMS, whatever runs were cut off before   *)
(* it: no snow is left where there must be none whatever the unassigned    *)
(* memory holds, and snow is where it must be if that memory is plausible. *)
THEOREM ImsIsRespected == Spec => []ImsRespected
<1>1. SnowInv => ImsRespected
  BY DEF SnowInv
<1> QED BY <1>1, SnowInit, SnowStep, PTL DEF Spec
=============================================================================

------------------------------- MODULE ImsMap -------------------------------
(***************************************************************************)
(* map2RR of process_NESDIS_imssnow: the points of the model grid, one     *)
(* after the other, take their snow or ice from a point of the IMS grid    *)
(* with the same surface, land or water.  What a point takes is recorded as*)
(* the IMS point it comes from.  IMS coordinates are integers in units of  *)
(* 1/Q of the grid distance, areas in units of 1/Q^2.                      *)
(***************************************************************************)
EXTENDS Integers, Sequences

CONSTANTS
  N,             \* points of the IMS grid in each direction, 6144
  Q,             \* divisions of the grid distance
  Radius,        \* last ring searched, 16
  Masks,         \* the IMS land masks: 1 land, 0 water
  ModelPoints,   \* what may be a model point: see WellFormedPoint
  npoints,       \* number of model points, nlonRR * nlatRR
  Uninit,        \* what AREA may hold before its first assignment
  Zero           \* stands for the a priori value, no IMS point

Ims == (1..N) \X (1..N)
NINT(x) == (2 * x + Q) \div (2 * Q)

(* A model point: whether gdswiz places it on the IMS grid, where, and its *)
(* surface in the model; north: its latitude YYLAT is 55 or more.  The     *)
(* model grid is inside the IMS grid, so that the next IMS point exists.   *)
WellFormedPoint(p) ==
  /\ p.defined \in BOOLEAN /\ p.ILAND \in {0, 1} /\ p.north \in BOOLEAN
  /\ p.X \in Nat /\ p.Y \in Nat
  /\ p.defined => /\ NINT(p.X) \in 1 .. N - 1
                  /\ NINT(p.Y) \in 1 .. N - 1
ASSUME ImsMapAssumption ==
  /\ N \in Nat \ {0} /\ Q \in Nat \ {0} /\ Radius \in Nat \ {0} /\ npoints \in Nat
  /\ Masks \subseteq [Ims -> {0, 1}]
  /\ \A p \in ModelPoints : WellFormedPoint(p)
  /\ Uninit \subseteq Int
  /\ Zero \notin Ims

VARIABLES
  maskims,   \* the IMS land mask
  points,    \* the model points, in the order of the loops
  AREA,      \* a local variable that keeps its value from point to point
  source     \* for the points done, the IMS point their value comes from

vars == <<maskims, points, AREA, source>>

Init ==
  /\ maskims \in Masks
  /\ points \in [1..npoints -> ModelPoints]
  /\ AREA \in Uninit
  /\ source = << >>

Point == points[Len(source) + 1]
Pending == Len(source) < npoints

-----------------------------------------------------------------------------
Skipped(p) == ~p.defined \/ p.X <= Q \/ p.Y <= Q
Nearest(p) == <<NINT(p.X), NINT(p.Y)>>
SameSurface(p, at) == maskims[at] = p.ILAND

(* The four points IS..IP1, JS..JP1 in the order they are examined, with   *)
(* their areas; XRATIO and YRATIO are negative when NINT has rounded up.   *)
Four(p) ==
  LET IS == NINT(p.X)
      JS == NINT(p.Y)
      XRATIO == p.X - Q * IS
      YRATIO == p.Y - Q * JS
  IN  <<[at |-> <<IS, JS>>, area |-> (Q - XRATIO) * (Q - YRATIO)],
        [at |-> <<IS, JS + 1>>, area |-> (Q - XRATIO) * YRATIO],
        [at |-> <<IS + 1, JS>>, area |-> XRATIO * (Q - YRATIO)],
        [at |-> <<IS + 1, JS + 1>>, area |-> XRATIO * YRATIO]>>

(* One more of the four is examined: AREA is not set when the second is    *)
(* the first with the same surface.                                        *)
Examine(p, n, best) ==
  LET c == Four(p)[n]
  IN  IF ~SameSurface(p, c.at) THEN best
      ELSE IF best.KOUNT = 0
        THEN [KOUNT |-> 1, at |-> c.at, area |-> IF n = 2 THEN best.area ELSE c.area]
      ELSE IF c.area > best.area
        THEN [KOUNT |-> best.KOUNT + 1, at |-> c.at, area |-> c.area]
      ELSE [best EXCEPT !.KOUNT = @ + 1]

BestOfFour(p) ==
  LET none == [KOUNT |-> 0, at |-> Nearest(p), area |-> AREA]
  IN  Examine(p, 4, Examine(p, 3, Examine(p, 2, Examine(p, 1, none))))

(* The rings around the nearest point, clipped to the grid.                *)
Ring(at, LL) == {q \in Ims : /\ at[1] - LL <= q[1] /\ q[1] <= at[1] + LL
                             /\ at[2] - LL <= q[2] /\ q[2] <= at[2] + LL}
FirstInLoops(S) ==
  CHOOSE q \in S : \A s \in S : q[1] < s[1] \/ (q[1] = s[1] /\ q[2] <= s[2])

(* Mutant: ifound is not tested, and the last match stays.                 *)
FoundLast(p) ==
  LET match == {q \in Ring(Nearest(p), Radius) : SameSurface(p, q)}
  IN  IF match = {} THEN Nearest(p)
      ELSE CHOOSE q \in match : \A s \in match :
             q[1] > s[1] \/ (q[1] = s[1] /\ q[2] >= s[2])

(* When nothing matches, the nearest point is taken whatever its surface   *)
(* and wherever p is: the test of the latitude is commented out (336).     *)
Found(p) ==
  LET match(LL) == {q \in Ring(Nearest(p), LL) : SameSurface(p, q)}
      rings == {LL \in 1..Radius : match(LL) # {}}
  IN  IF rings = {} THEN Nearest(p)
      ELSE FirstInLoops(match(CHOOSE LL \in rings : \A M \in rings : LL <= M))

-----------------------------------------------------------------------------
(* gdswiz returns no place on the IMS grid, or one in its first row or     *)
(* column: the point keeps the a priori zero.                              *)
Skip ==
  /\ Pending /\ Skipped(Point)
  /\ source' = Append(source, Zero)
  /\ UNCHANGED <<maskims, points, AREA>>

TakeNearest ==
  /\ Pending /\ ~Skipped(Point) /\ SameSurface(Point, Nearest(Point))
  /\ source' = Append(source, Nearest(Point))
  /\ UNCHANGED <<maskims, points, AREA>>

TakeBestOfFour ==
  /\ Pending /\ ~Skipped(Point) /\ ~SameSurface(Point, Nearest(Point))
  /\ BestOfFour(Point).KOUNT > 0
  /\ source' = Append(source, BestOfFour(Point).at)
  /\ AREA' = BestOfFour(Point).area
  /\ UNCHANGED <<maskims, points>>

Search ==
  /\ Pending /\ ~Skipped(Point) /\ ~SameSurface(Point, Nearest(Point))
  /\ BestOfFour(Point).KOUNT = 0
  /\ source' = Append(source, Found(Point))
  /\ UNCHANGED <<maskims, points, AREA>>

Mapped == ~Pending /\ UNCHANGED vars

Next == Skip \/ TakeNearest \/ TakeBestOfFour \/ Search \/ Mapped

Spec == Init /\ [][Next]_vars

-----------------------------------------------------------------------------
(* Properties.                                                             *)

(* Every model point done has an IMS point inside the grid, or none.       *)
TypeOK ==
  /\ maskims \in [Ims -> {0, 1}] /\ points \in [1..npoints -> ModelPoints]
  /\ AREA \in Int
  /\ source \in Seq(Ims \cup {Zero}) /\ Len(source) <= npoints

Distance(a, b) ==
  LET Abs(x) == IF x < 0 THEN -x ELSE x
      dx == Abs(a[1] - b[1])
      dy == Abs(a[2] - b[2])
  IN  IF dx > dy THEN dx ELSE dy
Placed == {n \in DOMAIN source : ~Skipped(points[n])}

Same(p) == {q \in Ims : SameSurface(p, q) /\ Distance(q, Nearest(p)) <= Radius}

(* Land takes its snow from land and water its ice from water: whatever was*)
(* mapped before, a point gets a value of its own surface from the nearest *)
(* ring that has one.  When none of the rings searched has any, a point    *)
(* north of 55N gets that of the nearest point (328-330).  One south of it *)
(* is to keep its zero (331), which the code does not test: nothing is     *)
(* said of it here.                                                        *)
Closest(p, at) ==
  IF Same(p) = {} THEN p.north => at = Nearest(p)
  ELSE at \in Same(p) /\ \A q \in Same(p) : Distance(at, Nearest(p)) <= Distance(q, Nearest(p))
ClosestRing == \A n \in Placed : Closest(points[n], source[n])
=============================================================================

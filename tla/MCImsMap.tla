------------------------------ MODULE MCImsMap ------------------------------
(***************************************************************************)
(* Small instances of ImsMap: a 4 by 4 IMS grid with at most two points of *)
(* land, rings 1 and 2, two model points between its middle points.        *)
(***************************************************************************)
EXTENDS ImsMap, FiniteSets

FewLand == {[q \in Ims |-> IF q \in S THEN 1 ELSE 0] :
              S \in {T \in SUBSET Ims : Cardinality(T) <= 2}}

(* The rows from y = 9 on are north of 55N.                                *)
At(x, y, iland) ==
  [defined |-> TRUE, X |-> x, Y |-> y, ILAND |-> iland, north |-> y >= 9]
Outside == [defined |-> FALSE, X |-> 0, Y |-> 0, ILAND |-> 1, north |-> FALSE]

(* In quarters: 1.5 rounds to 2, 2.25 to 2, 2.5 to 3.                      *)
Coordinates == {6, 9, 10}
AllPoints == {At(x, y, l) : x \in Coordinates, y \in Coordinates, l \in {0, 1}}
               \cup {Outside, At(4, 9, 1)}
Garbage == {-100, 100}
=============================================================================

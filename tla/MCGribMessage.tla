--------------------------- MODULE MCGribMessage ---------------------------
(* Messages of up to three fields of two points. *)
EXTENDS GribMessage

Zeros(n) == [i \in 1 .. n |-> 0]

\* A value for a signed entry, and a time range to be repeated.
PointInTime == [Zeros(15) EXCEPT ![1] = 3, ![12] = -5, ![15] = 7]
TwoRanges == [Zeros(35) EXCEPT ![15] = -2, ![22] = 2, ![24] = 1, ![30] = 5, ![33] = 4]

MCPoints == {1, 2}
MCGrids == {[num |-> 0, list |-> [Zeros(19) EXCEPT ![12] = -4]],
            [num |-> 120, list |-> [Zeros(9) EXCEPT ![2] = 1, ![9] = -3]],
            [num |-> 7, list |-> <<>>]}
MCFields == {[pds |-> 0, list |-> PointInTime, drs |-> 0],
             [pds |-> 8, list |-> TwoRanges, drs |-> 40],
             [pds |-> 0, list |-> PointInTime, drs |-> 51],
             [pds |-> 999, list |-> <<>>, drs |-> 0],
             [pds |-> 0, list |-> PointInTime, drs |-> 41]}
MCBitmaps == {<<1, 0>>, <<0, 1>>}
MCValues == {<<3, 5>>, <<6, 4>>}
=============================================================================

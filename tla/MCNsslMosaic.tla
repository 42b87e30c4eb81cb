---------------------------- MODULE MCNsslMosaic ----------------------------
(***************************************************************************)
(* Small instances of NsslMosaic: two or three ranks, two levels, an edge  *)
(* column and two interior ones.                                            *)
(***************************************************************************)
EXTENDS NsslMosaic, TLC

CONSTANTS edge, a, b

MCColumn == {edge, a, b}
MCInterior == {a, b}
MCHeights == <<500, 750>>
MCLevelheight == [l \in Level |-> MCHeights[l]]

Even == [q \in 1..4 |-> 1]
Skewed == <<0, 1, 3, 0>>
Corners(r1, r2, r3, r4) == [ref |-> <<r1, r2, r3, r4>>, w |-> Even]

(* Raw values: an echo, no echo and missing in the format's own coding.    *)
Echo == IF tversion \in {4, 8, 14} THEN 200 ELSE 20
Quiet == rthresh_ref
Gone == rthresh_miss
Strong == Corners(2 * Echo, 2 * Echo, 2 * Echo, 2 * Echo)
Weak == [ref |-> <<2 * Echo, Echo, 0, 2 * Echo>>, w |-> Skewed]
NoEcho == Corners(Echo, Echo, Quiet, Echo)
Void == Corners(Echo, Quiet, Echo, Gone)

Tile(nlev, height, inside, top, rest) ==
  [exists |-> TRUE, levels |-> nlev, height |-> height, inside |-> inside,
   var_scale |-> 10,
   cell |-> [c \in MCColumn |-> [k \in 1..nlev |-> IF k = 1 THEN top ELSE rest]]]
NoTile == [Tile(1, 0, {}, Void, Void) EXCEPT !.exists = FALSE]

Tiles4 == {NoTile, Tile(2, 0, {edge, a}, Strong, NoEcho),
           Tile(2, 0, {a, b}, Weak, Void), Tile(2, 0, {edge, b}, Void, NoEcho),
           Tile(3, 0, {b}, Weak, Strong), Tile(1, 0, {a}, Strong, Void)}
TilesMrms == {NoTile, Tile(1, 500, {edge, a}, Strong, Void),
              Tile(1, 750, {a, b}, Weak, Void), Tile(1, 750, {b}, NoEcho, Void),
              Tile(1, 1000, {edge, b}, Strong, Void)}

Lists == [read : {"ok"}, n : 0..maxfile] \cup {[read |-> "open", n |-> 0],
                                               [read |-> "error", n |-> 1]}
NoList == {[read |-> "open", n |-> 0]}
Garbage == {0, 1000}
Zero == {0}

(* The values of the instances are reflectivities, as BufrFaithful's proof  *)
(* supposes.                                                               *)
ASSUME ReflectivityAssumption == PlausibleValues
=============================================================================

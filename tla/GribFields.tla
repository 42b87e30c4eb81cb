---------------------------- MODULE GribFields ----------------------------
(* What a GRIB2 message is for the program that builds it: a list of       *)
(* fields, each with the local section and the grid in force when it was   *)
(* added.  A field that reuses a bitmap has the one given last.  The       *)
(* order of the calls is that of the sections in GRIB2: a grid after the    *)
(* identification, a local section or a field; a local section after the   *)
(* identification or a field; a field after a grid or a field.             *)
EXTENDS Integers, Sequences

CONSTANTS
  Locals, Grids, Products, Bitmaps, Values,  \* contents of the sections
  None

VARIABLES
  phase,     \* the last thing added: "none", "id", "local", "grid", "field", "end"
  local,     \* the local section in force
  grid,      \* the grid in force
  bitmap,    \* the bitmap given last
  fields     \* the fields, each [local, grid, product, bitmap, values]

vars == <<phase, local, grid, bitmap, fields>>

Init ==
  /\ phase = "none"
  /\ local = None /\ grid = None /\ bitmap = None
  /\ fields = <<>>

Start ==
  /\ phase' = "id"
  /\ local' = None /\ grid' = None /\ bitmap' = None
  /\ fields' = <<>>

SetLocal(l) ==
  /\ phase \in {"id", "field"}
  /\ phase' = "local"
  /\ local' = l
  /\ UNCHANGED <<grid, bitmap, fields>>

SetGrid(g) ==
  /\ phase \in {"id", "local", "field"}
  /\ phase' = "grid"
  /\ grid' = g
  /\ UNCHANGED <<local, bitmap, fields>>

\* b is the bitmap of the field, None for a field without one.
Add(p, b, given, v) ==
  /\ phase \in {"grid", "field"}
  /\ phase' = "field"
  /\ bitmap' = IF given THEN b ELSE bitmap
  /\ ~given => b \in {None, bitmap}
  /\ fields' = Append(fields, [local |-> local, grid |-> grid, product |-> p,
                               bitmap |-> b, values |-> v])
  /\ UNCHANGED <<local, grid>>

End ==
  /\ phase = "field"
  /\ phase' = "end"
  /\ UNCHANGED <<local, grid, bitmap, fields>>

Next ==
  \/ Start \/ End
  \/ \E l \in Locals : SetLocal(l)
  \/ \E g \in Grids : SetGrid(g)
  \/ \E p \in Products, b \in Bitmaps \cup {None}, given \in BOOLEAN, v \in Values :
       Add(p, b, given, v)

Spec == Init /\ [][Next]_vars
=============================================================================

---------------------------- MODULE MosaicMerge ----------------------------
(***************************************************************************)
(* What process_NSSL_mosaic promises: one merged field, published at most  *)
(* once and whole, never after the job has failed, and a success report    *)
(* only once the field is out.                                             *)
(***************************************************************************)
EXTENDS Integers

CONSTANTS Column, Level, Missing, NoFile

VARIABLES
  observations,   \* the fields of the files on disk
  product,        \* the merged field, NoFile until it is published
  status          \* "running", "succeeded" or "failed"

vars == <<observations, product, status>>

Init ==
  /\ product = NoFile
  /\ status = "running"

(* v is the largest value observed at a grid point, Missing if none is.    *)
IsLargest(v, c, l) ==
  LET values == {Missing} \cup {o[c][l] : o \in observations}
  IN  v \in values /\ \A u \in values : v >= u

Publish ==
  /\ status = "running" /\ product = NoFile
  /\ product' # NoFile
  /\ \A c \in Column, l \in Level : IsLargest(product'[c][l], c, l)
  /\ UNCHANGED <<observations, status>>

Succeed ==
  /\ status = "running" /\ product # NoFile
  /\ status' = "succeeded"
  /\ UNCHANGED <<observations, product>>

Fail ==
  /\ status = "running"
  /\ status' = "failed"
  /\ UNCHANGED <<observations, product>>

Next == Publish \/ Succeed \/ Fail

Spec == Init /\ [][Next]_vars
=============================================================================

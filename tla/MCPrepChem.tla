----------------------------- MODULE MCPrepChem -----------------------------
(***************************************************************************)
(* Small instances of PrepChem: a run and a rerun over one tile, or one    *)
(* run over two tiles and two days.                                        *)
(***************************************************************************)
EXTENDS PrepChem, TLC

CONSTANTS r1, r2

OneFile == <<"GBBEPx.emis_BC">>
Emission(l, c) == [local_name |-> l, comdir_name |-> c]
BC == Emission("GBBEPx.emis_BC", "ebu_bc")
Plume == Emission("plume", "plumestuff")

ListBC == <<Plume, BC>>

JustPlume == <<Plume>>
ListPlume == <<Emission("BC-bb", "ebu_bc"), Plume>>

OwnDirectory == [r \in Runs |-> r]
NoFires == {{}}
DocumentedFires == SUBSET {<<d, d>> : d \in FireDays}
BothRuns == Permutations(Runs)
=============================================================================

----------------------------- MODULE MCSnowIce ------------------------------
(***************************************************************************)
(* Small instances of SnowIce: two or three points in a row.               *)
(***************************************************************************)
EXTENDS SnowIce

Place(xland, seaice, ims, precip, cold) ==
  [xland |-> xland, seaice |-> seaice, snowiceRR |-> ims, precip |-> precip, cold |-> cold]
ColdSnow == Place(1, 0, TRUE, FALSE, TRUE)
DryBare == Place(1, 0, FALSE, FALSE, TRUE)
Wet == Place(1, 0, FALSE, TRUE, TRUE)
ThinIce == Place(0, 10, FALSE, FALSE, TRUE)
SeaIce == Place(0, 1000, TRUE, FALSE, TRUE)

Layer(snow, snowh) == [snow |-> snow, snowh |-> snowh, snowc |-> IF snow > 0 THEN 1 ELSE 0]
Bare == Layer(0, 0)
Deep == Layer(300, 900)
Corrupt == Layer(30000, 90000)

LandAndWater == {ColdSnow, DryBare, Wet, ThinIce, SeaIce}
Any == {Bare, Deep, Corrupt}
Memory == {Bare, Layer(700, 3000)}
ASSUME MemoryAssumption == PlausibleMemory
=============================================================================

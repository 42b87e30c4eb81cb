----------------------------- MODULE MCPdtEdit -----------------------------
(* Constants for TLC: the templates wgrib2 knows the length of.            *)
EXTENDS PdtEdit

\* -set_pdt may ask for any of them, also for one no message is in.
MCNewTemplates ==
  0 .. 15 \cup {20, 30, 31, 33, 34} \cup 40 .. 48
  \cup {51, 52, 57, 60, 61, 91, 254, 1000, 1001, 1002, 1100, 1101}

\* Template 34 is left out: wgrib2 has no place for its forecast time.
MCStartTemplates == MCNewTemplates \ {34}

WithNoChange == {-1, 3}
=============================================================================

------------------------------- MODULE Totals -------------------------------
(* The sum of a sequence of integers, of which the packing libraries keep one *)
(* in a loop: new boxes, group lengths, bits.                                 *)
EXTENDS Integers, Sequences

Total(s) ==
  LET upto[n \in 0..Len(s)] == IF n = 0 THEN 0 ELSE upto[n - 1] + s[n]
  IN upto[Len(s)]
=============================================================================

--------------------------- MODULE MCGroupPacking ---------------------------
(* Constants for TLC: short fields of few values and longer ones of runs.   *)
EXTENDS GroupPacking

Fields(n, values) == [1..n -> values]
Repeat(v, n) == [i \in 1..n |-> v]

\* Groups of one long run and of single jumps: lengths that reduce may split.
RunFields ==
  { Repeat(0, 24) \o <<900, 3, 800, 20, 7, 700, 2, 1, 600, 6>>,
    <<0, 500, 3, 900, 77, 4>> \o Repeat(5, 20) \o <<100, 7, 300, 2>>,
    Repeat(7, 9) \o <<0>> \o Repeat(60, 9) \o <<1>>,
    Repeat(0, 6) \o <<1>> \o Repeat(0, 9) \o Repeat(1, 4) \o Repeat(0, 4),
    Repeat(0, 8) \o Repeat(1, 7) \o Repeat(0, 14) \o <<1, 0, 1>> \o Repeat(0, 5)
      \o Repeat(1, 4) \o Repeat(0, 4) }

\* Ranges that no group can have, met in the first group, in the second, in a later look and
\* after a group was closed; and one that fits.
WideFields ==
  {<<0, 2^30, 0>>, <<0, 0, 0, 2^30, 0, 1>>, <<0, 1, 1, 0, 2^30, 5, 4>>,
   <<0, 100, 3, 99, 0, 0, 0, 0, 2^30, 0>>, <<0, 5, 2^30 - 64, 2, 1, 1>>}

\* A range that takes one bit more than its logarithm says when that is a float.
BitFields == {<<0, 2^21, 0, 1>>}

G2Jobs(fields, missing, orders, bins, minpk) ==
  [by : {"g2"}, fld : fields, missing : {missing}, order : orders, bin : bins, bits : {0}, minpk : minpk,
   use_scale : {FALSE}, bitmap : {FALSE}]
WideJobs == G2Jobs(WideFields, 0, {0}, {0}, {2})
BitJobs == G2Jobs(BitFields, 0, {0}, {0}, {2})
ComplexJobs(fields, bitmaps, orders) ==
  [by : {"complex"}, fld : fields, missing : {0}, order : orders, bin : {0, 1}, bits : {8},
   use_scale : {TRUE}, bitmap : bitmaps]
  \cup [by : {"complex"}, fld : fields, missing : {0}, order : orders, bin : {0}, bits : {3},
        use_scale : BOOLEAN, bitmap : bitmaps]
SimpleJobs ==
  [by : {"simpack"}, fld : Fields(3, {0, 3, 6, 25}), missing : {0}, order : {0}, bin : {0, 2},
   bits : {0, 3}, use_scale : {FALSE}, bitmap : {FALSE}]
  \cup [by : {"simple"}, fld : Fields(3, {0, 3, 25, None}), missing : {0}, order : {0},
        bin : {0, 1}, bits : {3, 8}, use_scale : BOOLEAN, bitmap : {TRUE}]

MCUnsetRef == {0, 1}

MCJobs ==
  SimpleJobs
    \cup G2Jobs(Fields(5, {0, 1, 6}), 0, 0..2, {0}, {2})
    \cup G2Jobs(Fields(5, {2, 9, None}), 1, 0..2, {0}, {2})
    \cup G2Jobs(Fields(4, {2, 9, None, Second}), 2, 0..2, {1}, {2})
    \cup G2Jobs(RunFields, 0, {0, 2}, {0}, {2, 5})
    \cup WideJobs \cup BitJobs
    \cup ComplexJobs(Fields(5, {0, 1, 9, None}), {FALSE}, 0..2)
    \cup ComplexJobs(Fields(4, {0, 9, None}), {TRUE}, {0, 1})
    \cup ComplexJobs(RunFields, {TRUE}, {0, 1})
=============================================================================

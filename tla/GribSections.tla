--------------------------- MODULE GribSections ---------------------------
(* How wgrib2 itself reads a GRIB2 message (rd_seq_grib.c, parse_msg.c):   *)
(* a message is the sequence of its sections 1 to 7, and the array sec     *)
(* points to the sections of the current submessage.  sec[9] is the last   *)
(* bitmap.  A pointer is the position of the section in the message, Null  *)
(* for none.                                                               *)
EXTENDS Integers, Sequences

Null == 0

NoSections == [i \in 0 .. 9 |-> Null]

Bad == [i \in 0 .. 9 |-> -1]       \* an error that stops the program
Ended == [i \in 0 .. 9 |-> -2]     \* no more submessages

Submessages(secs) == {i \in 1 .. Len(secs) : secs[i].n = 7}

\* The number of submessages rd_grib2_msg_seq_file counts.
num_submsgs(secs) ==
  LET count[i \in 0 .. Len(secs)] ==
        IF i = 0 THEN 0 ELSE count[i - 1] + (IF secs[i].n = 7 THEN 1 ELSE 0)
  IN  count[Len(secs)]

\* Mutant: a field without bitmap also becomes the one to reuse.
WalkNone(secs, first, last, sec, reuse) ==
  LET at[i \in (first - 1) .. last] ==
        IF i = first - 1 THEN sec
        ELSE LET s == secs[i]
                 now == [at[i - 1] EXCEPT ![s.n] = i]
             IN  IF s.n # 6 THEN now
                 ELSE IF s.ibmap = 254 THEN [now EXCEPT ![6] = now[9]]
                 ELSE [now EXCEPT ![9] = i]
  IN  at[last]

\* Pointers after the sections up to position i were walked through, starting
\* from the pointers sec.  Bad when a bitmap is not handled: predefined, or
\* reused when there is none.
Walk(secs, first, last, sec, reuse) ==
  LET at[i \in (first - 1) .. last] ==
        IF i = first - 1 THEN sec
        ELSE IF at[i - 1] = Bad THEN Bad
        ELSE LET s == secs[i]
                 now == [at[i - 1] EXCEPT ![s.n] = i]
             IN  IF s.n # 6 THEN now
                 ELSE CASE s.ibmap = 0 -> [now EXCEPT ![9] = i]
                        [] s.ibmap = 254 /\ reuse /\ now[9] # Null -> [now EXCEPT ![6] = now[9]]
                        [] s.ibmap = 255 -> now
                        [] OTHER -> Bad
  IN  at[last]

NextEnd(secs, from) ==
  LET ends == {i \in Submessages(secs) : i >= from}
  IN  IF ends = {} THEN Null ELSE CHOOSE i \in ends : \A j \in ends : i <= j

\* The first submessage.  Sections 2, 6 and 9 are forgotten first; the others are
\* overwritten.
parse_1st_msg(secs, sec) ==
  LET end == NextEnd(secs, 1)
  IN  IF end = Null THEN Bad
      ELSE Walk(secs, 1, end, [sec EXCEPT ![2] = Null, ![6] = Null, ![9] = Null], FALSE)

\* The next one keeps the pointers to the sections it does not repeat.  Ended
\* when there is none.
parse_next_msg(secs, sec) ==
  LET end == NextEnd(secs, sec[7] + 1)
  IN  IF end = Null THEN Ended ELSE Walk(secs, sec[7] + 1, end, sec, TRUE)

\* The pointers after reading submessage k from the beginning.
Submessage(secs, k) ==
  LET at[i \in 1 .. k] ==
        IF i = 1 THEN parse_1st_msg(secs, NoSections)
        ELSE IF at[i - 1] \in {Bad, Ended} THEN at[i - 1]
        ELSE parse_next_msg(secs, at[i - 1])
  IN  at[k]
=============================================================================

----------------------------- MODULE TimeSeries -----------------------------
(* wgrib2's options that combine the records of a series: means and other  *)
(* statistics over reference or forecast times (-ave0, -fcst_ave0, -ave,   *)
(* -fcst_ave, -time_processing), periods merged to longer ones             *)
(* (-merge_fcst) and running means and totals split into the parts that    *)
(* follow each other (-ncep_norm).                                         *)
(*                                                                         *)
(* Each option has a state loc of its own, a step for every record it is   *)
(* called for, and a last step.  A step gives the new state and the        *)
(* messages it appends to its file.  c holds the sections of the record,   *)
(* data its values in the order of the user, tr the table that leads back  *)
(* to the order of the file.  A mean is the pair of a sum and a count.     *)
EXTENDS GribRecords

Keep(loc) == [loc |-> loc, out |-> <<>>]
Write(loc, message) == [loc |-> loc, out |-> <<message>>]

----------------------------------------------------------------------------
(* Times, and what makes two records the same but for their times          *)
(* (VerfTime.c, test_sec.c).                                               *)

Statistical(s4) == s4.ranges # <<>>

start_ft(c) == c[1].ref + c[4].ft
verftime(c) == IF Statistical(c[4]) THEN c[4].end ELSE start_ft(c)

NoTime(s4) == [s4 EXCEPT !.ft = 0, !.end = 0]

same_sec1_not_time(a, b) == a[1].id = b[1].id
same_sec4_not_time(a, b) == NoTime(a[4]) = NoTime(b[4])
same_sec4_for_merge(a, b) == Statistical(a[4]) /\ same_sec4_not_time(a, b)

same_sec4_diff_ave_period(a, b) ==
  LET NoPeriod(s4) == [s4 EXCEPT !.end = 0, !.ranges[1].len = 0]
  IN  Len(a[4].ranges) = Len(b[4].ranges) /\ NoPeriod(a[4]) = NoPeriod(b[4])

----------------------------------------------------------------------------
(* Statistics over a series.  o is the option: [kind, op, dt].             *)

\* The template with time ranges that takes the place of one without, and the
\* templates that get one more range, for each option.
ave0_pdts ==
  [pdt \in {0, 1, 2, 8, 12} |-> IF pdt = 0 THEN 8 ELSE IF pdt \in {1, 2} THEN pdt + 10 ELSE pdt]

fcst_ave0_pdts == [pdt \in {0, 1, 8} |-> IF pdt = 1 THEN 11 ELSE 8]

time_processing_pdts ==
  [pdt \in {0, 1, 2, 5, 6, 8, 9, 10, 11, 12, 46, 48, 60} |->
     CASE pdt = 0         -> 8
       [] pdt \in {1, 2}  -> pdt + 10
       [] pdt \in {5, 6}  -> pdt + 4
       [] pdt = 48        -> 46
       [] pdt = 60        -> 61
       [] OTHER           -> pdt]

Averaged(kind) ==
  CASE kind \in {"ave0", "ave_var"} -> ave0_pdts
    [] kind = "fcst_ave0" -> fcst_ave0_pdts
    [] OTHER              -> time_processing_pdts

\* Code table 4.11: successive analyses, or forecasts of one analysis.
Increment(kind, pdt) == IF kind \in {"ave0", "ave"} THEN 1 ELSE 2

\* Code table 4.10.
AVE == 0
MAX == 2
MIN == 3
DIFF1 == 4
RMS == 5
STD_DEV == 6
DIFF2 == 8

NoSeries == [has_val |-> FALSE]

init_ave_struct(c) ==
  [has_val |-> TRUE, first |-> c, n_fields |-> 0, n_missing |-> 0,
   ref |-> c[1].ref, start |-> start_ft(c), verf |-> verftime(c),
   n |-> [p \in 1 .. npnts(c) |-> 0], acc |-> [p \in 1 .. npnts(c) |-> <<0, 0>>]]

\* One value at one point.  Undefined values only matter to the differences.
Accumulate(op, acc, n, n_fields, x) ==
  CASE op \in {DIFF1, DIFF2} -> <<IF n_fields = 0 THEN x ELSE acc[1], x>>
    [] x = None              -> acc
    [] op = AVE              -> <<acc[1] + x, 0>>
    [] op = RMS              -> <<acc[1] + x * x, 0>>
    [] op = STD_DEV          -> <<acc[1] + x, acc[2] + x * x>>
    [] op = MAX              -> <<IF n = 0 \/ x > acc[1] THEN x ELSE acc[1], 0>>
    [] op = MIN              -> <<IF n = 0 \/ x < acc[1] THEN x ELSE acc[1], 0>>

\* The value written: a fraction, of which RMS and STD_DEV take the root.
Value(op, acc, n, n_fields) ==
  IF op \in {DIFF1, DIFF2}
  THEN IF None \in {acc[1], acc[2]} THEN None
       ELSE <<IF op = DIFF1 THEN acc[2] - acc[1] ELSE acc[1] - acc[2], 1>>
  ELSE IF n # n_fields THEN None
  ELSE CASE op \in {AVE, RMS} -> <<acc[1], n_fields>>
         [] op \in {MAX, MIN} -> <<acc[1], 1>>
         [] op = STD_DEV      -> IF n_fields = 1 THEN None
                                 ELSE <<n_fields * acc[2] - acc[1] * acc[1],
                                        n_fields * (n_fields - 1)>>

add_to_ave_struct(o, l, c, data, tr, missing) ==
  LET raw == undo_output_order(data, tr)
  IN  [l EXCEPT !.acc = [p \in DOMAIN raw |-> Accumulate(o.op, @[p], l.n[p], l.n_fields, raw[p])],
                !.n = [p \in DOMAIN raw |-> IF raw[p] = None THEN @[p] ELSE @[p] + 1],
                !.n_fields = @ + 1,
                !.n_missing = @ + missing,
                !.ref = c[1].ref, !.start = start_ft(c), !.verf = verftime(c)]

\* Mutant: the length of the range counts the fields that were there.
DoAvePresent(o, l) ==
  LET s4 == l.first[4]
      range == [proc |-> o.op, inc |-> Increment(o.kind, s4.pdt),
                len |-> o.dt * (l.n_fields - 1), dt |-> o.dt]
  IN  grib_wrt(l.first,
               [s4 EXCEPT !.pdt = Averaged(o.kind)[s4.pdt], !.end = l.verf,
                          !.miss = l.n_missing, !.ranges = <<range>> \o @],
               [p \in DOMAIN l.acc |-> Value(o.op, l.acc[p], l.n[p], l.n_fields)])

\* The series as a message: the sections of its first record, with a time range put
\* before those it had and the count of the missing fields in place of the old one.
do_ave(o, l) ==
  LET s4 == l.first[4]
      range == [proc |-> o.op, inc |-> Increment(o.kind, s4.pdt),
                len |-> o.dt * (l.n_fields + l.n_missing - 1), dt |-> o.dt]
  IN  grib_wrt(l.first,
               [s4 EXCEPT !.pdt = Averaged(o.kind)[s4.pdt], !.end = l.verf,
                          !.miss = l.n_missing, !.ranges = <<range>> \o @],
               [p \in DOMAIN l.acc |-> Value(o.op, l.acc[p], l.n[p], l.n_fields)])

\* The loop that advances the last time by dt until it reaches this one: whether it is
\* met, and how many times were passed over.
Met(o, last, now) == now > last /\ (now - last) % o.dt = 0
Passed(o, last, now) == (now - last) \div o.dt - 1

SameSeries(l, c) ==
  /\ same_sec1_not_time(c, l.first)
  /\ c[3] = l.first[3]
  /\ same_sec4_not_time(c, l.first)

\* The record goes on with the series, missing times being passed over; else the series
\* is written and the record begins another.
More(o, l, c, data, tr, missing) == Keep(add_to_ave_struct(o, l, c, data, tr, missing))

Begin(o, l, c, data, tr) ==
  LET fresh == add_to_ave_struct(o, init_ave_struct(c), c, data, tr, 0)
  IN  IF l.has_val THEN Write(fresh, do_ave(o, l)) ELSE Keep(fresh)

\* -ave0 looks at the reference times only.
f_ave0(o, l, c, data, tr) ==
  IF c[4].pdt \notin DOMAIN ave0_pdts THEN Keep(l)
  ELSE IF l.has_val /\ SameSeries(l, c) /\ Met(o, l.ref, c[1].ref)
  THEN More(o, l, c, data, tr, Passed(o, l.ref, c[1].ref))
  ELSE Begin(o, l, c, data, tr)

\* -fcst_ave0 allows no gap.
f_fcst_ave0(o, l, c, data, tr) ==
  IF c[4].pdt \notin DOMAIN fcst_ave0_pdts THEN Keep(l)
  ELSE IF /\ l.has_val /\ SameSeries(l, c)
          /\ c[1].ref = l.first[1].ref
          /\ start_ft(c) = l.start + o.dt
          /\ verftime(c) = l.verf + o.dt
  THEN More(o, l, c, data, tr, 0)
  ELSE Begin(o, l, c, data, tr)

\* -ave looks at the reference and the verification times, -fcst_ave at the verification
\* times of one reference time.
f_time_processing(o, l, c, data, tr) ==
  LET last == IF o.kind = "ave" THEN l.ref ELSE l.verf
      now == IF o.kind = "ave" THEN c[1].ref ELSE verftime(c)
  IN  IF c[4].pdt \notin DOMAIN time_processing_pdts THEN Keep(l)
      ELSE IF /\ l.has_val /\ SameSeries(l, c)
              /\ Met(o, last, now)
              /\ IF o.kind = "ave" THEN verftime(c) = l.verf + (now - last)
                 ELSE c[1].ref = l.first[1].ref
      THEN More(o, l, c, data, tr, Passed(o, last, now))
      ELSE Begin(o, l, c, data, tr)

\* The call with mode -2.
LastSeries(o, l) == IF l.has_val THEN Write(l, do_ave(o, l)) ELSE Keep(l)

----------------------------------------------------------------------------
(* Ave_var.c: the mean, the standard deviation and the extremes of a       *)
(* series of reference times.  The running mean M and sum of squares S of   *)
(* a point are told apart by the sum and the sum of the squares; M is       *)
(* undefined from the first undefined value on, and the extremes then stay. *)

init_ave_var_struct(c) ==
  [has_val |-> TRUE, first |-> c, n_fields |-> 0, n_missing |-> 0,
   ref |-> c[1].ref, verf |-> verftime(c),
   point |-> [p \in 1 .. npnts(c) |-> [M |-> 0, S |-> 0, min |-> None, max |-> None]]]

Welford(point, x, n_fields) ==
  IF n_fields = 0 /\ x # None THEN [M |-> x, S |-> x * x, min |-> x, max |-> x]
  ELSE IF None \in {x, point.M} THEN [point EXCEPT !.M = None]
  ELSE [M |-> point.M + x, S |-> point.S + x * x,
        min |-> IF x < point.min THEN x ELSE point.min,
        max |-> IF x > point.max THEN x ELSE point.max]

update_ave_var_struct(l, c, data, tr, missing) ==
  LET raw == undo_output_order(data, tr)
  IN  [l EXCEPT !.point = [p \in DOMAIN raw |-> Welford(@[p], raw[p], l.n_fields)],
                !.n_fields = @ + 1, !.n_missing = @ + missing,
                !.ref = c[1].ref, !.verf = verftime(c)]

\* The mean, the sample standard deviation (its square), the least and the greatest.
VarField(op, point, n) ==
  CASE op = AVE     -> IF point.M = None THEN None ELSE <<point.M, n>>
    [] op = STD_DEV -> IF point.M = None \/ n = 1 THEN None
                       ELSE <<n * point.S - point.M * point.M, n * (n - 1)>>
    [] op = MIN     -> IF point.min = None THEN None ELSE <<point.min, 1>>
    [] op = MAX     -> IF point.max = None THEN None ELSE <<point.max, 1>>

\* Four messages that differ in the process of the first time range.
write_ave_var(o, l) ==
  LET s4 == l.first[4]
      Period1(op) == [proc |-> op, inc |-> 1, len |-> o.dt * (l.n_fields + l.n_missing - 1),
                    dt |-> o.dt]
      Message(op) ==
        grib_wrt(l.first,
                 [s4 EXCEPT !.pdt = ave0_pdts[s4.pdt], !.end = l.verf, !.miss = l.n_missing,
                            !.ranges = <<Period1(op)>> \o @],
                 [p \in DOMAIN l.point |-> VarField(op, l.point[p], l.n_fields)])
  IN  <<Message(AVE), Message(STD_DEV), Message(MIN), Message(MAX)>>

f_ave_var(o, l, c, data, tr) ==
  LET fresh == update_ave_var_struct(init_ave_var_struct(c), c, data, tr, 0)
  IN  IF c[4].pdt \notin DOMAIN ave0_pdts THEN Keep(l)
      ELSE IF ~l.has_val THEN Keep(fresh)
      ELSE IF Met(o, l.ref, c[1].ref) /\ SameSeries(l, c)
      THEN Keep(update_ave_var_struct(l, c, data, tr, Passed(o, l.ref, c[1].ref)))
      ELSE [loc |-> fresh, out |-> write_ave_var(o, l)]

LastAveVar(o, l) == [loc |-> l, out |-> IF l.has_val THEN write_ave_var(o, l) ELSE <<>>]

----------------------------------------------------------------------------
(* Merge.c: o is [num_to_merge]. *)

Processing(c) == c[4].ranges[1].proc

\* Mutant: a period that comes once more is merged again.
MergeAgain(l, c) ==
  \/ ~l.has_val
  \/ c[1] # l.clone[1]
  \/ c[3] # l.clone[3]
  \/ ~same_sec4_for_merge(c, l.clone)

\* A merge begins anew with another field or when its last period comes once more; that a
\* period follows the last one is not asked.
MergeNew(l, c) ==
  \/ ~l.has_val
  \/ l.fhour + l.dt * (l.n - 1) = c[4].ft
  \/ c[1] # l.clone[1]
  \/ c[3] # l.clone[3]
  \/ ~same_sec4_for_merge(c, l.clone)

Merged(proc, d, x) ==
  CASE proc \in {0, 1} -> IF None \in {d, x} THEN None ELSE d + x
    [] d = None        -> x
    [] x = None        -> d
    [] proc = 2        -> IF d < x THEN x ELSE d
    [] proc = 3        -> IF d > x THEN x ELSE d

\* What is written: the sum divided by the count for a mean, the length of the first
\* period times the count, the end of the last.
MergedRecord(l, val, n, c) ==
  grib_wrt(l.clone,
           [l.clone[4] EXCEPT !.end = c[4].end, !.ranges[1].len = l.dt * n],
           [p \in DOMAIN val |-> IF val[p] = None THEN None
                                 ELSE <<val[p], IF Processing(c) = 0 THEN n ELSE 1>>])

\* Nothing is written at the end: the periods of an unfinished merge are dropped.
f_merge_fcst(o, l, c, data, tr) ==
  LET raw == undo_output_order(data, tr)
      val == [p \in DOMAIN raw |-> Merged(Processing(c), l.val[p], raw[p])]
      fresh == [has_val |-> TRUE, n |-> 1, fhour |-> c[4].ft, dt |-> c[4].ranges[1].len,
                clone |-> c, val |-> raw]
      more == [l EXCEPT !.n = @ + 1, !.val = val]
  IN  IF Len(c[4].ranges) # 1 \/ c[4].ranges[1].proc \notin 0 .. 3 THEN Keep(l)
      ELSE IF MergeNew(l, c)
      THEN IF o.num_to_merge = 0 THEN Write(fresh, grib_wrt(c, c[4], raw)) ELSE Keep(fresh)
      ELSE IF o.num_to_merge = 0 THEN Write(more, MergedRecord(l, val, l.n + 1, c))
      ELSE IF l.n + 1 = o.num_to_merge THEN Write(NoSeries, MergedRecord(l, val, l.n + 1, c))
      ELSE Keep(more)

----------------------------------------------------------------------------
(* NCEP_norm.c *)

Saved(c, data) == [has_val |-> TRUE, clone |-> c, val |-> data]

NormNew(l, c) ==
  \/ ~l.has_val
  \/ c[4].ft # l.clone[4].ft
  \/ c[1] # l.clone[1]
  \/ c[3] # l.clone[3]
  \/ ~same_sec4_diff_ave_period(c, l.clone)

\* The part of the period of c after the period saved, from fields that begin together.
LastPart(l, c, data, tr) ==
  LET dt1 == l.clone[4].ranges[1].len
      dt2 == c[4].ranges[1].len
      part == [p \in DOMAIN data |->
                IF None \in {data[p], l.val[p]} THEN None
                ELSE IF Processing(c) = 0
                THEN <<data[p] * dt2 - l.val[p] * dt1, dt2 - dt1>>
                ELSE <<data[p] - l.val[p], 1>>]
  IN  grib_wrt(l.clone,
               [l.clone[4] EXCEPT !.ft = @ + dt1, !.end = c[4].end, !.ranges[1].len = dt2 - dt1],
               undo_output_order(part, tr))

f_ncep_norm(l, c, data, tr) ==
  IF \/ Len(c[4].ranges) # 1
     \/ Processing(c) \notin {0, 1}
     \/ c[4].ranges[1].len = 0
  THEN Keep(l)
  ELSE IF NormNew(l, c) THEN Write(Saved(c, data), grib_wrt(c, c[4], undo_output_order(data, tr)))
  ELSE IF c[4].ranges[1].len = l.clone[4].ranges[1].len THEN Keep(l)
  ELSE Write(Saved(c, data), LastPart(l, c, data, tr))
=============================================================================

------------------------------ MODULE PdtEdit ------------------------------
(* The options of wgrib2 that rewrite the metadata of a message: -set_pdt, *)
(* -set_ens_num, -set_ensm_derived_fcst, -set_percentile, -set_prob,       *)
(* -set_ftime1, -set_ftime2, -set_date, and -set_metadata, which applies   *)
(* several of them in turn.                                                *)
(*                                                                         *)
(* A message is a record: the section of PdtLayout, with status ("run",    *)
(* "fatal" after fatal_error, "overrun" after writing past a section), ref, the reference time, and code12 and     *)
(* code14, the octets of code tables 1.2 and 1.4.  Times are in hours, a   *)
(* date in the section is seven octets that stand for one time.  An octet  *)
(* without a meaning of its own holds its place in the section the message *)
(* came with, so that it is known wherever it goes.                        *)
EXTENDS PdtLayout, G2Templates, FiniteSets

CONSTANTS
  StartTemplates,    \* templates of the messages
  NewTemplates,      \* templates asked for with -set_pdt
  RangeCounts,       \* time ranges a message or an option may have
  Times,             \* forecast times, in hours
  EnsNumbers,        \* numbers -set_ens_num is given; -1 says "No Change"
  MaxOptions         \* bound on the options of a command

\* Template 34 is not one a message comes with: wgrib2 has no place for its forecast time.
ASSUME PdtAssumption ==
  /\ StartTemplates \subseteq Nat \ {34} /\ NewTemplates \subseteq Nat
  /\ RangeCounts \subseteq {1, 2} /\ Times \subseteq Nat /\ EnsNumbers \subseteq Int

VARIABLES
  msg,               \* the message
  options,           \* how many options have been applied
  meant              \* the items the last option is there to change

vars == <<msg, options, meant>>

Missing == 255
BufferSize == 500    \* SET_PDT_SIZE

----------------------------------------------------------------------------
(* Octets. *)

Len4(s) == IF DOMAIN s.oct = {} THEN 9 ELSE 1 + CHOOSE i \in DOMAIN s.oct : \A j \in DOMAIN s.oct : j <= i

\* Octets written from place at on; what falls outside the section is not part of it.
Store(oct, at, values) ==
  [i \in DOMAIN oct |-> IF i \in at .. at + Len(values) - 1 THEN values[i - at + 1] ELSE oct[i]]

Octet(s, i) == IF i \in DOMAIN s.oct THEN s.oct[i] ELSE Missing

int_char(n) == <<0, 0, 0, n>>
int2_char(n) == <<0, n>>

\* A number the models use is in its last octet; anything else is not a time.
Unknown == -1000
Number(octets) ==
  IF \A i \in 1 .. Len(octets) - 1 : octets[i] = 0
  THEN octets[Len(octets)] ELSE Unknown

Octets(s, at, n) == [i \in 1 .. n |-> Octet(s, at + i - 1)]

save_time(t) == [i \in 1 .. 7 |-> IF t = Unknown THEN Missing ELSE 1000 + 10 * t + i]
get_time(octets) ==
  LET t == (octets[1] - 1001) \div 10
  IN  IF octets[1] >= 1000 /\ octets = save_time(t) THEN t ELSE Unknown

add_time(t, n) == IF t = Unknown \/ n = Unknown THEN Unknown ELSE t + n

Fatal(s) == [s EXCEPT !.status = "fatal"]
Overrun(s) == [s EXCEPT !.status = "overrun"]

----------------------------------------------------------------------------
(* Items by name. *)

Location(item, s) ==
  CASE item = "4.3"  -> code_table_4_3_location(s)
    [] item = "4.4"  -> code_table_4_4_location(s)
    [] item = "4.5a" -> code_table_4_5a_location(s)
    [] item = "4.5b" -> code_table_4_5b_location(s)
    [] item = "4.6"  -> code_table_4_6_location(s)
    [] item = "perturbation" -> perturbation_number_location(s)
    [] item = "members" -> number_of_forecasts_in_the_ensemble_location(s)
    [] item = "4.7"  -> code_table_4_7_location(s)
    [] item = "4.8"  -> code_table_4_8_location(s)
    [] item = "4.9"  -> code_table_4_9_location(s)
    [] item = "background" -> background_generating_process_identifier_location(s)
    [] item = "analysis" -> analysis_or_forecast_generating_process_identifier_location(s)
    [] item = "hours" -> hours_of_observational_data_cutoff_after_reference_time_location(s)
    [] item = "minutes" -> minutes_of_observational_data_cutoff_after_reference_time_location(s)
    [] item = "observation" -> observation_generating_process_identifier_location(s)
    [] item = "version" -> year_of_model_version_date_location(s)
    [] item = "percentile" -> percentile_value_location(s)
    [] item = "4.230" -> code_table_4_230_location(s)
    [] item = "4.233" -> code_table_4_233_location(s)
    [] item = "4.91" -> code_table_4_91_location(s)
    [] item = "4.10" -> code_table_4_10_location(s)
    [] item = "4.11" -> code_table_4_11_location(s)
    [] item = "4.15" -> code_table_4_15_location(s)
    [] item = "4.91b" -> code_table_4_91b_location(s)
    [] item = "ranges" -> stat_proc_verf_time_location(s)

\* What new_pdt copies, in its order: <<item, first octet, last octet>>.
Copied ==
  << <<"4.3", 0, 0>>, <<"4.4", 0, 4>>, <<"4.5a", 0, 5>>, <<"4.5b", 0, 5>>, <<"4.6", 0, 0>>,
     <<"perturbation", 0, 0>>, <<"members", 0, 0>>, <<"4.7", 0, 0>>, <<"4.9", -2, 10>>,
     <<"background", 0, 0>>, <<"analysis", 0, 0>>, <<"hours", 0, 1>>, <<"minutes", 0, 0>>,
     <<"observation", 0, 0>>, <<"version", 0, 6>>, <<"percentile", 0, 0>>,
     <<"4.230", 0, 1>>, <<"4.233", 0, 1>>, <<"4.91", 0, 10>> >>

----------------------------------------------------------------------------
(* -set_pdt *)

CopyFirst(new, old, c) ==
  IF Location(c[1], old) = NULL \/ Location(c[1], new) = NULL THEN new
  ELSE [new EXCEPT !.oct = Store(@, Location(c[1], new), Octets(old, Location(c[1], old), 1))]

CopyAt(new, old, c, from, to) ==
  IF from = NULL \/ to = NULL THEN new
  ELSE IF to + c[3] >= Len4(new) THEN Overrun(new)
  ELSE [new EXCEPT !.oct = Store(@, to + c[2], Octets(old, from + c[2], c[3] - c[2] + 1))]

Copy(new, old, c) == CopyAt(new, old, c, Location(c[1], old), Location(c[1], new))

CopyAll(new, old) ==
  LET upto[i \in 0 .. Len(Copied)] ==
        IF i = 0 THEN new ELSE Copy(upto[i - 1], old, Copied[i])
  IN  upto[Len(Copied)]

Ranges(s) ==
  IF stat_proc_n_time_ranges_index(s) = NULL THEN 0
  ELSE Octet(s, stat_proc_n_time_ranges_index(s))

\* The whole block of time ranges is copied when the new section has room for it.
CopyRanges(new, old) ==
  LET room == IF stat_proc_verf_time_location(new) = NULL THEN 0
              ELSE (Len4(new) - smallest_pdt_len(new.pdt)) \div 12 + 1
  IN  IF stat_proc_verf_time_location(old) # NULL /\ Ranges(old) <= room
      THEN Copy(new, old, <<"ranges", 0, 23 + 12 * (Ranges(old) - 1)>>)
      ELSE new

\* A new section of template 33 or 34 does not say yet where its items are: what is
\* copied to them lands beyond the buffer.
Beyond(new, old) ==
  \E item \in {"4.6", "perturbation", "members", "ranges"} :
    /\ Location(item, old) # NULL
    /\ Location(item, new) >= BufferSize

Room(size) == size >= 9 /\ size <= BufferSize

PdtSize(s, pdt, len, copy) ==
  IF len > 0 THEN len
  ELSE smallest_pdt_len(pdt) + (IF copy /\ Ranges(s) > 0 THEN 12 * (Ranges(s) - 1) ELSE 0)

Blank(s, pdt, size) == [s EXCEPT !.pdt = pdt, !.oct = [i \in 9 .. size - 1 |-> Missing]]

\* The items go into a section that has its ranges, its category and its parameter.
CopyItems(named, s) ==
  IF BadModes(s) \/ BadModes(named) THEN Fatal(s)
  ELSE IF Beyond(named, s) THEN Overrun(s)
  ELSE CopyAll(named, s)

FilledPdt(s, blank, copy) ==
  IF copy THEN CopyItems([CopyRanges(blank, s) EXCEPT !.oct = Store(@, 9, Octets(s, 9, 2))], s)
  ELSE blank

new_pdt(s, pdt, len, copy) ==
  LET size == PdtSize(s, pdt, len, copy)
  IN  IF Room(size) THEN FilledPdt(s, Blank(s, pdt, size), copy) ELSE Fatal(s)

f_set_pdt(s, pdt, len, copy) == new_pdt(s, pdt, len, copy)

\* "+pdt" given by another option.
Plus(s, pdt) == f_set_pdt(s, pdt, -1, TRUE)

----------------------------------------------------------------------------
(* Ensembles, percentiles and probabilities. *)

\* -1 is stored as 255.
unsigned_char(n) == n % 256

Inserted(s, pdt, at, values, dropped) ==
  [s EXCEPT !.pdt = pdt,
            !.oct = [i \in 9 .. Len4(s) - 1 + Len(values) - dropped |->
                       IF i < at THEN s.oct[i]
                       ELSE IF i < at + Len(values) THEN values[i - at + 1]
                       ELSE s.oct[i - Len(values) + dropped]]]

f_set_ens_num(s, type_ens, ens_fcst, num_ens) ==
  LET values == <<unsigned_char(type_ens), unsigned_char(ens_fcst), unsigned_char(num_ens)>>
  IN  IF code_table_4_6_location(s) # NULL
      THEN [s EXCEPT !.oct = Store(@, code_table_4_6_location(s), values)]
      ELSE IF s.pdt = 0 THEN Inserted(s, 1, 34, values, 0)
      ELSE IF s.pdt = 8 THEN Inserted(s, 11, 34, values, 0)
      ELSE s

f_set_ensm_derived_fcst(s, code_table_4_7, num_ens) ==
  LET values == <<code_table_4_7, num_ens>>
      first34 == [i \in 9 .. 33 |-> Octet(s, i)]
  IN  CASE s.pdt \in {2, 12} ->
             [s EXCEPT !.oct = [i \in DOMAIN s.oct |->
                IF i \in {34, 35} /\ values[i - 33] # Missing THEN values[i - 33] ELSE s.oct[i]]]
        [] s.pdt \in {0, 1} ->
             [s EXCEPT !.pdt = 2, !.oct = [i \in 9 .. 35 |->
                IF i < 34 THEN s.oct[i] ELSE values[i - 33]]]
        [] s.pdt = 8  -> Inserted(s, 12, 34, values, 0)
        [] s.pdt = 11 -> Inserted(s, 12, 34, values, 3)
        [] OTHER -> s

\* Values stored in the new section at a place it may not have.
Placed(new, at, values) ==
  IF new.status = "run" /\ at # NULL THEN [new EXCEPT !.oct = Store(@, at, values)] ELSE new

\* The point template is changed to the first, the one with ranges to the second.
Promoted(s, points, point, rangeds, ranged) ==
  IF s.pdt \in points \cup rangeds THEN Plus(s, IF s.pdt \in points THEN point ELSE ranged) ELSE s

StorePercentile(new, percent) == Placed(new, percentile_value_location(new), <<percent>>)

f_set_percentile(s, percent) ==
  StorePercentile(Promoted(s, {0, 1, 2, 4, 5}, 6, {8, 9, 11, 12, 13, 14, 15}, 10), percent)

\* values are the octets from two before code table 4.9 on.
StoreProb(new, values) ==
  IF code_table_4_9_location(new) = NULL THEN new
  ELSE Placed(new, code_table_4_9_location(new) - 2, values)

\* limits are the eleven octets from code table 4.9 on.
f_set_prob(s, forecast, total, limits) ==
  StoreProb(Promoted(s, {0, 1, 2, 4, 6}, 5, {8, 10, 11, 12, 13, 14, 15}, 9),
            <<forecast, total>> \o limits)

----------------------------------------------------------------------------
(* Times. *)

Hour == 1            \* the unit of the forecast times

StoreForecast(s, octets) ==
  [s EXCEPT !.oct = Store(@, code_table_4_4_location(s), <<Hour>> \o octets)]

\* The forecast time has two octets in template 44.
TimeOctets(time, pdt) == IF pdt # 44 THEN int_char(time) ELSE int2_char(time)

\* Code tables 1.2 and 1.4 say analysis or forecast.
Significance(s, time) ==
  IF time = 0
  THEN [s EXCEPT !.code12 = 0, !.code14 = IF @ = 1 THEN 0 ELSE @]
  ELSE [s EXCEPT !.code12 = 1, !.code14 = IF @ = 0 THEN 1 ELSE @]

forecast_time_in_units(s) ==
  LET at == code_table_4_4_location(s)
  IN  IF at = NULL THEN 0
      ELSE IF s.pdt # 44 THEN Number(Octets(s, at + 1, 4)) ELSE Number(Octets(s, at + 1, 2))

EndTime(s) == get_time(Octets(s, stat_proc_verf_time_location(s), 7))

\* The end of the ranges moves with the forecast time.
f_set_ftime1(s, time) ==
  LET old_ftime == Number(Octets(s, code_table_4_4_location(s) + 1, 4))
      dt == IF EndTime(s) = Unknown \/ old_ftime = Unknown THEN Unknown
            ELSE EndTime(s) - (s.ref + old_ftime)
      new == Significance(StoreForecast(s, TimeOctets(time, s.pdt)), time)
  IN  IF BadModes(s) \/ code_table_4_4_location(s) = NULL THEN Fatal(s)
      ELSE IF stat_proc_verf_time_location(s) = NULL THEN new
      ELSE [new EXCEPT !.oct =
              Store(@, stat_proc_verf_time_location(s), save_time(add_time(s.ref + time, dt)))]

PointTemplate ==
  [p \in {8, 9, 10, 11, 12, 13, 14, 34, 42, 43, 45, 46, 61} |->
     CASE p = 8 -> 0   [] p = 9 -> 5   [] p = 10 -> 6  [] p = 11 -> 1  [] p = 12 -> 2
       [] p = 13 -> 3  [] p = 14 -> 4  [] p = 34 -> 33 [] p = 42 -> 40 [] p = 43 -> 41
       [] p = 45 -> 44 [] p = 46 -> 48 [] p = 61 -> 60]

\* "anl" or "N hour fcst".  pdt stays the template before the change.
StorePoint(new, time, pdt) ==
  IF new.status # "run" THEN new
  ELSE IF BadModes(new) \/ code_table_4_4_location(new) = NULL
          \/ stat_proc_verf_time_location(new) # NULL THEN Fatal(new)
  ELSE Significance(StoreForecast(new, TimeOctets(time, pdt)), time)

SetPoint(s, time) ==
  StorePoint(IF s.pdt \in DOMAIN PointTemplate THEN Plus(s, PointTemplate[s.pdt]) ELSE s,
             time, s.pdt)

\* One time range: [code10, code11, len, unit2, step].
RangeOctets(r) ==
  <<r.code10, r.code11, Hour>> \o int_char(r.len) \o <<r.unit2>> \o int_char(r.step)

AllRanges(ranges) ==
  LET upto[i \in 0 .. Len(ranges)] ==
        IF i = 0 THEN <<>> ELSE upto[i - 1] \o RangeOctets(ranges[i])
  IN  upto[Len(ranges)]

TotalLen(ranges) ==
  LET upto[i \in 0 .. Len(ranges)] == IF i = 0 THEN 0 ELSE upto[i - 1] + ranges[i].len
  IN  upto[Len(ranges)]

\* Only three pairs of templates change their size: the template with ranges and its
\* octets with none.
Resized(pdt) ==
  CASE pdt \in {0, 8}   -> <<8, 46>>
    [] pdt \in {1, 11}  -> <<11, 49>>
    [] pdt \in {46, 48} -> <<46, 59>>
    [] OTHER            -> <<>>

ForRanges(s, n) ==
  IF \/ Ranges(s) = n /\ stat_proc_verf_time_location(s) # NULL
     \/ Resized(s.pdt) = <<>>
  THEN s
  ELSE f_set_pdt(s, Resized(s.pdt)[1], Resized(s.pdt)[2] + 12 * n, TRUE)

StoreRanges(new, at, time, ranges) ==
  IF new.status # "run" THEN new
  ELSE IF BadModes(new) \/ code_table_4_4_location(new) = NULL \/ at = NULL THEN Fatal(new)
  ELSE IF at + 12 * (Len(ranges) + 1) > Len4(new) THEN Overrun(new)
  ELSE [StoreForecast(new, int_char(time)) EXCEPT !.oct =
          Store(@, at, save_time(new.ref + time + TotalLen(ranges)) \o <<Len(ranges)>>
                       \o int_char(0) \o AllRanges(ranges))]

AtRanges(new, time, ranges) ==
  StoreRanges(new, stat_proc_verf_time_location(new), time, ranges)

\* Statistics over ranges.
SetRanges(s, time, ranges) == AtRanges(ForRanges(s, Len(ranges)), time, ranges)

f_set_ftime2(s, time, ranges) ==
  IF ranges = <<>> THEN SetPoint(s, time) ELSE SetRanges(s, time, ranges)

----------------------------------------------------------------------------
(* -set_date and -set_metadata *)

\* The octets of range i of the section.
RangeAt(s, i) == stat_proc_verf_time_location(s) + 12 + 12 * (i - 1)
RangeLen(s, i) == Number(Octets(s, RangeAt(s, i) + 3, 4))

Supported(s) == \A i \in 1 .. Ranges(s) : Octet(s, RangeAt(s, i) + 1) \in 1 .. 4

\* The lengths of the ranges that are passed one after the other.
Elapsed(s) ==
  LET upto[i \in 0 .. Ranges(s)] ==
        IF i = 0 THEN 0
        ELSE IF Octet(s, RangeAt(s, i) + 1) \in {3, 4} THEN upto[i - 1]
        ELSE add_time(upto[i - 1], RangeLen(s, i))
  IN  upto[Ranges(s)]

SetDateOnly(s, date) == [s EXCEPT !.ref = date]

f_set_date(s, date) ==
  LET new == [s EXCEPT !.ref = date]
      at == stat_proc_verf_time_location(s)
  IN  IF at = NULL THEN new
      ELSE IF ~Supported(s) THEN Fatal(new)
      ELSE [new EXCEPT !.oct =
              Store(@, at, save_time(add_time(add_time(date, forecast_time_in_units(s)), Elapsed(s))))]

\* A field of the metadata after the forecast time.
Field(s, f) ==
  CASE f.field = "level"    -> f_set_percentile(s, f.n)
    [] f.field = "prob"     -> f_set_prob(s, Missing, Missing, f.limits)
    [] f.field = "derived"  -> f_set_ensm_derived_fcst(s, f.n, Missing)
    [] f.field = "ENS=+"    -> f_set_ens_num(s, 3, f.n, -1)
    [] f.field = "members"  -> f_set_ens_num(s, -1, -1, f.n)

AllFields(s, fields) ==
  LET upto[i \in 0 .. Len(fields)] ==
        IF i = 0 THEN s
        ELSE IF upto[i - 1].status # "run" THEN upto[i - 1]
        ELSE Field(upto[i - 1], fields[i])
  IN  upto[Len(fields)]

\* The rest of the metadata, on a message that has its date.
Dated(s, time, ranges, fields) ==
  IF s.status # "run" THEN s ELSE AllFields(f_set_ftime2(s, time, ranges), fields)

set_metadata_string(s, date, time, ranges, fields) ==
  Dated(f_set_date(s, date), time, ranges, fields)

----------------------------------------------------------------------------
(* The command. *)

OneRange(time, len) == <<[code10 |-> 0, code11 |-> 2, len |-> len, unit2 |-> Missing, step |-> 0]>>

\* "n@step hour ave(...)" around other ranges.
Outer(n, step) == [code10 |-> 0, code11 |-> 1, len |-> (n - 1) * step, unit2 |-> Hour, step |-> step]

\* The ranges an option can ask for: none, one, one within another.
RangeInputs ==
  {<<>>} \cup (IF 1 \in RangeCounts THEN {OneRange(0, 6)} ELSE {})
         \cup (IF 2 \in RangeCounts THEN {<<Outer(3, 12)>> \o OneRange(0, 6)} ELSE {})

\* A message as a model center writes it.
StartLen(pdt, n) ==
  CASE pdt = 1002           -> 35
    [] pdt = 30             -> 24
    [] pdt = 57             -> 48
    [] pdt \in {3, 4}          -> smallest_pdt_len(pdt) + 2
    [] pdt \in {13, 14}        -> smallest_pdt_len(pdt) + 12 * (n - 1) + 2
    [] pdt \in DOMAIN Ranged \cup {34} -> smallest_pdt_len(pdt) + 12 * (n - 1)
    [] OTHER                -> smallest_pdt_len(pdt)

Counts(s) ==
  CASE s.pdt \in {3, 13}      -> Store(s.oct, 57, <<2>>)
    [] s.pdt \in {4, 14}      -> Store(s.oct, 53, <<2>>)
    [] s.pdt \in {30, 31}     -> Store(s.oct, 13, <<1>>)
    [] s.pdt \in {32, 33, 34} -> Store(s.oct, 22, <<1>>)
    [] s.pdt = 51             -> Store(s.oct, 34, <<1>>)
    [] s.pdt = 57             -> Store(s.oct, 13, <<0, 1>>)
    [] OTHER                  -> s.oct

Message(pdt, n, time) ==
  LET blank == [status |-> "run", ref |-> 0, code12 |-> 1, code14 |-> 1, pdt |-> pdt,
                jma |-> FALSE, oct |-> [i \in 9 .. StartLen(pdt, n) - 1 |-> i]]
      counted == [blank EXCEPT !.oct = Counts(blank)]
      timed == IF code_table_4_4_location(counted) = NULL THEN counted
               ELSE StoreForecast(counted, TimeOctets(time, pdt))
      ranges == IF n = 1 THEN OneRange(0, 6) ELSE <<Outer(3, 12)>> \o OneRange(0, 6)
  IN  IF stat_proc_verf_time_location(timed) = NULL THEN timed
      ELSE [timed EXCEPT !.oct =
              Store(@, stat_proc_verf_time_location(timed),
                    save_time(time + TotalLen(ranges)) \o <<n>> \o int_char(0) \o AllRanges(ranges))]

Apply(new, items) ==
  /\ msg.status = "run"
  /\ options < MaxOptions
  /\ msg' = new
  /\ options' = options + 1
  /\ meant' = items

Items == {Copied[i][1] : i \in 1 .. Len(Copied)} \cup {"4.8", "4.10", "4.11", "4.15", "4.91b", "ranges"}

\* The items of -set_ens_num, and those a field of the metadata is there to change;
\* "-1" says that -set_ens_num was given -1 for one of its items.
EnsItems == {"4.6", "perturbation", "members"}
FieldItems ==
  [f \in {"level", "prob", "derived", "ENS=+", "members"} |->
     CASE f = "level"   -> {"percentile"}
       [] f = "prob"    -> {"4.9"}
       [] f = "derived" -> {"4.7", "members"}
       [] f = "ENS=+"   -> {"4.6", "perturbation", "-1"}
       [] f = "members" -> {"members", "-1"}]

SetPdt(pdt, len, copy) == Apply(f_set_pdt(msg, pdt, len, copy), IF copy THEN {} ELSE Items)
SetEnsNum(t, e, n) ==
  Apply(f_set_ens_num(msg, t, e, n),
        {item \in EnsItems : -1 # (CASE item = "4.6" -> t [] item = "perturbation" -> e
                                      [] item = "members" -> n)}
          \cup (IF -1 \in {t, e, n} THEN {"-1"} ELSE {}))
SetEnsmDerived(c, n) ==
  Apply(f_set_ensm_derived_fcst(msg, c, n), (IF c = Missing THEN {} ELSE {"4.7"}) \cup {"members"})
SetPercentile(p) == Apply(f_set_percentile(msg, p), {"percentile"})
SetProb(limits) == Apply(f_set_prob(msg, 1, 2, limits), {"4.9"})
SetFtime1(time) == Apply(f_set_ftime1(msg, time), {"4.4", "ranges"})
SetFtime2(time, ranges) == Apply(f_set_ftime2(msg, time, ranges), {"4.4", "ranges"})
SetDate(date) == Apply(f_set_date(msg, date), {"ranges"})
SetMetadata(date, time, ranges, fields) ==
  Apply(set_metadata_string(msg, date, time, ranges, fields),
        {"4.4", "ranges"} \cup UNION {FieldItems[fields[i].field] : i \in 1 .. Len(fields)})

Limits == <<1, 0, 0, 0, 0, 9, 0, 0, 0, 0, 9>>

\* A member of an ensemble is set with -1 for the number of members, and that with -1
\* for the member.
MemberFields ==
  {<<[field |-> "ENS=+", n |-> 7]>>, <<[field |-> "members", n |-> 20]>>,
   <<[field |-> "ENS=+", n |-> 7], [field |-> "members", n |-> 20]>>}
MetadataFields ==
  {<<>>, <<[field |-> "derived", n |-> 0]>>, <<[field |-> "level", n |-> 50]>>,
   <<[field |-> "prob", limits |-> Limits]>>}
  \cup MemberFields

Init ==
  /\ msg \in {Message(p, n, t) : p \in StartTemplates, n \in RangeCounts, t \in Times}
  /\ options = 0
  /\ meant = {}

Next ==
  \/ \E p \in NewTemplates, copy \in BOOLEAN : SetPdt(p, -1, copy)
  \/ \E e \in EnsNumbers, n \in EnsNumbers : SetEnsNum(e, e, n)
  \/ \E c \in {4, Missing} : SetEnsmDerived(c, 20)
  \/ SetPercentile(50)
  \/ SetProb(Limits)
  \/ \E t \in Times : SetFtime1(t)
  \/ \E t \in Times, r \in RangeInputs : SetFtime2(t, r)
  \/ \E d \in {0, 12} : SetDate(d)
  \/ \E t \in Times, r \in RangeInputs, f \in MetadataFields : SetMetadata(12, t, r, f)

Spec == Init /\ [][Next]_vars

----------------------------------------------------------------------------
(* Properties. *)

\* A section is a run of octets from 9 on, no longer than the buffer for it.
TypeOK ==
  /\ msg.status \in {"run", "fatal", "overrun"}
  /\ DOMAIN msg.oct = 9 .. Len4(msg) - 1
  /\ Len4(msg) <= BufferSize
  /\ msg.code12 \in 0 .. 1 /\ msg.code14 \in 0 .. 1

\* The widths of the entries an item takes up, as wgrib2 reads it, from its place on.
Widths(item, s) ==
  CASE item = "4.4" -> (IF s.pdt = 44 THEN <<1, 2>> ELSE <<1, 4>>)
    [] item \in {"4.5a", "4.5b"} -> <<1, -1, -4>>
    [] item \in {"hours", "4.230", "4.233"} -> <<2>>
    [] item \in {"4.9", "4.91", "4.91b"} -> SizeInterval
    [] item = "version" -> <<2, 1, 1, 1, 1, 1>>
    [] item = "ranges" -> Range_
    [] OTHER -> <<1>>

Has(item, s) == Location(item, s) # NULL

\* The octets of a list of entries.
Size(map) ==
  LET wide(n) == Cardinality({i \in 1 .. Len(map) : Abs(map[i]) = n})
  IN  wide(1) + 2 * wide(2) + 3 * wide(3) + 4 * wide(4)

Extent(item, s) == Location(item, s) .. Location(item, s) + Size(Widths(item, s)) - 1

Start(map, i) == 9 + Size(SubSeq(map, 1, i - 1))

\* The entries of the template as g2clib reads this section.
EntryMap(s) ==
  LET map == templatespds[s.pdt].map
  IN  PdsMap(s.pdt, [i \in 1 .. Len(map) |-> IF map[i] = 1 THEN Octet(s, Start(map, i)) ELSE 0])

AreEntries(map, at, widths) ==
  \E i \in 1 .. Len(map) :
    /\ Start(map, i) = at
    /\ SubSeq(map, i, i + Len(widths) - 1) = widths

\* Templates both libraries know (g2clib leaves the extension of 32 half unset).
Known == msg.status = "run" /\ msg.pdt \in pdsRows \ {32}

\* What wgrib2 reads as an item is one or several whole entries of the template of
\* g2clib, and no octet is two items.  (The type of a cluster, table 4.8, is the
\* exception: wgrib2 reads it at the octet of table 4.7.)
LibrariesAgree ==
  Known =>
    \A item \in Items : Has(item, msg) =>
      /\ Extent(item, msg) \subseteq DOMAIN msg.oct
      /\ AreEntries(templatespds[msg.pdt].map, Location(item, msg), Widths(item, msg))
      /\ \A other \in Items \ {item} :
           /\ {item, other} \cap {"ranges"} = {} /\ {item, other} # {"4.7", "4.8"}
           /\ Has(other, msg)
           => Extent(item, msg) \cap Extent(other, msg) = {}

\* Both libraries count the same octets in a template, whatever counts it holds.
\* (The exceptions are hazards: wgrib2 leaves out the forecasts of a cluster in 13
\* and 14 and four octets of 1101, and has no length for 50 and 52; g2clib has no
\* extension for 51 and 91.)
SizesAgree ==
  Known /\ msg.pdt \notin {13, 14, 50, 51, 52, 91, 1101} =>
    prod_def_temp_size(msg) = 9 + Size(EntryMap(msg))

SameItem(item) ==
  Octets(msg, Location(item, msg), Cardinality(Extent(item, msg)))
    = Octets(msg', Location(item, msg'), Cardinality(Extent(item, msg)))

\* What an option is not there to change it carries over to the new section.
\* (Not carried over: the items new_pdt has no copy for, and a forecast time that
\* has two octets in template 44 and four in all others.  -set_ftime2 writes four
\* octets to template 44 when the template was 45, over code table 4.5.  And
\* -set_ens_num, which says "-1=No Change" (Set_ens_num.c:19), stores 255 in an item
\* of the ensemble that it is given -1 for.)
CarriedOver ==
  [][\A item \in ({Copied[i][1] : i \in 1 .. Len(Copied)} \cup {"ranges"}) \ meant' :
       /\ msg'.status = "run"
       /\ Has(item, msg) /\ Has(item, msg')
       /\ ~(item = "4.4" /\ (msg.pdt = 44) # (msg'.pdt = 44))
       /\ ~(item = "4.5a" /\ msg.pdt = 45 /\ msg'.pdt = 44 /\ "4.4" \in meant')
       /\ ~(item \in EnsItems /\ "-1" \in meant')
       => SameItem(item)]_vars

HasRanges(s) ==
  /\ stat_proc_verf_time_location(s) # NULL
  /\ Ranges(s) # Missing

EndIsRight(s) == EndTime(s) = add_time(add_time(s.ref, forecast_time_in_units(s)), Elapsed(s))

\* A section that says it has ranges has the octets for them, and they end with
\* the reference time, the forecast time and the lengths of the ranges added up.
EndOfRanges ==
  msg.status = "run" /\ HasRanges(msg) => EndIsRight(msg)
=============================================================================

-------------------------- MODULE NetcdfReference --------------------------
(* What -netcdf promises for the records it is called for, stated without   *)
(* its indices: which of them are wanted, under which name, time and level  *)
(* each is found, and what the axes of the file tell.                       *)
EXTENDS CalculatorReference

----------------------------------------------------------------------------
(* The settings in force for option i: those given last before it. *)

LastBefore(kinds, i) ==
  LET before == {k \in Having(kinds) : k < i}
  IN  IF before = {} THEN [kind |-> "none"] ELSE arglist[Max(before)]

NcTime(i) ==
  LET o == LastBefore({"nc_time", "no_nc_time"}, i)
  IN  IF o.kind = "nc_time" THEN [date |-> o.date0, sort |-> o.date0_type, dt |-> o.dt]
      ELSE [date |-> 0, sort |-> 0, dt |-> 0]

\* The lines of the table of one kind.
TableLines(i, dir) ==
  LET o == LastBefore({"nc_table", "no_nc_table"}, i)
  IN  IF o.kind = "nc_table" THEN SelectSeq(o.lines, LAMBDA d : d.dir = dir) ELSE <<>>

NcLevels(i) ==
  LET o == LastBefore({"nc_nlev"}, i)
  IN  IF TableLines(i, "nlev") # <<>> THEN TableLines(i, "nlev")[1].n
      ELSE IF o.kind = "nc_nlev" THEN o.n ELSE 0

NcPacking(i) ==
  LET o == LastBefore({"nc_pack", "no_nc_pack"}, i)
  IN  IF o.kind = "nc_pack" THEN o.pack ELSE NoPack

\* The file the option goes on with, None for a new one.
Earlier(i) == IF \E a \in Having({"append"}) : a < i THEN job.nc ELSE None

----------------------------------------------------------------------------
(* The records. *)

\* The lines of the table for the parameter at its level, or at any.
Renamed(i, r, level) ==
  SelectSeq(TableLines(i, "conv"), LAMBDA d : d.par = r[4].par /\ d.level = level)

NotIgnored(i, r) ==
  LET lines == Renamed(i, r, r[4].lev) \o Renamed(i, r, None)
  IN  lines = <<>> \/ lines[1].to # "ignore"

\* Single levels that are not renamed at just this level, of a type there is an axis for.
AxisCandidate(i, r) ==
  LET lev == r[4].lev
      types == TableLines(i, "lev_type")
  IN  /\ NcLevels(i) > 0
      /\ Renamed(i, r, lev) = <<>>
      /\ lev.type2 = 255
      /\ lev.type \in IF types # <<>> THEN {types[1].type} ELSE {20, 100, 104, 105, 107, 160}

\* The type of the axis: that of the file, or of the first record that can be on one.
AxisType(i) ==
  IF Earlier(i) # None /\ Earlier(i).lev # None /\ Earlier(i).lev.type >= 0
  THEN Earlier(i).lev.type
  ELSE SelectSeq(Fed(i), LAMBDA r : NotIgnored(i, r) /\ AxisCandidate(i, r))[1][4].lev.type

\* "Now only single-level data are supported as 4D" (Netcdf.c:569), and "only one type
\* allowed to be 4D data" (176).  The code puts others on the axis all the same: see OneSort.
OnAxis(i, r) == AxisCandidate(i, r) /\ r[4].lev.type = AxisType(i)

\* Pressures are in hundreds on the axis.
AxisLevel(i, r) ==
  LET lev == r[4].lev
      types == TableLines(i, "lev_type")
      per == IF types # <<>> THEN types[1].per ELSE IF lev.type = 100 THEN 100 ELSE 1
  IN  lev.val \div per

AtLevels(i, r) ==
  OnAxis(i, r) /\ TableLines(i, "levs") # <<>> =>
    AxisLevel(i, r) \in ToSet(SubSeq(TableLines(i, "levs")[1].vals, 1, NcLevels(i)))

Admitted(i) == SelectSeq(Fed(i), LAMBDA r : NotIgnored(i, r) /\ AtLevels(i, r))

\* The steps count from the date given, or from the first time there is.
Origin(i) ==
  IF Earlier(i) # None THEN Earlier(i).times[1]
  ELSE IF NcTime(i).sort # 0 THEN NcTime(i).date
  ELSE verftime(Admitted(i)[1])

StepGiven(i) ==
  IF NcTime(i).dt > 0 THEN NcTime(i).dt
  ELSE IF Earlier(i) # None /\ Earlier(i).user THEN Earlier(i).step ELSE 0

\* On the steps, and not before an absolute date.
Timely(records, origin, sort, step) ==
  SelectSeq(records, LAMBDA r : /\ sort > 0 => verftime(r) >= origin
                                /\ step > 0 => (verftime(r) - origin) % step = 0)

\* The records that belong into the file: neither ignored nor off the levels of the table,
\* and timely.
Wanted(i) == Timely(Admitted(i), Origin(i), NcTime(i).sort, StepGiven(i))

\* Under what a record is found.
Key(i, r) ==
  LET lines == Renamed(i, r, r[4].lev) \o (IF OnAxis(i, r) THEN Renamed(i, r, None) ELSE <<>>)
  IN  [name |-> IF lines # <<>> THEN <<lines[1].to>>
                ELSE IF OnAxis(i, r) THEN <<r[4].par>> ELSE <<r[4].par, r[4].lev>>,
       time |-> verftime(r),
       level |-> IF OnAxis(i, r) THEN AxisLevel(i, r) ELSE None]

----------------------------------------------------------------------------
(* The file. *)

\* What a reader finds in it: the packing and the field under each key.
EntriesOf(nc) ==
  UNION {{[key |-> [name |-> n, time |-> nc.times[k[1] + 1],
                    level |-> IF nc.vars[n].nd = 4 THEN nc.lev.vals[k[2] + 1] ELSE None],
           field |-> nc.vars[n].cells[k]] : k \in DOMAIN nc.vars[n].cells} : n \in DOMAIN nc.vars}

\* The place of the value p of a field.
Place(nc, p) ==
  LET row == (p - 1) \div nc.nx + 1
      column == ((p - 1) % nc.nx) + 1
  IN  [lat |-> nc.lat[IF nc.ll = 1 THEN row ELSE p],
       lon |-> nc.lon[IF nc.ll = 1 THEN column ELSE p] % 360]

\* s is what the packing makes of v: less than a step away, undefined out of the range.
Represents(pack, s, v) ==
  IF v = None THEN s = None
  ELSE CASE pack.type = "none"  -> s = v
         [] pack.type = "float" -> s = IF v \in pack.low .. pack.high THEN v ELSE None
         [] pack.type \in {"byte", "short"} ->
              LET off == (2 * v - pack.mid) * 10
                  half == IF pack.type = "byte" THEN 125 ELSE 32765
              IN  IF off > pack.width \/ -off > pack.width THEN s = None
                  ELSE IF s = None THEN FALSE
                  ELSE /\ s \in -half .. half
                       /\ off * half - s * pack.width \in 1 - pack.width .. pack.width - 1

Keeps(nc, entry, r) ==
  LET pts == get_latlon(r[3])
  IN  \A p \in 1 .. npnts(r) :
        /\ Represents(nc.vars[entry.key.name].pack, entry.field[p], InOrder(r)[p])
        /\ Place(nc, p) = [pts[p] EXCEPT !.lon = @ % 360]

\* A range of valid values is not asked for a variable that was there without one.
RangesKnown(i) ==
  \/ Earlier(i) = None
  \/ NcPacking(i).type # "float" /\ \A k \in DOMAIN TableLines(i, "conv") :
       TableLines(i, "conv")[k].pack.type # "float"

\* entries are those of wanted, each under its key, and the old ones.
Gathered(nc, entries, old, wanted, keys) ==
  LET last(key) == wanted[Max({k \in DOMAIN wanted : keys[k] = key})]
  IN  /\ {e.key : e \in entries} = ToSet(keys) \cup {e.key : e \in old}
      /\ \A e \in entries :
           IF e.key \in ToSet(keys) THEN Keeps(nc, e, last(e.key)) ELSE e \in old

FileRight(i, nc, wanted) ==
  IF Earlier(i) = None
  THEN IF wanted = <<>> THEN nc = job.nc
       ELSE Gathered(nc, EntriesOf(nc), {}, wanted, [k \in DOMAIN wanted |-> Key(i, wanted[k])])
  ELSE Gathered(nc, EntriesOf(nc), EntriesOf(Earlier(i)), wanted,
                [k \in DOMAIN wanted |-> Key(i, wanted[k])])

\* No layer comes under a table that gives a type of level, which would be put on the axis
\* whatever its type (Netcdf.c:568), and no level of another type than the axis has, which
\* is not looked at (2105).
OneSort(i) ==
  \A r \in ToSet(SelectSeq(Fed(i), LAMBDA x : NotIgnored(i, x))) :
    /\ r[4].lev.type2 # 255 => TableLines(i, "lev_type") = <<>>
    /\ AxisCandidate(i, r) => r[4].lev.type = AxisType(i)

\* -netcdf: each record that belongs into the file is found under its name, time and
\* level, a later one in the place of an earlier one, with its values at their places on
\* the earth, as closely as the packing of the variable allows; what was in the file
\* before -append and is not given anew is still there; and there is nothing else.
NetcdfRight ==
  phase = "done" =>
    \A i \in Having({"netcdf"}) :
      Having({"netcdf"}) = {i} /\ RangesKnown(i) /\ OneSort(i) => FileRight(i, files["nc"][1], Wanted(i))

AxesRight(i, nc, wanted) ==
  LET levels == SelectSeq(nc.lev.vals, LAMBDA v : v # None)
  IN  /\ \A k \in 1 .. Len(nc.times) - 1 :
           /\ nc.times[k] < nc.times[k + 1]
           /\ nc.user \/ nc.step > 0 => nc.times[k + 1] - nc.times[k] = nc.step
      /\ nc.lev # None =>
           /\ levels = SubSeq(nc.lev.vals, 1, Len(levels))
           /\ \/ TableLines(i, "levs") # <<>>
              \/ \A k \in 1 .. Len(levels) - 1 : levels[k] < levels[k + 1]
              \/ \A k \in 1 .. Len(levels) - 1 : levels[k] > levels[k + 1]
      /\ nc.reftype \in {1, 3} => \A r \in wanted : r[1].ref = nc.ref
      /\ nc.reftype \in {1, 2} => \A r \in wanted : r[1].ref = verftime(r)

\* What the axes of the file say is so: times increase, by the step when there is one;
\* levels come first and, but for those of a table, in one direction; and the reference time is that
\* of all records, or of none but analyses, as its kind tells (Netcdf.c:1706).
NetcdfAxes ==
  phase = "done" =>
    \A i \in Having({"netcdf"}) :
      Having({"netcdf"}) = {i} /\ files["nc"][1] # None =>
        AxesRight(i, files["nc"][1], ToSet(Wanted(i)))
=============================================================================

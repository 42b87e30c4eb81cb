------------------------------- MODULE Netcdf -------------------------------
(* -netcdf and the options that set it up: the records are written to a    *)
(* netCDF file with a time axis that grows, an axis of levels of one type  *)
(* for the variables that have them (4D) and the others without (3D), and  *)
(* to a file that is there already after -append (Netcdf.c,                *)
(* Netcdf_sup.c).                                                          *)
(*                                                                         *)
(* A file is [gt, ll, nx, ny, lat, lon, times, step, user, ref, reftype,   *)
(* lev, vars]: ll is the number of dimensions of lat and lon, step is 0    *)
(* for unknown and -1 for variable, lev is None or [type, vals], vars maps *)
(* names to [pack, nd, cells], cells maps <<time, level>>, counted from 0, *)
(* to fields; what is not there is _FillValue.  Section 4 has the level    *)
(* [type, val, type2], levels are whole numbers in the units of the file.  *)
(* The formats of netCDF 4, its compression and texts are left out.        *)
EXTENDS GridPoints, TimeSeries, SequencesExt

G2NC_MAX_NLEV == 1000
G2NC_MAX_VARS == 1000
G2NC_TM_IND_GAP == 50

Magnitude(n) == IF n < 0 THEN -n ELSE n

\* The C conversion of a quotient to an integer.
Trunc(a, b) ==
  IF (a >= 0) = (b > 0) THEN Magnitude(a) \div Magnitude(b)
  ELSE -(Magnitude(a) \div Magnitude(b))

\* The step a time is at; 1/10, the tolerance of the times, is added to the quotient.
TimeIndex(since, step) == Trunc(10 * since + step, 10 * step)

Aligned(since, step) == TimeIndex(since, step) * step = since

----------------------------------------------------------------------------
(* Setting up.  nc is what the options so far have set.                    *)

NoPack == [type |-> "none", low |-> 0, high |-> 0]

NoSettings ==
  [grads |-> FALSE, pack |-> NoPack, nlev |-> 0, table |-> None, used |-> FALSE,
   date0 |-> 0, date0_type |-> 0, dt |-> 0]

\* A range of valid values must not be empty; that of packed ones may be, it is then found
\* from the data.
BadPack(p) == p.type = "float" /\ p.low = p.high

\* The lines of a table: [dir |-> "nlev", n], [dir |-> "grads", n], [dir |-> "lev_type",
\* type, per], [dir |-> "levs", vals] and the conversions [dir |-> "conv", par, level, to,
\* pack], level being None for any.
NoTable == [ok |-> TRUE, nlev |-> -1, grads |-> -1, lt |-> None, lv |-> None, vc |-> <<>>]

NlevLine(d, t) ==
  [t EXCEPT !.ok = d.n \in 0 .. G2NC_MAX_NLEV /\ t.nlev < 0, !.nlev = d.n]

GradsLine(d, t) == [t EXCEPT !.ok = d.n \in 0 .. 1 /\ t.grads < 0, !.grads = d.n]

LevTypeLine(d, t) == [t EXCEPT !.ok = t.lt = None, !.lt = [type |-> d.type, per |-> d.per]]

\* As many levels as were announced before.
LevsLine(d, t) ==
  IF t.lv # None \/ t.nlev <= 0 \/ Len(d.vals) < t.nlev THEN [t EXCEPT !.ok = FALSE]
  ELSE [t EXCEPT !.lv = SubSeq(d.vals, 1, t.nlev)]

ConvLine(d, t) ==
  [t EXCEPT !.ok = Len(t.vc) <= G2NC_MAX_VARS /\ ~BadPack(d.pack), !.vc = Append(@, d)]

TableLine(t, d) ==
  IF ~t.ok THEN t
  ELSE CASE d.dir = "nlev"     -> NlevLine(d, t)
         [] d.dir = "grads"    -> GradsLine(d, t)
         [] d.dir = "lev_type" -> LevTypeLine(d, t)
         [] d.dir = "levs"     -> LevsLine(d, t)
         [] d.dir = "conv"     -> ConvLine(d, t)
         [] d.dir = "unknown"  -> [t EXCEPT !.ok = FALSE]

f_nc_table(lines) == FoldLeft(TableLine, NoTable, lines)

\* -nc_time forgets what an earlier one has set.
f_nc_time(o, nc) ==
  [nc EXCEPT !.date0 = IF o.date0_type = 0 THEN 0 ELSE o.date0,
             !.date0_type = o.date0_type, !.dt = o.dt]

f_no_nc_time(nc) == [nc EXCEPT !.date0 = 0, !.date0_type = 0, !.dt = 0]

NcSetup ==
  {"nc_grads", "no_nc_grads", "nc_pack", "no_nc_pack", "nc_nlev", "nc_table", "no_nc_table",
   "nc_time", "no_nc_time"}

\* What an option that sets up the next -netcdf changes; -netcdf uses the table.
NcSet(o, nc) ==
  CASE o.kind = "nc_grads"    -> [nc EXCEPT !.grads = TRUE]
    [] o.kind = "no_nc_grads" -> [nc EXCEPT !.grads = FALSE]
    [] o.kind = "nc_pack"     -> [nc EXCEPT !.pack = o.pack]
    [] o.kind = "no_nc_pack"  -> [nc EXCEPT !.pack = NoPack]
    [] o.kind = "nc_nlev"     -> [nc EXCEPT !.nlev = o.n]
    [] o.kind = "nc_table"    -> [nc EXCEPT !.table = f_nc_table(o.lines), !.used = FALSE]
    [] o.kind = "no_nc_table" -> [nc EXCEPT !.table = None]
    [] o.kind = "nc_time"     -> f_nc_time(o, nc)
    [] o.kind = "no_nc_time"  -> f_no_nc_time(nc)
    [] o.kind = "netcdf"      -> [nc EXCEPT !.used = TRUE]

\* The options the program stops at: a table that was not used is not replaced.
BadNcSetup(o, nc) ==
  \/ o.kind = "nc_pack" /\ BadPack(o.pack)
  \/ o.kind = "nc_nlev" /\ o.n > G2NC_MAX_NLEV
  \/ o.kind \in {"nc_table", "no_nc_table"} /\ nc.table # None /\ ~nc.used
  \/ o.kind = "nc_table" /\ ~f_nc_table(o.lines).ok
  \/ o.kind = "nc_time" /\ o.date0_type < 0 /\ o.dt = 0

----------------------------------------------------------------------------
(* Opening.  l is the state of one -netcdf. *)

Upward(s) == IF Len(s) < 2 THEN 0 ELSE IF None \in {s[1], s[2]} THEN 0
             ELSE IF s[2] > s[1] THEN 1 ELSE -1

NcLocal(nc) ==
  [table |-> nc.table, pack |-> nc.pack, step |-> nc.dt, user |-> nc.dt > 0,
   grads |-> IF nc.table # None /\ nc.table.grads >= 0 THEN nc.table.grads = 1 ELSE nc.grads,
   nlev |-> IF nc.table # None /\ nc.table.nlev >= 0 THEN nc.table.nlev ELSE nc.nlev,
   date0 |-> nc.date0, date0_type |-> nc.date0_type,
   lev_ind |-> -1, lev_step |-> 0, time_ind |-> -1, verf |-> 0,
   initialized |-> FALSE, nid |-> 0, nc |-> None]

\* Levels of a table for GrADS are in order.
BadLevels(l) ==
  /\ l.grads /\ l.table # None
  /\ l.table.lv # None /\ l.table.nlev > 2
  /\ \E i \in 3 .. l.table.nlev :
       (l.table.lv[i] - l.table.lv[i - 1]) * (l.table.lv[2] - l.table.lv[1]) <= 0

\* A step of the user against that of the file, which only counts with two times when the
\* program found it.
StepConflict(l, nc) == l.user /\ l.step # nc.step /\ (nc.user \/ Len(nc.times) > 1)

\* A first time of the user is that of the file, an aligned one is whole steps from it.
DateConflict(l, nc, step) ==
  \/ l.date0_type > 0 /\ l.date0 # nc.times[1]
  \/ l.date0_type < 0 /\ ~Aligned(l.date0 - nc.times[1], step)

LevConflict(l, nc) ==
  l.nlev > 0 /\ IF nc.lev = None THEN TRUE ELSE Len(nc.lev.vals) < l.nlev

\* The last level that is defined, counted from 0.
LastLevel(vals) ==
  LET gaps == {i \in DOMAIN vals : vals[i] = None}
  IN  IF gaps = {} THEN Len(vals) - 1 ELSE (CHOOSE i \in gaps : \A k \in gaps : i <= k) - 2

\* The state for a file that is there, None when the program stops.
get_nc_dims(l, nc) ==
  LET fixed == l.user /\ ~nc.user
      step == IF fixed THEN l.step ELSE nc.step
      vals == nc.lev.vals
  IN  IF StepConflict(l, nc) \/ DateConflict(l, nc, step) \/ LevConflict(l, nc) THEN None
      ELSE [l EXCEPT !.nc = IF fixed THEN [nc EXCEPT !.step = step, !.user = TRUE] ELSE nc,
                     !.step = step, !.user = @ \/ nc.user,
                     !.date0 = nc.times[1],
                     !.time_ind = Len(nc.times) - 1, !.verf = nc.times[Len(nc.times)],
                     !.nlev = IF @ > 0 THEN Len(vals) ELSE @,
                     !.lev_ind = IF l.nlev > 0 THEN LastLevel(vals) ELSE -1,
                     !.lev_step = IF l.nlev > 0 THEN Upward(vals) ELSE 0,
                     !.initialized = TRUE]

\* -netcdf when it is set up: there is what the file holds, None for no file.
open_netcdf(nc, append, there) ==
  LET l == NcLocal(nc)
  IN  IF BadLevels(l) THEN None
      ELSE IF append /\ there # None THEN get_nc_dims(l, there) ELSE l

----------------------------------------------------------------------------
(* What a record is to the file. *)

LatLonDims(gdt) == IF gdt \in {0, 10, 40} THEN 1 ELSE 2

\* The level, None when there is no text for it.
Surface(c) == IF "lev" \in DOMAIN c[4] THEN c[4].lev ELSE None

\* The conversion for a parameter at a level, the first one.
get_nc_conv_table(l, par, level) ==
  IF l.table = None THEN None
  ELSE LET same == {i \in DOMAIN l.table.vc :
                      l.table.vc[i].par = par /\ l.table.vc[i].level = level}
       IN  IF same = {} THEN None ELSE l.table.vc[CHOOSE i \in same : \A k \in same : i <= k]

WrongGrid(l, c, change_no) ==
  \/ l.initialized /\ l.nid > 0 /\ change_no # 1
  \/ l.initialized /\ l.nc.gt # c[3].gdt
  \/ l.grads /\ LatLonDims(c[3].gdt) > 1

AtLevel(l, c) == get_nc_conv_table(l, c[4].par, Surface(c))
AtAny(l, c) == get_nc_conv_table(l, c[4].par, None)

Ignore(conv) == conv # None /\ conv.to = "ignore"
Ignored(l, c) == IF AtLevel(l, c) # None THEN Ignore(AtLevel(l, c)) ELSE Ignore(AtAny(l, c))

Early(l, verf) == verf < l.date0 /\ (l.date0_type > 0 \/ l.initialized)

\* The steps count from a date of the user or from the first time.
Stepped(l) == l.user /\ (l.date0_type # 0 \/ l.initialized)
Misaligned(l, verf) == Stepped(l) /\ ~Aligned(verf - l.date0, l.step)

TooFar(l, verf) ==
  LET ind == TimeIndex(verf - l.date0, l.step)
  IN  /\ Stepped(l)
      /\ \/ l.initialized /\ Magnitude(l.time_ind - ind) > G2NC_TM_IND_GAP
         \/ ~l.initialized /\ l.date0_type > 0 /\ ind > G2NC_TM_IND_GAP

OtherSize(l, gds) == l.initialized /\ (gds.nx # l.nc.nx \/ gds.ny # l.nc.ny)

\* The types of levels a variable may have an axis of: the units of the record in one of
\* the file.
nc_4Dlt == [type \in {20, 100, 104, 105, 107, 160} |-> IF type = 100 THEN 100 ELSE 1]

\* The type the variable has an axis of, None for a 3D one.  A type of the table counts
\* for a layer whatever its surfaces are.
LevelType(l, c) ==
  LET lev == Surface(c)
      of == IF l.table = None THEN None ELSE l.table.lt
  IN  IF l.nlev = 0 \/ AtLevel(l, c) # None THEN None
      ELSE IF lev.type2 # 255 THEN of
      ELSE IF of # None THEN IF of.type = lev.type THEN of ELSE None
      ELSE IF lev.type \in DOMAIN nc_4Dlt THEN [type |-> lev.type, per |-> nc_4Dlt[lev.type]]
      ELSE None

\* A layer's value is not scaled.
LevelValue(l, c) ==
  LET lev == Surface(c)
  IN  IF lev.type2 = 255 THEN lev.val \div LevelType(l, c).per ELSE lev.val

\* Equal but for a thousandth.
SameLevel(a, v) == a # None /\ (IF v = 0 THEN a = 0 ELSE Magnitude(a - v) * 1000 < Magnitude(v))

OffLevels(l, c) ==
  /\ LevelType(l, c) # None
  /\ l.table # None
  /\ l.table.lv # None
  /\ \A i \in DOMAIN l.table.lv : ~SameLevel(l.table.lv[i], LevelValue(l, c))

Conversion(l, c) ==
  IF AtLevel(l, c) # None \/ LevelType(l, c) = None THEN AtLevel(l, c) ELSE AtAny(l, c)

\* The name of the variable, that of a 3D one with its level.
VarName(l, c) ==
  IF Conversion(l, c) # None THEN <<Conversion(l, c).to>>
  ELSE IF LevelType(l, c) = None THEN <<c[4].par, Surface(c)>> ELSE <<c[4].par>>

----------------------------------------------------------------------------
(* The axes. *)

\* Longitudes go on from the first one by the first step.
Axes(gds, pts) ==
  LET west == IF pts[1].lon >= 180 THEN pts[1].lon - 360 ELSE pts[1].lon
      dx == (pts[2].lon - pts[1].lon) + (IF pts[2].lon > pts[1].lon THEN 0 ELSE 360)
  IN  IF LatLonDims(gds.gdt) = 1
      THEN [lat |-> [k \in 1 .. gds.ny |-> pts[(k - 1) * gds.nx + 1].lat],
            lon |-> [i \in 1 .. gds.nx |-> west + (i - 1) * dx]]
      ELSE [lat |-> [p \in DOMAIN pts |-> pts[p].lat], lon |-> [p \in DOMAIN pts |-> pts[p].lon]]

\* The levels of a new file: those of the table, or none yet.
LevelAxis(l, c) ==
  LET of == IF l.table # None /\ l.table.lt # None THEN l.table.lt ELSE LevelType(l, c)
      given == IF l.table = None THEN None ELSE l.table.lv
  IN  IF l.nlev = 0 THEN None
      ELSE [type |-> IF of = None THEN -1 ELSE of.type,
            vals |-> IF given = None THEN [i \in 1 .. l.nlev |-> None] ELSE given]

\* The dimensions of a new file whose last time has the index ind.
create_nc_dims(l, c, pts, ind) ==
  LET verf == verftime(c)
      ref == c[1].ref
      axes == Axes(c[3], pts)
  IN  [gt |-> c[3].gdt, ll |-> LatLonDims(c[3].gdt), nx |-> c[3].nx, ny |-> c[3].ny,
       lat |-> axes.lat, lon |-> axes.lon,
       times |-> [i \in 1 .. ind + 1 |-> l.date0 + (i - 1) * l.step],
       step |-> l.step, user |-> l.user,
       ref |-> ref, reftype |-> IF ref = verf THEN 1 ELSE 3,
       lev |-> LevelAxis(l, c), vars |-> <<>>]

\* The first record makes the file.  With a first date of the user and no step the first
\* record gives the step, and the program stops when it is at that date.
NewFile(l, c, pts) ==
  LET verf == verftime(c)
      found == l.date0_type > 0 /\ ~l.user
      dated == [l EXCEPT !.date0 = IF l.date0_type <= 0 THEN verf ELSE @,
                         !.step = IF found THEN verf - l.date0 ELSE @]
      ind == IF l.date0_type <= 0 THEN 0
             ELSE IF l.user THEN TimeIndex(verf - l.date0, l.step) ELSE 1
      nc == create_nc_dims(dated, c, pts, ind)
      full == nc.lev # None /\ l.table # None /\ l.table.lv # None
  IN  IF pts = None THEN None
      ELSE IF found /\ verf = l.date0 THEN None
      ELSE [dated EXCEPT !.nc = nc, !.initialized = TRUE, !.time_ind = ind, !.verf = verf,
                         !.lev_ind = IF full THEN l.nlev - 1 ELSE -1,
                         !.lev_step = IF full THEN Upward(nc.lev.vals) ELSE 0]

\* Mutant: an earlier time is taken for the last one.
TimeIndLast(l, verf) ==
  LET times == l.nc.times
      ind == TimeIndex(verf - l.date0, l.step)
  IN  IF verf = l.verf THEN [ind |-> l.time_ind, times |-> times, step |-> l.step]
      ELSE IF l.user
      THEN [ind |-> ind, step |-> l.step,
            times |-> [i \in 1 .. IF ind + 1 > Len(times) THEN ind + 1 ELSE Len(times) |->
                        IF i < Len(times) THEN times[i] ELSE l.date0 + (i - 1) * l.step]]
      ELSE IF verf > times[Len(times)]
      THEN [ind |-> Len(times), step |-> verf - times[Len(times)], times |-> Append(times, verf)]
      ELSE [ind |-> Len(times) - 1, step |-> l.step, times |-> times]

\* The index of a time, and the times with it: a fixed step extends them up to it, without
\* one a later time is added and an earlier one has to be there; -1 when it is not.
get_nc_time_ind(l, verf) ==
  LET times == l.nc.times
      last == Len(times)
      ind == TimeIndex(verf - l.date0, l.step)
      there == {i \in DOMAIN times : times[i] = verf}
  IN  IF verf = l.verf THEN [ind |-> l.time_ind, times |-> times, step |-> l.step]
      ELSE IF l.user
      THEN [ind |-> ind, step |-> l.step,
            times |-> times \o [i \in 1 .. ind + 1 - last |-> l.date0 + (last + i - 1) * l.step]]
      ELSE IF verf > times[last]
      THEN [ind |-> last, step |-> verf - times[last], times |-> Append(times, verf)]
      ELSE [ind |-> IF there = {} THEN -1 ELSE (CHOOSE i \in there : TRUE) - 1,
            step |-> l.step, times |-> times]

\* Mutant: a forecast after an analysis is taken for one of the same reference time.
RefTypeKept(nc, ref, verf) ==
  CASE nc.reftype = 1 -> IF ref = verf THEN (IF ref # nc.ref THEN 2 ELSE 1) ELSE 3
    [] nc.reftype = 2 -> IF ref = verf THEN 2 ELSE 0
    [] nc.reftype = 3 -> IF ref = nc.ref THEN 3 ELSE 0
    [] nc.reftype = 0 -> 0

\* The kind of reference times, 1: analyses of one time, 2: analyses, 3: one reference
\* time, 0: any.
NextRefType(nc, ref, verf) ==
  CASE nc.reftype = 1 -> IF ref # nc.ref THEN (IF ref = verf THEN 2 ELSE 0)
                         ELSE IF ref = verf THEN 1 ELSE 3
    [] nc.reftype = 2 -> IF ref = verf THEN 2 ELSE 0
    [] nc.reftype = 3 -> IF ref = nc.ref THEN 3 ELSE 0
    [] nc.reftype = 0 -> 0

\* The attributes of the time axis; the reference time changes with its kind only.
update_nc_ref_time(nc, ref, verf, user, step) ==
  LET reftype == NextRefType(nc, ref, verf)
      auto == ~user /\ step > 0
  IN  [nc EXCEPT !.reftype = reftype,
                 !.ref = IF reftype # nc.reftype /\ ref < @ THEN ref ELSE @,
                 !.step = IF auto /\ @ = 0 THEN step
                          ELSE IF auto /\ @ > 0 /\ @ # step THEN -1 ELSE @]

\* Longitudes are the same when they differ by whole turns.
SamePlaces(nc, gds, pts) ==
  /\ nc.lat = Axes(gds, pts).lat
  /\ \A i \in DOMAIN nc.lon : (nc.lon[i] - pts[i].lon) % 360 = 0

\* A record in a file that is there.  GrADS needs one step.
NextRecord(l, c, pts) ==
  LET verf == verftime(c)
      t == get_nc_time_ind(l, verf)
      nc == update_nc_ref_time([l.nc EXCEPT !.times = t.times], c[1].ref, verf, l.user, t.step)
  IN  IF pts = None THEN None
      ELSE IF t.ind < 0 THEN None
      ELSE IF l.grads /\ t.step > 0 /\ l.step > 0 /\ l.step # t.step THEN None
      ELSE IF ~SamePlaces(nc, c[3], pts) THEN None
      ELSE [l EXCEPT !.nc = nc, !.time_ind = t.ind, !.verf = verf,
                     !.step = IF l.grads /\ t.step > 0 THEN t.step ELSE @]

\* The level is on the axis or comes next on it, in the same direction; the axis gets its
\* type from the first one.
NewLevel(l, v) ==
  LET vals == l.nc.lev.vals
      way == IF l.lev_ind < 0 THEN 0
             ELSE IF l.lev_step # 0 THEN l.lev_step
             ELSE IF v > vals[l.lev_ind + 1] THEN 1 ELSE -1
  IN  IF l.lev_ind >= l.nlev - 1 THEN None
      ELSE IF l.lev_ind >= 0 /\ way * (v - vals[l.lev_ind + 1]) < 0 THEN None
      ELSE [l EXCEPT !.lev_ind = @ + 1, !.lev_step = way, !.nc.lev.vals[l.lev_ind + 2] = v]

update_nc_lev(l, type, v) ==
  LET typed == IF l.nc.lev.type < 0 THEN [l EXCEPT !.nc.lev.type = type] ELSE l
  IN  IF \E i \in DOMAIN l.nc.lev.vals : SameLevel(l.nc.lev.vals[i], v)
      THEN [typed EXCEPT !.lev_step = IF @ = 0 THEN Upward(l.nc.lev.vals) ELSE @]
      ELSE NewLevel(typed, v)

LevelInd(nc, v) ==
  (CHOOSE i \in DOMAIN nc.lev.vals :
     SameLevel(nc.lev.vals[i], v) /\ \A k \in 1 .. i - 1 : ~SameLevel(nc.lev.vals[k], v)) - 1

----------------------------------------------------------------------------
(* The values.  A packing of a variable is [type, low, high] for "none"    *)
(* and "float", [type, mid, width] for "byte" and "short": twice the       *)
(* middle and ten times the width of the range that is packed.             *)

Packed(type) == type \in {"byte", "short"}
Half(type) == IF type = "byte" THEN 125 ELSE 32765

\* The range of the data, 0 without any, and a fifth more.
AutoPack(type, data) ==
  LET vals == {data[p] : p \in {q \in DOMAIN data : data[q] # None}}
      least == IF vals = {} THEN 0 ELSE CHOOSE v \in vals : \A w \in vals : v <= w
      most == IF vals = {} THEN 0 ELSE CHOOSE v \in vals : \A w \in vals : v >= w
  IN  [type |-> type, mid |-> least + most, width |-> 12 * (most - least)]

NewPack(p, data) ==
  IF ~Packed(p.type) THEN p
  ELSE IF p.low = p.high THEN AutoPack(p.type, data)
  ELSE [type |-> p.type, mid |-> p.low + p.high, width |-> 10 * (p.high - p.low)]

\* What is stored for a value, None for the fill value.
Stored(p, v) ==
  IF v = None THEN None
  ELSE IF p.type = "none" THEN v
  ELSE IF p.type = "float" THEN IF v < p.low \/ v > p.high THEN None ELSE v
  ELSE IF Magnitude(2 * v - p.mid) * 10 > p.width THEN None
  ELSE Trunc((2 * v - p.mid) * 10 * Half(p.type), p.width)

\* The packing asked for: of the conversion, else of -nc_pack.
AskedPack(conv, pack) == IF conv # None THEN conv.pack ELSE pack

\* The packing of a variable that is there; a range asked for where the file has none is
\* checked with limits that were never set.
OldPack(var, asked, unset) ==
  IF var.pack.type = "none" /\ asked.type = "float"
  THEN [type |-> "float", low |-> unset, high |-> unset] ELSE var.pack

FloatType(type) == ~Packed(type)

\* now is the -nc_pack in force at the end of the command line.
OtherVariable(var, asked, nd) ==
  \/ asked.type # "none" /\ var.pack.type # asked.type
       /\ ~(FloatType(var.pack.type) /\ FloatType(asked.type))
  \/ var.nd # nd

\* The field goes to its time and level.
Put(l, name, nd, file_pack, pack, cell, data) ==
  LET old == IF name \in DOMAIN l.nc.vars THEN l.nc.vars[name].cells ELSE <<>>
      field == [p \in DOMAIN data |-> Stored(pack, data[p])]
      var == [pack |-> file_pack, nd |-> nd,
              cells |-> [k \in DOMAIN old \cup {cell} |-> IF k = cell THEN field ELSE old[k]]]
  IN  IF (pack.type = "byte" /\ l.grads) \/ (Packed(pack.type) /\ pack.width = 0) THEN None
      ELSE [l EXCEPT !.nid = @ + 1,
                     !.nc.vars = [n \in DOMAIN @ \cup {name} |-> IF n = name THEN var ELSE @[n]]]

Variable(l, c, data, nd, cell, now, unset) ==
  LET name == VarName(l, c)
      conv == Conversion(l, c)
      asked == AskedPack(conv, IF now.type = "none" THEN now ELSE l.pack)
      var == l.nc.vars[name]
      new == NewPack(AskedPack(conv, l.pack), data)
  IN  IF name \notin DOMAIN l.nc.vars THEN Put(l, name, nd, new, new, cell, data)
      ELSE IF OtherVariable(var, asked, nd) THEN None
      ELSE Put(l, name, nd, var.pack, OldPack(var, asked, unset), cell, data)

Levelled(l, c, data, now, unset) ==
  LET of == LevelType(l, c)
      v == LevelValue(l, c)
      on == update_nc_lev(l, of.type, v)
  IN  IF of = None THEN Variable(l, c, data, 3, <<l.time_ind, 0>>, now, unset)
      ELSE IF on = None THEN None
      ELSE Variable(on, c, data, 4, <<l.time_ind, LevelInd(on.nc, v)>>, now, unset)

\* The state of the option after a record, None when the program stops.
f_netcdf(l, c, data, pts, change_no, now, unset) ==
  LET verf == verftime(c)
      timed == IF l.initialized THEN NextRecord(l, c, pts) ELSE NewFile(l, c, pts)
  IN  IF WrongGrid(l, c, change_no) \/ Surface(c) = None THEN None
      ELSE IF Ignored(l, c) THEN l
      ELSE IF Early(l, verf) THEN IF l.date0_type > 0 THEN l ELSE None
      ELSE IF Misaligned(l, verf) THEN l
      ELSE IF TooFar(l, verf) \/ OtherSize(l, c[3]) THEN None
      ELSE IF OffLevels(l, c) THEN l
      ELSE IF timed = None THEN None
      ELSE Levelled(timed, c, data, now, unset)
=============================================================================

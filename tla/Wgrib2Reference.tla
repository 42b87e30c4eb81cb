-------------------------- MODULE Wgrib2Reference --------------------------
(* What the options of a command line promise for the records of the       *)
(* input, stated without the program's loop and its variables, and the     *)
(* properties that compare it with what Wgrib2 does.                       *)
EXTENDS Wgrib2, Folds, FiniteSetsExt

----------------------------------------------------------------------------
(* The records of the input, and which of them an option is called for.    *)

RecordAt(pos, k) ==
  [msg_no |-> pos + 1, submsg |-> k, pos |-> pos, n |-> 0,
   c |-> Contents(job.file[pos + 1], Submessage(job.file[pos + 1], k))]

Concat(seqs) ==
  LET upto[i \in 0 .. Len(seqs)] == IF i = 0 THEN <<>> ELSE upto[i - 1] \o seqs[i]
  IN  upto[Len(seqs)]

AllRecords ==
  Concat([m \in 1 .. Len(job.file) |->
           [k \in 1 .. num_submsgs(job.file[m]) |-> RecordAt(m - 1, k)]])

\* The nth of a set of numbers.
Nth(S, n) == CHOOSE k \in S : Cardinality({m \in S : m <= k}) = n

Having(kinds) == {i \in 1 .. Len(arglist) : arglist[i].kind \in kinds}

\* The records named on the command line, of which the last -i or -d counts.
NamedRecords ==
  IF Having({"i", "d"}) = {} THEN AllRecords
  ELSE LET o == arglist[Max(Having({"i", "d"}))]
       IN  IF o.kind = "i"
           THEN [i \in 1 .. Len(job.lines) |->
                  [RecordAt(job.lines[i].pos, job.lines[i].submsg)
                     EXCEPT !.msg_no = job.lines[i].msg_no]]
           ELSE <<RecordAt(o.msg - 1, o.submsg)>>

PassesSetup(r) ==
  \A i \in 1 .. Len(arglist) :
    LET o == arglist[i]
    IN  /\ o.kind = "submsg" => r.submsg = o.submsg
        /\ o.kind = "for" => Within(r.msg_no, o.range)
        /\ o.kind \in {"match", "match_fs"} => Matches(o, r.c)
        /\ o.kind \in {"not", "not_fs"} => ~Matches(o, r.c)

\* The records that match are numbered for -for_n and -if_n.
Number(passing) == [i \in 1 .. Len(passing) |-> [passing[i] EXCEPT !.n = i]]

Holds(o, r) ==
  CASE o.kind \in {"if", "if_fs"}         -> Matches(o, r.c)
    [] o.kind \in {"not_if", "not_if_fs"} -> ~Matches(o, r.c)
    [] o.kind = "if_n"   -> Within(r.n, o.range)
    [] o.kind = "if_rec" -> Within(r.msg_no, o.range)

Conditional == {"if", "not_if", "if_fs", "not_if_fs", "if_n", "if_rec"}

\* An option is called when all conditions since the last output option hold.
CalledFor(i, r) ==
  \A k \in Having(Conditional) :
    k < i /\ (\A m \in k + 1 .. i - 1 : arglist[m].kind \notin Output) => Holds(arglist[k], r)

Decoding ==
  Having(Rewriting \cup Cutting \cup Listing \cup Unordered \cup AtPlace \cup Rasters \cup Calculations
           \cup {"bin", "netcdf"}) # {}

\* The records up to the first for which -end is called or a -limit is reached.
UpToStop(records) ==
  LET Times(i, m) == Cardinality({k \in 1 .. m : CalledFor(i, records[k])})
      Stops(m) == \/ \E i \in Having({"end"}) : CalledFor(i, records[m])
                  \/ Decoding /\ \E i \in Having({"limit"}) : Times(i, m) = arglist[i].n
      stops == {m \in 1 .. Len(records) : Stops(m)}
  IN  IF stops = {} THEN records ELSE SubSeq(records, 1, Min(stops))

Selection ==
  UpToStop(SelectSeq(Number(SelectSeq(NamedRecords, PassesSetup)),
                     LAMBDA r : \A i \in Having({"for_n"}) : Within(r.n, arglist[i].range)))

\* The sections of the records option i is called for.
Fed(i) ==
  LET Sections(called) == [k \in 1 .. Len(called) |-> called[k].c]
  IN  Sections(SelectSeq(Selection, LAMBDA r : CalledFor(i, r)))

----------------------------------------------------------------------------
(* The promises of the options that write each record by itself. *)

Alone == {"grib", "GRIB", "bin", "grib_out"}

Whole(r) == job.file[r.pos + 1]

\* The position in the file of column i and row j0 from the south west, by the flags of
\* code table 3.4: 128 from the east, 64 from the south, 32 columns first, 16 every other
\* row the other way.
FilePoint(c0, i, j0) ==
  LET gds == c0[3]
      flags == {f \in {128, 64, 32, 16} : (gds.scan \div f) % 2 = 1}
      row == IF 64 \in flags THEN j0 ELSE gds.ny - 1 - j0
      eastward == (128 \notin flags) = (16 \notin flags \/ row % 2 = 0)
      column == IF eastward THEN i ELSE gds.nx - 1 - i
  IN  IF 32 \in flags THEN column * gds.ny + row + 1 ELSE row * gds.nx + column + 1

\* The values in the order of the user, the column and the row of each being counted
\* from the south west.
InOrder(c0) ==
  LET nx == c0[3].nx
      row(p) == IF sw.order = "we:ns" THEN c0[3].ny - 1 - (p - 1) \div nx ELSE (p - 1) \div nx
  IN  [p \in 1 .. npnts(c0) |->
        unpk_grib(c0)[IF sw.order = "raw" THEN p ELSE FilePoint(c0, (p - 1) % nx, row(p))]]

\* The sections when option i is called: -set_date before it has moved the record, its
\* reference time and the end of its time ranges.
Dated(i, r) ==
  LET moved == {k \in Having({"set_date"}) : k < i /\ CalledFor(k, r)}
      Shift(by) == [r.c EXCEPT ![1].ref = @ + by,
                               ![4].end = IF Statistical(r.c[4]) THEN @ + by ELSE @]
  IN  Shift(MapThenSumSet(LAMBDA k : arglist[k].shift, moved))

\* What an option of the kind writes for a record with the sections c0.
Promised(kind, c0, r) ==
  CASE kind = "grib"     -> wrt_sec(c0)
    [] kind = "GRIB"     -> Whole(r)
    [] kind = "bin"      -> InOrder(c0)
    [] kind = "text"     -> [nx |-> c0[3].nx, ny |-> c0[3].ny, vals |-> InOrder(c0)]
    [] kind = "grib_out" -> grib_wrt(c0, c0[4], unpk_grib(c0))

Writers(f) == {i \in Having(Output \ {"fi"}) : arglist[i].file = f}

\* A file keeps what it had when -append comes before the first option that opens it.
Before(f) ==
  IF \E a \in Having({"append"}) : \A i \in Writers(f) : a < i THEN <<None>> ELSE <<>>

PromisedFile(f, selection) ==
  LET Of(r) == Concat([i \in 1 .. Len(arglist) |->
                 IF i \in Writers(f) /\ CalledFor(i, r) THEN <<Promised(arglist[i].kind, Dated(i, r), r)>>
                 ELSE <<>>])
  IN  Before(f) \o Concat([m \in 1 .. Len(selection) |-> Of(selection[m])])

FilesOf(kinds) ==
  {f \in FileNames : Writers(f) # {} /\ \A i \in Writers(f) : arglist[i].kind \in kinds}

\* No date is moved in a buffer that is read again for another record.
DatesApart == Having({"set_date"}) = {} \/ \A m \in 1 .. Len(job.file) : num_submsgs(job.file[m]) = 1

\* -match, -not, -for, -for_n, -submsg, -if and its like, -limit and -end, -i and -d
\* together let through the records the command line asks for, in order and each once:
\* the inventory lists them and the files hold them, with their dates moved by -set_date.
Selected ==
  LET Lines(selection) ==
        [m \in 1 .. Len(selection) |->
          [line |-> <<selection[m].msg_no, selection[m].submsg, selection[m].pos>>,
           n |-> selection[m].n]]
  IN  phase = "done" /\ DatesApart =>
        /\ SelectSeq(inventory, LAMBDA e : "line" \in DOMAIN e) = Lines(Selection)
        /\ \A f \in FilesOf({"grib", "GRIB"}) : files[f] = PromisedFile(f, Selection)

(* The promises of the options for places, in the order west to east, south to north.   *)

Difference(lon1, lon2) ==
  LET d == (lon1 - lon2) % 360 IN IF d > 180 THEN 360 - d ELSE d

Size(n) == IF n < 0 THEN -n ELSE n

\* How far point p is from a place, in half distances of the grid.
Steps(gds, pts, p, at) ==
  IF gds.gdt = 0
  THEN [x |-> [by |-> 2 * Difference(pts[p].lon, at.lon), of |-> gds.dlon],
        y |-> [by |-> 2 * Size(pts[p].lat - at.lat), of |-> gds.dlat]]
  ELSE LET a == Forward(gds, pts[p])
           b == Forward(gds, at)
       IN  [x |-> [by |-> 2 * Size(a.x - b.x), of |-> a.per],
            y |-> [by |-> 2 * Size(a.y - b.y), of |-> a.per]]

InCell(d) == d.x.by <= d.x.of /\ d.y.by <= d.y.of
InsideCell(d) == d.x.by < d.x.of /\ d.y.by < d.y.of

\* The number of the point nearest to a place, 0 if there is none, either one on the border
\* of two cells.  By distance the nearest is one of those that are as near.
IsNearest(gds, pts, at, p) ==
  IF gds.gdt = 0 \/ (sw.use_gctpc /\ gds.gdt \in {10, 20, 30})
  THEN IF p = 0 THEN \A q \in DOMAIN pts : ~InsideCell(Steps(gds, pts, q, at))
       ELSE InCell(Steps(gds, pts, p, at))
  ELSE p # 0 /\ \A q \in DOMAIN pts : Apart(pts[p], at) <= Apart(pts[q], at)

\* Two grids the options are wrong for: a latitude and longitude grid with Greenwich
\* between its first two columns, the difference of whose longitudes is taken as it is,
\* and a Mercator grid that does not begin in the south west, as its first point in the
\* file is taken for that of the order west to east, south to north.
AcrossGreenwich(gds) == gds.gdt = 0 /\ get_latlon(gds)[2].lon < get_latlon(gds)[1].lon
FromOtherCorner(gds) == gds.gdt = 10 /\ gds.scan # 64
Locatable(c0) == ~AcrossGreenwich(c0[3]) /\ ~FromOtherCorner(c0[3])

\* The values that may be given for a place.
ValuesAt(c0, at) ==
  LET pts == get_latlon(c0[3])
      right == {p \in 0 .. npnts(c0) : IsNearest(c0[3], pts, at, p)}
  IN  {IF p = 0 THEN None ELSE InOrder(c0)[p] : p \in right}

LineRight(o, c0, line) ==
  LET pts == get_latlon(c0[3])
      p == IF o.kind = "ilat" THEN o.ix ELSE o.ix + (o.iy - 1) * c0[3].nx
  IN  CASE o.kind = "ij" -> line.val = InOrder(c0)[p]
        [] o.kind \in {"ijlat", "ilat"} ->
             line = [lat |-> pts[p].lat, lon |-> pts[p].lon, val |-> InOrder(c0)[p]]
        [] o.kind = "lon" ->
             /\ line.val \in ValuesAt(c0, [lat |-> o.lat, lon |-> o.lon])
             /\ line.lat # None =>
                  \E q \in DOMAIN pts : /\ IsNearest(c0[3], pts, [lat |-> o.lat, lon |-> o.lon], q)
                                        /\ line = [lat |-> pts[q].lat, lon |-> pts[q].lon,
                                                   val |-> InOrder(c0)[q]]

\* Rows [lon, lat, val], as a function of the place.
AtPlaces(rows) ==
  [at \in {<<rows[k].lat, rows[k].lon>> : k \in DOMAIN rows} |->
    rows[CHOOSE k \in DOMAIN rows : <<rows[k].lat, rows[k].lon>> = at].val]

LolaAt(o, k) == [lat |-> o.lat0 + ((k - 1) \div o.nlon) * o.dlat,
                 lon |-> (o.lon0 + ((k - 1) % o.nlon) * o.dlon) % 360]

\* A grid of places: the value at each, with the places themselves where they are written.
LolaRight(o, c0, out) ==
  LET size == o.nlon * o.nlat
      at(k) == <<LolaAt(o, k).lat, LolaAt(o, k).lon>>
      Values(vals) == Len(vals) = size /\ \A k \in 1 .. size : vals[k] \in ValuesAt(c0, LolaAt(o, k))
      read == Contents(out, Submessage(out, 1))
  IN  CASE o.how = "bin"    -> Values(out)
        [] o.how = "text"   -> out.nx = o.nlon /\ out.ny = o.nlat /\ Values(out.vals)
        [] o.how = "spread" ->
             \A k \in 1 .. size :
               (IF at(k) \in DOMAIN AtPlaces(out) THEN AtPlaces(out)[at(k)] ELSE None)
                 \in ValuesAt(c0, LolaAt(o, k))
        [] o.how = "grib"   ->
             /\ Values(unpk_grib(read))
             /\ read[4] = c0[4]
             /\ get_latlon(read[3]) = [k \in 1 .. size |-> LolaAt(o, k)]

\* Columns and rows, the columns going around.
BoxRight(o, c0, out) ==
  LET columns == {i \in o.i1 .. o.i2 : (i - o.i1) % o.di = 0}
      rows == {k \in o.j1 .. o.j2 : (k - o.j1) % o.dj = 0}
      Number4(i, k) == 1 + (i - o.i1) \div o.di + Cardinality(columns) * ((k - o.j1) \div o.dj)
      Column4(i) == IF i < 1 THEN i + c0[3].nx ELSE IF i > c0[3].nx THEN i - c0[3].nx ELSE i
      vals == IF o.how = "text" THEN out.vals ELSE out
      Val(n) == IF o.how = "spread" THEN vals[n].val ELSE vals[n]
  IN  /\ Len(vals) = Cardinality(columns) * Cardinality(rows)
      /\ \A i \in columns, k \in rows :
           /\ Val(Number4(i, k)) = InOrder(c0)[Column4(i) + (k - 1) * c0[3].nx]
           /\ o.how = "spread" => vals[Number4(i, k)].i = Column4(i) /\ vals[Number4(i, k)].j = k

\* Each record has its values at its own points, once each, in a sheet or an irregular grid.
Everywhere(c0) ==
  LET pts == get_latlon(c0[3])
  IN  {[lat |-> pts[p].lat, lon |-> pts[p].lon, val |-> InOrder(c0)[p]] : p \in DOMAIN pts}

Known(s) == SelectSeq(s, LAMBDA c0 : get_latlon(c0[3]) # None)

SheetsRight(s, out) ==
  /\ Len(out) = Len(Known(s))
  /\ \A m \in DOMAIN out :
       LET rows == out[m].rows
       IN  /\ {rows[k] : k \in DOMAIN rows} = {e \in Everywhere(Known(s)[m]) : e.val # None}
           /\ out[m].title[1] = Known(s)[m][4].par

\* The lines of the records one after the other.
LinesRight(s, out) ==
  LET Lines(c0) == {e \in Everywhere(c0) : e.val # None}
      before[m \in 0 .. Len(Known(s))] ==
        IF m = 0 THEN 0 ELSE before[m - 1] + Cardinality(Lines(Known(s)[m]))
  IN  /\ Len(out) = before[Len(Known(s))]
      /\ \A m \in DOMAIN Known(s) :
           {[out[k].row EXCEPT !.lon = @ % 360] : k \in before[m - 1] + 1 .. before[m]}
             = Lines(Known(s)[m])

IrregularRight(o, s, out) ==
  LET kept == SelectSeq(s, LAMBDA c0 : o.all \/ \E p \in 1 .. npnts(c0) : unpk_grib(c0)[p] # None)
      back == [m \in DOMAIN out |-> Contents(out[m], Submessage(out[m], 1))]
  IN  /\ Len(out) = Len(kept)
      /\ \A m \in DOMAIN out :
           LET pts == get_latlon(back[m][3])
           IN  {[lat |-> pts[p].lat, lon |-> pts[p].lon, val |-> unpk_grib(back[m])[p]] : p \in DOMAIN pts}
                 = {e \in Everywhere(kept[m]) : o.all \/ e.val # None}

\* The rasters are those of the last record of each name, with the northern row first.
RastersRight(o, s, out) ==
  LET maps == SelectSeq(s, LAMBDA c0 : c0[3].gdt = 0)
      last == {m \in DOMAIN maps : \A k \in m + 1 .. Len(maps) :
                                     RasterName(o.kind, maps[k]) # RasterName(o.kind, maps[m])}
      FromNorth(c0) == [p \in 1 .. npnts(c0) |->
                         unpk_grib(c0)[FilePoint(c0, (p - 1) % c0[3].nx,
                                                 c0[3].ny - 1 - (p - 1) \div c0[3].nx)]]
  IN  /\ Len(out) = Cardinality(last)
      /\ \A m \in last : \E k \in DOMAIN out :
           /\ out[k].name = RasterName(o.kind, maps[m])
           /\ out[k].vals = FromNorth(maps[m])
           /\ ~AcrossGreenwich(maps[m][3]) => out[k].dx = maps[m][3].dlon
           /\ out[k].dy = maps[m][3].dlat

\* As many values of each record as asked for.
NumberedRight(o, s, out) ==
  /\ Len(out) = Len(s)
  /\ \A m \in DOMAIN s :
       LET back == Contents(out[m], Submessage(out[m], 1))
       IN  /\ back[4] = s[m][4] /\ back[3].no = o.no
           /\ unpk_grib(back) =
                [k \in 1 .. o.n |-> IF k \in DOMAIN InOrder(s[m]) THEN InOrder(s[m])[k] ELSE None]

\* What option i has written for the records s.
PlacesRight(i, s) ==
  LET o == arglist[i]
      lines == SelectSeq(inventory, LAMBDA e : "val" \in DOMAIN e)
      out == files[o.file]
      All(Right(_, _, _), written) ==
        /\ Len(written) = Len(s)
        /\ \A m \in DOMAIN s :
             (o.kind \in AtNearest => Locatable(s[m])) => Right(o, s[m], written[m])
  IN  CASE o.kind \in PlaceLines -> All(LineRight, lines)
        [] o.kind = "lola"       -> All(LolaRight, out)
        [] o.kind = "ijbox"      -> All(BoxRight, out)
        [] o.kind = "spread"     -> SheetsRight(s, out)
        [] o.kind \in {"csv", "csv_long"} -> LinesRight(s, out)
        [] o.kind = "grib_out_irr2" -> NumberedRight(o, s, out)
        [] o.kind = "grib_out_irr" -> IrregularRight(o, s, out)
        [] o.kind \in Rasters    -> RastersRight(o, s, out)

\* The options for places whose output is only theirs.
PlaceOptions ==
  {i \in Having(PlaceLines) : Having(PlaceLines) = {i}}
    \cup {i \in Having(PlacesIn \cup Rasters \cup (Listing \ {"text"}) \cup {"grib_out_irr2"}) : Writers(arglist[i].file) = {i}}

\* The values an option sees are those of the record it is called for, whatever was read,
\* sought or decoded before: bitmaps used again, scanning orders, tables and places kept
\* from other grids, points looked for by their place, points written with theirs.
ValuesCurrent ==
  phase = "done" /\ Having(Calculations) = {} =>
    /\ \A f \in FilesOf({"bin", "text", "grib_out"}) : files[f] = PromisedFile(f, Selection)
    /\ \A i \in PlaceOptions : PlacesRight(i, Fed(i))

----------------------------------------------------------------------------
(* The promises of the statistics. *)

SameButTimes(a, b) ==
  a[1].id = b[1].id /\ a[3] = b[3] /\ NoTime(a[4]) = NoTime(b[4])

Multiple(d, dt) == d > 0 /\ d % dt = 0

\* b may follow a directly in a series.
Follows(o, a, b) ==
  LET ref == b[1].ref - a[1].ref
      verf == verftime(b) - verftime(a)
  IN  /\ SameButTimes(a, b)
      /\ CASE o.kind = "ave0"      -> Multiple(ref, o.dt)
           [] o.kind = "ave_var"   -> Multiple(ref, o.dt)
           [] o.kind = "ave"       -> Multiple(ref, o.dt) /\ verf = ref
           [] o.kind = "fcst_ave0" -> /\ ref = 0
                                      /\ verf = o.dt
                                      /\ b[4].ft - a[4].ft = o.dt
           [] o.kind = "fcst_ave"  -> ref = 0 /\ Multiple(verf, o.dt)

\* The value over the fields at one point, all of them defined.
Statistic(op, vals) ==
  LET n == Len(vals)
      Total(f(_)) == LET upto[k \in 0 .. n] == IF k = 0 THEN 0 ELSE upto[k - 1] + f(vals[k])
                     IN  upto[n]
      Same(x) == x
      Square(x) == x * x
  IN  CASE op = AVE     -> <<Total(Same), n>>
        [] op = RMS     -> <<Total(Square), n>>
        [] op = STD_DEV -> IF n = 1 THEN None
                           ELSE <<n * Total(Square) - Total(Same) * Total(Same), n * (n - 1)>>
        [] op = MAX     -> <<Max({vals[k] : k \in 1 .. n}), 1>>
        [] op = MIN     -> <<Min({vals[k] : k \in 1 .. n}), 1>>
        [] op = DIFF1   -> <<vals[n] - vals[1], 1>>
        [] op = DIFF2   -> <<vals[1] - vals[n], 1>>

\* The message for the records s[a] to s[b], with their span and the values vals.
WithRange(o, op, s, a, b, vals) ==
  LET first == s[a]
      last == s[b]
      overref == o.kind \in {"ave0", "ave", "ave_var"}
      span == IF overref THEN last[1].ref - first[1].ref ELSE verftime(last) - verftime(first)
      range == [proc |-> op, inc |-> IF overref THEN 1 ELSE 2, len |-> span, dt |-> o.dt]
  IN  grib_wrt(first,
               [first[4] EXCEPT !.pdt = Averaged(o.kind)[@], !.end = verftime(last),
                                !.miss = span \div o.dt - (b - a),
                                !.ranges = <<range>> \o @],
               vals)

\* What the series of records s[a] to s[b] is written as.
SeriesOf(o, s, a, b) ==
  LET Field(k) == unpk_grib(s[k])
      Looked(p) == IF o.op \in {DIFF1, DIFF2} THEN {a, b} ELSE a .. b
      vals == [p \in 1 .. npnts(s[a]) |->
                IF \E k \in Looked(p) : Field(k)[p] = None THEN None
                ELSE Statistic(o.op, [k \in 1 .. b - a + 1 |-> Field(a + k - 1)[p]])]
  IN  <<WithRange(o, o.op, s, a, b, vals)>>

\* The four fields of -ave_var: where a value is undefined the mean and the deviation are,
\* the extremes are those of the values before it.
VarOf(o, s, a, b) ==
  LET Upto(p) == IF \E k \in a .. b : unpk_grib(s[k])[p] = None
                 THEN Min({k \in a .. b : unpk_grib(s[k])[p] = None}) - 1 ELSE b
      Vals(p) == [k \in 1 .. Upto(p) - a + 1 |-> unpk_grib(s[a + k - 1])[p]]
      Field(op) == [p \in 1 .. npnts(s[a]) |->
                     IF Upto(p) < (IF op \in {MIN, MAX} THEN a ELSE b) THEN None
                     ELSE Statistic(op, Vals(p))]
      Message(op) == WithRange(o, op, s, a, b, Field(op))
  IN  <<Message(AVE), Message(STD_DEV), Message(MIN), Message(MAX)>>

\* out is what is written for the records s: the messages for each longest series of
\* records that follow each other.
SeriesWritten(o, s, out) ==
  LET starts == {k \in 1 .. Len(s) : k = 1 \/ ~Follows(o, s[k - 1], s[k])}
      ends == {k \in 1 .. Len(s) : k = Len(s) \/ k + 1 \in starts}
      Of(a, b) == IF o.kind = "ave_var" THEN VarOf(o, s, a, b) ELSE SeriesOf(o, s, a, b)
  IN  out = Concat([n \in 1 .. Cardinality(starts) |-> Of(Nth(starts, n), Nth(ends, n))])

\* The means written are those of the series of the input: no record is left out or used
\* twice, at the end of the input as elsewhere, the length is the time from the first to
\* the last, what is missing is counted, a point undefined in one field is undefined, and
\* values of fields with another grid or order do not mix.
SeriesRight ==
  phase = "done" =>
    \A i \in Having(Statistics) : Writers(arglist[i].file) = {i} =>
      SeriesWritten(arglist[i],
                    SelectSeq(Fed(i), LAMBDA r : r[4].pdt \in DOMAIN Averaged(arglist[i].kind)),
                    files[arglist[i].file])

----------------------------------------------------------------------------
(* The promises of the options that put periods together or split them. *)

\* The records of a file, as they are read again.
ReadBack(f) ==
  Concat([m \in 1 .. Len(files[f]) |->
           [k \in 1 .. num_submsgs(files[f][m]) |->
             Contents(files[f][m], Submessage(files[f][m], k))]])

Period(r) == r[4].ranges[1]

\* a and b differ in the times of their periods at most.
SameButPeriod(a, b) ==
  LET Plain(r) == [r[4] EXCEPT !.ft = 0, !.end = 0, !.ranges[1].len = 0]
  IN  a[1] = b[1] /\ a[3] = b[3] /\ Plain(a) = Plain(b)

\* Running means and totals, those that begin together in a row: the parts written are
\* one for each length, they follow each other, and up to each of them they add up to the
\* running mean or total, in time and at the points that are defined in all of them.
NormRight(s, part) ==
  LET First(k) == k = 1 \/ ~SameButPeriod(s[k - 1], s[k]) \/ s[k - 1][4].ft # s[k][4].ft
      ends == {k \in 1 .. Len(s) : First(k) \/ Period(s[k]).len # Period(s[k - 1]).len}
      start(n) == Max({m \in 1 .. n : First(Nth(ends, m))})
      Amount(r, p) == unpk_grib(r)[p] * (IF Period(r).proc = 0 THEN Period(r).len ELSE 1)
      Share(n, p) == LET v == unpk_grib(part[n])[p]
                     IN  IF v = None THEN None
                         ELSE IF n = start(n) THEN Amount(part[n], p) ELSE v[1]
      Total(f) == FoldFunction(+, 0, f)
  IN  /\ Len(part) = Cardinality(ends)
      /\ \A n \in 1 .. Len(part) :
           LET whole == s[Nth(ends, n)]
               parts == start(n) .. n
           IN  /\ SameButPeriod(part[n], whole)
               /\ part[n][4].end = whole[4].end
               /\ part[n][4].ft = IF n = start(n) THEN whole[4].ft
                                  ELSE part[n - 1][4].ft + Period(part[n - 1]).len
               /\ Total([m \in parts |-> Period(part[m]).len]) = Period(whole).len
               /\ \A p \in 1 .. npnts(whole) :
                    (\A m \in parts : Share(m, p) # None)
                      => Total([m \in parts |-> Share(m, p)]) = Amount(whole, p)

\* Each period begins where the one before ended, or is that one once more.
Following(s) ==
  \A k \in 2 .. Len(s) :
    SameButPeriod(s[k - 1], s[k]) =>
      s[k][4].ft \in {s[k - 1][4].ft, s[k - 1][4].ft + Period(s[k - 1]).len}

\* r is merged from the last count of the records up to the k-th: as long as they are
\* together, from the beginning of the first to the end of the last; a sum or mean is
\* undefined where one of the fields is, an extreme where all are.
IsMerged(r, s, k, count) ==
  LET fields == [f \in 1 .. count |-> unpk_grib(s[k - count + f])]
      proc == Period(s[k]).proc
      At(p) == {fields[f][p] : f \in 1 .. count} \ {None}
      Total(p) == FoldFunction(+, 0, [f \in 1 .. count |-> fields[f][p]])
  IN  /\ SameButPeriod(r, s[k])
      /\ r[4].ft = s[k - count + 1][4].ft
      /\ r[4].end = s[k][4].end
      /\ Period(r).len = count * Period(s[k]).len
      /\ count > 1 => unpk_grib(r) =
           [p \in 1 .. npnts(s[k]) |->
             IF At(p) = {} \/ (proc \in {0, 1} /\ \E f \in 1 .. count : fields[f][p] = None)
             THEN None
             ELSE CASE proc = 0 -> <<Total(p), count>>
                    [] proc = 1 -> <<Total(p), 1>>
                    [] proc = 2 -> <<Max(At(p)), 1>>
                    [] proc = 3 -> <<Min(At(p)), 1>>]

\* Periods that follow each other are merged n at a time, into messages for the time from
\* the beginning of the first to the end of the last; what is left over is dropped.  With
\* a gap between them, or out of order, they are merged all the same (Merge.c:133), and
\* the length is not that of the time: then only what is merged is said.
MergeRight(n, s, part) ==
  LET First(k) == \/ k = 1
                  \/ ~SameButPeriod(s[k - 1], s[k])
                  \/ s[k][4].ft # s[k - 1][4].ft + Period(s[k - 1]).len
                  \/ Period(s[k]).len # Period(s[k - 1]).len
      place(k) == k - Max({m \in 1 .. k : First(m)}) + 1
      whole == {k \in 1 .. Len(s) : IF n = 0 THEN TRUE ELSE place(k) % n = 0}
  IN  IF Following(s)
      THEN /\ Len(part) = Cardinality(whole)
           /\ \A m \in 1 .. Len(part) :
                LET k == Nth(whole, m)
                IN  /\ IsMerged(part[m], s, k, IF n = 0 THEN place(k) ELSE n)
                    /\ Period(part[m]).len = part[m][4].end - start_ft(part[m])
      ELSE \A m \in 1 .. Len(part) :
             \E k \in 1 .. Len(s) : \E count \in IF n = 0 THEN 1 .. k ELSE {n} \cap (1 .. k) :
               IsMerged(part[m], s, k, count)

\* The periods written by -ncep_norm and -merge_fcst are those the records are for, when those
\* that are merged follow each other or are repeated; otherwise what is merged has the values,
\* the beginning and the end of records that come one after the other.
PeriodsRight ==
  phase = "done" =>
    \A i \in Having({"ncep_norm", "merge_fcst"}) : Writers(arglist[i].file) = {i} =>
      IF arglist[i].kind = "ncep_norm"
      THEN NormRight(SelectSeq(Fed(i), LAMBDA r : /\ Len(r[4].ranges) = 1
                                                  /\ Period(r).proc \in {0, 1}
                                                  /\ Period(r).len # 0),
                     ReadBack(arglist[i].file))
      ELSE MergeRight(arglist[i].num_to_merge,
                      SelectSeq(Fed(i), LAMBDA r : Len(r[4].ranges) = 1
                                                   /\ Period(r).proc \in 0 .. 3),
                      ReadBack(arglist[i].file))

----------------------------------------------------------------------------
(* The promises of the options that put records together. *)

Mates(o, u, v) ==
  /\ IF o.kind = "submsg_uv"
     THEN u[4].par \in DOMAIN Vectors /\ v[4].par = Vectors[u[4].par]
     ELSE u[4].par = "UGRD" /\ v[4].par = "VGRD"
  /\ SubSeq(u, 1, 3) = SubSeq(v, 1, 3)
  /\ [u[4] EXCEPT !.par = v[4].par] = v[4]

\* Nothing is lost, repeated or moved: the file has the records of the input, the two
\* components of a vector that follow each other in one message.
PairsRight(o, s) ==
  /\ ReadBack(o.file) = s
  /\ Len(files[o.file])
       = Len(s) - Cardinality({k \in 1 .. Len(s) - 1 : Mates(o, s[k], s[k + 1])})

\* One message with the records that agree with the first in section 1.
OneMessage(o, s) ==
  IF s = <<>> THEN files[o.file] = <<>>
  ELSE /\ Len(files[o.file]) = 1
       /\ ReadBack(o.file) = SelectSeq(s, LAMBDA r : r[1] = s[1][1])

\* The first component record k goes with: the last one before it with a name in us, that
\* goes with no record between.
MateOf(s, us, k) ==
  LET Meets(u, m) == /\ s[m][1] = s[u][1] /\ s[m][3] = s[u][3]
                     /\ s[m][4] = [s[u][4] EXCEPT !.par = Vectors[@]]
  IN  {u \in 1 .. k - 1 :
        /\ s[u][4].par \in us
        /\ Meets(u, k)
        /\ \A m \in u + 1 .. k - 1 : s[m][4].par \notin us /\ ~Meets(u, m)}

\* Speeds are made of the last u before a v, and of no u twice.
WindRight(o, s, out) ==
  LET written == {k \in 1 .. Len(s) : /\ MateOf(s, {"UGRD"}, k) # {}
                                      /\ o.kind = "wind_dir" => ~Bit(s[k][3].flag, 8)}
  IN  /\ Len(out) = Cardinality(written)
      /\ \A n \in 1 .. Len(out) :
           LET k == Nth(written, n)
               u == unpk_grib(s[Min(MateOf(s, {"UGRD"}, k))])
               v == unpk_grib(s[k])
           IN  unpk_grib(out[n]) =
                 [p \in DOMAIN v |-> IF None \in {u[p], v[p]} THEN None
                                     ELSE IF o.kind = "wind_dir" THEN <<u[p], v[p]>>
                                     ELSE u[p] * u[p] + v[p] * v[p]]

(* The promises of -new_grid: the settings are those that come last before it. *)

SettingsOf(i) ==
  LET Said(by) == {k \in 1 .. i - 1 : by[k]}
      Of(kind) == Said([k \in 1 .. i - 1 |-> arglist[k].kind = kind])
      types == Of("new_grid_interpolation")
      ipopt(n) ==
        LET said == {k \in Of("new_grid_ipopt") : Len(arglist[k].vals) >= n}
                      \cup (IF n = 1 THEN types ELSE {})
        IN  IF said = {} THEN <<-1, -1, 0>>[n]
            ELSE IF Max(said) \in types THEN FirstIpopt[arglist[Max(said)].type]
            ELSE arglist[Max(said)].vals[n]
      lists == Of("new_grid_vectors")
      winds == Of("new_grid_winds")
  IN  [method |-> <<IF types = {} THEN "bilinear" ELSE arglist[Max(types)].type,
                    <<ipopt(1), ipopt(2), ipopt(3)>>>>,
       us |-> IF lists = {} THEN DOMAIN Vectors ELSE arglist[Max(lists)].vectors,
       ongrid |-> winds # {} /\ arglist[Max(winds)].winds = "grid"]

\* The settings are not conditional, and none comes after.
SettingsFirst(i) ==
  \A k \in Having(NewGridOptions) : k < i /\ \A m \in DOMAIN Selection : CalledFor(k, Selection[m])

\* What stands at each point of the grid of c0, vals being in the order of the file.
MapOf(c0, vals, pts) ==
  [pl \in {pts[p] : p \in DOMAIN pts} |->
    LET p == CHOOSE k \in DOMAIN pts : pts[k] = pl
    IN  vals[FilePoint(c0, (p - 1) % c0[3].nx, (p - 1) \div c0[3].nx)]]

OnMap(c0) == MapOf(c0, unpk_grib(c0), get_latlon(c0[3]))

ValueNear(method, map, pl) ==
  LET about == Near(DOMAIN map, pl)
  IN  IF about = {} THEN None ELSE Interpolated(method, [q \in about |-> map[q]], pl)

\* Components relative to the grid, where that is not the same as to the earth.
AlongGrid(c0) == c0[3].gdt \in {20, 30} /\ Bit(c0[3].flag, 8)

\* The vectors of two records relative to the earth, None where one is not defined.
EarthMap(v, us, vs) ==
  [pl \in DOMAIN us |-> IF None \in {us[pl], vs[pl]} THEN <<None, None>>
                        ELSE IF AlongGrid(v) THEN Oriented(pl, <<us[pl], vs[pl]>>, 1)
                        ELSE <<us[pl], vs[pl]>>]

\* What becomes of vectors at a place of the new grid.
VectorNear(method, earth, new, pl) ==
  LET uv == [i \in 1 .. 2 |-> ValueNear(method, [q \in DOMAIN earth |-> earth[q][i]], pl)]
  IN  IF uv[1] # None /\ AlongGrid(new) THEN Oriented(pl, uv, -1) ELSE uv

\* The grid asked for, on the earth of the record when it is given by its centre.
GridAsked(o, ongrid, c0, new) ==
  LET gds == new[3]
      known == [lat |-> o.lat0, lon |-> o.lon0 % 360]
      pts == get_latlon(gds)
      first == CHOOSE p \in DOMAIN pts :
                 FilePoint(new, (p - 1) % gds.nx, (p - 1) \div gds.nx) = 1
  IN  /\ gds.nx = o.nlon /\ gds.ny = o.nlat
      /\ IF o.proj = "lambertc"
         THEN pts[(Len(pts) + 1) \div 2] = known /\ gds.shape = c0[3].shape
         ELSE pts[first] = known /\ Bit(gds.flag, 8) = ongrid
      /\ o.proj = "latlon" => DOMAIN OnMap(new) = {LolaAt(o, k) : k \in 1 .. o.nlon * o.nlat}

ScalarRight(method, map, got) == \A pl \in DOMAIN got : got[pl] = ValueNear(method, map, pl)

VectorRight(method, earth, new, got, part) ==
  \A pl \in DOMAIN got : got[pl] = VectorNear(method, earth, new, pl)[part]

\* One message for a scalar, two for two components that go together, none for one alone.
NewGridRight(i, s, out) ==
  LET o == arglist[i]
      set == SettingsOf(i)
      vs == {Vectors[u] : u \in set.us}
      Entries(k) == IF s[k][4].par \in set.us THEN <<>>
                    ELSE IF s[k][4].par \notin vs THEN <<[k |-> k, part |-> 0]>>
                    ELSE IF MateOf(s, set.us, k) = {} THEN <<>>
                    ELSE <<[k |-> k, part |-> 1], [k |-> k, part |-> 2]>>
      entries == Concat([k \in 1 .. Len(s) |-> Entries(k)])
      Right(e, new) ==
        LET c0 == s[e.k]
            u == s[Min(MateOf(s, set.us, e.k))]
        IN  /\ new[1] = c0[1]
            /\ new[4] = IF e.part = 1 THEN u[4] ELSE c0[4]
            /\ GridAsked(o, set.ongrid, c0, new)
            /\ IF e.part = 0 THEN ScalarRight(set.method, OnMap(c0), OnMap(new))
               ELSE VectorRight(set.method, EarthMap(c0, OnMap(u), OnMap(c0)), new, OnMap(new), e.part)
  IN  /\ Len(out) = Len(entries)
      /\ \A n \in 1 .. Len(out) : Right(entries[n], out[n])

VectorsRight ==
  phase = "done" =>
    \A i \in Having(Uv \cup Wind \cup {"tosubmsg", "new_grid"}) : Writers(arglist[i].file) = {i} =>
      CASE arglist[i].kind \in Uv   -> PairsRight(arglist[i], Fed(i))
        [] arglist[i].kind \in Wind -> WindRight(arglist[i], Fed(i), ReadBack(arglist[i].file))
        [] arglist[i].kind = "new_grid" ->
             SettingsFirst(i) => NewGridRight(i, Fed(i), ReadBack(arglist[i].file))
        [] arglist[i].kind = "tosubmsg" -> OneMessage(arglist[i], Fed(i))

=============================================================================

------------------------------ MODULE MCWgrib2 ------------------------------
(* Command lines and small files for Wgrib2. *)
EXTENDS NetcdfReference

McVectors == [p \in {"UGRD", "UOGRD"} |-> IF p = "UGRD" THEN "VGRD" ELSE "VOGRD"]

----------------------------------------------------------------------------
(* Sections and messages. *)

S1(ref) == [n |-> 1, ref |-> ref, id |-> "ncep"]
S2 == [n |-> 2, local |-> "kept"]

\* A grid of dx and 10 degrees, by the template, the scanning mode and its south western
\* point; Lambert and polar stereographic grids are skew here.
Skew(gdt) == gdt \in Anchored
PointAt(gdt, lat, lon, dx, x, y) ==
  [lat |-> lat + 10 * y - (IF Skew(gdt) THEN 2 * x ELSE 0),
   lon |-> (lon + dx * x + (IF Skew(gdt) THEN 2 * y ELSE 0) + 360) % 360]

Grid(gdt, scan, nx, ny, lat, lon, dx) ==
  LET x1 == IF Bit(scan, 128) THEN nx - 1 ELSE 0
      y1 == IF Bit(scan, 64) THEN 0 ELSE ny - 1
      first == PointAt(gdt, lat, lon, dx, x1, y1)
      last == PointAt(gdt, lat, lon, dx, nx - 1 - x1, ny - 1 - y1)
  IN  [n |-> 3, scan |-> scan, nx |-> nx, ny |-> ny, flag |-> 0, gdt |-> gdt, res |-> 48, shape |-> 6,
       lat1 |-> first.lat, lon1 |-> first.lon, lat2 |-> last.lat, lon2 |-> last.lon,
       dlat |-> 10, dlon |-> dx]

S3(scan, nx, ny) == Grid(0, scan, nx, ny, 0, 350, 10)

McProjected(gds, x, y) == PointAt(gds.gdt, gds.lat1, gds.lon1, gds.dlon, x, y)
McRotated(gds, pt) == [lat |-> pt.lat - 20, lon |-> (pt.lon + 100) % 360]

\* Places on the plane of a projection, from the longitude of the first point on; how far
\* two places are apart.
West(lon, from) == ((lon - from + 180) % 360) - 180
McForward(gds, at) ==
  LET lon == West(at.lon, gds.lon1)
  IN  IF Skew(gds.gdt) THEN [x |-> 10 * lon - 2 * at.lat, y |-> 2 * lon + 10 * at.lat, per |-> 104]
      ELSE [x |-> lon * gds.dlat, y |-> at.lat * gds.dlon, per |-> gds.dlon * gds.dlat]
McApart(a, b) ==
  LET lat == a.lat - b.lat
      lon == West(a.lon, b.lon)
  IN  (IF lat < 0 THEN -lat ELSE lat) + (IF lon < 0 THEN -lon ELSE lon)

\* Interpolation takes the value there, marked with the settings; vectors are turned by a
\* quarter.
McNear(places, at) == places \cap {at}
Mark == [bilinear |-> 100, bicubic |-> 200, neighbor |-> 300, budget |-> 400]
McInterpolated(method, vals, at) ==
  IF vals[at] = None THEN None
  ELSE vals[at] + Mark[method[1]] + 1000 * method[2][1] + 10000 * method[2][2]
McOriented(at, uv, way) == IF way = 1 THEN <<-uv[2], uv[1]>> ELSE <<uv[2], -uv[1]>>

McQuotient(x, y) == IF y < 0 THEN (-x) \div (-y) ELSE x \div y
McLibm(f, args) == IF Len(args) = 1 THEN 2 * args[1] + 1 ELSE 3 * args[1] - args[2]
McCosLat(lat) == IF lat < 0 THEN 9 + lat \div 10 ELSE 9 - lat \div 10
McDaysInMonth(t) == 28 + (t % 4)
S4(par, ft) == [n |-> 4, pdt |-> 0, par |-> par, ft |-> ft, end |-> 0, miss |-> 0, ranges |-> <<>>]
Mean(par, ft, end, proc, len) ==
  [n |-> 4, pdt |-> 8, par |-> par, ft |-> ft, end |-> end, miss |-> 0,
   ranges |-> <<[proc |-> proc, inc |-> 2, len |-> len, dt |-> 0]>>]

\* Sections 5 to 7 of a field, None being undefined.
Field(vals) ==
  <<[n |-> 5, ndpts |-> Len(Defined(vals))], mk_bms(vals), [n |-> 7, data |-> Defined(vals)]>>

\* A field with the bitmap of the one before.
Again(vals) ==
  <<[n |-> 5, ndpts |-> Len(vals)], [n |-> 6, ibmap |-> 254], [n |-> 7, data |-> vals]>>

Line == S3(64, 2, 1)

Simple(ref, par, ft, vals) == <<S1(ref), Line, S4(par, ft)>> \o Field(vals)
OfMean(ref, s4, vals) == <<S1(ref), Line, s4>> \o Field(vals)

InFile(args, file) ==
  [args |-> args, file |-> file, lines |-> <<>>, stream |-> FALSE, nc |-> None]
FromLines(args, file, lines) == [InFile(args, file) EXCEPT !.lines = lines]
L(msg, submsg) == [msg_no |-> msg, pos |-> msg - 1, submsg |-> submsg]

To(kind, file) == [kind |-> kind, file |-> file]
Par(kind, pars) == [kind |-> kind, pars |-> pars]
Only(kind, first, last, step) ==
  [kind |-> kind, range |-> [start |-> first, end |-> last, step |-> step]]
Plain(kind) == [kind |-> kind]

----------------------------------------------------------------------------
(* Selecting.  Three submessages, the second with the bitmap of the first and the third *)
(* with a grid and a bitmap of its own, and two more messages.                          *)

Mixed ==
  << <<S1(0), Line, S4("TMP", 1)>> \o Field(<<1, None>>)
       \o <<S4("UGRD", 1)>> \o Again(<<2>>)
       \o <<S3(0, 1, 2), S4("VGRD", 1)>> \o Field(<<None, 3>>),
     Simple(0, "TMP", 2, <<4, 5>>),
     <<S1(1), S2, Line, S4("UGRD", 2)>> \o Field(<<6, None>>)
       \o <<S4("VGRD", 2)>> \o Again(<<7>>) >>

Selections ==
  { <<>>,
    <<Par("match", {"UGRD", "VGRD"})>>,
    <<Par("not", {"TMP"}), Only("for_n", 2, 3, 1)>>,
    <<Only("for", 1, 2, 2), Par("match", {"TMP", "VGRD"})>>,
    <<Par("if", {"TMP"})>>,
    <<Par("not_if", {"UGRD"}), Par("if", {"TMP", "UGRD"})>>,
    <<Only("if_n", 2, 5, 3)>>,
    <<Only("if_rec", 1, 3, 2), Par("not_if", {"UGRD"})>>,
    <<[kind |-> "submsg", submsg |-> 2]>>,
    <<Par("match", {"TMP"}), Par("if", {"TMP"}), Plain("end")>>,
    <<Par("if", {"UGRD"}), [kind |-> "limit", n |-> 1]>>,
    <<Par("not_fs", {"VGRD"}), Par("match", {"TMP", "VGRD"}), Par("if_fs", {"TMP"})>>,
    <<Par("if", {"RH"}), Plain("fi"), Par("if_fs", {"RH"}), Plain("fi"), Par("not_if_fs", {"UGRD"})>>,
    <<Par("match_fs", {"UGRD", "TMP"}), Par("not_if_fs", {"TMP"}), Par("if", {"UGRD"})>> }

\* What follows a condition: up to the first output it is conditional.
Consequences ==
  { <<To("grib", "a")>>, <<To("GRIB", "a"), Plain("n")>>,
    <<Plain("fi"), To("grib", "a")>>, <<To("bin", "a"), To("bin", "a")>>,
    <<Plain("append"), To("grib_out", "a")>> }

Selecting == {InFile(x \o y, Mixed) : x \in Selections, y \in Consequences}

Orders ==
  { <<L(1, 1), L(1, 2), L(1, 3)>>, <<L(1, 3), L(3, 2), L(1, 2)>>, <<L(3, 1), L(1, 2), L(1, 2)>>,
    <<L(2, 1), L(3, 2), L(2, 1)>>, <<L(1, 2), L(1, 3), L(3, 1)>> }

Named ==
  {FromLines(<<Plain("i")>> \o x \o <<To("grib_out", "a"), To("GRIB", "b")>>, Mixed, l) :
     x \in {<<>>, <<Par("match", {"UGRD"})>>}, l \in Orders}
  \cup {InFile(<<[kind |-> "d", msg |-> m, submsg |-> k], To("grib_out", "a")>>, Mixed) :
          m \in {1, 3}, k \in {1, 2}}

\* Not a message, no message, not seekable, a range given twice, a bitmap before any.
Wrong ==
  { InFile(<<[kind |-> "d", msg |-> 0, submsg |-> 1]>>, Mixed),
    InFile(<<[kind |-> "d", msg |-> 5, submsg |-> 1]>>, Mixed),
    FromLines(<<Plain("i")>>, Mixed, <<L(1, 1), L(4, 1)>>),
    [FromLines(<<Plain("i")>>, Mixed, <<L(1, 1)>>) EXCEPT !.stream = TRUE],
    InFile(<<Only("for", 1, 2, 1), Only("for", 2, 3, 1)>>, Mixed),
    InFile(<<To("grib", "a")>>, << <<S1(0), Line, S4("TMP", 1)>> \o Again(<<1>>) >>) }

----------------------------------------------------------------------------
(* Grids and scanning orders. *)

Scans == {0, 64, 80, 128, 32, 112}

Grids(a, b) ==
  << <<S1(0), S3(a, 2, 3), S4("TMP", 0)>> \o Field(<<1, 2, None, 4, 5, 6>>)
       \o <<S3(b, 2, 3), S4("RH", 0)>> \o Field(<<11, 12, 13, 14, None, 16>>),
     <<S1(0), S3(b, 3, 2), S4("TMP", 0)>> \o Field(<<None, 22, 23, 24, 25, 26>>) >>

Scanning ==
  {InFile(<<[kind |-> "ij", ix |-> 2, iy |-> 1], To("bin", "a"), To("grib_out", "b")>>, Grids(a, b)) :
     a \in Scans, b \in Scans}
  \cup {InFile(<<[kind |-> "order", order |-> o], To("grib_out", "b"), To("bin", "a")>>, Grids(a, 80)) :
          o \in {"we:ns", "raw"}, a \in Scans}
  \cup {InFile(<<[kind |-> "order", order |-> "we:ns"], [kind |-> "ij", ix |-> 1, iy |-> 1]>>, Grids(0, 0)),
        InFile(<<[kind |-> "ij", ix |-> 3, iy |-> 1]>>, Grids(64, 64))}

----------------------------------------------------------------------------
(* Series. *)

Statistic4(kind, op, dt) == [kind |-> kind, op |-> op, dt |-> dt, file |-> "a"]

Analyses(refs, vals) == [i \in DOMAIN refs |-> Simple(refs[i], "TMP", 0, vals[i])]
Forecasts(fts, vals) == [i \in DOMAIN fts |-> Simple(0, "TMP", fts[i], vals[i])]

Values ==
  { << <<1, 2>>, <<5, 4>>, <<3, 9>>, <<7, 1>> >>, << <<1, 2>>, <<None, 4>>, <<3, 9>>, <<7, None>> >> }

Ops == {AVE, RMS, STD_DEV, MAX, MIN, DIFF1, DIFF2}

Times == { <<0, 6, 12, 18>>, <<0, 6, 18, 24>>, <<0, 6, 12, 15>>, <<6, 0, 6, 12>> }

\* The hours of one reference time or of several, another grid order, another parameter
\* and a record with time ranges among them.
InSeries ==
  {InFile(<<Statistic4(k, AVE, 6)>>, Analyses(t, v)) : k \in {"ave0", "ave"}, t \in Times, v \in Values}
  \cup {InFile(<<Statistic4(k, AVE, 6)>>, Forecasts(t, v)) :
          k \in {"fcst_ave0", "fcst_ave"}, t \in Times, v \in Values}
  \cup {InFile(<<Statistic4("ave_var", AVE, 6)>>, Analyses(t, v)) : t \in Times, v \in Values}
  \cup {InFile(<<Statistic4("ave", op, 6)>>, Analyses(<<0, 6, 18, 24>>, v)) : op \in Ops, v \in Values}
  \cup {InFile(<<Statistic4("fcst_ave", op, 6)>>, Forecasts(<<0, 6, 12, 12>>, v)) :
          op \in Ops, v \in Values}
  \cup {InFile(<<Statistic4(k, AVE, 6)>>,
               << <<S1(0), S3(0, 1, 2), S4("TMP", 0)>> \o Field(<<1, 2>>),
                  <<S1(6), S3(a, 1, 2), S4(p, 0)>> \o Field(<<5, 9>>),
                  <<S1(12), S3(0, 1, 2), S4("TMP", 0)>> \o Field(<<7, None>>) >>) :
          k \in {"ave0", "ave", "ave_var"}, a \in {0, 64}, p \in {"TMP", "RH"}}
  \cup {InFile(<<Statistic4(k, AVE, 6)>>,
               <<OfMean(0, Mean("PRATE", 0, 6, 0, 6), <<1, 2>>),
                 OfMean(r, Mean("PRATE", 6 - r, 12, 0, 6), <<3, 4>>),
                 OfMean(2 * r, [Mean("PRATE", 12 - 2 * r, 18, 0, 6) EXCEPT !.pdt = q], <<5, 6>>) >>) :
          k \in {"ave0", "ave", "fcst_ave0", "fcst_ave"}, r \in {0, 6}, q \in {8, 9}}

----------------------------------------------------------------------------
(* Periods. *)

Totals(proc) ==
  <<OfMean(0, Mean("APCP", 0, 3, proc, 3), <<2, 5>>),
    OfMean(0, Mean("APCP", 0, 6, proc, 6), <<5, 7>>),
    OfMean(0, Mean("APCP", 0, 6, proc, 6), <<5, 8>>),
    OfMean(0, Mean("APCP", 0, 9, proc, 9), <<9, None>>),
    OfMean(0, Mean("APCP", 0, 12, proc, 12), <<11, 12>>),
    OfMean(0, Mean("APCP", 12, 15, proc, 3), <<1, 2>>),
    OfMean(0, Mean("APCP", 12, 18, proc, 6), <<2, 4>>),
    OfMean(3, Mean("APCP", 12, 24, proc, 9), <<2, 4>>) >>

Periods(proc, n) ==
  [k \in 1 .. n |-> OfMean(0, Mean("APCP", 6 * k, 6 * k + 6, proc, 6),
                              <<3 * k % 5, IF k = 2 THEN None ELSE k>>)]

\* A record that is not a period, another parameter, and a period that comes again.
Broken(proc) ==
  SubSeq(Periods(proc, 5), 1, 3)
    \o <<Simple(0, "TMP", 6, <<1, 1>>), OfMean(0, Mean("TMP", 24, 30, proc, 6), <<4, 4>>)>>
    \o SubSeq(Periods(proc, 5), 3, 5)

\* The periods of the given numbers, in that order.
Chosen(proc, ks) == [m \in DOMAIN ks |-> Periods(proc, 5)[ks[m]]]

\* The period held last comes once more, before the merge has its number and after it;
\* a period is not there, or comes out of order.
Repeats == { <<1, 2, 2, 3, 4>>, <<1, 1, 2, 3>>, <<1, 2, 3, 3, 4, 5>> }
Gaps == { <<1, 3, 4>>, <<2, 1, 3>> }

Merging(series) ==
  {InFile(<<[kind |-> "merge_fcst", num_to_merge |-> n, file |-> "a"]>>, file) :
     n \in {0, 2, 3}, file \in series}

InPeriods ==
  {InFile(<<To("ncep_norm", "a")>>, Totals(proc)) : proc \in 0 .. 2}
  \cup Merging({Periods(proc, 5) : proc \in 0 .. 4} \cup {Broken(0), Broken(1)}
                  \cup {Chosen(proc, ks) : proc \in 0 .. 3, ks \in Repeats \cup Gaps})

----------------------------------------------------------------------------
(* Pairs. *)

Component(a, par, ft, vals) == <<S1(0), S3(a, 2, 1), S4(par, ft)>> \o Field(vals)

UvFiles ==
  { <<Component(64, "UGRD", 1, <<1, 2>>), Component(64, "VGRD", 1, <<3, 4>>), Component(64, "UGRD", 2, <<None, 2>>),
      Component(64, "TMP", 2, <<5, 4>>), Component(64, "VGRD", 2, <<1, 4>>)>>,
    <<Component(64, "UGRD", 1, <<1, 2>>), Component(0, "VGRD", 1, <<3, 4>>), Component(64, "VGRD", 1, <<3, 5>>),
      Component(64, "VGRD", 1, <<3, 6>>), Component(64, "UGRD", 3, <<1, 1>>)>>,
    <<Component(64, "UOGRD", 1, <<1, None>>), Component(64, "VOGRD", 1, <<3, 4>>), Component(64, "UGRD", 1, <<1, 2>>),
      Component(64, "UGRD", 2, <<2, 1>>), Component(64, "VGRD", 2, <<2, None>>)>>,
    <<Simple(0, "UGRD", 1, <<1, None>>) \o <<S4("VGRD", 1)>> \o Again(<<2>>)
        \o <<S4("TMP", 1)>> \o Field(<<None, 3>>),
      Simple(1, "UGRD", 1, <<1, 2>>), Simple(0, "UGRD", 1, <<4, None>>),
      [Simple(0, "VGRD", 1, <<4, None>>) EXCEPT ![2].flag = 8],
      [Simple(0, "UGRD", 1, <<4, None>>) EXCEPT ![2].flag = 8],
      [Simple(0, "VGRD", 1, <<4, 5>>) EXCEPT ![2].flag = 8]>> }

InPairs ==
  {InFile(<<To(k, "a")>>, file) :
     k \in {"ncep_uv", "submsg_uv", "wind_speed", "wind_dir", "tosubmsg"}, file \in UvFiles \cup {Mixed}}
  \cup {InFile(<<Par("not_if", {"TMP"}), To("submsg_uv", "a"), To("wind_speed", "b"),
                 To("tosubmsg", "c"), Only("if_n", 1, 9, 2), To("grib_out", "d")>>, file) :
          file \in UvFiles}

Empty == {InFile(<<To(k, "a")>>, <<>>) : k \in {"submsg_uv", "tosubmsg", "ncep_norm"}}

\* -set_date for records that have a message each, and for submessages.
Shifted(inputs) ==
  {InFile(<<Par("if", {"TMP", "APCP"}), [kind |-> "set_date", shift |-> s], To("grib", "a"),
            To("grib", "b")>>, file) : s \in {-6, 6}, file \in inputs}

Dates == Shifted({<<OfMean(0, Mean("APCP", 0, 6, 1, 6), <<1, 2>>), Simple(0, "RH", 1, <<1, 1>>)>>,
                  Analyses(<<0, 6>>, << <<1, 2>>, <<3, 4>> >>)})

----------------------------------------------------------------------------
(* Formulas. *)

Rcl == [f |-> "rcl"]
Start == [f |-> "start"]
Num(n) == [f |-> "number", n |-> n]
Reg(n) == [f |-> "reg", n |-> n]
Of1(op, x) == [f |-> op, x |-> x]
Of2(op, x, y) == [f |-> op, x |-> x, y |-> y, swap |-> FALSE]
Swapped(op, x, y) == [Of2(op, x, y) EXCEPT !.swap = TRUE]
Twice(op, z) == [f |-> op, z |-> z]
Let(n, term) == [reg |-> n, term |-> term]

Formula(lets, prints, term) == [lets |-> lets, prints |-> prints, term |-> term]
Rpn(formula) == [kind |-> "rpn", formula |-> formula, tokens |-> Tokens(formula)]
RpnTerm(term) == Rpn(Formula(<<>>, <<>>, term))

\* Two grids of as many points, one of less; then the first again.
Fieldset ==
  << <<S1(0), S3(64, 2, 2), S4("TMP", 0)>> \o Field(<<1, None, -2, 0>>)
       \o <<S4("RH", 0)>> \o Field(<<3, 4, None, 2>>),
     <<S1(1), S3(0, 2, 2), S4("TMP", 6)>> \o Field(<<5, 0, 7, None>>),
     <<S1(2), S3(64, 2, 2), S4("RH", 0)>> \o Field(<<9, -1, 2, 1>>) >>

Smaller == Append(Fieldset, <<S1(3), S3(64, 3, 1), S4("RH", 0)>> \o Field(<<1, 2, 3>>))

Out == <<To("bin", "a"), To("grib_out", "b")>>

\* One record's field in a register, used for another.
Kept == <<Par("if", {"TMP"}), [kind |-> "rpn_sto", n |-> 3], Plain("fi")>>

Formulas ==
  {RpnTerm(Of2(op, Start, Reg(3))) : op \in Binary}
  \cup {RpnTerm(Swapped(op, Rcl, Of2("+", Reg(3), Num(1)))) : op \in Binary}
  \cup {RpnTerm(Of1(op, Of2("-", Start, Num(1)))) : op \in Unary \cup (Fields \ {"smth9r"})}
  \cup {RpnTerm(Twice(op, Of1("abs", Rcl))) : op \in {"*", "/", "==", "merge"}}
  \cup {Rpn(Formula(<<Let(1, Of2("*", Rcl, Num(2))), Let(-1, Of2("merge", Reg(1), Reg(3))),
                      Let(1, Of2("-", Reg(1), Rcl))>>,
                    <<[op |-> p, x |-> Reg(1), y |-> Rcl]>>, Of2("max", Start, Reg(1)))) :
           p \in Prints1 \cup Prints2}

Calculating ==
  {InFile(Kept \o <<r>> \o Out, Fieldset) : r \in Formulas}
  \cup {InFile(<<Par("if", {"RH"}), RpnTerm(Of2("+", Start, Num(1))), [kind |-> "if_reg", regs |-> {3}],
                 [kind |-> "rpn_rcl", n |-> 3]>> \o Out \o Kept \o <<To("bin", "c")>>, file) :
           file \in {Fieldset, Smaller}}
  \cup {InFile(<<[kind |-> "import_grib", messages |-> SubSeq(other, 1, n)]>> \o Out, Fieldset) :
           other \in {Fieldset, <<Fieldset[2], Smaller[4], Fieldset[1]>>}, n \in {2, 3}}
  \cup {InFile(<<[kind |-> "rpn", formula |-> Formula(<<>>, <<>>, Start), tokens |-> t]>> \o Out, Smaller) :
           t \in { <<T("+")>>, <<T("pop")>>, <<T("unknown")>>, <<N("sto_N", 20)>>, <<T("dup"), T("clr")>>,
                   [k \in 1 .. 10 |-> T("rcl")]}}

\* Fields of a file as words, with their sizes or without; grids of four and of three points.
Words(kind, header, f, nx) ==
  LET text == kind = "import_text"
      before == IF ~header THEN <<>> ELSE IF text THEN <<nx, Len(f) \div nx>> ELSE <<Len(f)>>
  IN  before \o f \o (IF header /\ ~text THEN <<Len(f)>> ELSE <<>>)

Import(kind, header, fields, nx) ==
  <<[kind |-> "header", on |-> header],
    [kind |-> kind, fields |-> fields,
     words |-> FlattenSeq([k \in DOMAIN fields |-> Words(kind, header, fields[k], nx)])]>>

WordFields == << <<7, 8, 9, 6>>, <<4, 4, 2, 2>>, <<1, 3, 5, 7>>, <<2, 2, 9, 9>>, <<3, 1, 2>> >>

Importing ==
  {InFile(Import(kind, on, SubSeq(WordFields, 1, n), nx) \o x \o Out, file) :
     kind \in Imports, on \in BOOLEAN, n \in {3, 4, 5}, nx \in {2, 4},
     x \in {<<>>, <<Par("if", {"RH"}), RpnTerm(Of2("+", Start, Rcl)), Plain("fi")>>},
     file \in {Fieldset, Smaller}}
  \cup {InFile(<<Par("if", {"RH"})>> \o Import(kind, TRUE, SubSeq(WordFields, 1, 2), 2)
                 \o <<[kind |-> "header", on |-> FALSE]>> \o Out, Fieldset) : kind \in Imports}

\* Tokens whose values are those of the time, the place or chance.
Given ==
  {InFile(<<[kind |-> "rpn", formula |-> Formula(<<>>, <<>>, Start),
             tokens |-> <<T(t), N("sto_N", 2), T("pop"), N("clr_N", 2), N("rcl_N", 2), T("exc"), T("pop")>>]>>,
          Smaller) :
     t \in {"rcl_lat", "rcl_lon", "rand", "days_in_ref_month", "days_in_verf_month", "smth9r"}}
  \cup {InFile(<<RpnTerm(Rcl)>>, << <<S1(0), [S3(64, 2, 2) EXCEPT !.lat1 = 50], S4("TMP", 0)>>
                                        \o Field(<<1, 2, 3, 4>>) >>)}

----------------------------------------------------------------------------
(* Boxes. *)

Box(lonW, lonE, latS, latN) == [lonW |-> lonW, lonE |-> lonE, latS |-> latS, latN |-> latN]
Domain(ix0, ix1, iy0, iy1) == [ix0 |-> ix0, ix1 |-> ix1, iy0 |-> iy0, iy1 |-> iy1]

Boxes ==
  {Box(-15, 15, 5, 25), Box(345, 375, 0, 10), Box(0, 360, 10, 20), Box(200, 210, 0, 90),
   Box(10, 20, -5, 8), Box(80, 280, 0, 30)}

NinePlaces == [i \in 1 .. 9 |-> IF i = 5 THEN None ELSE i]
FourRow == [i \in 1 .. 8 |-> 10 + i]

Map(gdt, scan) == <<S1(0), Grid(gdt, scan, 3, 3, 0, 350, 10), S4("TMP", 0)>> \o Field(NinePlaces)
Around(gdt, scan) == <<S1(0), Grid(gdt, scan, 4, 2, 0, 0, 90), S4("RH", 0)>> \o Field(FourRow)

Templates == {0, 10, 20, 30, 40}

Undefine(kind, in, b, d) == [kind |-> kind, in |-> in, box |-> b, dom |-> d, low |-> 2, high |-> 4]

Undefined ==
  {InFile(<<Undefine("undefine", in, b, NoDomain)>> \o Out, <<Map(g, 64), Around(g, 0), Map(g, 80)>>) :
     in \in BOOLEAN, b \in Boxes, g \in {0, 30}}
  \cup {InFile(<<Undefine(k, in, Box(0, 0, 0, 0), Domain(2, 3, 1, 2))>> \o Out, <<Map(204, s), Around(0, 0)>>) :
           k \in {"ijundefine", "undefine_val"}, in \in BOOLEAN, s \in {0, 64}}
  \cup {InFile(<<Undefine("undefine", TRUE, b, NoDomain)>>, <<Map(0, 64)>>) :
           b \in {Box(0, 400, 0, 1), Box(0, 1, 2, 1)}}

SmallGrib(b) == [kind |-> "small_grib", box |-> b, file |-> "a"]
IjSmallGrib(d) == [kind |-> "ijsmall_grib", dom |-> d, file |-> "a"]

Cuts ==
  {InFile(<<SmallGrib(b)>>, <<Map(g, s), Around(IF g \in Cornered THEN g ELSE 0, 64), Map(g, 64)>>) :
     b \in Boxes, g \in Templates, s \in {0, 64, 128, 80}}
  \cup {InFile(<<IjSmallGrib(d)>>, <<Map(g, s), Around(0, 0)>>) :
           d \in {Domain(2, 3, 1, 2), Domain(1, 1, 2, 2), Domain(3, 5, 1, 1), Domain(0, 1, 1, 2)},
           g \in {0, 30}, s \in {0, 64}}
  \cup {InFile(<<IjSmallGrib(d)>>, <<Around(g, s)>>) :
           d \in {Domain(4, 6, 1, 2), Domain(0, 1, 1, 2), Domain(-1, 2, 2, 2)}, g \in {0, 10}, s \in {0, 64}}
  \cup {InFile(<<o>>, <<Map(0, 64)>>) :
           o \in {IjSmallGrib(Domain(3, 2, 1, 1)), IjSmallGrib(Domain(1, 2, 0, 1)),
                  SmallGrib(Box(20, 10, 0, 1)), SmallGrib(Box(0, 361, 0, 1))}}
  \cup {InFile(<<[kind |-> "order", order |-> "we:ns"], SmallGrib(Box(0, 10, 0, 10))>>, <<Map(g, 64)>>) :
           g \in {0, 204}}
  \cup {InFile(<<SmallGrib(Box(0, 10, 0, 10))>>, <<Map(204, 0)>>)}

----------------------------------------------------------------------------
(* Places. *)

Land(gdt, scan) == <<S1(0), Grid(gdt, scan, 3, 3, 0, 100, 10), S4("TMP", 0)>> \o Field(NinePlaces)
Tall(gdt, scan) == <<S1(0), Grid(gdt, scan, 2, 3, 20, 110, 10), S4("TMP", 6)>> \o Field(<<1, 2, 3, 4, None, 6>>)
West3(gdt, scan) == <<S1(6), Grid(gdt, scan, 3, 3, 0, 340, 10), S4("RH", 0)>> \o Field(NinePlaces)

\* Grids that change; the last has Greenwich between its first columns.
GridFiles ==
  {<<Land(g, s), Land(g, s), Around(IF g = 0 THEN 0 ELSE 10, 64), West3(g, s), Map(0, 64)>> :
     g \in {0, 10, 20, 30, 40, 1}, s \in {0, 64, 128, 80}}

Gctpc(on) == IF on THEN <<>> ELSE <<[kind |-> "gctpc", on |-> FALSE]>>
Lon(lon, lat) == [kind |-> "lon", lon |-> lon, lat |-> lat]
Lola(lon0, nlon, dlon, lat0, nlat, dlat, how) ==
  [kind |-> "lola", lon0 |-> lon0, nlon |-> nlon, dlon |-> dlon, lat0 |-> lat0, nlat |-> nlat,
   dlat |-> dlat, how |-> how, file |-> "a"]
IjBox(i1, i2, di, j1, j2, dj, how) ==
  [kind |-> "ijbox", i1 |-> i1, i2 |-> i2, di |-> di, j1 |-> j1, j2 |-> j2, dj |-> dj, how |-> how,
   file |-> "a"]
PointNo(kind, ix, iy) == [kind |-> kind, ix |-> ix, iy |-> iy]

Nearby == {<<104, 3>>, <<115, 15>>, <<127, 26>>, <<-15, 12>>, <<96, 9>>, <<315, 5>>, <<2, 8>>}

AtLon ==
  {InFile(Gctpc(on) \o <<Lon(at[1], at[2])>>, f) : on \in BOOLEAN, at \in Nearby, f \in GridFiles}

OnLola ==
  {InFile(Gctpc(on) \o <<Lola(95, 3, 12, 1, 3, 12, how)>>, f) :
     on \in BOOLEAN, how \in {"bin", "text", "spread", "grib"}, f \in GridFiles}
  \cup {InFile(<<Lola(x, 4, dx, 21, 2, -13, how)>>, f) :
           x \in {-10, 350}, dx \in {7, -7}, how \in {"bin", "spread"},
           f \in {<<Land(0, 64), West3(0, 0)>>, <<West3(30, 64), Land(30, 64)>>}}
  \cup {InFile(<<o>>, <<Land(0, 64)>>) :
           o \in {Lola(0, 2, -1, 0, 2, 1, "grib"), Lola(800, 2, 1, 0, 2, 1, "bin"), Lola(0, 2, 1, 91, 2, 1, "bin"),
                  Lola(0, 0, 1, 0, 2, 1, "bin"), Lola(0, 2, 1, 0, 0, 1, "text")}}
  \cup {InFile(<<o>>, <<Land(0, 64), Land(204, 64)>>) :
           o \in {Lola(100, 2, 10, 0, 2, 10, "bin"), Lon(100, 0), PointNo("ijlat", 1, 1), PointNo("ilat", 1, 1),
                  [kind |-> "grib_out_irr", all |-> TRUE, file |-> "a"]}}

InBoxes ==
  {InFile(<<[kind |-> "order", order |-> order], IjBox(i, i + 2, di, 1, 3, 2, how)>>,
          <<Land(204, 0), Tall(0, 128), West3(30, 80)>>) :
     order \in {"we:sn", "we:ns"}, i \in {0, 1, 2}, di \in {1, 2}, how \in {"bin", "text", "spread"}}
  \cup {InFile(<<IjBox(1, 1, 1, 3, 4, 1, "bin")>>, <<Land(0, 64)>>)}

ByNumber ==
  {InFile(<<PointNo(k, ix, iy)>>, f) : k \in {"ijlat", "ilat"}, ix \in {1, 2}, iy \in {1, 2}, f \in GridFiles}
  \cup {InFile(<<PointNo(k, 10, 1)>>, <<Land(0, 64)>>) : k \in {"ijlat", "ilat"}}

Listed ==
  {InFile(<<To(k, "a"), To("bin", "b")>>, f) : k \in {"text", "spread", "csv", "csv_long"}, f \in GridFiles}
  \cup {InFile(<<Par("not_if", {"RH"}), [kind |-> "grib_out_irr", all |-> all, file |-> "a"], To("grib", "b")>>, f) :
           all \in BOOLEAN,
           f \in GridFiles \cup {<<Tall(0, 0), <<S1(0), S3(64, 2, 2), S4("TMP", 3)>> \o Field(<<None, None, None, None>>)>>}}
  \cup {InFile(<<To(k, "a")>>, <<Land(204, 0), Land(0, 0)>>) : k \in {"text", "spread", "csv"}}
  \cup {InFile(<<To(k, "asc")>>, f) : k \in Rasters, f \in GridFiles \cup {<<Tall(0, 0), Tall(0, 64), Land(0, 80)>>}}

Numbered ==
  {InFile(<<[kind |-> "order", order |-> order], [kind |-> "grib_out_irr2", n |-> n, no |-> 5, file |-> "a"]>>,
          <<Land(204, 0), Tall(0, 128), [Land(0, 64) EXCEPT ![2].shape = shape]>>) :
     order \in {"we:sn", "raw"}, n \in {6, 9, 10}, shape \in {0, 3}}

AtThePlaces == Numbered \cup AtLon \cup OnLola \cup InBoxes \cup ByNumber \cup Listed

----------------------------------------------------------------------------
(* New grids. *)

NewGridTo(proj, lon0, nlon, dlon, lat0, nlat, dlat) ==
  [kind |-> "new_grid", proj |-> proj, lon0 |-> lon0, nlon |-> nlon, dlon |-> dlon, lat0 |-> lat0,
   nlat |-> nlat, dlat |-> dlat, lonN |-> lon0 + (nlon - 1) * dlon, latN |-> lat0 + (nlat - 1) * dlat,
   lov |-> -90, lad |-> IF proj \in {"nps", "sps"} THEN 60 ELSE 30, latin1 |-> 30, latin2 |-> 50,
   file |-> "a"]

Winds(how) == [kind |-> "new_grid_winds", winds |-> how]
Method(type) == [kind |-> "new_grid_interpolation", type |-> type]
Ipopt(vals) == [kind |-> "new_grid_ipopt", vals |-> vals]
VectorList(us, list) == [kind |-> "new_grid_vectors", vectors |-> us, list |-> list]

NewSettings ==
  { <<>>, <<Winds("grid")>>, <<Winds("grid"), Winds("earth")>>, <<Method("budget"), Ipopt(<<5, 2>>)>>,
    <<Ipopt(<<5, 2, 1>>), Method("neighbor"), Winds("grid")>>, <<VectorList({}, FALSE)>>,
    <<VectorList({"UOGRD"}, TRUE), Method("bicubic")>>,
    <<VectorList({"UGRD"}, TRUE), VectorList(DOMAIN McVectors, FALSE), Winds("grid")>> }

NewGrids ==
  { NewGridTo("latlon", 350, 3, 10, 0, 2, 10), NewGridTo("latlon", -10, 2, 10, 20, 3, -10),
    NewGridTo("latlon", 10, 2, -10, 0, 3, 10), NewGridTo("gaussian", 350, 2, 10, 10, 3, -10),
    NewGridTo("mercator", 0, 2, 10, 20, 2, -10), NewGridTo("lambert", -10, 2, 10, 0, 2, 10),
    NewGridTo("nps", 350, 3, 10, 0, 2, 10), NewGridTo("sps", 350, 2, 10, 0, 3, 10),
    NewGridTo("lambertc", 2, 3, 10, 8, 3, 10) }

\* Nine points of a component, on grids of each template and order, of two shapes of the
\* earth, relative to the earth or to the grid.
Wind9(gdt, scan, shape, flag, par, ft, undefined) ==
  <<S1(0), [Grid(gdt, scan, 3, 3, 0, 350, 10) EXCEPT !.shape = shape, !.flag = flag], S4(par, ft)>>
    \o Field([i \in 1 .. 9 |-> IF i = undefined THEN None ELSE 10 * ft + i])

WindFile(g, s, flag) ==
  << Wind9(g, s, 6, flag, "UGRD", 1, 5), Wind9(g, s, 6, flag, "VGRD", 1, 2),
     Wind9(g, s, 6, flag, "VGRD", 1, 3), Wind9(g, s, 1, flag, "UGRD", 2, 0),
     Wind9(g, s, 6, flag, "VGRD", 2, 0), Wind9(g, s, 1, flag, "UOGRD", 2, 0),
     Wind9(g, s, 1, flag, "VGRD", 2, 0), Wind9(g, s, 1, flag, "TMP", 2, 7),
     Wind9(g, s, 1, flag, "VOGRD", 2, 7), Wind9(g, s, 6, flag, "UGRD", 3, 0),
     Wind9(g, s, 6, 8 - flag, "VGRD", 3, 0), Wind9(g, s, 1, 8 - flag, "UOGRD", 3, 0) >>

Regridding ==
  {InFile(x \o <<o>>, WindFile(g, s, flag)) :
     x \in NewSettings, o \in {NewGridTo("latlon", 350, 3, 10, 0, 2, 10)}, g \in {0, 30}, s \in {0, 64}, flag \in {0, 8}}
  \cup {InFile(<<Winds("grid"), o>>, WindFile(g, s, flag)) :
           o \in NewGrids, g \in Templates, s \in {0, 64, 128}, flag \in {0, 8}}
  \cup {InFile(<<Winds("grid"), Par("not_if", {"TMP"}), o, VectorList({"UGRD"}, TRUE)>>, WindFile(0, 64, 0)) :
           o \in NewGrids}
  \cup {InFile(<<o>>, <<Wind9(0, 80, 6, 0, "VGRD", 0, 0), Wind9(g, s, 6, 0, "TMP", 0, 0)>>) :
           o \in {NewGridTo("latlon", 350, 3, 10, 0, 2, 10), NewGridTo("latlon", 100, 3, 10, 0, 2, 10)},
           g \in {0, 204}, s \in {64, 80}}
  \cup {InFile(<<o, [kind |-> "order", order |-> "we:sn"]>>, WindFile(0, 64, 0)) :
           o \in {NewGridTo("latlon", 350, 3, 10, 0, 2, 10), NewGridTo("nps", 0, 0, 1, 0, 2, 10)}}
  \cup {InFile(<<Ipopt(<<1, 2, 3, 4>>)>>, <<>>)}

----------------------------------------------------------------------------
(* Files of netCDF. *)

Sfc == [type |-> 1, val |-> 0, type2 |-> 255]
Mb(v) == [type |-> 100, val |-> 100 * v, type2 |-> 255]
Hybrid(v) == [type |-> 105, val |-> v, type2 |-> 255]
Layer(v) == [type |-> 106, val |-> v, type2 |-> 106]
Depth(v) == [type |-> 106, val |-> v, type2 |-> 255]

\* A record on a grid at a level.
At(s3, ref, ft, par, lev, vals) ==
  <<S1(ref), s3, [n |-> 4, pdt |-> 0, par |-> par, ft |-> ft, end |-> 0, miss |-> 0,
                  ranges |-> <<>>, lev |-> lev]>> \o Field(vals)

TwoByTwo == S3(64, 2, 2)
Level4(ft, par, lev, vals) == At(TwoByTwo, 0, ft, par, lev, vals)

Four(k) == <<k, None, k + 2, 3>>
AnalysesAt(times) == [k \in DOMAIN times |-> At(TwoByTwo, times[k], 0, "TMP", Sfc, Four(k))]
ForecastsAt(times) == [k \in DOMAIN times |-> Level4(times[k], "TMP", Sfc, Four(k))]
MixedAt(times) ==
  [k \in DOMAIN times |-> IF k % 2 = 0 THEN AnalysesAt(times)[k] ELSE ForecastsAt(times)[k]]

NcTimeOption(date, sort, dt) == [kind |-> "nc_time", date0 |-> date, date0_type |-> sort, dt |-> dt]
NcTable(lines) == [kind |-> "nc_table", lines |-> lines]
NcPack(type, low, high) == [kind |-> "nc_pack", pack |-> [type |-> type, low |-> low, high |-> high]]
Nlev(n) == [kind |-> "nc_nlev", n |-> n]
ToNc == <<To("netcdf", "nc")>>

NcTimes ==
  { <<>>, <<NcTimeOption(0, 0, 6)>>, <<NcTimeOption(0, 1, 6)>>, <<NcTimeOption(-6, 1, 6)>>,
    <<NcTimeOption(6, 1, 6)>>, <<NcTimeOption(-6, 1, 0)>>, <<NcTimeOption(0, 1, 0)>>,
    <<NcTimeOption(0, -1, 6)>>, <<NcTimeOption(-3, -1, 6)>>, <<NcTimeOption(-9, -1, 3)>>,
    <<NcTimeOption(0, 0, 6), Plain("no_nc_time"), Plain("nc_grads")>> }

NcSeries ==
  {InFile(t \o ToNc, f) :
     t \in NcTimes,
     f \in UNION {{AnalysesAt(x), ForecastsAt(x), MixedAt(x)} :
                    x \in { <<0, 6, 12, 18>>, <<0, 6, 18, 12>>, <<0, 6, 15, 15>>, <<6, 0, 6>>,
                            <<0, 12, 12, 0>>, <<0, 6, 318>> }}}

\* Levels of two parameters, some on an axis and some not.
Sounding(levs) ==
  [k \in 1 .. 2 * Len(levs) |->
    Level4(0, IF k % 2 = 1 THEN "TMP" ELSE "RH", levs[(k + 1) \div 2], Four(k))]

Conv(par, lev, name, type, low, high) ==
  [dir |-> "conv", par |-> par, level |-> lev, to |-> name,
   pack |-> [type |-> type, low |-> low, high |-> high]]

Conversions ==
  << Conv("TMP", Mb(850), "t850", "none", 0, 0), Conv("TMP", None, "t", "float", 0, 9),
     Conv("RH", Mb(500), "ignore", "none", 0, 0), Conv("RH", Sfc, "rh", "short", 0, 20) >>

Lines(dir, x) ==
  CASE dir \in {"nlev", "grads"} -> [dir |-> dir, n |-> x]
    [] dir = "lev_type" -> [dir |-> dir, type |-> x, per |-> IF x = 100 THEN 100 ELSE 1]
    [] dir = "levs" -> [dir |-> dir, vals |-> x]

NcTables ==
  { Conversions, <<Lines("nlev", 2)>> \o Conversions,
    <<Lines("nlev", 2), Lines("levs", <<500, 1000>>), Lines("lev_type", 100)>>,
    <<Lines("lev_type", 106), Lines("nlev", 2), Conv("RH", None, "ignore", "none", 0, 0)>>,
    <<Lines("nlev", 3), Lines("levs", <<850, 500, 1000>>), Lines("grads", 0)>> }

Soundings ==
  { <<Mb(1000), Mb(850), Mb(500)>>, <<Mb(500), Sfc, Mb(850)>>, <<Layer(2), Mb(1000), Mb(500)>>,
    <<Mb(850), Mb(500), Mb(1000)>>, <<Hybrid(1), Hybrid(2), Sfc>>, <<Mb(500), Mb(500), Sfc>>,
    <<Depth(1), Mb(500), Depth(2)>>, <<Mb(2), Hybrid(2), Hybrid(3)>> }

NcLevelJobs ==
  {InFile(<<Nlev(n)>> \o ToNc, Sounding(l)) : n \in 1 .. 3, l \in Soundings}
  \cup {InFile(<<Plain("nc_grads"), Nlev(3), NcTable(t)>> \o ToNc, Sounding(l)) :
           t \in NcTables, l \in Soundings}

NcPacks ==
  { NcPack("byte", 0, 0), NcPack("byte", 0, 4), NcPack("short", 0, 0), NcPack("short", -2, 10),
    NcPack("float", 1, 4) }

NcPacking4 ==
  {InFile(<<p>> \o x \o ToNc, f) :
     p \in NcPacks, x \in {<<>>, <<Plain("no_nc_pack")>>, <<Plain("nc_grads"), Plain("no_nc_grads")>>,
                           <<Plain("nc_grads")>>},
     f \in {ForecastsAt(<<0, 6, 12>>), <<Level4(0, "TMP", Sfc, <<2, 2, None, 2>>)>>}}
  \cup {InFile(ToNc \o <<NcPack("float", 1, 4)>>, ForecastsAt(<<0, 6>>))}

\* One grid in another order, a skew one, two that are not the same.
NcGrids ==
  {InFile(<<NcTimeOption(0, 0, 0)>> \o ToNc,
          <<At(Grid(g, s, 2, 3, 0, 350, 10), 0, 0, "TMP", Sfc, <<1, 2, None, 4, 5, 6>>),
            At(Grid(g, s, 2, 3, 0, west, 10), 0, 6, "TMP", Sfc, <<None, 2, 3, 4, 5, 6>>) >>) :
     g \in {0, 30, 204}, s \in {0, 64, 128}, west \in {350, 10}}
  \cup {InFile(<<Par("if", {"TMP"})>> \o ToNc,
               <<At(TwoByTwo, 0, 0, "TMP", Sfc, Four(1)), At(S3(64, 4, 1), 0, 0, p, Sfc, Four(2)),
                 At(TwoByTwo, 0, 6, "TMP", Sfc, Four(3))>>) : p \in {"TMP", "RH"}}
  \cup {InFile(ToNc, << <<S1(0), TwoByTwo, S4("TMP", 0)>> \o Field(Four(1)) >>)}

\* Files made before, and what is appended to them.
FileMade(nc, records) ==
  LET Added(l, secs) ==
        LET record == Contents(secs, Submessage(secs, 1))
        IN  f_netcdf(l, record, unpk_grib(record), get_latlon(record[3]), 1, NoPack, 0)
  IN  FoldLeft(Added, NcLocal(nc), records).nc

Stepwise == [NoSettings EXCEPT !.dt = 6]
Axis3 == [NoSettings EXCEPT !.nlev = 3]
Shorts == [NoSettings EXCEPT !.pack = [type |-> "short", low |-> 0, high |-> 0]]

Continued ==
  [args : NcTimes, nc : {NoSettings, Stepwise}, made : {ForecastsAt(<<0, 6>>), ForecastsAt(<<0>>)},
   more : {AnalysesAt(<<12, 18>>), ForecastsAt(<<6, 12>>), ForecastsAt(<<0, 15>>)}]
  \cup [args : {<<Nlev(n)>> : n \in {0, 2, 4}}, nc : {NoSettings, Axis3},
        made : {Sounding(<<Mb(1000), Mb(850)>>)},
        more : {Sounding(l) : l \in Soundings}]
  \cup [args : {<<p>> : p \in NcPacks}, nc : {NoSettings, Shorts},
        made : {ForecastsAt(<<0>>)}, more : {ForecastsAt(<<6, 12>>)}]
  \cup [args : {<<Par("not", {"TMP"})>>}, nc : {NoSettings}, made : {ForecastsAt(<<0>>)},
        more : {Sounding(<<Sfc>>), <<At(Grid(30, 64, 2, 2, 0, 0, 10), 0, 0, "RH", Sfc, Four(1))>>}]

Appended ==
  {[InFile(<<Plain("append")>> \o more.args \o ToNc, more.more) EXCEPT !.nc = FileMade(more.nc, more.made)] :
     more \in Continued}

\* Tables and settings that are refused.
NcRefused ==
  {InFile(<<o>> \o ToNc, ForecastsAt(<<0>>)) :
     o \in {NcPack("float", 2, 2), Nlev(G2NC_MAX_NLEV + 1), NcTimeOption(0, -1, 0)}}
  \cup {InFile(<<NcTable(l)>> \o ToNc, ForecastsAt(<<0>>)) :
          l \in { <<Lines("levs", <<1>>)>>, <<Lines("nlev", 2), Lines("levs", <<1>>)>>,
                  <<Lines("nlev", 2), Lines("nlev", 2)>>, <<Lines("grads", 2)>>,
                  <<Lines("grads", 1), Lines("nlev", 3), Lines("levs", <<1, 3, 2>>)>>,
                  <<Lines("lev_type", 1), Lines("lev_type", 1)>>, << [dir |-> "unknown"] >>,
                  <<Conv("TMP", None, "t", "float", 3, 3)>> }}
  \cup {InFile(<<NcTable(<<Lines("nlev", 2)>>)>> \o x \o ToNc, ForecastsAt(<<0, 6>>)) :
          x \in {<<Plain("no_nc_table")>>, <<NcTable(<<>>)>>}}
  \cup {InFile(<<NcTable(<<Lines("nlev", 2)>>), To("netcdf", "nc"), Plain("no_nc_table")>>, Sounding(<<Mb(1), Mb(2)>>))}

NcJobs == NcSeries \cup NcLevelJobs \cup NcPacking4 \cup NcGrids \cup Appended \cup NcRefused

McJobs ==
  Selecting \cup Named \cup Wrong \cup Scanning \cup InSeries \cup InPeriods \cup InPairs
    \cup Empty \cup Dates \cup Calculating \cup Given \cup Undefined \cup Cuts
    \cup NcJobs \cup AtThePlaces \cup Importing \cup Regridding
=============================================================================

---------------------------- MODULE PointOutput ----------------------------
(* wgrib2's options that give the values at places: at columns and rows    *)
(* (-ij, -ijlat, -ilat, -ijbox), at the grid point nearest to a place of   *)
(* the earth (-lon, -lola), and all points with their places (-text,       *)
(* -spread, -csv, -csv_long, -grib_out_irr, -AAIG, -AAIGlong).             *)
(*                                                                         *)
(* The point nearest to a place is found by the inverse of the projection  *)
(* (gctpc_ll2xy.c), by that of a latitude and longitude grid (lat2ij.c) or *)
(* by a search (geo.c).  pts are the points in the order west to east,     *)
(* south to north, as in GridPoints; 0 is the index of no point.           *)
EXTENDS GridPoints, TimeSeries

CONSTANTS
  Forward(_, _),  \* a place on the plane of a projection: [x, y, per], per to a grid length
  Apart(_, _)     \* how far two places of the earth are apart

----------------------------------------------------------------------------
(* The nearest point. *)

\* The whole number nearest to n / d.
Rounded(n, d) == IF d > 0 THEN (2 * n + d) \div (2 * d) ELSE (-2 * n - d) \div (-2 * d)

IndexAt(gds, x, y) ==
  IF x \in 0 .. gds.nx - 1 /\ y \in 0 .. gds.ny - 1 THEN x + gds.nx * y + 1 ELSE 0

\* The columns and rows of a latitude and longitude grid are those between its first two
\* points; a longitude is moved once to where the grid is.
ll2i_latlon(gds, pts, at) ==
  LET dx == pts[2].lon - pts[1].lon
      dy == pts[gds.nx + 1].lat - pts[1].lat
      west == IF 2 * at.lon > 2 * pts[gds.nx].lon + dx THEN at.lon - 360 ELSE at.lon
      lon == IF 2 * west < 2 * pts[1].lon - dx THEN west + 360 ELSE west
  IN  IndexAt(gds, Rounded(lon - pts[1].lon, dx), Rounded(at.lat - pts[1].lat, dy))

\* A projected grid is counted from its first point: of the file for a Mercator grid, of
\* the order west to east, south to north for the others.
ll2i_projected(gds, pts, at) ==
  LET first == IF gds.gdt = 10 THEN [lat |-> gds.lat1, lon |-> gds.lon1] ELSE pts[1]
      from == Forward(gds, first)
      to == Forward(gds, at)
  IN  IndexAt(gds, Rounded(to.x - from.x, to.per), Rounded(to.y - from.y, to.per))

gctpc_ll2i(gds, pts, at) ==
  IF gds.gdt = 0 THEN ll2i_latlon(gds, pts, at) ELSE ll2i_projected(gds, pts, at)

\* Without the library of projections: the cell of a latitude and longitude grid, the outer
\* border of the last one included.
latlon_closest(gds, pts, at) ==
  LET dx == pts[2].lon - pts[1].lon
      dy == pts[gds.nx + 1].lat - pts[1].lat
      west == 2 * pts[1].lon - dx
      south == 2 * pts[1].lat - dy
      east == IF 2 * at.lon < west THEN 2 * at.lon + 720 ELSE 2 * at.lon
      lon == IF east > west + 720 THEN east - 720 ELSE east
      Cell(n, d, last) == LET k == IF d > 0 THEN n \div d ELSE (-n) \div (-d)
                          IN  IF n = last * d THEN last - 1 ELSE k
  IN  IndexAt(gds, Cell(lon - west, 2 * dx, gds.nx), Cell(2 * at.lat - south, 2 * dy, gds.ny))

\* Any of the points that are nearest: threads that search a part each decide by their
\* order between points that are as near.
Searched(pts, at) ==
  {p \in DOMAIN pts : \A q \in DOMAIN pts : Apart(pts[p], at) <= Apart(pts[q], at)}

\* The indices closest may return for a place.
closest(gds, pts, at, use_gctpc) ==
  IF use_gctpc /\ gds.gdt \in {0, 10, 20, 30} THEN {gctpc_ll2i(gds, pts, at)}
  ELSE IF gds.gdt = 0 THEN {latlon_closest(gds, pts, at)}
  ELSE Searched(pts, at)

----------------------------------------------------------------------------
(* The places an option asks for, and the points it keeps for them. *)

Eastern(lon) == IF lon < 0 THEN lon + 360 ELSE lon

\* -lola: o is [lon0, nlon, dlon, lat0, nlat, dlat, how].
LolaPlaces(o) ==
  [k \in 1 .. o.nlon * o.nlat |->
    [lon |-> Wrapped(o.lon0) + ((k - 1) % o.nlon) * o.dlon,
     lat |-> o.lat0 + ((k - 1) \div o.nlon) * o.dlat]]

Places(o) ==
  IF o.kind = "lon" THEN << [lon |-> Eastern(o.lon), lat |-> o.lat] >> ELSE LolaPlaces(o)

\* The sequences with one index for each place.
Nearest(o, gds, pts, use_gctpc) ==
  LET places == Places(o)
      found[k \in 0 .. Len(places)] ==
        IF k = 0 THEN { <<>> }
        ELSE {Append(s, p) : s \in found[k - 1], p \in closest(gds, pts, places[k], use_gctpc)}
  IN  found[Len(places)]

\* -ijbox: o is [i1, i2, di, j1, j2, dj, how]; columns go around.
BoxSize(o) == [ni |-> 1 + (o.i2 - o.i1) \div o.di, nj |-> 1 + (o.j2 - o.j1) \div o.dj]

BoxPoint(o, k) ==
  LET ni == BoxSize(o).ni
  IN  [i |-> o.i1 + ((k - 1) % ni) * o.di, j |-> o.j1 + ((k - 1) \div ni) * o.dj]

BoxPoints(o, gds) ==
  LET at(k) == BoxPoint(o, k)
      index(k) == ((at(k).i - 1) % gds.nx) + (at(k).j - 1) * gds.nx + 1
      size == BoxSize(o).ni * BoxSize(o).nj
  IN  IF \A k \in 1 .. size : index(k) \in 1 .. gds.nx * gds.ny
      THEN [k \in 1 .. size |-> index(k)] ELSE None

\* -ij and -ijlat by column and row, -ilat by the number of the point.
GridPoint(o, gds) ==
  IF o.kind = "ilat" THEN IF o.ix \in 1 .. gds.nx * gds.ny THEN <<o.ix>> ELSE None
  ELSE IF o.ix \in 1 .. gds.nx /\ o.iy \in 1 .. gds.ny THEN <<o.ix + (o.iy - 1) * gds.nx>>
  ELSE None

AtNearest == {"lon", "lola"}
AtPlace == AtNearest \cup {"ij", "ijlat", "ilat", "ijbox"}
Locating == AtNearest \cup {"ijlat", "ilat"}

\* What an option may find on a new grid; None where the program stops.
Found_iptr(o, gds, pts, order, use_gctpc) ==
  IF o.kind \in Locating /\ pts = None THEN {None}
  ELSE IF o.kind \in AtNearest THEN Nearest(o, gds, pts, use_gctpc)
  ELSE IF o.kind = "ijbox" THEN {BoxPoints(o, gds)}
  ELSE IF order # "we:sn" THEN {None}
  ELSE {GridPoint(o, gds)}

NoPlace == [iptr |-> None, last_GDS_change_no |-> 0]

\* The arguments -lola stops at.
BadLola(o) ==
  \/ o.how = "grib" /\ (o.dlon <= 0 \/ o.dlat <= 0)
  \/ Wrapped(o.lon0) \notin 0 .. 359
  \/ o.lat0 \notin -90 .. 90
  \/ o.nlon = 0 \/ o.nlat = 0

----------------------------------------------------------------------------
(* What is written for these points. *)

Picked(iptr, data) == [k \in DOMAIN iptr |-> IF iptr[k] = 0 THEN None ELSE data[iptr[k]]]

Absolute(n) == IF n < 0 THEN -n ELSE n

\* Section 3 of the grid of -lola, its first longitude being lon.
sec3_lola(o, lon, shape) ==
  [n |-> 3, scan |-> (IF o.dlon < 0 THEN 128 ELSE 0) + (IF o.dlat > 0 THEN 64 ELSE 0),
   nx |-> o.nlon, ny |-> o.nlat, flag |-> 0, gdt |-> 0, res |-> 48,
   lat1 |-> o.lat0, lon1 |-> lon, lat2 |-> o.lat0 + (o.nlat - 1) * o.dlat,
   lon2 |-> Wrapped(lon + (o.nlon - 1) * o.dlon),
   dlat |-> Absolute(o.dlat), dlon |-> Absolute(o.dlon), shape |-> shape]

Text(nx, ny, vals) == [nx |-> nx, ny |-> ny, vals |-> vals]

\* The points with a value: rows [lon, lat, val].
Spreadsheet(places, vals) ==
  SelectSeq([k \in DOMAIN vals |-> [lon |-> places[k].lon, lat |-> places[k].lat, val |-> vals[k]]],
            LAMBDA row : row.val # None)

f_lola(o, iptr, c, data) ==
  LET vals == Picked(iptr, data)
      places == [k \in DOMAIN iptr |->
                  [LolaPlaces(o)[k] EXCEPT !.lon = IF @ >= 360 THEN @ - 360 ELSE @]]
  IN  CASE o.how = "bin"    -> vals
        [] o.how = "text"   -> Text(o.nlon, o.nlat, vals)
        [] o.how = "spread" -> Spreadsheet(places, vals)
        [] o.how = "grib"   -> grib_wrt([c EXCEPT ![3] = sec3_lola(o, Wrapped(o.lon0), c[3].shape)], c[4], vals)

\* The columns of a spreadsheet are those of the grid in use.
f_ijbox(o, iptr, gds, data) ==
  LET vals == Picked(iptr, data)
      row(k) == [i |-> ((BoxPoint(o, k).i - 1) % gds.nx) + 1, j |-> BoxPoint(o, k).j, val |-> vals[k]]
  IN  CASE o.how = "bin"    -> vals
        [] o.how = "text"   -> Text(BoxSize(o).ni, BoxSize(o).nj, vals)
        [] o.how = "spread" -> [k \in DOMAIN vals |-> row(k)]

\* The line of the inventory: the value, with its place unless for -ij.
PointLine(o, iptr, pts, data) ==
  LET p == iptr[1]
  IN  IF o.kind = "ij" THEN [val |-> data[p]]
      ELSE IF p = 0 THEN [lat |-> None, lon |-> None, val |-> None]
      ELSE [lat |-> pts[p].lat, lon |-> pts[p].lon, val |-> data[p]]

----------------------------------------------------------------------------
(* All points of the grid.  A step of an option is [loc, out]. *)

Tables == {"text", "spread", "csv", "csv_long"}

f_text(l, gds, data) == Write(l, Text(gds.nx, gds.ny, data))

\* A record whose points are not known is passed over.
f_spread(l, c, data, pts) ==
  IF pts = None THEN Keep(l)
  ELSE Write(l, [title |-> <<c[4].par, c[1].ref, c[4].ft>>, rows |-> Spreadsheet(pts, data)])

Descriptions(kind, c) ==
  IF kind = "csv" THEN <<c[1].ref, verftime(c), c[4].par>>
  ELSE <<c[1].ref, start_ft(c), verftime(c), c[4].par, c[4].ft>>

\* A line for each point with a value, its longitude from -180 on.
f_csv(o, l, c, data, pts) ==
  LET rows == Spreadsheet(pts, data)
      lon(k) == IF rows[k].lon > 180 THEN rows[k].lon - 360 ELSE rows[k].lon
  IN  IF pts = None THEN Keep(l)
      ELSE [loc |-> l,
            out |-> [k \in DOMAIN rows |->
                      [of |-> Descriptions(o.kind, c), row |-> [rows[k] EXCEPT !.lon = lon(k)]]]]

\* Section 3 of an irregular grid lists its points.
sec3_irr(rows, shape) ==
  [n |-> 3, gdt |-> 130, nx |-> Len(rows), ny |-> 1, shape |-> shape,
   at |-> [k \in DOMAIN rows |-> [lat |-> rows[k].lat, lon |-> rows[k].lon]]]

\* All points, or those with a value; nothing is written without any.
f_grib_out_irr(o, l, c, data, pts) ==
  LET all == [k \in DOMAIN data |-> [lon |-> pts[k].lon, lat |-> pts[k].lat, val |-> data[k]]]
      rows == IF o.all THEN all ELSE Spreadsheet(pts, data)
      vals == [k \in DOMAIN rows |-> rows[k].val]
  IN  IF pts = None THEN None
      ELSE IF rows = <<>> THEN Keep(l)
      ELSE Write(l, grib_wrt([c EXCEPT ![3] = sec3_irr(rows, c[3].shape)], c[4], vals))

\* An irregular grid by its number: o.n of the values, in whatever order they are, with as
\* many undefined ones behind them as there are too few.  The shapes of the earth that need
\* more numbers have no place in its section 3.
f_grib_out_irr2(o, l, c, data) ==
  LET vals == [k \in 1 .. o.n |-> IF k <= Len(data) THEN data[k] ELSE None]
      gdt101 == [n |-> 3, gdt |-> 101, nx |-> o.n, ny |-> 1, shape |-> c[3].shape, no |-> o.no]
  IN  IF c[3].shape \in {1, 3, 7} THEN None
      ELSE Write(l, grib_wrt([c EXCEPT ![3] = gdt101], c[4], vals))

\* The name of the raster file says what the record is (par standing for the parameter and
\* its level), with -AAIGlong all of it.
RasterName(kind, c) ==
  IF kind = "AAIG" THEN <<c[4].par, c[1].ref, verftime(c)>> ELSE <<c[1].ref, c[4]>>

\* A raster of a latitude and longitude grid, from the northern row on, its corner and the
\* distances of the first two columns and rows.
Raster(kind, c, data, pts) ==
  LET gds == c[3]
      flip(p) == ((p - 1) % gds.nx) + 1 + (gds.ny - 1 - (p - 1) \div gds.nx) * gds.nx
  IN  [name |-> RasterName(kind, c), ncols |-> gds.nx, nrows |-> gds.ny,
       xll |-> IF pts[1].lon > 180 THEN pts[1].lon - 360 ELSE pts[1].lon, yll |-> pts[1].lat,
       dx |-> pts[2].lon - pts[1].lon, dy |-> pts[gds.nx + 1].lat - pts[1].lat,
       vals |-> [p \in DOMAIN data |-> data[flip(p)]]]

\* The files there are, [name, ...] each, with the one for the record written anew.
f_AAIG(kind, rasters, c, data, pts) ==
  IF pts = None \/ c[3].gdt # 0 THEN rasters
  ELSE SelectSeq(rasters, LAMBDA r : r.name # RasterName(kind, c))
         \o <<Raster(kind, c, data, pts)>>
=============================================================================

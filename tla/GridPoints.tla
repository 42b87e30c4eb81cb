----------------------------- MODULE GridPoints -----------------------------
(* The latitudes and longitudes of the points of a grid, and the options   *)
(* that use them: -undefine, -ijundefine, -ijsmall_grib and -small_grib    *)
(* (geo.c, stagger.c, Cyclic.c, Undefine.c, Small_grib.c).                 *)
(*                                                                         *)
(* Grids are neither thinned nor staggered; space view grids are left out.  *)
(* Section 3 of an irregular grid has its points as at; of others it is     *)
(* [n, scan, nx, ny, flag, gdt, res, lat1, lon1, lat2, lon2, dlat, dlon],  *)
(* angles in degrees; res has the bits 16 and 32 when dlat and dlon are    *)
(* given.  A box is [lonW, lonE, latS, latN]; a domain is [ix0, ix1, iy0,  *)
(* iy1], counted from 1.                                                   *)
EXTENDS GribRecords

CONSTANTS
  Projected(_, _, _), \* the point at x, y from the first point of a projected grid
  Rotated(_, _)       \* a point of the rotated frame of a grid on the earth

Refused == <<>>       \* the program stops

\* x and y of the points from the first one, in the order west to east, south to north.
stagger(gds) ==
  LET x0 == IF Bit(gds.scan, 128) THEN 1 - gds.nx ELSE 0
      y0 == IF Bit(gds.scan, 64) THEN 0 ELSE 1 - gds.ny
  IN  [p \in 1 .. gds.nx * gds.ny |->
        [x |-> x0 + ((p - 1) % gds.nx), y |-> y0 + (p - 1) \div gds.nx]]

\* The southern and the northern latitude, by the direction the rows are in.
South(gds) == IF Bit(gds.scan, 64) THEN gds.lat1 ELSE gds.lat2
North(gds) == IF Bit(gds.scan, 64) THEN gds.lat2 ELSE gds.lat1

\* The extent in longitude: the western end, from 0, and the way to the eastern.
Alternate(gds) == Bit(gds.scan, 16) /\ ~Bit(gds.res, 32)

WestEast(gds) ==
  LET w0 == IF Bit(gds.scan, 128)
            THEN IF Alternate(gds) THEN gds.lon1 - (gds.nx - 1) * gds.dlon ELSE gds.lon2
            ELSE gds.lon1
      e0 == IF Bit(gds.scan, 128) THEN gds.lon1
            ELSE IF Alternate(gds) THEN gds.lon1 + (gds.nx - 1) * gds.dlon ELSE gds.lon2
      later == IF e0 <= w0 THEN e0 + 360 ELSE e0
  IN  IF later - w0 > 360 THEN later - 360 - w0 ELSE later - w0

\* What makes a definition of a latitude and longitude grid a bad one.
BadRegular(gds) ==
  \/ \E l \in {gds.lon1, gds.lon2} : l < 0 \/ l > 360
  \/ \E l \in {gds.lat1, gds.lat2} : l < -90 \/ l > 90
  \/ South(gds) > North(gds)
  \/ /\ gds.ny > 1
     /\ Bit(gds.res, 16)
     /\ North(gds) - South(gds) # gds.dlat * (gds.ny - 1)
  \/ Alternate(gds) /\ gds.ny % 2 = 0
  \/ gds.nx > 1 /\ Bit(gds.res, 32) /\ WestEast(gds) # gds.dlon * (gds.nx - 1)

Wrapped(lon) == IF lon >= 360 THEN lon - 360 ELSE IF lon < 0 THEN lon + 360 ELSE lon

regular2ll(gds) ==
  LET dx == IF gds.nx > 1 THEN WestEast(gds) \div (gds.nx - 1) ELSE 0
      dy == IF gds.ny > 1 THEN (North(gds) - South(gds)) \div (gds.ny - 1) ELSE 0
      at == stagger(gds)
  IN  IF BadRegular(gds) THEN Refused
      ELSE [p \in DOMAIN at |-> [lat |-> gds.lat1 + at[p].y * dy,
                                 lon |-> Wrapped(gds.lon1 + at[p].x * dx)]]

\* A rotated grid is a regular one in its own frame.
Turned(gds, framed) ==
  IF framed = Refused THEN Refused ELSE [p \in DOMAIN framed |-> Rotated(gds, framed[p])]

rot_regular2ll(gds) == Turned(gds, regular2ll(gds))

\* Mercator, polar stereographic and Lambert conformal grids, by the library gctpc.
gctpc_get_latlon(gds) ==
  LET at == stagger(gds) IN [p \in DOMAIN at |-> Projected(gds, at[p].x, at[p].y)]

\* A Gaussian grid: the row of the last point has to be at its latitude.
BadGaussian(gds) ==
  \/ \E l \in {gds.lon1, gds.lon2} : l < 0 \/ l > 360
  \/ \E l \in {gds.lat1, gds.lat2} : l < -90 \/ l > 90
  \/ South(gds) > North(gds)
  \/ Projected(gds, 0, IF Bit(gds.scan, 64) THEN gds.ny - 1 ELSE 1 - gds.ny).lat # gds.lat2

gauss2ll(gds) ==
  LET at == stagger(gds)
  IN  IF BadGaussian(gds) THEN Refused
      ELSE [p \in DOMAIN at |-> Projected(gds, at[p].x, at[p].y)]

irr_grid2ll(gds) == gds.at

\* The points of a grid in the order west to east, south to north, the only one of the data
\* they are found for; None for a grid they are not known for.
get_latlon(gds) ==
  IF gds.gdt \notin {0, 1, 10, 20, 30, 40, 130} THEN None
  ELSE CASE gds.gdt = 0             -> regular2ll(gds)
         [] gds.gdt = 1             -> rot_regular2ll(gds)
         [] gds.gdt \in {10, 20, 30} -> gctpc_get_latlon(gds)
         [] gds.gdt = 40            -> gauss2ll(gds)
         [] gds.gdt = 130           -> irr_grid2ll(gds)

\* Whether the columns go around the earth.
cyclic(gds) ==
  /\ Bit(gds.res, 32)
  /\ CASE gds.gdt \in {0, 40} -> gds.nx * gds.dlon = 360
       [] gds.gdt = 10        ->
            LET span == gds.lon2 - gds.lon1 + (IF gds.lon2 < gds.lon1 THEN 360 ELSE 0)
            IN  gds.nx > 1 /\ span * gds.nx = 360 * (gds.nx - 1)
       [] OTHER               -> FALSE

----------------------------------------------------------------------------
(* Undefine.c.  o is the option: [in, box], [in, dom] or [low, high]. *)

\* The box as it is kept: its western longitude from 0 to 360.
UndefineBox(b) ==
  LET east == IF b.lonW > b.lonE THEN b.lonE + 360 ELSE b.lonE
      up == IF b.lonW < 0 THEN 360 ELSE 0
  IN  [b EXCEPT !.lonW = @ + up, !.lonE = east + up]

\* The arguments the set up of -undefine stops at.
BadUndefine(b) ==
  LET east == IF b.lonW > b.lonE THEN b.lonE + 360 ELSE b.lonE
  IN  b.lonW > east \/ east - 360 > b.lonW \/ b.latS > b.latN

InBox(b, pt) ==
  LET x == IF pt.lon < b.lonW THEN pt.lon + 360 ELSE pt.lon
  IN  x <= b.lonE /\ pt.lat >= b.latS /\ pt.lat <= b.latN

f_undefine(o, data, points) ==
  IF points = None THEN data
  ELSE [p \in DOMAIN data |->
         IF InBox(UndefineBox(o.box), points[p]) = o.in THEN None ELSE data[p]]

\* Columns and rows of the data in the order of the user.
f_ijundefine(o, data, gds) ==
  LET Inside(p) == /\ ((p - 1) % gds.nx) + 1 \in o.dom.ix0 .. o.dom.ix1
                   /\ (p - 1) \div gds.nx + 1 \in o.dom.iy0 .. o.dom.iy1
  IN  [p \in DOMAIN data |-> IF Inside(p) = o.in THEN None ELSE data[p]]

f_undefine_val(o, data) ==
  [p \in DOMAIN data |->
    IF data[p] = None THEN None ELSE IF data[p] \in o.low .. o.high THEN None ELSE data[p]]

----------------------------------------------------------------------------
(* Small_grib.c *)

NoDomain == [ix0 |-> 0, ix1 |-> 0, iy0 |-> 0, iy1 |-> 0]
WholeGrid(gds) == [ix0 |-> 1, ix1 |-> gds.nx, iy0 |-> 1, iy1 |-> gds.ny]

\* The first of the indices where the function f is least or greatest.
Least(f) ==
  CHOOSE i \in DOMAIN f : \A k \in DOMAIN f : f[i] < f[k] \/ (f[i] = f[k] /\ i <= k)
Greatest(f) ==
  CHOOSE i \in DOMAIN f : \A k \in DOMAIN f : f[i] > f[k] \/ (f[i] = f[k] /\ i <= k)

\* The box with its western longitude from 0 on.
DomainBox(b) ==
  LET up == IF b.lonW < 0 THEN 360 ELSE 0 IN [b EXCEPT !.lonW = @ + up, !.lonE = @ + up]

\* The longitude of a point, from the western one of the box on.
From(b, lon) ==
  IF lon >= b.lonW THEN lon ELSE IF lon + 360 >= b.lonW THEN lon + 360 ELSE lon + 720

\* A latitude and longitude or a Mercator grid: the first row and the first column tell
\* which columns and which rows are in the box.
AxisDomain(gds, pts, b) ==
  LET Lon(i) == From(b, pts[i].lon)
      Lat(k) == pts[(k - 1) * gds.nx + 1].lat
      columns == {i \in 1 .. gds.nx : Lon(i) <= b.lonE}
      rows == {k \in 1 .. gds.ny : Lat(k) >= b.latS /\ Lat(k) <= b.latN}
      lons == [i \in columns |-> Lon(i)]
      lats == [k \in rows |-> Lat(k)]
      x0 == Least(lons)
      x1 == Greatest(lons)
  IN  IF columns = {} \/ rows = {} THEN WholeGrid(gds)
      ELSE [ix0 |-> x0, ix1 |-> IF x1 < x0 /\ cyclic(gds) THEN x1 + gds.nx ELSE x1,
            iy0 |-> Least(lats), iy1 |-> Greatest(lats)]

\* Another grid: the columns from the westernmost to the easternmost point of each row,
\* of all rows that have a point in the box.
RowDomain(gds, pts, b) ==
  LET Pt(i, k) == pts[(k - 1) * gds.nx + i]
      In(i, k) == /\ From(b, Pt(i, k).lon) <= b.lonE
                  /\ Pt(i, k).lat >= b.latS /\ Pt(i, k).lat <= b.latN
      columns(k) == {i \in 1 .. gds.nx : In(i, k)}
      rows == {k \in 1 .. gds.ny : columns(k) # {}}
      lons(k) == [i \in columns(k) |-> From(b, Pt(i, k).lon)]
      x0(k) == Least(lons(k))
      x1(k) == LET x == Greatest(lons(k))
               IN  IF x < x0(k) /\ cyclic(gds) THEN x + gds.nx ELSE x
      west == CHOOSE x \in {x0(k) : k \in rows} : \A k \in rows : x <= x0(k)
      east == CHOOSE x \in {x1(k) : k \in rows} : \A k \in rows : x >= x1(k)
      numbers == [k \in rows |-> k]
  IN  IF rows = {} THEN WholeGrid(gds)
      ELSE IF east < west THEN WholeGrid(gds)
      ELSE [ix0 |-> west, ix1 |-> east,
            iy0 |-> Least(numbers), iy1 |-> Greatest(numbers)]

\* The program stops for a box of more than 360 degrees.
small_domain(gds, pts, box) ==
  LET b == DomainBox(box)
  IN  IF pts = None THEN WholeGrid(gds)
      ELSE IF gds.gdt \in {0, 10} /\ gds.nx > 1 /\ gds.ny > 1 THEN AxisDomain(gds, pts, b)
      ELSE RowDomain(gds, pts, b)

set_order(gds) == [gds EXCEPT !.scan = 64 + (@ % 16)]

\* The index of a column and a row; the columns of a cyclic grid go on.
OnGrid(gds, dom) ==
  /\ dom.iy0 >= 1 /\ dom.iy1 <= gds.ny
  /\ cyclic(gds) \/ (dom.ix0 >= 1 /\ dom.ix1 <= gds.nx)

idx(gds, ix, iy) == 1 + ((ix - 1) % gds.nx) + (iy - 1) * gds.nx

\* Templates with the last point, templates with the first point only.
Cornered == {0, 10, 40}
Anchored == {20, 30}

Corners(gds, pts, dom) ==
  LET first == pts[idx(gds, dom.ix0, dom.iy0)]
      last == pts[idx(gds, dom.ix1, dom.iy1)]
      size == [gds EXCEPT !.nx = dom.ix1 - dom.ix0 + 1, !.ny = dom.iy1 - dom.iy0 + 1,
                          !.lat1 = first.lat, !.lon1 = first.lon]
  IN  IF gds.gdt \in Anchored THEN size
      ELSE [size EXCEPT !.lat2 = last.lat, !.lon2 = last.lon]

\* The record with the points of the domain; the whole record, with the flags of the
\* order west to east, south to north, when it cannot be cut.  A rotated grid cannot: its
\* section 3 is compared with a length of 4 octets.  None when the program stops.
small_grib(c, data, pts, dom) ==
  LET gds == c[3]
      nx == dom.ix1 - dom.ix0 + 1
      point(p) == idx(gds, dom.ix0 + ((p - 1) % nx), dom.iy0 + (p - 1) \div nx)
      part == [p \in 1 .. nx * (dom.iy1 - dom.iy0 + 1) |-> data[point(p)]]
  IN  IF nx <= 0 \/ dom.iy1 < dom.iy0 THEN None
      ELSE IF pts = None \/ gds.gdt \notin Cornered \cup Anchored
      THEN grib_wrt([c EXCEPT ![3] = set_order(gds)], c[4], data)
      ELSE IF ~OnGrid(gds, dom) THEN None
      ELSE grib_wrt([c EXCEPT ![3] = set_order(Corners(gds, pts, dom))], c[4], part)

\* The arguments the set up stops at.
BadDomain(o) == o.dom.iy0 <= 0 \/ o.dom.iy0 > o.dom.iy1 \/ o.dom.ix0 > o.dom.ix1
BadBox(o) ==
  o.box.latS > o.box.latN \/ o.box.lonW > o.box.lonE

\* A step of an option is [loc, out], as in TimeSeries; None when the program stops.
Cut(loc, message) == IF message = None THEN None ELSE [loc |-> loc, out |-> <<message>>]

f_ijsmall_grib(o, l, c, data, pts, order) ==
  IF order # "we:sn" THEN None ELSE Cut(l, small_grib(c, data, pts, o.dom))

\* Mutant: the domain of the first grid is kept.
DomainKept(o, l, c, data, pts, order, change_no) ==
  LET dom == IF l.GDS_change_no # 0 THEN l.dom ELSE small_domain(c[3], pts, o.box)
  IN  IF order # "we:sn" \/ (pts # None /\ o.box.lonE - o.box.lonW > 360) THEN None
      ELSE Cut([GDS_change_no |-> change_no, dom |-> dom], small_grib(c, data, pts, dom))

\* The domain is kept until the grid changes.
f_small_grib(o, l, c, data, pts, order, change_no) ==
  LET dom == IF l.GDS_change_no = change_no THEN l.dom ELSE small_domain(c[3], pts, o.box)
  IN  IF order # "we:sn" \/ (pts # None /\ o.box.lonE - o.box.lonW > 360) THEN None
      ELSE Cut([GDS_change_no |-> change_no, dom |-> dom], small_grib(c, data, pts, dom))
=============================================================================

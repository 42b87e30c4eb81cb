------------------------------ MODULE NewGrid ------------------------------
(* -new_grid: each field is interpolated to a grid of the user's, two      *)
(* components of a vector together (New_grid.c, new_grid_lambertc.c,       *)
(* sec3_grids.c, mk_kgds.c).  The interpolation is the library ipolates.   *)
(*                                                                         *)
(* An option o is [proj, lon0, nlon, dlon, lat0, nlat, dlat, file] with    *)
(* lov, lad, latin1, latin2 for a projected grid and lonN, latN for a      *)
(* Mercator grid.  Polar stereographic grids are true at 60 degrees.       *)
(* settings are [type, ipopt, winds, vectors]: ipopt the first three of    *)
(* twenty numbers, vectors the names of first components.                  *)
(*                                                                         *)
(* Left out: NCEP's names of grids, the rotated Arakawa grids that mk_kgds *)
(* also knows, and lists of vectors that are not pairs of the default's.   *)
EXTENDS VectorPairs, PointOutput

CONSTANTS
  Near(_, _),             \* the places of a set that are about a place, {} outside
  Interpolated(_, _, _),  \* by the settings: of the values at the places about a place
  Oriented(_, _, _)       \* a vector on a grid, at a place, relative to the earth or back

NIpopt == 3

default_settings ==
  [type |-> "bilinear", ipopt |-> <<-1, -1, 0>>, winds |-> "undefined", vectors |-> DOMAIN Vectors]

NewGridOptions ==
  {"new_grid_interpolation", "new_grid_ipopt", "new_grid_winds", "new_grid_vectors"}

FirstIpopt == [bilinear |-> -1, bicubic |-> 0, neighbor |-> 1, budget |-> -1]

\* The settings after an option for them is called with mode >= 0.
NewGridSet(o, s) ==
  CASE o.kind = "new_grid_interpolation" ->
         [s EXCEPT !.type = o.type, !.ipopt[1] = FirstIpopt[o.type]]
    [] o.kind = "new_grid_ipopt" ->
         [s EXCEPT !.ipopt = [i \in DOMAIN @ |-> IF i <= Len(o.vals) THEN o.vals[i] ELSE @[i]]]
    [] o.kind = "new_grid_winds"   -> [s EXCEPT !.winds = o.winds]
    [] o.kind = "new_grid_vectors" -> [s EXCEPT !.vectors = o.vectors]

\* With mode -1 a list of vectors is only read; "none" and "default" are set.
NewGridInit(o, s) ==
  IF o.kind = "new_grid_vectors" /\ o.list THEN s ELSE NewGridSet(o, s)

----------------------------------------------------------------------------
(* Section 3 of the new grid. *)

East(lon) == IF lon < 0 THEN lon + 360 ELSE lon

ScanOf(di, dj) == (IF di < 0 THEN 128 ELSE 0) + (IF dj > 0 THEN 64 ELSE 0)

\* What the sections of all templates have; the plane of a projected grid is given by the
\* arguments in their order, and its pole.
NewSection3(o, gdt, dj, shape) ==
  [n |-> 3, scan |-> ScanOf(o.dlon, dj), nx |-> o.nlon, ny |-> o.nlat, flag |-> 0, gdt |-> gdt,
   res |-> 48, lat1 |-> o.lat0, lon1 |-> East(o.lon0), lat2 |-> 0, lon2 |-> 0,
   dlat |-> Absolute(o.dlat), dlon |-> Absolute(o.dlon), plane |-> <<>>, south |-> FALSE,
   shape |-> shape]

\* Only global grids: the last row is at the latitude of the first on the other side; the
\* number of rows from a pole to the equator takes the place of their distance.
sec3_gaussian(o, shape) ==
  LET last == East(o.lon0) + (o.nlon - 1) * o.dlon
  IN  [NewSection3(o, 40, -o.lat0, shape) EXCEPT !.lat2 = -o.lat0, !.lon2 = Wrapped(last),
                                                 !.dlat = o.nlat \div 2]

sec3_mercator(o, shape) ==
  [NewSection3(o, 10, o.dlat, shape) EXCEPT
     !.lat2 = o.latN,
     !.lon2 = IF o.lonN > 360 THEN o.lonN - 360 ELSE East(o.lonN)]

sec3_lc(o, shape) ==
  [NewSection3(o, 30, o.dlat, shape) EXCEPT !.plane = <<East(o.lov), o.lad, o.latin1, o.latin2>>,
                                            !.south = o.latin2 < 0]

sec3_polar_stereo(o, shape) ==
  [NewSection3(o, 20, o.dlat, shape) EXCEPT !.plane = <<East(o.lov), o.lad>>,
                                            !.south = o.proj = "sps"]

\* By the arguments; the shape of the earth is that of NCEP's grids.
NCEP_SHAPE == 6

sec3_new(o) ==
  CASE o.proj = "latlon"   -> sec3_lola(o, East(o.lon0), NCEP_SHAPE)
    [] o.proj = "mercator" -> sec3_mercator(o, NCEP_SHAPE)
    [] o.proj = "gaussian" -> sec3_gaussian(o, NCEP_SHAPE)
    [] o.proj \in {"lambert", "lambertc"} -> sec3_lc(o, NCEP_SHAPE)
    [] o.proj \in {"nps", "sps"} -> sec3_polar_stereo(o, NCEP_SHAPE)

\* The arguments the set up of -new_grid stops at.
BadNewGrid(o) == o.nlon * o.nlat <= 0 \/ (o.proj \in {"nps", "sps"} /\ o.lad # 60)

\* The first point of a grid whose centre is given, on the earth of the record.
new_grid_lambertc(o, shape) ==
  LET first == Projected(sec3_lc(o, shape), -((o.nlon - 1) \div 2), -((o.nlat - 1) \div 2))
  IN  [o EXCEPT !.lon0 = first.lon, !.lat0 = first.lat]

NewGridLocal(o, winds) ==
  [has_u |-> FALSE, shape |-> None,
   sec3 |-> [sec3_new(o) EXCEPT !.flag = IF winds = "grid" THEN 8 ELSE 0]]

\* A grid given by its centre is made again for another shape of the earth, all of it.
Remade(o, l, gds) ==
  IF o.proj = "lambertc" /\ l.shape # gds.shape
  THEN [l EXCEPT !.shape = gds.shape, !.sec3 = sec3_lc(new_grid_lambertc(o, gds.shape), gds.shape)]
  ELSE l

----------------------------------------------------------------------------
(* The library. *)

\* What the library is told of a grid: the direction of its winds only for two templates.
mk_kgds(gds) ==
  IF Bit(gds.scan, 16) \/ gds.gdt \notin {0, 10, 20, 30, 40} THEN None
  ELSE [gds EXCEPT !.flag = IF gds.gdt \in Anchored /\ Bit(@, 8) THEN 8 ELSE 0]

\* The places of the points in the order of the file.
ByFile(t, pts) ==
  [p \in DOMAIN pts |-> pts[CHOOSE k \in DOMAIN pts : (IF t = None THEN k ELSE t[k]) = p]]

PlacesOf(kgds) == ByFile(to_we_sn_scan(kgds.scan, kgds.nx, kgds.ny), get_latlon(kgds))

\* The values at places, None where the bitmap has none.
Standing(at, vals) ==
  [pl \in {at[p] : p \in DOMAIN at} |-> vals[CHOOSE p \in DOMAIN at : at[p] = pl]]

Meeting(in, out) == \E p \in DOMAIN out : Near({in[q] : q \in DOMAIN in}, out[p]) # {}

Meet(kgds, kgds_out) == Meeting(PlacesOf(kgds), PlacesOf(kgds_out))

ValueAt(s, field, place, about) ==
  IF about = {} THEN None
  ELSE Interpolated(<<s.type, s.ipopt>>, [pl \in about |-> field[pl]], place)

IPOLATES(s, in, out, vals) ==
  LET field == Standing(in, vals)
  IN  [p \in DOMAIN out |-> ValueAt(s, field, out[p], Near(DOMAIN field, out[p]))]

\* The vectors at places turned to the earth (1) or to the grid (-1).
WithGrid(kgds, at, way, x, y) ==
  [p \in DOMAIN at |-> IF x[p] = None THEN <<None, None>>
                       ELSE IF kgds.flag = 8 THEN Oriented(at[p], <<x[p], y[p]>>, way)
                       ELSE <<x[p], y[p]>>]

Part(vectors, i) == [p \in DOMAIN vectors |-> vectors[p][i]]

\* The components relative to the earth are interpolated.
FromEarth(s, kgds_out, in, out, earth) ==
  WithGrid(kgds_out, out, -1, IPOLATES(s, in, out, Part(earth, 1)),
                              IPOLATES(s, in, out, Part(earth, 2)))

IPOLATEV(s, kgds, kgds_out, in, out, u, v) ==
  FromEarth(s, kgds_out, in, out, WithGrid(kgds, in, 1, u, v))

----------------------------------------------------------------------------
(* A record. *)

\* Sections 1, 3 and 4 of the first component, whose parameter has been given the next
\* number.
GoesWith(l, c) == l.has_u /\ \A i \in {1, 3, 4} : c[i] = l.sec[i]

UHeld(l, c, data) ==
  [has_u |-> TRUE, shape |-> l.shape, sec3 |-> l.sec3,
   sec |-> [c EXCEPT ![4].par = Vectors[@]], par |-> c[4].par, val |-> data]

UDone(l) == [has_u |-> FALSE, shape |-> l.shape, sec3 |-> l.sec3]

\* The points where both components are.
Both(u, v) == {p \in DOMAIN v : None \notin {u[p], v[p]}}

WhereBoth(vals, both) == [p \in DOMAIN vals |-> IF p \in both THEN vals[p] ELSE None]

WriteVectors(l, c, pair) ==
  [loc |-> UDone(l),
   out |-> <<grib_wrt(c, [c[4] EXCEPT !.par = l.par], Part(pair, 1)),
             grib_wrt(c, c[4], Part(pair, 2))>>]

\* A scalar, or the second component after the first.
OnNewGrid(l, c, data, s, kgds, kgds_out, is_v) ==
  LET in == PlacesOf(kgds)
      out == PlacesOf(kgds_out)
      both == Both(l.val, data)
      new == [c EXCEPT ![3] = l.sec3]
  IN  IF is_v
      THEN WriteVectors(l, new, IPOLATEV(s, kgds, kgds_out, in, out,
                                         WhereBoth(l.val, both), WhereBoth(data, both)))
      ELSE Write(l, grib_wrt(new, c[4], IPOLATES(s, in, out, data)))

NewGridRecord(l, c, data, s, kgds) ==
  LET is_v == c[4].par \in {Vectors[u] : u \in s.vectors}
      kgds_out == mk_kgds(l.sec3)
  IN  IF is_v /\ ~GoesWith(l, c) THEN Keep(l)
      ELSE IF c[4].par \in s.vectors THEN Keep(UHeld(l, c, data))
      ELSE IF kgds = None THEN None
      ELSE IF ~Meet(kgds, kgds_out) THEN None
      ELSE OnNewGrid(l, c, data, s, kgds, kgds_out, is_v)

f_new_grid(o, l, c, data, s, order) ==
  IF order # "raw" THEN None
  ELSE NewGridRecord(Remade(o, l, c[3]), c, data, s, mk_kgds(c[3]))
=============================================================================

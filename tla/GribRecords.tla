---------------------------- MODULE GribRecords ----------------------------
(* One GRIB2 record as wgrib2's options see it: the sections sec points   *)
(* to, the decoded field in the order the user asked for, and the table    *)
(* that leads back to the order of the file (Scan.c, Grib.c, unpk.c).      *)
(*                                                                         *)
(* Sections are records: [n |-> 1, ref, id], [n |-> 2, local],             *)
(* [n |-> 3, scan, nx, ny], [n |-> 4, pdt, par, ft, end, miss, ranges],    *)
(* [n |-> 5, ndpts], [n |-> 6, ibmap, bits] and [n |-> 7, data].  Times    *)
(* are in the unit of the forecast times.  The octets of section 0 besides *)
(* the length are part of id.                                              *)
EXTENDS GribSections, FiniteSets

CONSTANT None       \* UNDEFINED, a NULL pointer, a section that is not there

----------------------------------------------------------------------------
(* The sections sec points to. *)

Contents(secs, sec) ==
  LET At(i) == IF sec[i] = Null THEN None ELSE secs[sec[i]]
  IN  <<At(1), At(2), At(3), At(4), At(5), At(6), At(7)>>

npnts(c) == c[3].nx * c[3].ny

\* The decoders write the packed values at the points of the bitmap, UNDEFINED
\* elsewhere.  parse_next_msg has replaced a reused bitmap by the bitmap itself.
unpk_grib(c) ==
  LET bits == c[6].bits
      rank(p) == Cardinality({q \in 1 .. p : bits[q] = 1})
  IN  IF c[6].ibmap = 255 THEN c[7].data
      ELSE [p \in 1 .. npnts(c) |-> IF bits[p] = 1 THEN c[7].data[rank(p)] ELSE None]

\* What grib_wrt packs: a bitmap when a value is undefined, the defined values.
mk_bms(vals) ==
  IF \A p \in DOMAIN vals : vals[p] # None THEN [n |-> 6, ibmap |-> 255]
  ELSE [n |-> 6, ibmap |-> 0, bits |-> [p \in DOMAIN vals |-> IF vals[p] = None THEN 0 ELSE 1]]

Defined(vals) == SelectSeq(vals, LAMBDA v : v # None)

\* A message is the sequence of the sections that are there.
wrt_sec(c) == SelectSeq(c, LAMBDA s : s # None)

\* A decoded field written with the metadata of c, its section 4 replaced.
grib_wrt(c, sec4, vals) ==
  wrt_sec([c EXCEPT ![4] = sec4,
                    ![5] = [n |-> 5, ndpts |-> Len(Defined(vals))],
                    ![6] = mk_bms(vals),
                    ![7] = [n |-> 7, data |-> Defined(vals)]])

----------------------------------------------------------------------------
(* The scanning order. *)

Bit(scan, b) == (scan \div b) % 2 = 1

\* Position in the file of column i and row j, counted from 0 in the south west.
ij2p(i, j, scan, nx, ny) ==
  LET row == IF Bit(scan, 64) THEN j ELSE ny - 1 - j
      back == IF Bit(scan, 16) /\ row % 2 = 1 THEN nx - 1 - i ELSE i
      col == IF Bit(scan, 128) THEN nx - 1 - back ELSE back
  IN  1 + (IF Bit(scan, 32) THEN row + col * ny ELSE col + row * nx)

\* The position in the file of each value in the order west to east, south to north,
\* or None when the file has that order.
to_we_sn_scan(scan, nx, ny) ==
  IF scan \div 16 = 4 THEN None
  ELSE [p \in 1 .. nx * ny |-> ij2p((p - 1) % nx, (p - 1) \div nx, scan, nx, ny)]

to_we_ns_scan(scan, nx, ny) ==
  IF scan \div 16 = 0 THEN None
  ELSE [p \in 1 .. nx * ny |-> ij2p((p - 1) % nx, ny - 1 - (p - 1) \div nx, scan, nx, ny)]

Ordered(vals, tr) == IF tr = None THEN vals ELSE [p \in DOMAIN vals |-> vals[tr[p]]]

undo_output_order(data, tr) ==
  IF tr = None THEN data
  ELSE [q \in DOMAIN data |-> data[CHOOSE p \in DOMAIN data : tr[p] = q]]
=============================================================================

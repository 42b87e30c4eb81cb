---------------------------- MODULE VectorPairs ----------------------------
(* wgrib2's options that put records together in one message (-ncep_uv,    *)
(* -submsg_uv, -tosubmsg) or make one field of two (-wind_speed,           *)
(* -wind_dir).  The options have a state loc and steps as in TimeSeries.   *)
EXTENDS TimeSeries

CONSTANT Vectors        \* the second component of a vector for the name of the first

NoU == [has_u |-> FALSE]

Cached(c) == [has_u |-> TRUE, sec |-> c]

\* Sections 1 to 4 are the same when the name of the parameter is.
SameButName(a, b) ==
  /\ \A i \in 1 .. 3 : a[i] = b[i]
  /\ [a[4] EXCEPT !.par = b[4].par] = b[4]

IsU(par) == par \in DOMAIN Vectors

\* Sections 1 to 3 once, 4 to 7 of each.
Pair(u, v) ==
  wrt_sec(SubSeq(v, 1, 3)) \o wrt_sec(SubSeq(u, 4, 7)) \o wrt_sec(SubSeq(v, 4, 7))

\* A first component waits for the next record: both go in one message, or it is written
\* alone before the next is.
NextComponent(l, c, is_u, is_v) ==
  LET alone == IF l.has_u THEN <<wrt_sec(l.sec)>> ELSE <<>>
  IN  IF l.has_u /\ is_v /\ SameButName(c, l.sec) THEN Write(NoU, Pair(l.sec, c))
      ELSE IF is_u THEN [loc |-> Cached(c), out |-> alone]
      ELSE [loc |-> NoU, out |-> Append(alone, wrt_sec(c))]

f_ncep_uv(l, c) == NextComponent(l, c, c[4].par = "UGRD", c[4].par = "VGRD")

f_submsg_uv(l, c) ==
  NextComponent(l, c, IsU(c[4].par), l.has_u /\ c[4].par = Vectors[l.sec[4].par])

LastU(l) == IF l.has_u THEN Write(NoU, wrt_sec(l.sec)) ELSE Keep(l)

----------------------------------------------------------------------------
(* Wind_speed.c, Wind_dir.c.  Only the names UGRD and VGRD. *)

\* A speed is given by its square, a direction by the two components.
Speed(u, v) == IF None \in {u, v} THEN None ELSE u * u + v * v
Direction(u, v) == IF None \in {u, v} THEN None ELSE <<u, v>>

GridRelative(c) == Bit(c[3].flag, 8)

\* A first component is kept until a second one fits it; both is what is made of the two.
Second(l, c, data, tr, name, both) ==
  IF c[4].par = "UGRD"
  THEN Keep([has_u |-> TRUE, sec |-> [c EXCEPT ![4].par = "VGRD"], val |-> data])
  ELSE IF ~l.has_u \/ \E i \in {1, 3, 4} : c[i] # l.sec[i] THEN Keep(l)
  ELSE Write(NoU, grib_wrt(l.sec, [l.sec[4] EXCEPT !.par = name], undo_output_order(both, tr)))

f_wind_speed(l, c, data, tr) ==
  Second(l, c, data, tr, "WIND", [p \in DOMAIN data |-> Speed(l.val[p], data[p])])

\* Directions are only made of components that are relative to the earth.
f_wind_dir(l, c, data, tr) ==
  LET both == [p \in DOMAIN data |-> Direction(l.val[p], data[p])]
      step == Second(l, c, data, tr, "WDIR", both)
  IN  IF step.out # <<>> /\ GridRelative(c) THEN Keep(NoU) ELSE step

----------------------------------------------------------------------------
(* Tosubmsg.c.  The message is complete when the last step has written its *)
(* end and its length.                                                     *)

NoMessage == [last |-> None, secs |-> <<>>]

\* The sections not written again: 2, or 2 and 3.
Skipped(last, c) ==
  {i \in 2 .. 3 : \A k \in 2 .. i : c[k] = last[k]}

\* Mutant: any bitmap after a bitmap is taken for the same.
RepeatedAny(last, c) ==
  IF c[6].ibmap = 0 /\ last[6].ibmap = 0 THEN [c EXCEPT ![6] = [n |-> 6, ibmap |-> 254]] ELSE c

\* A bitmap that is the one before is replaced by indicator 254.
Repeated(last, c) ==
  IF c[6].ibmap = 0 /\ c[6] = last[6] THEN [c EXCEPT ![6] = [n |-> 6, ibmap |-> 254]] ELSE c

write_tosubmsg(l, c) ==
  LET written == SelectSeq(Repeated(l.last, c),
                           LAMBDA s : s # None /\ s.n # 1 /\ s.n \notin Skipped(l.last, c))
  IN  IF l.last = None THEN Keep([last |-> c, secs |-> wrt_sec(c)])
      ELSE IF c[1] # l.last[1] THEN Keep(l)
      ELSE Keep([last |-> c, secs |-> l.secs \o written])

cleanup_tosubmsg(l) == IF l.last = None THEN Keep(l) ELSE Write(l, l.secs)
=============================================================================

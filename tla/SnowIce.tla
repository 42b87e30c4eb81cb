------------------------------ MODULE SnowIce -------------------------------
(***************************************************************************)
(* The surface fields of wrf_inout: update_SNOWICE_netcdf_mass trims and   *)
(* builds snow after the IMS snow cover and makes the land parameters of   *)
(* water and ice consistent; surface_consistent_check_netcdf_mass does the *)
(* latter alone.  Both read the file, change their arrays and write the    *)
(* fields back one by one: a run may be cut off between two writes and the *)
(* program started again on what it left.                                  *)
(*                                                                         *)
(* Snow water is in mm, snow depth in mm, snow cover in 1/32, sea ice in   *)
(* 1/1000; quotients are truncated.  Temperatures and soil moisture of a   *)
(* point, which nothing here reads, are left out.                          *)
(***************************************************************************)
EXTENDS Integers, Sequences

CONSTANTS
  nlon, nlat,     \* the model grid
  Surfaces,       \* what a point may be: see WellFormedSurface
  Backgrounds,    \* the snow a point may have: [snow, snowh, snowc]
  Garbage,        \* what unassigned memory may hold: records like these
  MaxCrashes,     \* bound: runs that are cut off
  Nowhere         \* stands for a position outside the grid

npoint == nlon * nlat
Point == 1 .. npoint            \* in the order of the loops and of memory
I(p) == ((p - 1) % nlon) + 1
J(p) == ((p - 1) \div nlon) + 1
At(i, j) == (j - 1) * nlon + i

SnowField == {"SNOWC", "SNOWH", "SNOW"}
LandField == {"LANDMASK", "XLAND", "LU_INDEX", "ISLTYP", "IVGTYP"}
WriteOrder == <<"SNOWC", "SNOWH", "SNOW", "LANDMASK", "XLAND", "LU_INDEX",
                "ISLTYP", "IVGTYP">>
CheckOrder == <<"LANDMASK", "XLAND", "LU_INDEX", "ISLTYP", "IVGTYP">>
Snow == [snow : Int, snowh : Int, snowc : Int]

(* xland of the geogrid file (1 land, 0 water), SEAICE, the IMS snow cover,*)
(* precipitation and surface temperature below 278 K: read, never written. *)
WellFormedSurface(s) ==
  /\ s.xland \in {0, 1} /\ s.seaice \in 0..1000
  /\ s.snowiceRR \in BOOLEAN /\ s.precip \in BOOLEAN /\ s.cold \in BOOLEAN
ASSUME SnowIceAssumption ==
  /\ nlon \in Nat \ {0} /\ nlat \in Nat \ {0}
  /\ \A s \in Surfaces : WellFormedSurface(s)
  /\ Backgrounds \subseteq Snow /\ Garbage \subseteq Snow
  /\ MaxCrashes \in Nat /\ Nowhere \notin Point

VARIABLES
  surface,    \* per point
  file,       \* the fields of wrf_inout
  stage,      \* which program runs and where it is
  mem,        \* its arrays
  RRbk,       \* snowRRbk, snowhRRbk, snowcRRbk
  next,       \* the next point of the scan, or field of the list, to do
  itr, tr,    \* the last point trimmed and snowtr, snowhtr, snowctr
  crashes     \* runs cut off so far

vars == <<surface, file, stage, mem, RRbk, next, itr, tr, crashes>>
arrays == <<mem, RRbk, itr, tr>>

OnLand(p) == surface[p].xland = 1
xice_threshold == 20
WaterValues == [LANDMASK |-> 0, XLAND |-> 2, LU_INDEX |-> 17, ISLTYP |-> 14, IVGTYP |-> 17]
IceValues == [LANDMASK |-> 1, XLAND |-> 1, LU_INDEX |-> 15, ISLTYP |-> 16, IVGTYP |-> 15]
LandValues == [LANDMASK |-> 1, XLAND |-> 1, LU_INDEX |-> 7, ISLTYP |-> 3, IVGTYP |-> 7]

NoSnow == [snow |-> 0, snowh |-> 0, snowc |-> 0]

(* Between two programs there are no arrays: they are shown as the file.   *)
Released == mem' = file' /\ RRbk' = file' /\ itr' = Nowhere /\ tr' = NoSnow

Init ==
  /\ surface \in [Point -> Surfaces]
  /\ \E b \in [Point -> Backgrounds], v \in {WaterValues, IceValues} :
       file = [f \in SnowField \cup LandField |-> [p \in Point |->
                 CASE f = "SNOW" -> b[p].snow
                   [] f = "SNOWH" -> b[p].snowh
                   [] f = "SNOWC" -> b[p].snowc
                   [] OTHER -> IF OnLand(p) THEN LandValues[f] ELSE v[f]]]
  /\ stage = "idle"
  /\ mem = file /\ RRbk = file /\ itr = Nowhere /\ tr = NoSnow
  /\ next = 1 /\ crashes = 0

-----------------------------------------------------------------------------
(* Reading; itr, jtr and snowtr are not initialised.                       *)

Read ==
  /\ stage = "idle" /\ stage' = "scan"
  /\ itr' \in Point \cup {Nowhere} /\ tr' \in Garbage
  /\ UNCHANGED <<surface, file, mem, RRbk, next, crashes>>

-----------------------------------------------------------------------------
(* One point of the scan: trim or build, limit, make consistent.           *)

SnowAt(p) == [snow |-> mem["SNOW"][p], snowh |-> mem["SNOWH"][p], snowc |-> mem["SNOWC"][p]]
IceFree(p) == surface[p].seaice < 990       \* int(seaice + 0.01) == 0

Larger(a, b) == IF a > b THEN a ELSE b
Smaller(a, b) == IF a < b THEN a ELSE b

Trims(p) == /\ OnLand(p) /\ IceFree(p)
            /\ ~surface[p].snowiceRR /\ ~surface[p].precip /\ mem["SNOW"][p] > 0
(* Mutant: the test for absent snow is turned round.                       *)
BuildsOnlyOverSnow(p) == /\ OnLand(p) /\ IceFree(p) /\ surface[p].snowiceRR
                         /\ mem["SNOW"][p] > 0 /\ surface[p].cold
Builds(p) == /\ OnLand(p) /\ IceFree(p)
             /\ surface[p].snowiceRR /\ mem["SNOW"][p] = 0 /\ surface[p].cold

(* At least 1 mm of water, with the density water / depth kept between     *)
(* 58.8 and 500 kg/m3; within these limits the depth is kept.              *)
LayerOf(water, depth) ==
  LET snow == Larger(1, water)
      snowh == IF 10000 * water < 588 * depth THEN (10000 * snow) \div 588
               ELSE IF 10000 * water > 5000 * depth THEN 2 * snow
               ELSE depth
  IN  [snow |-> snow, snowh |-> snowh, snowc |-> Smaller(32, snow)]
Minimal == [snow |-> 1, snowh |-> 4, snowc |-> 1]

Window(p) == {q \in Point : /\ I(q) - I(p) \in -2..2 /\ J(q) - J(p) \in -2..2
                            /\ OnLand(q)}
Rich(p) == {q \in Window(p) : RRbk["SNOW"][q] > 1}

(* The sum of the values x of the points of Rich(p).                       *)
RichSum(p, x) ==
  LET sum[q \in 0..npoint] ==
        IF q = 0 THEN 0
        ELSE sum[q - 1] + (IF q \in Rich(p) THEN x[q] ELSE 0)
  IN  sum[npoint]
numnb(p) == RichSum(p, [q \in Point |-> 1])
Average(p, f) == RichSum(p, RRbk[f]) \div numnb(p)

Built(p) ==
  IF itr \in Window(p)
    THEN IF tr.snowh > 0 THEN LayerOf(tr.snow, tr.snowh) ELSE Minimal
  ELSE IF Rich(p) # {} /\ Average(p, "SNOWH") > 0 /\ Average(p, "SNOW") > 0
    THEN LayerOf(Average(p, "SNOW"), Average(p, "SNOWH"))
  ELSE Minimal

TrimOrBuild(p) ==
  IF Trims(p) THEN NoSnow ELSE IF Builds(p) THEN Built(p) ELSE SnowAt(p)

(* The four diagonal neighbours, clipped to the grid, in the arrays as they*)
(* are; when their sum is too large too, the element before them all, which*)
(* lies outside the array for the first points.                            *)
Huge(s) == s.snowh > 50000 \/ s.snow > 20000
Diagonal(p, a, b) ==
  At(Smaller(Larger(I(p) + a, 1), nlon), Smaller(Larger(J(p) + b, 1), nlat))
Limited(p, s, outside) ==
  LET value(a, b) == IF Diagonal(p, a, b) = p THEN s ELSE SnowAt(Diagonal(p, a, b))
      newvalue == value(-1, -1).snow + value(1, -1).snow + value(-1, 1).snow + value(1, 1).snow
      newvalueh ==
        value(-1, -1).snowh + value(1, -1).snowh + value(-1, 1).snowh + value(1, 1).snowh
      before == IF p - nlon - 1 \in Point THEN SnowAt(p - nlon - 1) ELSE outside
  IN  IF s.snowh < 0 \/ s.snow < 0 THEN [s EXCEPT !.snow = 0, !.snowh = 0]
      ELSE IF ~Huge(s) THEN s
      ELSE IF newvalue < 100000 /\ newvalueh < 200000
        THEN [s EXCEPT !.snow = newvalue \div 4, !.snowh = newvalueh \div 4]
      ELSE [s EXCEPT !.snow = before.snow, !.snowh = before.snowh]

Consistent(s) ==
  IF (s.snow <= 0 /\ s.snowh > 0) \/ (s.snowh <= 0 /\ s.snow > 0) THEN NoSnow ELSE s

ScanPoint ==
  /\ stage = "scan" /\ next \in Point
  /\ \E outside \in Garbage :
       LET s == Consistent(Limited(next, TrimOrBuild(next), outside))
       IN  mem' = [mem EXCEPT !["SNOW"][next] = s.snow, !["SNOWH"][next] = s.snowh,
                              !["SNOWC"][next] = s.snowc]
  /\ itr' = IF Trims(next) THEN next ELSE itr
  /\ tr' = IF Trims(next) THEN SnowAt(next) ELSE tr
  /\ next' = next + 1
  /\ UNCHANGED <<surface, file, stage, RRbk, crashes>>

-----------------------------------------------------------------------------
(* Land parameters of water and ice, and snow on water.                    *)

SurfaceValues(p) ==
  IF surface[p].seaice < xice_threshold THEN WaterValues ELSE IceValues

(* Mutant: a point is taken for land by the XLAND of the file.             *)
SecurityCheckByXland(fields) ==
  [f \in SnowField \cup LandField |-> [p \in Point |->
     IF f \in LandField /\ fields["XLAND"][p] = 2 THEN SurfaceValues(p)[f] ELSE fields[f][p]]]

SecurityCheck(fields) ==
  [f \in SnowField \cup LandField |-> [p \in Point |->
     IF f \in LandField /\ ~OnLand(p) THEN SurfaceValues(p)[f] ELSE fields[f][p]]]

SnowOffWater(fields) ==
  [f \in SnowField \cup LandField |-> [p \in Point |->
     IF /\ f \in SnowField /\ ~OnLand(p)
        /\ surface[p].seaice < 1 /\ fields["SNOW"][p] > 0
     THEN 0 ELSE fields[f][p]]]

CheckWater ==
  /\ stage = "scan" /\ next = npoint + 1
  /\ stage' = "write" /\ next' = 1
  /\ mem' = SnowOffWater(SecurityCheck(mem))
  /\ UNCHANGED <<surface, file, RRbk, itr, tr, crashes>>

Write ==
  /\ stage = "write"
  /\ file' = [file EXCEPT ![WriteOrder[next]] = mem[WriteOrder[next]]]
  /\ IF next = Len(WriteOrder)
       THEN stage' = "updated" /\ next' = 1 /\ Released
       ELSE next' = next + 1 /\ UNCHANGED <<stage, arrays>>
  /\ UNCHANGED <<surface, crashes>>

-----------------------------------------------------------------------------
(* surface_consistent_check_netcdf_mass.                                   *)

ReadAndCheck ==
  /\ stage \in {"idle", "updated"} /\ stage' = "check"
  /\ mem' = SecurityCheck(file)
  /\ UNCHANGED <<surface, file, RRbk, next, itr, tr, crashes>>

WriteChecked ==
  /\ stage = "check"
  /\ file' = [file EXCEPT ![CheckOrder[next]] = mem[CheckOrder[next]]]
  /\ IF next = Len(CheckOrder)
       THEN stage' = "checked" /\ next' = 1 /\ Released
       ELSE next' = next + 1 /\ UNCHANGED <<stage, arrays>>
  /\ UNCHANGED <<surface, crashes>>

(* A run ends without an end of its program.                               *)
Crash ==
  /\ stage \in {"scan", "write", "check"} /\ stage' = "idle"
  /\ crashes < MaxCrashes /\ crashes' = crashes + 1
  /\ UNCHANGED <<surface, file>>
  /\ next' = 1 /\ Released

Done == stage = "checked" /\ UNCHANGED vars

Next == \/ Read \/ ScanPoint \/ CheckWater \/ Write
        \/ ReadAndCheck \/ WriteChecked \/ Crash \/ Done

Spec == Init /\ [][Next]_vars

-----------------------------------------------------------------------------
(* Properties.                                                             *)

(* The file and the arrays have every field at every point.                *)
Fields == [SnowField \cup LandField -> [Point -> Int]]
TypeOK ==
  /\ surface \in [Point -> Surfaces]
  /\ file \in Fields /\ mem \in Fields /\ RRbk \in Fields
  /\ stage \in {"idle", "scan", "write", "updated", "check", "checked"}
  /\ next \in 1 .. (CASE stage = "scan" -> npoint + 1 [] stage = "write" -> Len(WriteOrder)
                       [] stage = "check" -> Len(CheckOrder) [] OTHER -> 1)
  /\ itr \in Point \cup {Nowhere} /\ tr \in Snow
  /\ crashes \in 0..MaxCrashes

(* The snow that a run is about to write respects IMS, whatever runs were  *)
(* cut off before: none on dry land where IMS has none, corrupt backgrounds*)
(* included, but for a depth of more than 50 m without water, which gets   *)
(* the mean of its neighbours; and some on cold land where IMS has it,     *)
(* unless the background of the point or of its window is corrupt or the   *)
(* unassigned memory looks like a corrupt layer, which is copied untested. *)
Background(p) == [snow |-> RRbk["SNOW"][p], snowh |-> RRbk["SNOWH"][p]]
Corrupted(b) == Huge(b) \/ b.snow < 0 \/ b.snowh < 0
DeepWithoutWater(b) == b.snow = 0 /\ b.snowh > 50000
(* Unassigned memory that does not look like a corrupt layer.              *)
PlausibleMemory == \A g \in Garbage : ~Corrupted(g)

NoSnowLeft(p) == mem["SNOW"][p] = 0 /\ mem["SNOWH"][p] = 0
SomeSnow(p) == mem["SNOW"][p] >= 1 /\ mem["SNOWH"][p] >= 1
MustBeBare(p) ==
  ~surface[p].snowiceRR /\ ~surface[p].precip /\ ~DeepWithoutWater(Background(p))
MustHaveSnow(p) ==
  /\ PlausibleMemory /\ surface[p].snowiceRR /\ surface[p].cold
  /\ \A q \in Window(p) : ~Corrupted(Background(q))
  /\ Background(p).snow > 0 => Background(p).snowh > 0
ImsRespectedAt(p) ==
  OnLand(p) /\ IceFree(p) => /\ MustBeBare(p) => NoSnowLeft(p)
                             /\ MustHaveSnow(p) => SomeSnow(p)
ImsRespected == stage = "write" => \A p \in Point : ImsRespectedAt(p)

(* 'consistency of all land surface parameters on water/ice': the five are *)
(* those of water or those of ice after a run of either program that ends, *)
(* and those of land are never touched.                                    *)
ParametersConsistent ==
  stage \in {"updated", "checked"} =>
    \A p \in Point, f \in LandField :
      file[f][p] = IF OnLand(p) THEN LandValues[f] ELSE SurfaceValues(p)[f]

=============================================================================

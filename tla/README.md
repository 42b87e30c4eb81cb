# Verification of GSD_utils

GSD_utils is a collection of programs around the RAP/HRRR and global chemistry
forecast systems: observation preprocessors run before the analysis, in-place
updates of the model background, smoke and emission preparation, and ensemble
and verification tools. Nearly all are Fortran programs, alone or under MPI,
plus the shell scripts that drive them. There is no common library to speak of:
the parts meet in *files* (an observation file written by one program and read
by the analysis, `wrf_inout` changed by one program after the other, emission
files published in a common directory and copied by a forecast). The one large
program among them is wgrib2 (`tools/wgrib2/wgrib2.v2.0.7`), in C, with the
GRIB2 codec g2clib: it reads, selects, combines, edits and converts the records
of GRIB2 files, and most of the implementation's lines are its.

What is hard to test here is therefore seldom an algorithm alone. It is what an
MPI job does when one of its ranks stops, what a file looks like when a program
is cut off between two writes, what two overlapping executions of a script leave
behind, and what a loop over the grid reads in places that the same loop has
already changed, or that nobody has assigned. In wgrib2 it is what an option
remembers from the records before, and whether two independent readers of the
same octets agree.

Contents: 1 inventory; 2 plan; 3 what each module models; 4 the runs;
5 fairness; 6 the proofs; 7 what is only model-checked; 8 findings; 9 what is
not modelled. `PROJECT.json` maps every definition to the source lines it stands
for. Paths below are relative to the repository. Line numbers with a two-letter
prefix: PM `data_process/mosaic/all/process_NSSL_mosaic.f90`, WB
`data_process/mosaic/all/write_bufr_ref.f90`, PC
`smoke/workflow/emc-global/scripts/exglobal_prep_chem.bash`, GL
`smoke/workflow/emc-global/ush/global_link_chem.bash`, IM
`data_process/imssnow/netcdf/process_NESDIS_imssnow.f90`, US
`data_process/imssnow/netcdf/update_SNOWICE_netcdf_mass.f90`, SC
`data_process/imssnow/check_consist/surface_consistent_check_netcdf_mass.f90`.
Files of wgrib2 and g2clib are named without their directories (`wgrib2/` and
`g2clib-1.4.0/` under `tools/wgrib2/wgrib2.v2.0.7`).

## 1. Inventory

### Modelled

**Radar mosaic** (`data_process/mosaic/all`). An MPI job.
*State*: per rank the file it owns, the level that file belongs to, its own
three-dimensional field `ref3d`; the receive buffer `ref0` of the reduction on
rank 0; three output files. *Operations*: check the number of ranks, read the
list of files or name the tile, read the header, read and interpolate, two
barriers, `MPI_REDUCE(MPI_MAX)`, three writes, finalize. *Interactions*: the
ranks meet in the barriers and the reduction only; every rank reads the same
namelist and list of files; the products are read by the cloud analysis.
*Hard*: any rank may `stop` at a point of its own while the others wait; files
may come in any order of heights, overlap or be missing; "no observation" (-999)
and "no echo" (-99) are ordinary numbers in the maximum; a variable that is
never assigned in one mode is read. *Correct when*: the product is the pointwise
maximum of what the files observe, it is never written by an incomplete job,
SUCCESS means complete, and nobody waits forever.

**Chemistry preparation scripts** (`smoke/workflow/emc-global`). *State*: the
satellite feeds' directories, the working directory of each job, the common
directory COMOUTchem of the cycle, the forecast's EMISDIR. *Operations*: make
the working directories, link fire files, choose the day of the GBBEPx files,
run `prep_chem_sources`, publish tile by tile (`rm`, `cp`, `mv`); link into the
forecast, one `cp` per file straight onto its name. *Interactions*: job, rerun,
feeds, scrubber and forecast share directories and nothing else: no lock. *Hard*: overlapping reruns, death between
two commands, files that arrive or vanish between a test and its use.
*Correct when*: nothing half-copied ever has a published name, a forecast goes
on with whole copies only, a death costs one file at most, Success! means
everything was published, and only a complete day of GBBEPx files is used.

**IMS snow and ice** (`data_process/imssnow`). *State*: the IMS mask and fields,
the fields of `wrf_inout`, local variables that keep values from one grid point
to the next. *Operations*: map the 6144 by 6144 IMS grid to the model grid
(`map2RR`); trim and build snow, limit it, make the land parameters of water and
ice consistent, write eight surface fields; the same check as a program of its
own (`check_consist`). *Interactions*: all of them change `wrf_inout` in place,
one after the other; the next cycle's background comes out of it. *Hard*: a scan
that reads neighbours it has partly changed; variables that are not initialised;
a run cut off between two fields and started again. *Correct when*: land takes
its value from land and water from water, snow follows the IMS cover whatever
the background was, and parameters agree with the surface.

**g2clib: sections of a message** (`g2_create.c` .. `g2_getfld.c`). *State*: the
caller's buffer. *Operations*: create, add a local section, a grid, a field, end;
count and read. *Interactions*: each call scans the buffer to find out where it
is; wgrib2 reads the same octets with a parser of its own (`parse_msg.c`).
*Hard*: any order of calls, refused ones included; bitmaps and grids that later
fields reuse; templates extended by a length that their own entries give.
*Correct when*: the sections are in an order a reader accepts, and both readers
find the fields the caller was told are in the message.

**Packing** (`compack.c`, `misspack.c`, `pack_gp.c`, `reduce.c`, `complex_pk.c`,
`simple_pk.c` and the decoders). *State*: the groups closed so far, the two
groups points move between, the list of sections. *Interactions*: two libraries
choose groups in ways that have nothing in common and must read each other.
*Hard*: codes of all ones stand for missing values; groups are split, merged and
taken back with extremes that must be kept; integers at their width; buffers
with room for a number of groups. *Correct when*: groups cover the points
without gap or overlap, and a field comes back as it was.

**wgrib2: main loop, selection, output** (`wgrib2.c`, `Match.c`, `If.c`,
`Scan.c`, ...). *State*: the switches, what has been read, the pointers to the
sections of the record, the decoded field with the table that gives it the
user's order, and a state of its own for each option. *Operations*: each option
is called once before the file is read, once per selected record, and once
after. *Hard*: inventories that name records in any order; decoded values, tables
and coordinates kept from a record on another grid. *Correct when*: the records
asked for are those that come out, with their own values.

**wgrib2: series, periods, vectors, submessages** (`Ave.c`, `Fcst_ave.c`,
`Time_processing.c`, `NCEP_norm.c`, `Merge_fcst.c`, `Submsg_uv.c`, `NCEP_uv.c`,
`Wind_speed.c`, `Tosubmsg.c`). *State*: sums, counts, the record held back.
*Hard*: a gap, a record of another series, another grid or the end of the input
in the middle of what is being gathered. *Correct when*: no record is left out or
used twice, and nothing is combined with what it does not belong to.

**wgrib2: calculator** (`RPN.c`, `RPN_rcl.c`, `Import_grib.c`), **grid points and
subsets** (`geo.c`, `Undefine.c`, `Small_grib.c`), **values at places** (`Lon.c`,
`gctpc_ll2xy.c`, `lat2ij.c`, ...), **new grids** (`New_grid.c`). *State*: registers
that outlive the record; coordinates, corners and nearest points kept while the
grid is the same; the first component of a vector until the second comes.
*Correct when*: a formula means what it says for its own record; the points
written are those of the box, at their places; a vector is interpolated from two
components that belong together.

**wgrib2: netCDF files** (`Netcdf.c`, `Netcdf_sup.c`). *State*: the file with its
growing axis of time and its fixed axis of levels, an index kept from the last
record. *Hard*: records in any order of times; packings and tables of levels
given for some variables; going on with a file that gives back only part of what
the first run knew. *Correct when*: every record is found under its name, time
and level, and the axes say what is so.

**wgrib2: product definition edits** (`CodeTable.c`, `Code_Values.c`, `Set_*.c`).
*State*: the section being edited. *Hard*: about forty tables say at which octet
of each template an item lies. *Correct when*: both libraries read the same items
at the same octets, and an option carries over what it is not there to change.

### Planned (section 2)

| component | state and operations | hard | correct when |
|---|---|---|---|
| `data_process/mosaic/merge_aqpi` | per rank two files of one height, matched from two lists; writes `.merged` | a rank that stops at a mismatch (stop 1234, `merge_mosaic_aqpi.f90:157`) leaves the others at the barrier; repeated heights match several times; two ranks may write one file | each matched level up to 4000 m has one merged file, the operational value is replaced only where it is missing |
| `smoke/prep-chem/cycle_netcdf` | scan of the variables asked for, then a copy of one after the other | failure at any variable: the usage text promises that the ones before it have been written | all or a prefix, never a variable of the wrong shape |
| `tools/cutperts`, `tools/genSpread` | files or variables dealt to MPI ranks, remainder to the last | fewer files than ranks; a single member (division by zero) | every file done once, by one rank |
| `data_process/lightning` | strikes gathered in an array of fixed length, counted per grid cell | array full, counts cut at a maximum, duplicate strikes of two feeds | every strike inside the grid counted once, in one cell |
| `data_process/updatebk`, `lakesurgery` | surface fields of the last cycle copied into the background | choice of the cycle, order of in-place writes, a run cut off | all cycled fields from one cycle; no mixture after a rerun |
| `data_process/nasalarc` | pixels gathered per cell, median, MPI skeleton without reduction | limits of the per-cell arrays, several files | a cell's value is one of its pixels' medians |
| `tools/compof` (`getpairs`) | observations and forecasts matched by station through a hash search | collisions, repeated and missing stations | every pair once |
| `smoke/process-obs/QC` | filters that copy a file of fires line by line | limits and malformed lines | a line is kept exactly when it passes |
| wgrib2's library build | `-rpn` registers, memory files and `@mem:` buffers that outlive a call of `wgrib2()` | the reset between two calls | a call does not see the files and switches of the one before |

### Not to be modelled

`updateBC`, `ssthires`, `updateGVF`, `updateHeight`, `ref2tten*`, `fvcom`,
`satcast`, `clavr`, the readers and printers (`encode_tamdar`, `diag_obscount`,
`check_netcdf`, `binaryIO_check`), the single-purpose tools and `smartinit` are
single-pass numerical codes or format conversions: with the data abstracted
nothing is left to check. Of wgrib2, the texts of code tables, levels and
inventories (most of its small files) keep no state, and the JPEG2000 and PNG
codecs are libraries.
`tools/baselib`, `nceplibs/g2` and `prep_chem_sources` are vendored. The reasons are given one by one in
`PROJECT.json`, `components`.

## 2. Plan

The order is by how much depends on a component and how much can go wrong in it
that its tests do not reach.

1. *Done.* `NsslMosaic`, which is proved to implement the abstract `MosaicMerge`,
   `PrepChem`, `ImsMap` and `SnowIce`; their types and all their safety
   properties that hold proved.
2. *Done.* The GRIB2 tools. First what both readers of a message rest on:
   `G2Templates`, `GribSections`, `GribMessage` (which implements the abstract
   list of fields `GribFields`), `PdtLayout`, `PdtEdit`. Then the values:
   `PackGroups`, `ComplexPk`, `PackedMessage`, composed by `GroupPacking`. Then
   the program: `GribRecords`, the options as steps on a state of their own
   (`TimeSeries`, `VectorPairs`, `GridPoints`, `PointOutput`, `NewGrid`,
   `Calculator`, `Netcdf`), composed by `Wgrib2`, and the promises they are compared with (`Wgrib2Reference`,
   `CalculatorReference`, `NetcdfReference`).
3. Proofs of what is only model-checked. *Done*: all of `ImsMap`, `SnowIce` and
   `GribMessage` (with the refinement of `GribFields`), that templates come back as
   they were written, `GroupsCover` and `LengthsCover` of `PackGroups`,
   `SectionsExact` of `ComplexPk`, `EndOfRanges` and `SizesAgree` of `PdtEdit`. Next:
   `LibrariesAgree` of `PdtEdit`.
4. `AqpiMerge`: the matching of the lists (opt x exp), one rank per level, the
   barriers, the in-place window. Then `PertFiles` (cut_pert and cal_spread_mpi,
   the dealing of files to ranks: every file once, for every number of files and
   ranks), whose main theorem is provable outright.
5. `CycleNetcdf`: the scan and the copy, with failure at each library call; the
   usage text's "Upon failure, variables before the failing variable have been
   written" and "Variables must already be defined in both files" are the
   properties to confront it with.
6. `SurfaceCycle` (full_cycle_surface and lakesurgery) composed with `SnowIce`:
   the programs of one cycle that change `wrf_inout` one after the other. Then
   `Lightning`, the QC filters, `getpairs`, the memory files of wgrib2.

Modules to be proved about have no RECURSIVE operator: recursion is written as a
recursive function or a fold.
Parameters are CONSTANTS with named assumptions in the module that declares
them; `MC*` modules give them small values.

## 3. What each module models

### NsslMosaic (PM, WB) and MosaicMerge

One action per step of a rank, `pc[r]` being where rank `r` is.

| action | code |
|---|---|
| `TooFewCores`, `Setup` | number of ranks against `maxcores`; `maxlvl`; geogrid file (PM 147-229) |
| `ReadFilelist` / `NameTile` | `filelist_mrms`, or the tile's name, with their stops (PM 231-278) |
| `ReadHeader` | `inquire`, header, "Wrong vertical layers" (PM 279-376) |
| `Ingest` | the field is read; MRMS: its height is looked up (PM 377-423) |
| `CallBarrier`, `LeaveBarrier` | the two `mpi_barrier` (PM 424, 533) |
| `Interpolate`, `Overrun` | `ref3d` (PM 426-531); a file with more levels than `ref3d` may crash it |
| `Contribute`, `Write3D` | `MPI_REDUCE`; the first output (PM 535-554) |
| `WriteColumns`, `WriteBufr`, `ReportSuccess`, `Finalize` | PM 556-592, WB |
| `Kill` | the MPI launcher ends the job when a rank has gone without `MPI_FINALIZE` (external) |

`MPI_REDUCE` may combine the ranks in any order, and a rank other than 0 may go
on before rank 0 has everything: `Contribute` does one rank at a time.
*Abstraction*: a mosaic file is a record of its number of levels, its height,
the grid points inside it and, for each point and level, the four raw corner
values with their bilinear weights. Interpolation is done with integers: a
reflectivity is counted in 1/(10 W) dBZ, W being the sum of the weights, so
that mean, `var_scale` and thresholds are exact. `nlevel` starts as any member
of `Uninit`, since only MRMS assigns it. The namelist's `tversion` and the sizes
that PM 158-202 derive from it are constants, so that an instance can scale them
down together.

`MosaicMerge` promises what the job does as a whole: one field that is the
pointwise maximum of the observations, published at most once and whole, never
after a failure, and success only afterwards. `NsslMosaic` implements it under
the mapping at its end (`MergeSpec`): the product is `RefInGSI3D.dat`, a job has
failed as soon as one of its ranks has. That is what makes the refinement say
something: no rank may fail between the first output and SUCCESS, except rank 0
itself in `WriteBufr`, which then never succeeds.

### PrepChem (PC, GL)

Several executions of one job script, for one cycle. `pc[r]` is the section of
the script run `r` is in; a dead run keeps it, so that properties can say what
it was doing.

| action | code |
|---|---|
| `MakeDirs`, `LinkFires` | working directories; MODIS and WF_ABBA loops (PC 52-130) |
| `ScanFile`, `NextDay`, `Decide` | the loop over days and GBBEPx files, file by file (PC 134-180) |
| `PrepChemSources` | the executable (external), SENDCOM (PC 182-211) |
| `Skip`, `Remove`, `StartCopy`, `CopyFails`, `EndCopy`, `Rename` | publishing one entry of `inout_list` for one tile: skip, `rm -f`, `cp -fp`, `mv -T -f` (PC 212-267) |
| `Die` | `set -e`, the time limit, a node |
| `StartLink`, `StartLinkFile`, `EndLinkFile`, `EndLink` | GL: `rm -rf` and the glob; a `cp` per file straight onto its name, in two steps; the end of the loop |
| `LinkFails` | GL 4 (`set -e`): a source that has gone, a `cp` that fails half-way, a kill; EMISDIR stays as it is until the next try |
| `Arrive`, `Purge` | the satellite feed and the scrubber (external) |

A file in COMOUTchem is a record of the run that copied it, the day of its
source and whether it is whole; `cp` is therefore two steps and `mv` one. The
`cp` of the linking reads to its end the file it has opened (`cp.opened`), even
if its name is removed or renamed over meanwhile. A half-made copy can be seen
in EMISDIR, and be left there: that half of `PublishedWhole` (`LinkedWhole`) speaks
of a linking that has ended well, since the caller of GL runs under `set -e` too
and goes no further after one that failed.
`ever` (names published so far) and `calm` (nobody published since the linking
began) are history variables; no action reads them.

### ImsMap (IM)

`map2RR`, one model point per step in the order of its loops: `Skip`,
`TakeNearest`, `TakeBestOfFour`, `Search` are its four ways through (IM
189-342). A point's value is represented by the IMS point it is taken from,
which is what the properties are about. `AREA` is a variable of the module
because it is one of the routine's that keeps its value from point to point: at
the second of the four points it is compared before it is assigned. A model
point says whether it lies north of 55N, which a comment (IM 328-335) makes the
difference when no ring has a match: the code tests it no longer (IM 336) and
takes the nearest point everywhere. `ClosestRing` says nothing of such a point south
of 55N. `Zero` is the value of a point that is not mapped. `Four` has the *signed*
areas the code computes with `NINT`, negative for a point whose fraction is one
half or more.

### SnowIce (US, SC)

The fields of `wrf_inout` as functions of the grid point. `Read`, then one
`ScanPoint` per point in memory order (trim or build, limit, make consistent: US
719-944), `CheckWater` (US 1008-1051), one `Write` per field (US 1165-1377);
`ReadAndCheck` and `WriteChecked` are SC. `Crash` cuts any of them off; the
program is then started again on the file as it is, at most `MaxCrashes` times.
`itr` and `tr` are the trimmed point and its snow that US 772 and later read
without initialisation: `Read` gives them any value of `Garbage`. `Limited`
reads neighbours in the arrays *as they are in the middle of the scan*, and
`Built` reads them in the copy made before it, as the code does. The element
`snow(i-1,j-1)` (US 924) lies outside the array for the first points and is then
any of `Garbage`. *Abstraction*: mm of water and of depth, cover in 1/32, ice in
1/1000, quotients truncated; temperatures and soil moisture, which nothing here
reads back, are left out.

### G2Templates, GribFields, GribSections, GribMessage (g2clib, parse_msg.c)

A message is the sequence of its sections 1 to 7; `cgrib` is the caller's buffer.
`Create`, `AddLocal`, `AddGrid`, `AddField` and `GribEnd` are the whole of
`g2_create`, `g2_addlocal`, `g2_addgrid`, `g2_addfield` and `g2_gribend`, with
their refusals in the order of the code (`ret` is the value returned) and with
the order of the sections they insist on (`OrderRefusal`, `isprevbmap`).
`g2_info` and `g2_getfld` are operators on the sections, with the bitmap and grid
`g2_getfld` keeps from field to field; `GribSections` is wgrib2's own reader
(`parse_1st_msg`, `parse_next_msg`). `G2Templates` has the template tables, the
extensions that depend on a template's own entries, and what a list of entries
becomes when written with the octets of its map and read again. `asked` is a
history variable: what the caller was told is in the message. `GribFields`
promises that a message is a list of fields with the grid, local section and
bitmap in force; `GribMessage` implements it (`MessageSpec`). *Abstraction*: an
octet is `OctetBits` bits wide, so that small numbers already do not fit; byte
counts are left out, as every call adds what it wrote; packed values stand for
themselves.

### PdtLayout, PdtEdit (CodeTable.c, Code_Values.c, Set_pdt.c, Set_*.c)

`PdtLayout` says where wgrib2 finds each item of a product definition template.
`PdtEdit` has one action per option: `SetPdt` (`-set_pdt`, with or without a
copy), `SetEnsNum`, `SetEnsmDerived`, `SetPercentile`, `SetProb`, `SetFtime1`,
`SetFtime2`, `SetDate`, `SetMetadata`. The section is a function from octets to
values; an octet without a meaning of its own is its own name, so that it is
known wherever it goes. `new_pdt` follows the code: size, blank section, the
items copied one by one, the block of time ranges; `status` is "fatal" where the
program stops and "overrun" where it writes past the section. `meant` is a
history variable, what the last option is there to change, and whether
`-set_ens_num` was given a -1. Its text calls that "No Change" and it stores 255:
`CarriedOver` leaves out the three items it writes when it was (section 8). No message
begins in template 34 (`PdtAssumption`): its bands come before its forecast time, for
which wgrib2 has no place, so that it cannot read the time such a message is for;
options may ask for it all the same.

### PackGroups, ComplexPk, PackedMessage, GroupPacking

`Totals` has the sum of a sequence. `PackGroups` is one call of `pack_gp`, its labels as `pc`: `FirstGroup` (start of
A), `SecondGroup` (the points after A are looked at as B), `GiveBack` and
`ExtendA` (points pass from A to B or from B to A), `Close`, and at the end
`reduce` and the lengths (`Finish`). `Inc`, `Before` and `Boxes` are the
increment, the word in memory before `ntotbt` and the static `newboxtp` that
`reduce` may read. What is kept of A when it is closed (`Kept`) are its extremes,
bits and length; what pack_gp asks of its caller, values up to 2^30 in size, is
`Packable`. `ComplexPk` is wgrib2's own choice: `MakeRuns`, `MergeStep`,
`TryLonger` (doubled limits, taken back when they do not pay: `backup`),
`Exchange` (points passed over borders). `PackedMessage` has the four decoders,
`GroupPacking` the encoders: differences, minimum, references, widths, lengths,
codes of missing values, each written with the bits it is given. A job is a field
with its options; `step` goes from "encode" to "end", and `out` is what each
decoder makes of the message. When `pack_gp` has given up (`pc` "failed", 706), the
encoders go on as they do in the code: without a group closed `NoGroups` is
written, otherwise the groups there are, with lengths to which a `novref` that was
never set is added (`Leftover`, `UnsetRef`). Lengths that go past the field, where
the encoder would read what lies behind it, are left out (`InField`); a message of
fewer points than the field is one the decoders do not accept. *Abstraction*: fields are of integers without a
decimal scale; floating point is modelled where it is exact, and where it is not
(`log` in g2clib's bit counts) by the table `Rounded`.

### Wgrib2 with GribRecords, TimeSeries, VectorPairs, GridPoints, PointOutput, NewGrid, Calculator, Netcdf

`phase` is where the main program is: options are initialised (`InitOption`,
`InitDone`), the message asked for with `-d` is sought (`SkipToDump`), records are
read (`ReadRecord`, which follows the inventory given with `-i`), selected
(`SelectRecord`), decoded (`DecodeRecord`) and handed to one option after the
other; then each option's last call is made (`Finalize`). `Stopped` is a program
that has ended. An option is an action, `RecordDone` the end of the list of them:

| action | options |
|---|---|
| `SkipOption` | any whose `-if` has failed |
| `SetupOption`, `SwitchOption` | those done with at the start; `-submsg`, `-gctpc`, `-header` and the settings of `-new_grid` |
| `IfOption`, `LimitOption` | `-if`, `-not_if` and their forms with fixed strings; `-limit` |
| `SetDateOption`, `NOption` | `-set_date`; `-n`, `-s` |
| `PlaceOption`, `RasterOption` | `-lon`, `-lola`, `-ij`, `-ijlat`, `-ilat`, `-ijbox`; `-AAIG` |
| `RpnOption`, `RclOption`, `StoOption` | `-rpn`, `-rpn_rcl`, `-rpn_sto` |
| `UndefineOption` | `-undefine` and its like |
| `ImportOption`, `FieldOption` | `-import_grib`; `-import_text`, `-import_ieee`, `-import_bin` |
| `OutputOption`, `NetcdfOption` | all that only write records; `-netcdf` |

`local[k]` is the state of the k-th option of the command line: what the code
keeps in `save` structures. `rd` and `sec` are what has been read, `grid` the
count of grid changes with the table and coordinates kept for it, `data` the
decoded field, `regs` the registers, `files` and `inventory` what is written.

`TimeSeries` (`-ave`, `-fcst_ave`, `-ave0`, `-fcst_ave0`, `-ave_var`,
`-merge_fcst`, `-ncep_norm`), `VectorPairs` (`-submsg_uv`, `-ncep_uv`,
`-wind_speed`, `-wind_dir`, `-tosubmsg`), `Calculator` (`-rpn`), `GridPoints`
(latitudes and longitudes, `-undefine`, `-small_grib` and their like) and
`Netcdf` (`-netcdf`, `-append` and the settings) have each option as a step from
its state and a record to a new state and what it writes. `PointOutput` is the
same for values at places: by column and row, at the point nearest to a place
(found by the inverse of the projection, `gctpc_ll2xy.c`, by that of a latitude
and longitude grid, `lat2ij.c`, or by a search, `geo.c`), and whole fields with
their places (`-text`, `-spread`, `-csv`, `-grib_out_irr`, `-AAIG`). `NewGrid` is
`-new_grid`: the pairing of vector components, the settings, the sections made
for the new grid; the interpolation itself is the external `ipolates`.

`Quotient`, `Libm`, `CosLat`, `Projected`, `Forward`, `Apart`, `Rotated`, `Near`,
`Interpolated`, `Oriented` and `DaysInMonth` are constants: rounding,
transcendental functions, map projections and interpolation do not matter here,
only that the same point has the same value everywhere. `StaleRows`,
`UnsetRanges` and `RandomNumbers` are what the code reads without having set it.

The three `*Reference` modules state what a command line promises without the
program's loop, indices and caches: the set of records selected, the series
formed by grouping them, formulas evaluated as expressions, the points of a box
by their coordinates, the cells a netCDF file has to have. The properties of
`wgrib_loop` compare this with what `Wgrib2` has written. Where a text of the
code says something else than the code does, the reference has the text, and the
property leaves out by name the cases in which they differ. Levels on the axis of a
netCDF file are single levels of one type (`OnAxis`); `NetcdfRight` is about command
lines that put no others there (`OneSort`). Periods merged are to follow each other;
`PeriodsRight` says exactly what is written for those that do, or whose last one
comes once more (`Following`), the one thing `f_merge_fcst` tests. For others, which
are among the jobs, it says only that each record written has the values, the beginning
and the end of a stretch of the input and the lengths of its periods added up, which
is then not the time from beginning to end.

## 4. The runs

All passing runs check deadlock, except `mosaic_mrms`, where stopping is what
`Termination` is about, and `pdt_edit`, where a program that has stopped with a
fatal error or at the bound of its options has no step. In the other modules a
finished program is an explicit step that changes nothing, so that TLC reports
any other state without a successor.

| run | instance and bounds | distinct states | shows |
|---|---|---|---|
| `mosaic_tiles` | 4-tile format; 3 ranks for 2 tiles; 6 kinds of tile (absent, good, overlapping, too tall, too short); 2 levels; 1 edge and 2 interior points; garbage `nlevel` in {0, 1000} | 158,768 | `MergeCorrect`, `BufrFaithful`, `NoOutputAfterFailure`, `SuccessIsComplete`, refinement of `MosaicMerge` |
| `mosaic_mrms` | MRMS; 3 ranks, a list of 0 to 3 one-level files in any order, an unknown height, unreadable lists; fair | 254,545 | the same for the lookup of levels, and `Termination`, `Delivery` |
| `mosaic_refused` | 2 ranks where 3 are needed; fair | 13,824 | `Refusal`: in order, nothing written, nobody killed |
| `chem_rerun` | 2 overlapping runs, 2 tiles, 2 days, lists with entries to skip; runs symmetric | 8,678,956 | `PublishedWhole`, `LossBound`, `UsesCompleteDay`, `SuccessPublishes`, `CalmLinkComplete` |
| `ims_map` | 4 by 4 IMS grid, every mask of up to 2 land points, rings 1 and 2, 2 points, north and south of 55N | 315,018 | `ClosestRing` |
| `snow_update` | 3 points in a row; 5 surfaces; bare, deep or corrupt snow; one crash | 5,403,137 | `ImsRespected`, `ParametersConsistent` |
| `g2_message` | up to 15 sections: three fields of 2 points, 2 local and 2 grid sections; all bitmap indicators, six packings; any order of calls | 105,770 | `SectionOrder`, `WgribReadsBack`, `GetfldReadsBack`, `InfoCounts`, refinement of `GribFields` |
| `pdt_edit` | a message of each of 41 templates, 1 or 2 time ranges, then any two options | 54,594 | `LibrariesAgree`, `SizesAgree`, `EndOfRanges`, `CarriedOver` |
| `packing` | every field of 5 (4) points over 3 (4) values and missing values, orders 0 to 2; longer fields of runs; `LEN_SEC_MAX` 3 | 257,304 | `GroupsCover`, `LengthsCover`, `SectionsExact`, `RoundTrip` |
| `wgrib_loop` | 2572 command lines of one to four options on files of one to six records of up to 9 points | 111,005 | `Selected`, `ValuesCurrent`, `SeriesRight`, `PeriodsRight`, `VectorsRight`, `CalculatedRight`, `SubsetRight`, `NetcdfRight`, `NetcdfAxes` |

Two more runs find a disagreement each, between the code and what one of its
comments says (section 8). Each checks one property on the model and the constants of
the passing run beside it, with other inputs.

| run | beside | inputs | violates |
|---|---|---|---|
| `chem_modis` | `chem_rerun` | one run, files in both MODIS directories | `ModisFound` |
| `packing_wide` | `packing` | fields of values up to 2^30 apart | `RetainedExactly` |

*Why the bounds are enough.* Three ranks are a root, a rank with a file and a
rank without, or with a second file at the same level; with two files every pair
of values meets in the maximum at every point, in either order, and a third rank
can fail at any moment. Two levels make a file of one level too short and a file
of three too tall. An edge point distinguishes the interior loop from a loop over
the grid. Two runs of the script are enough for every race over one name, which
only concerns the run removing and the run renaming it; the list of two entries
makes "one file" in the loss bound different from "all". Two days make a count
carried over from one to the next visible. In `ims_map`, a search of radius 2 in
a grid of 4 meets the edge, both rings, and no match; two points are what it
takes for `AREA` to matter. In `snow_update` three points in a row put a trimmed
point, a built one and a corrupt one next to each other in every order, and one
crash leaves every prefix of the fields written.

In `g2_message` the third field is the first that can reuse a bitmap after a
field without one, and 4-bit octets make a number of 2 octets lose bits that an
8-bit one would keep. In `pdt_edit` the second option meets what the first one
left, for every pair of templates. In `packing` five points are enough for a
group to be closed, one to be given back to and a third to be looked at; the
fields of runs are those in which `reduce` splits groups, in which sections are
doubled and taken back, and ranges of 2^30 reach the limit of a group's width, at
which `pack_gp` gives up in each of its looks. `RoundTrip` is about values less than
2^18 apart (`Narrow`), `RetainedExactly` about all.
In `wgrib_loop` files put the record that matters (another grid, order, series,
component or level) before, between and after those it must not disturb; series
have gaps, repetitions and records out of order; periods to be merged repeat the
last one at each place in the merge, have one missing, or come out of order; the
netCDF jobs have layers, soundings on levels of two types, some that end with a file and some that the program refuses, for
each of its reasons.

Every property of a passing run has a mutant in `PROJECT.json`: a definition
changed the way a plausible slip would change the code, under which TLC finds
that property violated. The mutated forms are in the modules, just before the
definitions they replace, and nothing else uses them.

## 5. Fairness

Only `mosaic_mrms` and `mosaic_refused` check liveness, under `FairSpec`: weak
fairness of `Run(r)` and of `Kill(r)` for each rank. The first says that an MPI
process that can take a step keeps running, the second that the launcher
eventually ends a job one of whose ranks has gone without finalizing. Nothing is
assumed about the barrier: that all ranks get there is what `Termination` checks.
No fairness is assumed of the scripts, which may die or be held up forever, nor
of the surface programs; their properties are safety properties.

## 6. The proofs

`tlapm` proves, for every value of the constants:

| theorem | assumptions used |
|---|---|
| `NsslMosaicProofs!TypeCorrect` : `Spec => []TypeOK` | `ConfigAssumption`, `HeightAssumption`, `InputAssumption` |
| `NsslMosaicProofs!MergeIsCorrect` : `Spec => []MergeCorrect` | the same |
| `NsslMosaicProofs!FailureHoldsOutput` : `Spec => []NoOutputAfterFailure` | the same |
| `NsslMosaicProofs!SuccessMeansComplete` : `Spec => []SuccessIsComplete` | the same and `NoFileAssumption` |
| `NsslMosaicProofs!ImplementsMerge` : `Spec => MergeSpec` | the same |
| `NsslMosaicProofs!BufrIsFaithful` : `Spec => []BufrFaithful` | the same, and `PlausibleValues` as a hypothesis of the theorem |
| `PrepChemProofs!TypeCorrect` : `Spec => []TypeOK` | `PrepChemAssumption`, `NoFileAssumption` |
| `PrepChemProofs!PublishedAreWhole` : `Spec => []PublishedWhole` | the same |
| `PrepChemProofs!LossIsBounded` : `Spec => []LossBound` | the same |
| `PrepChemProofs!CompleteDayUsed` : `Spec => []UsesCompleteDay` | the same |
| `PrepChemProofs!SuccessHolds` : `Spec => []SuccessPublishes` | the same |
| `PrepChemProofs!CalmLinkIsComplete` : `Spec => []CalmLinkComplete` | the same |
| `ImsMapProofs!MapTypeCorrect` : `Spec => []TypeOK` | `ImsMapAssumption` |
| `ImsMapProofs!ClosestRingTaken` : `Spec => []ClosestRing` | the same |
| `SnowIceProofs!TypeCorrect` : `Spec => []TypeOK` | `SnowIceAssumption` |
| `SnowIceProofs!ParametersAreConsistent` : `Spec => []ParametersConsistent` | the same |
| `SnowIceProofs!ImsIsRespected` : `Spec => []ImsRespected` | the same |
| `GribMessageProofs!ProductReadsBack` : written entries of a product template come back | `OctetBitsAssumption` |
| `GribMessageProofs!GribTypeOK` : `Spec => []TypeOK` | `MaxSectionsAssumption`, `PointsAssumption`, `TemplatesAssumption`, `OctetBitsAssumption` |
| `GribMessageProofs!SectionsInOrder` : `Spec => []SectionOrder` | the same |
| `GribMessageProofs!RefinesFields` : `Spec => MessageSpec` | the same |
| `GribMessageProofs!WgribReads` : `Spec => []WgribReadsBack` | the same |
| `GribMessageProofs!GetfldReads` : `Spec => []GetfldReadsBack` | the same |
| `GribMessageProofs!InfoCountsFields` : `Spec => []InfoCounts` | the same |
| `PdtEditProofs!PdtTypeOK` : `Spec => []TypeOK` | `PdtAssumption` |
| `PdtEditProofs!RangesEndRight` : `Spec => []EndOfRanges` | the same |
| `PdtEditProofs!SizesAreSame` : `Spec => []SizesAgree` | the same |
| `GroupPackingProofs!GroupsAreCovered` : `Spec => []GroupsCover` | `PackAssumption`, `JobsAssumption` |
| `GroupPackingProofs!LengthsAreCovered` : `Spec => []LengthsCover` | the same |
| `GroupPackingProofs!SectionsAreExact` : `Spec /\ []Codable => []SectionsExact` | `SectionAssumption`; `Codable` is a hypothesis of the theorem |

The assumptions say what the code needs of its inputs: a file's corner weights
add up to W, a level table has no height twice, `Missing` is below every value,
the lists of the script are not empty, the grid of IMS has a point and the search
a radius, the surface fields of a file are numbers in their ranges, a field to be
packed is not empty and the least group size and the increment are positive, a
message has one or two time ranges and a forecast time that is not negative.

*MergeCorrect.* It speaks of `file3d`, which rank 0 writes at the end, so it is
not inductive. Its argument is local to each rank first: `RankMerges(r)` says
that a rank past `Interpolate` holds in `ref3d[r]` exactly what its file observes
(`Own`), that its MRMS level is the level of its file's height, and that
`fileexist` means what it should. `ReduceMerges` then says that the receive
buffer is the maximum of `Own` over the ranks reduced so far, and that `file3d`,
if there, is the buffer with all ranks in it. Together with `TypeInv` (`TypeOK`
and, per rank, which variables have been set at which program point) this is
`MergeInv`; `MergeInvInductive` proves it step by step. That every listed file
has a rank (`f <= npe`) comes from the stops in `ReadFilelist` and `NameTile`.
`CellValueLarge` shows that an observation is never below `Missing`: this needs
the thresholds, not just the types.

*NoOutputAfterFailure.* `HeldInv`: a rank that failed (other than rank 0) never
entered the second barrier, unless it was killed; and if there is an output,
every rank has. A rank that is past that barrier has no way left to stop.

*SuccessIsComplete.* `DoneInv` adds to `HeldInv` where rank 0 is on its way
through the three outputs (`RootProgress`, `PublishedOnce`, `Reported`), that the
ranks it has reduced can only finish, and that a rank is killed only after
another one has stopped (`KilledAfterStop`). So SUCCESS, which only rank 0
reports, excludes an error of any rank.

*MergeSpec.* The refinement maps `product` to `file3d`, `observations` to what
each listed file observes (`FileFields`) and `status` to what can be told from
the job's end (`JobStatus`). Only two kinds of steps are visible: rank 0 writes
the 3-D file, which `MergeInv` shows to be the merge, and the job's success or
stop; `StepImplements` shows that every other step stutters.

*BufrFaithful.* Two facts about values: a mean of corner values above the
threshold lies between -100 dBZ (the code of no echo is -99, masked up to -63)
and 888 dBZ (`CellValueRange`), which is where `PlausibleValues` is needed: nothing
in the code bounds what a file holds, and the 4-tile format's scale comes from
its header. MCNsslMosaic has TLC evaluate the hypothesis on every instance. Then
`BufrInv` follows the merged field through the columns (`ColumnsHold`) to the
records of the BUFR (`BufrHolds`).

*UsesCompleteDay.* `ScanInv`: while the two counters of a run agree, every file
of its day that was looked for is there unless the day was purged. The loops over
names and tiles reach each pair (`ScanCovers`), by division with remainder.

*SuccessPublishes.* It says nothing of a run that is still at work, so
`SuccessInv` follows the two loops: each entry the run has passed (`Passed`) and
had to send is in `ever`; it is there and the run's own if the run is `Alone` and
is not replacing that very file at the moment (two entries may have one
`comdir_name`). `AdvanceReaches` shows that the loops leave out no pair, and what
is renamed is the run's own (`RunOK`).

*CalmLinkComplete.* `CalmInv`: while `calm` holds, no living run stands between
the removal and the renaming of a file, and a file that has existed is in the
rest of the glob, in EMISDIR, or missing; then `SuccessPublishes` says that it
existed and `LossBound` which death removed it.

*PublishedWhole, LossBound.* `PubInv` adds to type correctness that the loops
are at their start before the publishing section (`AtStart`, or the list in use
could change under them), that the temporary file is whole when it is renamed
(`TempWhole`), that the file a linking `cp` has opened is whole whatever becomes of
its name, and that EMISDIR, unless a linking has failed, has whole copies of published
names only but for the one being made (`LinkInv`). `LossBound`
is inductive then: only `Remove` takes a file away, and its run is the witness
until `Rename` puts it back.

*ClosestRing.* With the types it is inductive as it stands (`MapInv`); the work is
in the steps: `TakeNearest` and `TakeBestOfFour` take one of the next four that has
the point's surface, whatever `AREA` was left at, and `Search` the first ring on
which there is one.

*ParametersConsistent.* `ParametersInv`: the parameters of land points are right at
any time, in the file and in memory (`LandFixed`), since nothing here changes them;
once the scan and `CheckWater` are done all are right in memory (`AllRight`), and
the file is as memory is for the fields written so far (`WrittenSoFar`). A program
cut off between two writes leaves the mixture from which the next one starts, which
is why only the land can be relied upon there.

*ImsRespected.* That a snowy, cold point ends with snow needs that what was never
assigned (`itr`, `tr`, `snow(i-1,j-1)`) does not itself look like a corrupt layer:
`PlausibleMemory`, a hypothesis inside the property, which the instance satisfies.
A layer deeper than 50 m without water (`DeepWithoutWater`) escapes the trimming, so
that a bare point may keep it: TLC agrees on an instance with such backgrounds (13.9
million states, not among the runs for its length).
`SnowInv`: points not scanned yet have their background (`Unscanned`), what was
trimmed last is the background of a point or garbage (`TrimmedSnow`), and the points
scanned respect the mask (`ImsRespectedAt`). It is needed because the scan reads
neighbours of which some are changed already.

*SectionOrder, MessageSpec.* `TypeInv` and `OrderInv` say that the sections of
the buffer are a word of the order that `OrderRefusal` enforces. The refinement maps
the buffer to the list of fields begun and ended; a refused call stutters.

*WgribReadsBack.* wgrib2's parser is a loop over sections that keeps a pointer to
the last of each kind. `ReadInv` adds to `OrderInv` where the fields of the message
end and what each of them is made of (`FieldsAt`), that a bitmap reused is there
(`BitmapsOK`), and what is in force (`InForce`). The pointers after i sections are
given in closed form, and the loop, a recursive function, is shown to have them by
`DataInduction`: the library's induction theorems have an operator as parameter, so
it states induction for a *set* of numbers, which the provers can instantiate.

*GetfldReadsBack, InfoCounts.* The same for `g2_getfld`, which also frees the
bitmap at a field without one: `Reading` is what it has found after i sections,
`FieldPlaces` where the sections of a field are, `Forgotten` when the bitmap that
a field reuses has been freed. `ReadableInv` adds to `ReadInv` that every
template in the message is one the library knows and that a bitmap given is one
of the caller's.

*ProductReadsBack.* A template written with the octets of its map and read again
gives the entries, if each fits in its octets (with the sign of a map's negative
length), and its extension is the one computed before, because it depends only on
entries that have come back.

*EndOfRanges.* The end, the forecast time and the lengths of the ranges lie at
different octets in each template, and most options write at only some of them or
move them to another template. So the property says too little of a section to
follow from itself. `Good` adds what each option relies on: that the octets are a
section long enough for what is read at fixed places (`Section`, `Suits`), that the
template is one of twelve with ranges (`Ranging`) and says one or two of them, and
that forecast time and lengths are numbers (`Right`), as a sum with something that
is not a time is no time. A section of template 34 is one that `-set_pdt` has just
made: its number of bands is not set, and the place of its ranges, computed from
that, is beyond the section (`KnownCounts`). An option then does one of three things.
It stores octets that are clear of the forecast time and of the block of ranges
(`Clear`, `PutGood`), or puts some in before both (`IsInserted`); then each octet is
where it was, counted from its place. It makes a new section: `CopyRanges` copies
the whole block if there is room and none of it if not, so that a new section whose
ranges say `Missing` has none, and each of the nineteen copies of `CopyAll` after it
is clear of the ranges (`Sections` and `After` follow them by `DataInduction`). Or
it writes an end: `f_set_ftime1` keeps the distance between forecast time and end,
`f_set_ftime2` writes the block whole, and `f_set_date` adds the parts up again. The
recursive functions over ranges are unfolded for lists of one and two (`ElapsedIs`,
`TotalIs`, `RangesAre`). Ranges whose type of time increment (code table 4.11) is 3 or 4 are not asked for by
an option here (`Passing`): `f_set_date` does not count their lengths and
`f_set_ftime2` does, so for them the property would be a question of which of the
two wrote the end.

*SizesAgree.* wgrib2 has a length for each template and adds so many octets per
thing counted; g2clib has a list of entries, copies a part of it, or a list of its
own, once per thing counted, and adds up the widths. A width is between -4 and 4, and
the octets of a list (`Size`) are a sum of cardinalities. `UpToNext` gives the octets
up to the next entry and `UpToAre`, by `DataInduction`, those up to any entry, so that
lists that are concatenated (`UpToBoth`, `Joined`) or repeated (`RepeatedSize`) have the
octets they should. From the parts (`ShortParts`, `LongParts`, `PartsAre`) follow the
18 templates that are never longer (`FixedMaps`, `FixedAgree`), the nine with time
ranges (`RangedMaps`, `RangedAgree`) and the four with clusters or satellites. The
state comes in at one place: the octet that wgrib2 reads the count from has to be the
one where the entry lies that g2clib takes it from (`EntryIs`), it has to be within the
section (`Suits`), and what it says a number (`KnownCounts`). The last two are part of
`Good`: no option writes over a count unless it writes the whole block of ranges
(`StillCounted`, `Clear`).

*GroupsCover.* Groups that are closed never change, so it is all about A and B.
`PackInv` has a part for each label of the loop: A alone (`AHolds`, at L133), A and
B after it (`ABHold`, at L170), the last A (`ALast`, at L200). It says more than the
property in three ways. *How good bounds are*: a B just looked at has extremes that
its points attain (`Whole`), and an A that gives points back has no more bits than
its points need (`Tight`), so that it never gives all of them. A group cut short
may keep extremes of points it was looked at with, a string of equal values and
the tail after it (`Cut`). With an increment of 1 that does not matter, with 5 TLC
found a `Cut` A that is not `Tight`, so "A is tight" is not inductive; such a group
is only ever an A that gains points or is closed. *How far it has looked*: `Reach`
relates the end of B to the point where it was wanted. *Room*: the groups before A
hold at least `lminpk` points on average (`Room`, `Far`), so that there are never
more than the `ndg` that compack allocates: the branch at L200 that lets `lminpk`
grow is not reached from compack. Extremes are those of finite sets of integers, for
which the library has no theorem: `LeastAt` gets them by `DataInduction`.

*LengthsCover.* `reduce` chooses a length for which the boxes of all groups take the
least bits, and then makes each group that is longer into several of about that
length. Which length is chosen does not matter once it is known to be one of the
table (`BestIs`), nor how good it is. What does: that a quotient taken with `float`
divides well enough (`Divides`, a check of the code, which otherwise starts again
without `reduce`) for the points left over to be spread over the boxes
so that none is empty and none is left (`MovedIs`), that the boxes made of a group
are as many as were counted for it, and that those of all groups are then at most
`ndg` (`Total` is the sum, a recursive function followed by `DataInduction`).
`LensInv` adds to `PackInv` that a closed group's length is that of its points and
its bits at most 30 (`Measured`). `Reducible` is part of the property. It excludes
two cases in which the code reads something else than its tables: a minimum of 2^30
or more, for which `pack_gp` finds no power in `ibxx2` (`pack_gp.c:1263`, 1404), and
totals of bits that fall down to length 2, where `reduce.c:270` compares with the
word before `ntotbt`. With a word there that looks like an improvement (`Before` 0
in place of 999999) TLC finds lengths that do not add up: without that condition
the property is false.

*SectionsExact.* The list changes at two neighbours at a time, so the argument is
local. `Exact(v, s)` says that a section's extremes are attained in it and bound it,
without the sets whose minimum and maximum the property names, and `Chain` that the
sections of a list are exact, follow each other and leave nothing out. Both take the
values as a parameter, which no step changes. Joining two neighbours keeps `Exact`
(`JoinedExact`), and so does passing a point over a border (`MovedLeft`, `MovedRight`):
the point lies between the extremes of the section that gets it, and the one that loses
it has more than one point, since its extremes differ (`TwoPoints`). The first list is
a recursive function of the points, followed by `DataInduction` (`RunsChain`).
`SectionsInv` has three things the property does not say: the kept list is a chain of
sections of half the length while longer ones are tried (or taking it back would prove
nothing), `at` is a place that can be joined, and until `Exchange` the length is one
less. What a section costs does not matter: any choice of merges gives a chain.
`Codable`, that `find_nbits` can count the numbers, is a hypothesis, as the code holds
them to 25 bits in options that are not part of a job here; TLC found it true in all
states of `packing`, and the property itself is checked there without it.

## 7. What is only model-checked

`Termination`, `Delivery` and `Refusal` (liveness under fairness is out of the
prover's reach), and so far the properties of `Wgrib2`, of `PdtEdit`
`LibrariesAgree` and `CarriedOver`, and of `GroupPacking` `RoundTrip`.
`LibrariesAgree` compares the tables of two libraries template by template and item by
item: finite, and evaluated by TLC in full, but for the provers a case of its own
for each of 25 items in each of forty templates; and `CarriedOver` the same for every
pair of templates. `CalculatedRight` will stay so: its reference evaluates formulas with a
RECURSIVE operator. That the decoders return what the encoders were given for
fields of every length is induction over data, which the library's theorems do
not give here as they take an operator as a parameter; with a set in its place
(`DataInduction`) it has worked for the loops of the two readers.

Beside the models, `PackGroups` and `ComplexPk` were compared with the compiled C
code on 1182 random fields: the same groups.

## 8. Findings

Each of the first two is the counterexample of a run.

* `chem_modis`: PC 98-99 look for each day's MODIS files in the other day's
  directory; the header (PC 27-28) and the WF_ABBA loop pair them the other way.
* `packing_wide`: `compack.c:237` and `misspack.c:300` do not look at the 706 that
  `pack_gp` gives up with, whose text promises that values up to 2^30 come back
  (`pack_gp.c:169-175`); 0, 2^30, 0 is packed without groups and read as 0, 0, 0.

The next are disagreements of the same kind, modelled as the code does it, that the
properties of the passing runs leave out where they say otherwise.

* `-set_ens_num` says "-1=No Change" (`Set_ens_num.c:19`) and stores 255 (36-38);
  `-set_metadata` uses it that way for what it does not set, so that setting the
  number of members erases the member. `CarriedOver` excludes these three items for
  a call with a -1, by name.
* Snow and ice: "B) SOUTH OF 55N, WE KEEP A PRIORI ZERO DEFAULT" (IM 331), lest lakes
  the IMS does not know get ice from the snow around them. The test is commented
  out (IM 336): such a point takes the value of the nearest one, of the other
  surface. `ClosestRing` is silent about it.
* `-merge_fcst`: "1-2 day fcst ave + 2-3 day fcst ave + 3-4 day fcst ave give 1-4 day
  fcst ave" (`Merge.c:13`); that periods follow each other is not asked (133). Two of
  6 hours with one missing between them are merged into one of "12 hours" that goes
  from hour 6 to hour 24. `PeriodsRight` asks for the right length of periods that
  follow each other only (`Following`).
* `-netcdf`: "only single-level data are supported as 4D" (`Netcdf.c:569`), but with a
  type of level in the table a layer is put on the axis, whatever its type (554, 568);
  "only one type allowed to be 4D data" (`Netcdf.c:176`), but later levels are not
  compared with the type of the first (2105), and may overwrite each other.
  `NetcdfRight` excludes command lines that do either (`OneSort`).
* Packing: the bits of a range from 2^21 on may be one too few, as `log` is
  divided and rounded as a float (`compack.c:263`); 0, 2^21, 0, 1 is read as 0, 0, 0, 1.
  `RoundTrip` is about values less than 2^18 apart (`Narrow`); `RetainedExactly` is
  false of such a field too.
* Mosaic: PM 357 accepts a file when `maxlvl >= nlevel`, and `nlevel` is assigned for
  MRMS only. With tiles the "Wrong vertical layers" check (PM 360) depends on what
  memory holds. When that is small enough a file with fewer levels than `ref3d` is
  accepted, and so is one with more, whose last levels are then written past the
  array (`Overrun`): the rank may crash there or go on. `MergeCorrect` is about what is
  merged when the job goes on.

Seen while modelling, and modelled as the code does it, without a run of their
own:

* Mosaic: tversion 14 passes the core check with 8 ranks and is stopped by PM
  274, which wants 14.
* Snow and ice: IM 204 rounds where it should truncate, so that for half of the
  points the box of four does not contain them. US 1044 clears snow below 0.001
  of ice, while US 1012 calls it water below 0.02: points in between keep snow.
* g2clib: the encoder accepts the reuse of a bitmap (`g2_addfield.c:155`) that
  `g2_getfld` refuses with 17, because it has freed it at a field without one.
  `reduce.c:270` reads `ntotbt[-1]` when no number of bits was an improvement;
  the run gives that word a value that does not improve anything.
  With differences of order 2 a field of two points is read past its end.
* wgrib2 packing: `-set_bin_prec` keeps a field's bits below `max_bits`
  (`Grib.c:260`), "encode N bits" of `-set_metadata` does not (`Set_metadata.c:160`).
  `complex_pk.c:289` lets a section grow by one point more than
  `LEN_SEC_MAX`, which no reader minds.
* Product definitions: code table 4.8 is read at the octet of 4.7
  (`CodeTable.c:1103`). `-set_date` with a relative date changes section 1
  (`Set_date.c:66`), which all submessages of a message share: it is moved once
  for each of them. `Set_ftime2.c:141` makes room for more ranges
  in three pairs of templates only: in any other it writes past the section.
* `-small_grib` "added mercator, rotated lat-lon" (`Small_grib.c:14`), but a rotated
  grid is recognised by a length of section 3 of 04 where it has 84 (150), and
  never cut.
* `-merge_fcst` with 1 never writes: the count is compared only after a merge
  (`Merge.c:223`). What is left of an unfinished merge at the end is dropped.
* Values at places: on a latitude and longitude grid whose second column lies
  across Greenwich `dx = lon[1] - lon[0]` is negative (`gctpc_ll2xy.c`,
  `lat2ij.c`, `-AAIG`). A Mercator grid not stored from its south-west corner is
  counted from its first point all the same. On a global grid a place exactly half
  a cell east of the last column has no point. `-irr_grid` never initialises its
  `last_GDS_change_no`; `-ijbox` with a negative step leaves `iptr` unset; a grid
  of one column or row reads `lon[1]` or `lat[nx]` out of place; the nearest of
  equally near points depends on the order of the OpenMP threads (`geo.c`).
* `-new_grid`: a Lambert grid loses the flag of earth-relative winds when its
  section 3 is made again (`New_grid.c:486`), so that `-new_grid_winds grid` has
  no effect; the check of a Mercator grid's latitudes lacks its `fatal_error`
  (about 343); a list of vectors takes effect only when records are processed.
* Calculator: `-rpn_rcl` of an unset register is fatal, though its text calls it
  the same as `rcl_N`, which gives zeros. `print_corr` without a defined point is
  not a number. `smth9r` puts its values into the row an earlier token left in
  `j` (`RPN.c:626`). A register keeps the field of an earlier grid of the same
  size.
* `-netcdf`: `valid_min` and `valid_max` are tested when they were never set
  (`Netcdf.c:928`). The reference time is written only when its kind changes
  (1900), though the text says the minimum found is given. A first record at an
  absolute `date0` with an automatic step gives a negative index and stops; with
  a relative date, records before it are truncated away, or refused after
  `-append` (1240). Levels within 0.1 % are one. A constant field with automatic packing
  stops. A digit of the settings is taken as its
  character code for `nc_deflate` (`Netcdf_sup.c:808`, 840); the global `nc_pack` is tested where the option's own is meant (891). A
  table of levels need not be in order.

Undefined behaviour met on the way is modelled as a choice and listed under
`hazards`: `AREA` compared before it is assigned (IM 256), `itr`, `jtr` and
`snowtr` not initialised (US 772), `snow(i-1,j-1)` outside the array (US 924),
the row of `smth9r`, the ranges of valid values. The properties checked hold
whatever these give.

## 9. What is not modelled

Of the modelled components: reading the mosaic formats beyond header and values,
the names of the tiles (format I1 of tiles 10 to 14), a `var_scale` other than
10 in the instances, failures of the netCDF library in the surface programs,
temperatures and soil moisture of built points, reading the IMS file and the
GRIB2 and binary variants of these programs. The J-job of the chemistry scripts
only sets variables, which are constants here; `prep_chem_sources` is external.

Of the GRIB2 tools: options of wgrib2 that only print, or change a header octet
by octet (`-set`, `-set_byte`); the names of NCEP's grids, rotated Arakawa grids
and lists of vectors other than pairs of the default's in `-new_grid`; Lambert
azimuthal grids in `PointOutput`; space view and irregular grids; thinned and
staggered rows; a decimal scale; the liveness of packing (its graph of states is
that of a deterministic program, so that TLC's deadlock check and the bound on
its states already show that it ends); what the encoders read behind a field after
`pack_gp` has given up;
in netCDF files the format, chunks, compression, endianness and texts; times are
in hours and levels whole numbers. The library build of wgrib2 (memory files,
`wgrib2()` called twice) is planned.

Of the repository: the components of section 1 that are not planned, for the
reasons given there.

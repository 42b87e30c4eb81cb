----------------------------- MODULE NsslMosaic -----------------------------
(***************************************************************************)
(* process_NSSL_mosaic: the MPI job that reads a radar reflectivity mosaic *)
(* (one file per tile, or one file per height), interpolates each file to  *)
(* the analysis grid on a rank of its own, merges the ranks' fields with   *)
(* MPI_REDUCE(MPI_MAX) and writes RefInGSI3D.dat, RefInGSI.dat and         *)
(* NSSLRefInGSI.bufr from rank 0.                                          *)
(*                                                                         *)
(* Reflectivities are integers in units of 1/Unit dBZ, so that the bilinear*)
(* mean and the division by var_scale are exact.  The sizes the program    *)
(* derives from tversion (maxcores, the number of tiles, maxlvl) are       *)
(* CONSTANTS: a small instance scales them down together.                  *)
(***************************************************************************)
EXTENDS Integers, FiniteSets

CONSTANTS
  tversion,     \* namelist: the format of the mosaic, one of 1, 4, 8, 14, 81
  npe,          \* MPI_COMM_SIZE
  maxcores,     \* ranks the format asks for: 8 (8, 14, 81), 4 (4), 33 (1)
  maxfile,      \* most files: 8 tiles (81), 200 lines (1), else tversion tiles
  maxlvl,       \* levels of the merged field: 31 (8, 14, 81), 33 (4, 1)
  levelheight,  \* the table of MRMS heights, by level
  Column,       \* points of the horizontal analysis grid
  Interior,     \* those with 2 <= i <= nlon-1 and 2 <= j <= nlat-1
  W,            \* sum of the four bilinear weights of a cell
  TileChoices,  \* the mosaic files that may be on disk
  Filelists,    \* what reading filelist_mrms may meet
  Uninit,       \* what an INTEGER nobody assigned may hold
  NoFile        \* stands for an output that has not been written

Rank == 0 .. npe - 1
Level == 1 .. maxlvl
Root == 0

(* A corner set: four raw values of the mosaic and their weights.          *)
Cells == [ref : [1..4 -> Int], w : [1..4 -> Nat]]

WellFormedTile(t) ==
  /\ t.exists \in BOOLEAN
  /\ t.levels \in Nat /\ t.height \in Nat /\ t.var_scale \in {1, 10}
  /\ t.inside \subseteq Column
  /\ t.cell \in [Column -> [1..t.levels -> Cells]]
  /\ \A c \in Column : \A k \in 1..t.levels :
       LET w == t.cell[c][k].w IN w[1] + w[2] + w[3] + w[4] = W
  /\ tversion = 1 => t.levels >= 1

ASSUME ConfigAssumption ==
  /\ tversion \in {1, 4, 8, 14, 81}
  /\ npe \in Nat \ {0} /\ maxcores \in Nat \ {0} /\ maxfile \in Nat
  /\ maxlvl \in Nat \ {0} /\ W \in Nat \ {0}
  /\ Interior \subseteq Column
  /\ Uninit \subseteq Int
  /\ tversion = 1 => maxcores = maxlvl
ASSUME HeightAssumption ==
  /\ levelheight \in [Level -> Nat]
  /\ \A k, l \in Level : levelheight[k] = levelheight[l] => k = l
ASSUME InputAssumption ==
  /\ \A t \in TileChoices : WellFormedTile(t)
  /\ \A fl \in Filelists : /\ fl.read \in {"ok", "open", "error"}
                             /\ fl.n \in 0..maxfile
ASSUME NoFileAssumption ==
  /\ NoFile \notin [Column -> [Level -> Int]]
  /\ \A S \in SUBSET Interior : NoFile \notin [S -> [Level -> Int]]

-----------------------------------------------------------------------------
(* Reflectivity values and thresholds.                                     *)

Unit == 10 * W
Missing == -999 * Unit      \* no observation
Clear == -99 * Unit         \* observed, no echo
rthresh_ref == IF tversion \in {4, 8, 14} THEN -500 ELSE -90
rthresh_miss == IF tversion \in {4, 8, 14} THEN -5000 ELSE -900

(* The divisor of the raw values; the 4-tile format has it in its header.  *)
var_scale(t) ==
  CASE tversion \in {8, 14} -> 10
    [] tversion \in {1, 81} -> 1
    [] OTHER -> t.var_scale

WeightedSum(ce) ==
  ce.ref[1] * ce.w[1] + ce.ref[2] * ce.w[2]
    + ce.ref[3] * ce.w[3] + ce.ref[4] * ce.w[4]

(* One grid point at one level: echo, no echo or no observation.           *)
CellValue(t, ce) ==
  IF \A q \in 1..4 : ce.ref[q] > rthresh_ref
    THEN IF var_scale(t) = 10 THEN WeightedSum(ce) ELSE 10 * WeightedSum(ce)
  ELSE IF \A q \in 1..4 : ce.ref[q] > rthresh_miss THEN Clear ELSE Missing

(* Mutant: the rank reduced last wins.                                     *)
LatestWins(x, y) == y

Larger(x, y) == IF x >= y THEN x ELSE y

AllMissing == [c \in Column |-> [l \in Level |-> Missing]]

-----------------------------------------------------------------------------
VARIABLES
  mosaic,     \* the files on disk, by tile number or line of filelist_mrms
  filelist,   \* filelist_mrms
  present,    \* which of the fixed inputs exist
  pc,         \* where each rank is
  nlevel,     \* per rank: lines of filelist_mrms; unassigned unless MRMS
  fileexist,  \* per rank: it has a file to process
  worklevel,  \* per rank: the level its MRMS file belongs to
  ref3d,      \* per rank: its own file on the analysis grid
  barrier,    \* ranks that have called the first and the second mpi_barrier
  reduced,    \* ranks whose ref3d MPI_REDUCE has combined
  ref0,       \* the receive buffer of MPI_REDUCE
  file3d, columns, bufr,    \* contents of the three outputs
  success     \* SUCCESS has been printed

inputs == <<mosaic, filelist, present>>
outputs == <<file3d, columns, bufr, success>>
vars == <<inputs, pc, nlevel, fileexist, worklevel, ref3d, barrier, reduced,
          ref0, outputs>>

FileNo == 1 .. maxfile
mypeLocal(r) == r + 1

Failed == {"stopped", "killed"}
Ended == Failed \cup {"done", "badcores"}

Init ==
  /\ mosaic \in [FileNo -> TileChoices]
  /\ filelist \in Filelists
  /\ present \in [geofile : BOOLEAN, bufrtable : BOOLEAN]
  /\ pc = [r \in Rank |-> "start"]
  /\ nlevel \in [Rank -> Uninit]
  /\ fileexist = [r \in Rank |-> FALSE]
  /\ worklevel = [r \in Rank |-> 0]
  /\ ref3d = [r \in Rank |-> AllMissing]
  /\ barrier = [b \in 1..2 |-> {}]
  /\ reduced = {}
  /\ ref0 = AllMissing
  /\ file3d = NoFile /\ columns = NoFile /\ bufr = NoFile
  /\ success = FALSE

Goto(r, from, to) == pc[r] = from /\ pc' = [pc EXCEPT ![r] = to]

-----------------------------------------------------------------------------
(* Namelist, core counts and analysis grid.                                *)

(* Mutant: the job stops without MPI_FINALIZE.                             *)
TooFewCoresNoFinalize(r) ==
  /\ npe < maxcores
  /\ Goto(r, "start", "stopped")
  /\ UNCHANGED <<inputs, nlevel, fileexist, worklevel, ref3d, barrier,
                 reduced, ref0, outputs>>

TooFewCores(r) ==
  /\ npe < maxcores
  /\ Goto(r, "start", "badcores")       \* MPI_FINALIZE, then stop
  /\ UNCHANGED <<inputs, nlevel, fileexist, worklevel, ref3d, barrier,
                 reduced, ref0, outputs>>

Setup(r) ==
  /\ npe >= maxcores
  /\ Goto(r, "start", IF \/ tversion = 1 /\ npe < maxlvl
                         \/ ~present.geofile
                      THEN "stopped" ELSE "name")
  /\ UNCHANGED <<inputs, nlevel, fileexist, worklevel, ref3d, barrier,
                 reduced, ref0, outputs>>

(* Which file the rank processes.                                          *)

ReadFilelist(r) ==
  /\ tversion = 1
  /\ IF filelist.read # "ok"
       THEN /\ Goto(r, "name", "stopped")
            /\ UNCHANGED nlevel
       ELSE /\ Goto(r, "name", IF filelist.n > maxlvl \/ npe < filelist.n
                               THEN "stopped" ELSE "header")
            /\ nlevel' = [nlevel EXCEPT ![r] = filelist.n]
  /\ UNCHANGED <<inputs, fileexist, worklevel, ref3d, barrier, reduced, ref0,
                 outputs>>

NameTile(r) ==
  /\ tversion # 1
  /\ Goto(r, "name", IF npe < maxfile THEN "stopped" ELSE "header")
  /\ UNCHANGED <<inputs, nlevel, fileexist, worklevel, ref3d, barrier,
                 reduced, ref0, outputs>>

(* Mutant: the last file is taken for one too many.                        *)
HasFileOffByOne(r) ==
  /\ mypeLocal(r) < (IF tversion = 1 THEN nlevel[r] ELSE maxfile)
  /\ mosaic[mypeLocal(r)].exists

HasFile(r) ==
  /\ mypeLocal(r) <= (IF tversion = 1 THEN nlevel[r] ELSE maxfile)
  /\ mosaic[mypeLocal(r)].exists

(* Existence, header and the allocation of ref3d.                          *)

ReadHeader(r) ==
  /\ Goto(r, "header",
          CASE ~HasFile(r) -> "barrier1"
            [] /\ HasFile(r)
               /\ \/ maxlvl = mosaic[mypeLocal(r)].levels
                  \/ maxlvl >= nlevel[r] -> "ingest"
            [] OTHER -> "stopped")      \* Wrong vertical layers
  /\ fileexist' = [fileexist EXCEPT ![r] = HasFile(r)]
  /\ UNCHANGED <<inputs, nlevel, worklevel, ref3d, barrier, reduced, ref0,
                 outputs>>

(* Mutants: the rank's number is the level; the table is not searched.     *)
LevelOfRank(r, height) == IF mypeLocal(r) \in Level THEN mypeLocal(r) ELSE 0
LevelNotSearched(r, height) ==
  IF mypeLocal(r) \in Level /\ levelheight[mypeLocal(r)] = height
  THEN mypeLocal(r) ELSE 0

(* The level of an MRMS file: the rank's own when the height agrees, else  *)
(* the last entry of the table with that height, 0 if there is none.       *)
FoundLevel(r, height) ==
  LET matches == {k \in Level : levelheight[k] = height}
  IN  CASE mypeLocal(r) \in matches -> mypeLocal(r)
        [] mypeLocal(r) \notin matches /\ matches # {} ->
             CHOOSE k \in matches : \A l \in matches : k >= l
        [] OTHER -> 0

Ingest(r) ==
  /\ IF tversion = 1
       THEN LET found == FoundLevel(r, mosaic[mypeLocal(r)].height)
            IN  /\ Goto(r, "ingest", IF found = 0 THEN "stopped" ELSE "barrier1")
                /\ worklevel' = [worklevel EXCEPT ![r] = found]
       ELSE /\ Goto(r, "ingest", "barrier1")
            /\ UNCHANGED worklevel
  /\ UNCHANGED <<inputs, nlevel, fileexist, ref3d, barrier, reduced, ref0,
                 outputs>>

-----------------------------------------------------------------------------
(* mpi_barrier: a rank leaves once every rank has called it.               *)

(* Mutant: a rank without a file does not call the barrier.                *)
CallBarrierWithFile(r, b, from, to) ==
  /\ Goto(r, from, to)
  /\ barrier' = [barrier EXCEPT ![b] = IF fileexist[r] THEN @ \cup {r} ELSE @]
  /\ UNCHANGED <<inputs, nlevel, fileexist, worklevel, ref3d, reduced, ref0,
                 outputs>>

CallBarrier(r, b, from, to) ==
  /\ Goto(r, from, to)
  /\ barrier' = [barrier EXCEPT ![b] = @ \cup {r}]
  /\ UNCHANGED <<inputs, nlevel, fileexist, worklevel, ref3d, reduced, ref0,
                 outputs>>

LeaveBarrier(r, b, from, to) ==
  /\ barrier[b] = Rank
  /\ Goto(r, from, to)
  /\ UNCHANGED <<inputs, nlevel, fileexist, worklevel, ref3d, barrier,
                 reduced, ref0, outputs>>

(* The levels of the file that are interpolated, and where each one goes.  *)
mscNlev(t) == IF tversion = 1 THEN 1 ELSE t.levels
kk(r, k) == IF tversion = 1 THEN worklevel[r] ELSE k

OnGrid(r) ==
  LET t == mosaic[mypeLocal(r)]
  IN  [c \in Column |-> [l \in Level |->
        LET from == {k \in 1..mscNlev(t) : kk(r, k) = l}
        IN  IF c \in t.inside /\ from # {}
            THEN CellValue(t, t.cell[c][CHOOSE k \in from : TRUE])
            ELSE Missing]]

Interpolate(r) ==
  /\ Goto(r, "interp", "barrier2")
  /\ ref3d' = [ref3d EXCEPT ![r] = IF fileexist[r] THEN OnGrid(r) ELSE AllMissing]
  /\ UNCHANGED <<inputs, nlevel, fileexist, worklevel, barrier, reduced, ref0,
                 outputs>>

(* A file with more levels than ref3d: the writes past its end may crash.  *)
Overrun(r) ==
  /\ fileexist[r] /\ mscNlev(mosaic[mypeLocal(r)]) > maxlvl
  /\ Goto(r, "interp", "stopped")
  /\ UNCHANGED <<inputs, nlevel, fileexist, worklevel, ref3d, barrier, reduced,
                 ref0, outputs>>

-----------------------------------------------------------------------------
(* MPI_REDUCE combines the ranks' fields in any order; the root's call     *)
(* returns when all are in, the others' when their buffer is sent.         *)

Contribute(r) ==
  /\ Goto(r, "reduce", IF r = Root THEN "collect" ELSE "finalize")
  /\ reduced' = reduced \cup {r}
  /\ ref0' = IF reduced = {} THEN ref3d[r]
             ELSE [c \in Column |-> [l \in Level |->
                     Larger(ref0[c][l], ref3d[r][c][l])]]
  /\ UNCHANGED <<inputs, nlevel, fileexist, worklevel, ref3d, barrier, outputs>>

Write3D(r) ==
  /\ reduced = Rank
  /\ Goto(r, "collect", "columns")
  /\ file3d' = ref0
  /\ UNCHANGED <<inputs, nlevel, fileexist, worklevel, ref3d, barrier, reduced,
                 ref0, columns, bufr, success>>

(* Interior columns with at least one level observed: abs(ref0) < 888.     *)
IsObserved(v) == -888 * Unit < v /\ v < 888 * Unit
(* Mutant: the loop runs over the whole grid.                              *)
WholeGridColumns(r) ==
  /\ Goto(r, "columns", "bufr")
  /\ columns' = [c \in {i \in Column : \E l \in Level : IsObserved(ref0[i][l])}
                   |-> ref0[c]]
  /\ UNCHANGED <<inputs, nlevel, fileexist, worklevel, ref3d, barrier, reduced,
                 ref0, file3d, bufr, success>>

WriteColumns(r) ==
  /\ Goto(r, "columns", "bufr")
  /\ columns' = [c \in {i \in Interior : \E l \in Level : IsObserved(ref0[i][l])}
                   |-> ref0[c]]
  /\ UNCHANGED <<inputs, nlevel, fileexist, worklevel, ref3d, barrier, reduced,
                 ref0, file3d, bufr, success>>

(* Mutant: no echo is recognised without its lower bound.                  *)
BufrValueNoLowerBound(v) == IF v < -63 * Unit THEN -63 * Unit ELSE v

BufrValue(v) ==
  IF -100 * Unit < v /\ v < -63 * Unit THEN -63 * Unit
  ELSE IF v < -100 * Unit THEN -64 * Unit ELSE v

(* Mutant: a failure to open the table is ignored.                         *)
WriteBufrIgnoringError(r) ==
  /\ Goto(r, "bufr", "report")
  /\ bufr' = IF present.bufrtable
             THEN [c \in DOMAIN columns |->
                     [l \in Level |-> BufrValue(columns[c][l])]]
             ELSE bufr
  /\ UNCHANGED <<inputs, nlevel, fileexist, worklevel, ref3d, barrier, reduced,
                 ref0, file3d, columns, success>>

(* prepobs_prep.bufrtable is opened for reading before the output exists.  *)
WriteBufr(r) ==
  /\ Goto(r, "bufr", IF present.bufrtable THEN "report" ELSE "stopped")
  /\ bufr' = IF present.bufrtable
             THEN [c \in DOMAIN columns |->
                     [l \in Level |-> BufrValue(columns[c][l])]]
             ELSE bufr
  /\ UNCHANGED <<inputs, nlevel, fileexist, worklevel, ref3d, barrier, reduced,
                 ref0, file3d, columns, success>>

ReportSuccess(r) ==
  /\ Goto(r, "report", "finalize")
  /\ success' = TRUE
  /\ UNCHANGED <<inputs, nlevel, fileexist, worklevel, ref3d, barrier, reduced,
                 ref0, file3d, columns, bufr>>

(* Mutant: a rank without a file stops before MPI_FINALIZE.                *)
FinalizeWithFile(r) ==
  /\ Goto(r, "finalize", IF fileexist[r] THEN "done" ELSE "stopped")
  /\ UNCHANGED <<inputs, nlevel, fileexist, worklevel, ref3d, barrier, reduced,
                 ref0, outputs>>

Finalize(r) ==
  /\ Goto(r, "finalize", "done")
  /\ UNCHANGED <<inputs, nlevel, fileexist, worklevel, ref3d, barrier, reduced,
                 ref0, outputs>>

(* The MPI launcher ends the job once a rank has gone without finalizing.  *)
Kill(r) ==
  /\ pc[r] \notin Ended
  /\ \E q \in Rank : pc[q] = "stopped"
  /\ pc' = [pc EXCEPT ![r] = "killed"]
  /\ UNCHANGED <<inputs, nlevel, fileexist, worklevel, ref3d, barrier, reduced,
                 ref0, outputs>>

-----------------------------------------------------------------------------
Run(r) ==
  \/ TooFewCores(r) \/ Setup(r)
  \/ ReadFilelist(r) \/ NameTile(r)
  \/ ReadHeader(r) \/ Ingest(r)
  \/ CallBarrier(r, 1, "barrier1", "wait1") \/ LeaveBarrier(r, 1, "wait1", "interp")
  \/ Interpolate(r) \/ Overrun(r)
  \/ CallBarrier(r, 2, "barrier2", "wait2") \/ LeaveBarrier(r, 2, "wait2", "reduce")
  \/ Contribute(r)
  \/ Write3D(r) \/ WriteColumns(r) \/ WriteBufr(r) \/ ReportSuccess(r)
  \/ Finalize(r)

AllEnded == (\A r \in Rank : pc[r] \in Ended) /\ UNCHANGED vars

Next == (\E r \in Rank : Run(r) \/ Kill(r)) \/ AllEnded

Spec == Init /\ [][Next]_vars
FairSpec == Spec /\ \A r \in Rank : WF_vars(Run(r)) /\ WF_vars(Kill(r))

-----------------------------------------------------------------------------
(* Properties.                                                             *)

(* Every variable holds a value the program can give it.                   *)
Fields == [Column -> [Level -> Int]]
PCs == {"start", "name", "header", "ingest", "barrier1", "wait1", "interp",
        "barrier2", "wait2", "reduce", "collect", "columns", "bufr", "report",
        "finalize"} \cup Ended
TypeOK ==
  /\ mosaic \in [FileNo -> TileChoices]
  /\ filelist \in Filelists
  /\ present \in [geofile : BOOLEAN, bufrtable : BOOLEAN]
  /\ pc \in [Rank -> PCs]
  /\ nlevel \in [Rank -> Int]
  /\ fileexist \in [Rank -> BOOLEAN]
  /\ worklevel \in [Rank -> Level \cup {0}]
  /\ ref3d \in [Rank -> Fields]
  /\ barrier \in [1..2 -> SUBSET Rank]
  /\ reduced \in SUBSET Rank
  /\ ref0 \in Fields
  /\ file3d \in Fields \cup {NoFile}
  /\ columns = NoFile \/ \E S \in SUBSET Interior : columns \in [S -> [Level -> Int]]
  /\ bufr = NoFile \/ \E S \in SUBSET Interior : bufr \in [S -> [Level -> Int]]
  /\ success \in BOOLEAN

(* What file f observes at a grid point, whichever rank reads it.          *)
ListedFiles == IF tversion = 1 THEN 1 .. filelist.n ELSE FileNo
Observation(f, c, l) ==
  LET t == mosaic[f]
      k == IF tversion = 1 THEN 1 ELSE l
  IN  IF /\ t.exists /\ c \in t.inside /\ k <= t.levels
         /\ tversion = 1 => levelheight[l] = t.height
      THEN CellValue(t, t.cell[c][k])
      ELSE Missing

(* The merged field holds, at every grid point, the largest value any of   *)
(* the files on disk has there: no file is left out, put at a wrong level, *)
(* or masked by another one's missing values, whatever the ranks' order.   *)
IsMerged(field) ==
  \A c \in Column, l \in Level :
    /\ field[c][l] \in {Missing} \cup {Observation(f, c, l) : f \in ListedFiles}
    /\ \A f \in ListedFiles : field[c][l] >= Observation(f, c, l)
    /\ field[c][l] >= Missing
MergeCorrect == file3d # NoFile => IsMerged(file3d)

(* Raw values below 888 dBZ, and the 4-tile format with the scale of the   *)
(* product: with a scale of 1 its echoes may lie below the codes.          *)
PlausibleValues ==
  \A t \in TileChoices :
    /\ tversion = 4 => t.var_scale = 10
    /\ \A c \in Column : \A k \in 1..t.levels : \A q \in 1..4 :
         t.cell[c][k].ref[q] < 888 * var_scale(t)

(* End to end, from the files to the BUFR: an interior column is there     *)
(* exactly when some file observes one of its levels, a level is coded     *)
(* missing exactly when no file observes it, and the strongest echo above  *)
(* -63 dBZ arrives unchanged.                                              *)
BufrFaithful ==
  bufr # NoFile => \A c \in Interior :
    LET seen(l) == \E f \in ListedFiles : Observation(f, c, l) # Missing
    IN  /\ c \in DOMAIN bufr <=> \E l \in Level : seen(l)
        /\ c \in DOMAIN bufr => \A l \in Level :
             /\ bufr[c][l] = -64 * Unit <=> ~seen(l)
             /\ \A f \in ListedFiles : Observation(f, c, l) > -63 * Unit =>
                  /\ bufr[c][l] >= Observation(f, c, l)
                  /\ \E g \in ListedFiles : bufr[c][l] = Observation(g, c, l)

(* A rank that rejects its file or crashes keeps rank 0 from writing       *)
(* anything: the other ranks are held at a barrier until they are killed.  *)
NoOutputAfterFailure ==
  (\E r \in Rank \ {Root} : pc[r] = "stopped") =>
    file3d = NoFile /\ columns = NoFile /\ bufr = NoFile /\ ~success

(* SUCCESS is printed only when the three outputs are complete and no rank *)
(* has failed or will fail.                                                *)
SuccessIsComplete ==
  success => /\ file3d # NoFile /\ columns # NoFile /\ bufr # NoFile
             /\ \A r \in Rank : pc[r] \in {"report", "finalize", "done"}

(* No rank is left waiting: each one finishes, is refused or is killed.    *)
Termination == \A r \in Rank : <>(pc[r] \in Ended)

(* Inputs the program has no reason to reject lead to SUCCESS.             *)
GoodInputs ==
  /\ npe >= maxcores /\ present.geofile /\ present.bufrtable
  /\ IF tversion = 1 THEN filelist.read = "ok" /\ filelist.n <= maxlvl
                     ELSE npe >= maxfile
  /\ \A f \in ListedFiles : mosaic[f].exists =>
       IF tversion = 1 THEN \E l \in Level : levelheight[l] = mosaic[f].height
                       ELSE mosaic[f].levels = maxlvl
Delivery == GoodInputs ~> success

(* A job with fewer ranks than its format needs ends in order: every rank  *)
(* finalizes before it stops, none has to be killed, nothing is written.   *)
Refusal ==
  npe < maxcores =>
    /\ [](file3d = NoFile /\ columns = NoFile /\ bufr = NoFile)
    /\ <>(\A r \in Rank : pc[r] = "badcores")

(* The job as one atomic merge that either succeeds or fails: what it does *)
(* to RefInGSI3D.dat is a step of MosaicMerge, or none.                    *)
FileFields ==
  {[c \in Column |-> [l \in Level |-> Observation(f, c, l)]] : f \in ListedFiles}
JobStatus ==
  IF success THEN "succeeded"
  ELSE IF \E r \in Rank : pc[r] \in Failed \cup {"badcores"} THEN "failed"
  ELSE "running"
Merge == INSTANCE MosaicMerge WITH
  product <- file3d, observations <- FileFields, status <- JobStatus
MergeSpec == Merge!Spec
=============================================================================

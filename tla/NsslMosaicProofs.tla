-------------------------- MODULE NsslMosaicProofs --------------------------
(***************************************************************************)
(* Theorems about NsslMosaic for any number of ranks, files, levels and    *)
(* grid points: what every rank has in memory, that SUCCESS means complete *)
(* outputs of a complete job, that NsslMosaic implements the atomic merge  *)
(* of MosaicMerge, and that the codes of a missing level and of a level    *)
(* without echo are never confused with an observation in the BUFR.        *)
(***************************************************************************)
EXTENDS NsslMosaic, TLAPS

-----------------------------------------------------------------------------
(* Values.                                                                 *)

(* The value of a grid point is an integer, and never below Missing: an    *)
(* echo is above rthresh_ref, a convex mean of echoes too.                 *)
LEMMA CellValueType ==
  ASSUME NEW t \in TileChoices, NEW c \in Column, NEW k \in 1..t.levels
  PROVE  CellValue(t, t.cell[c][k]) \in Int
<1> DEFINE ce == t.cell[c][k]
<1>1. WellFormedTile(t)
  BY InputAssumption
<1>2. ce \in Cells
  BY <1>1 DEF WellFormedTile
<1>3. W \in Nat /\ Clear \in Int /\ Missing \in Int
  BY ConfigAssumption DEF Clear, Missing, Unit
<1>4. /\ ce.ref[1] \in Int /\ ce.ref[2] \in Int /\ ce.ref[3] \in Int /\ ce.ref[4] \in Int
      /\ ce.w[1] \in Int /\ ce.w[2] \in Int /\ ce.w[3] \in Int /\ ce.w[4] \in Int
  BY <1>2 DEF Cells
<1>5. WeightedSum(ce) \in Int
  BY <1>4 DEF WeightedSum
<1>6. QED
  BY <1>3, <1>5 DEF CellValue

LEMMA WeightedBound ==
  ASSUME NEW ce \in Cells, ce.w[1] + ce.w[2] + ce.w[3] + ce.w[4] = W,
         \A q \in 1..4 : ce.ref[q] >= -500
  PROVE  WeightedSum(ce) \in Int /\ WeightedSum(ce) >= -500 * W
<1>1. ASSUME NEW x \in Int, NEW w \in Nat, x >= -500
      PROVE  x * w \in Int /\ x * w >= -500 * w
  <2>1. (x + 500) * w >= 0
    BY <1>1
  <2>2. (x + 500) * w = x * w + 500 * w
    OBVIOUS
  <2>3. QED BY <2>1, <2>2
<1>2. \A q \in 1..4 : ce.ref[q] \in Int /\ ce.w[q] \in Nat
  BY DEF Cells
<1>3. PICK p1, p2, p3, p4, w1, w2, w3, w4 :
        /\ p1 = ce.ref[1] * ce.w[1] /\ w1 = ce.w[1]
        /\ p2 = ce.ref[2] * ce.w[2] /\ w2 = ce.w[2]
        /\ p3 = ce.ref[3] * ce.w[3] /\ w3 = ce.w[3]
        /\ p4 = ce.ref[4] * ce.w[4] /\ w4 = ce.w[4]
  OBVIOUS
<1>4. /\ p1 \in Int /\ w1 \in Nat /\ p1 >= -500 * w1
      /\ p2 \in Int /\ w2 \in Nat /\ p2 >= -500 * w2
      /\ p3 \in Int /\ w3 \in Nat /\ p3 >= -500 * w3
      /\ p4 \in Int /\ w4 \in Nat /\ p4 >= -500 * w4
  BY <1>1, <1>2, <1>3
<1>5. WeightedSum(ce) = p1 + p2 + p3 + p4 /\ w1 + w2 + w3 + w4 = W
  BY <1>3 DEF WeightedSum
<1>6. QED BY <1>4, <1>5

LEMMA CellValueLarge ==
  ASSUME NEW t \in TileChoices, NEW c \in Column, NEW k \in 1..t.levels
  PROVE  CellValue(t, t.cell[c][k]) >= Missing
<1> DEFINE ce == t.cell[c][k]
<1>1. WellFormedTile(t)
  BY InputAssumption
<1>2. ce \in Cells /\ ce.w[1] + ce.w[2] + ce.w[3] + ce.w[4] = W
  BY <1>1 DEF WellFormedTile
<1>3. W \in Nat
  BY ConfigAssumption
<1>4. CASE \A q \in 1..4 : ce.ref[q] > rthresh_ref
  <2>1. \A q \in 1..4 : ce.ref[q] \in Int /\ ce.w[q] \in Nat /\ ce.ref[q] >= -500
    BY <1>2, <1>4 DEF Cells, rthresh_ref
  <2>2. WeightedSum(ce) \in Int /\ WeightedSum(ce) >= -500 * W
    BY <2>1, <1>2, WeightedBound
  <2>3. WeightedSum(ce) >= Missing /\ 10 * WeightedSum(ce) >= Missing
    BY <2>2, <1>3 DEF Missing, Unit
  <2>4. CellValue(t, ce) = IF var_scale(t) = 10 THEN WeightedSum(ce)
                                                ELSE 10 * WeightedSum(ce)
    BY <1>4 DEF CellValue
  <2>5. QED BY <2>3, <2>4
<1>5. CASE ~(\A q \in 1..4 : ce.ref[q] > rthresh_ref)
  <2>1. CellValue(t, ce) \in {Clear, Missing}
    BY <1>5 DEF CellValue
  <2>2. Clear >= Missing /\ Missing >= Missing
    BY <1>3 DEF Clear, Missing, Unit
  <2>3. QED BY <2>1, <2>2
<1>6. QED BY <1>4, <1>5

-----------------------------------------------------------------------------
(* Type correctness.  The types of what a rank writes rest on three facts: *)
(* an MRMS rank knows the length of the list, a rank with a file has the   *)
(* number of one, and the columns are there when the BUFR is written.      *)

Started == PCs \ ({"start", "name", "badcores"} \cup Failed)

RankOK(r) ==
  /\ tversion = 1 /\ pc[r] \in Started => nlevel[r] = filelist.n
  /\ fileexist[r] => mypeLocal(r) \in FileNo
  /\ pc[r] = "bufr" =>
       \E S \in SUBSET Interior : columns \in [S -> [Level -> Int]]

TypeInv == TypeOK /\ \A r \in Rank : RankOK(r)

LEMMA InitTypeInv == Init => TypeInv
<1> SUFFICES ASSUME Init PROVE TypeInv
  OBVIOUS
<1>1. AllMissing \in Fields
  BY ConfigAssumption DEF AllMissing, Fields, Missing, Unit
<1>2. TypeOK
  BY <1>1, ConfigAssumption DEF Init, TypeOK, PCs, Ended, Failed
<1>3. ASSUME NEW r \in Rank PROVE RankOK(r)
  BY ConfigAssumption DEF Init, RankOK, Started
<1>4. QED
  BY <1>2, <1>3 DEF TypeInv

(* What a rank's file contributes is a field.                              *)
LEMMA OnGridType ==
  ASSUME TypeInv, NEW r \in Rank, fileexist[r]
  PROVE  OnGrid(r) \in Fields
<1> DEFINE t == mosaic[mypeLocal(r)]
<1>1. mypeLocal(r) \in FileNo /\ t \in TileChoices
  BY DEF TypeInv, TypeOK, RankOK
<1>2. mscNlev(t) \in 0..t.levels
  BY <1>1, InputAssumption, ConfigAssumption DEF WellFormedTile, mscNlev
<1>3. ASSUME NEW c \in Column, NEW l \in Level
      PROVE  OnGrid(r)[c][l] \in Int
  <2> DEFINE from == {k \in 1..mscNlev(t) : kk(r, k) = l}
  <2>1. CASE c \in t.inside /\ from # {}
    <3>1. PICK k0 \in from : TRUE
      BY <2>1
    <3>2. (CHOOSE k \in from : TRUE) \in from
      BY <3>1
    <3>3. (CHOOSE k \in from : TRUE) \in 1..t.levels
      <4>1. t.levels \in Nat
        BY <1>1, InputAssumption DEF WellFormedTile
      <4>2. QED BY <3>2, <1>2, <4>1
    <3>4. CellValue(t, t.cell[c][CHOOSE k \in from : TRUE]) \in Int
      BY <3>3, <1>1, CellValueType
    <3>5. QED
      BY <2>1, <3>4 DEF OnGrid
  <2>2. CASE ~(c \in t.inside /\ from # {})
    BY <2>2, ConfigAssumption DEF OnGrid, Missing, Unit
  <2>3. QED BY <2>1, <2>2
<1>4. QED
  BY <1>3 DEF OnGrid, Fields

(* The table has no height twice, so the level found is the one that has   *)
(* the file's height, whichever rank looks it up.                          *)
LEMMA FoundLevelIs ==
  ASSUME NEW r, NEW height
  PROVE  /\ FoundLevel(r, height) \in Level \cup {0}
         /\ FoundLevel(r, height) # 0 => levelheight[FoundLevel(r, height)] = height
<1> DEFINE matches == {k \in Level : levelheight[k] = height}
<1>1. CASE mypeLocal(r) \in matches
  BY <1>1 DEF FoundLevel
<1>2. CASE mypeLocal(r) \notin matches /\ matches # {}
  <2>1. PICK k0 \in matches : TRUE
    BY <1>2
  <2>2. \A l \in matches : l = k0
    BY <2>1, HeightAssumption
  <2>3. \A l \in matches : k0 >= l
    BY <2>2, ConfigAssumption DEF Level
  <2>4. (CHOOSE k \in matches : \A l \in matches : k >= l) \in matches
    BY <2>1, <2>3
  <2>5. FoundLevel(r, height) = CHOOSE k \in matches : \A l \in matches : k >= l
    BY <1>2 DEF FoundLevel
  <2>6. QED BY <2>4, <2>5
<1>3. CASE matches = {}
  BY <1>3 DEF FoundLevel
<1>4. QED BY <1>1, <1>2, <1>3

LEMMA AllMissingType == AllMissing \in Fields
  BY ConfigAssumption DEF AllMissing, Fields, Missing, Unit

LEMMA RunTypeOK ==
  ASSUME TypeInv, NEW r \in Rank, Run(r)
  PROVE  TypeOK'
<1> USE DEF Goto, inputs, outputs, PCs, Ended, Failed
<1>1. CASE TooFewCores(r)
  BY <1>1 DEF TypeInv, TypeOK, TooFewCores
<1>2. CASE Setup(r)
  BY <1>2 DEF TypeInv, TypeOK, Setup
<1>3. CASE ReadFilelist(r)
  <2>1. filelist.n \in Int
    BY InputAssumption, ConfigAssumption DEF TypeInv, TypeOK
  <2>2. QED BY <1>3, <2>1 DEF TypeInv, TypeOK, ReadFilelist
<1>4. CASE NameTile(r)
  BY <1>4 DEF TypeInv, TypeOK, NameTile
<1>5. CASE ReadHeader(r)
  <2>1. HasFile(r) \in BOOLEAN
    BY DEF HasFile
  <2>2. fileexist' \in [Rank -> BOOLEAN]
    BY <1>5, <2>1 DEF TypeInv, TypeOK, ReadHeader
  <2>3. pc' \in [Rank -> PCs]
    BY <1>5 DEF TypeInv, TypeOK, ReadHeader
  <2>4. QED
    BY <1>5, <2>2, <2>3 DEF TypeInv, TypeOK, ReadHeader
<1>6. CASE Ingest(r)
  <2>1. FoundLevel(r, mosaic[mypeLocal(r)].height) \in Level \cup {0}
    BY FoundLevelIs
  <2>2. QED BY <1>6, <2>1 DEF TypeInv, TypeOK, Ingest
<1>7. CASE CallBarrier(r, 1, "barrier1", "wait1")
  BY <1>7 DEF TypeInv, TypeOK, CallBarrier
<1>8. CASE LeaveBarrier(r, 1, "wait1", "interp")
  BY <1>8 DEF TypeInv, TypeOK, LeaveBarrier
<1>9. CASE Interpolate(r)
  BY <1>9, OnGridType, AllMissingType DEF TypeInv, TypeOK, Interpolate
<1>10. CASE Overrun(r)
  BY <1>10 DEF TypeInv, TypeOK, Overrun
<1>11. CASE CallBarrier(r, 2, "barrier2", "wait2")
  BY <1>11 DEF TypeInv, TypeOK, CallBarrier
<1>12. CASE LeaveBarrier(r, 2, "wait2", "reduce")
  BY <1>12 DEF TypeInv, TypeOK, LeaveBarrier
<1>13. CASE Contribute(r)
  <2>1. ref0' \in Fields
    BY <1>13 DEF TypeInv, TypeOK, Contribute, Fields, Larger
  <2>2. QED BY <1>13, <2>1 DEF TypeInv, TypeOK, Contribute
<1>14. CASE Write3D(r)
  BY <1>14 DEF TypeInv, TypeOK, Write3D
<1>15. CASE WriteColumns(r)
  <2>1. \E S \in SUBSET Interior : columns' \in [S -> [Level -> Int]]
    <3> DEFINE S == {i \in Interior : \E l \in Level : IsObserved(ref0[i][l])}
    <3>1. S \in SUBSET Interior
      OBVIOUS
    <3>2. columns' = [c \in S |-> ref0[c]]
      BY <1>15 DEF WriteColumns
    <3>3. \A c \in S : ref0[c] \in [Level -> Int]
      BY ConfigAssumption DEF TypeInv, TypeOK, Fields
    <3>4. QED BY <3>1, <3>2, <3>3
  <2>2. QED BY <1>15, <2>1 DEF TypeInv, TypeOK, WriteColumns
<1>16. CASE WriteBufr(r)
  <2>1. PICK S \in SUBSET Interior : columns \in [S -> [Level -> Int]]
    BY <1>16 DEF TypeInv, RankOK, WriteBufr
  <2>2. ASSUME NEW v \in Int PROVE BufrValue(v) \in Int
    BY ConfigAssumption DEF BufrValue, Unit
  <2>3. [c \in DOMAIN columns |-> [l \in Level |-> BufrValue(columns[c][l])]]
          \in [S -> [Level -> Int]]
    BY <2>1, <2>2
  <2>4. bufr' = NoFile \/ \E T \in SUBSET Interior : bufr' \in [T -> [Level -> Int]]
    BY <1>16, <2>3 DEF TypeInv, TypeOK, WriteBufr
  <2>5. QED BY <1>16, <2>4 DEF TypeInv, TypeOK, WriteBufr
<1>17. CASE ReportSuccess(r)
  BY <1>17 DEF TypeInv, TypeOK, ReportSuccess
<1>18. CASE Finalize(r)
  BY <1>18 DEF TypeInv, TypeOK, Finalize
<1>19. QED
  BY <1>1, <1>2, <1>3, <1>4, <1>5, <1>6, <1>7, <1>8, <1>9, <1>10, <1>11, <1>12,
     <1>13, <1>14, <1>15, <1>16, <1>17, <1>18 DEF Run

LEMMA RunRankOK ==
  ASSUME TypeInv, NEW r \in Rank, Run(r), NEW q \in Rank
  PROVE  RankOK(q)'
<1> USE DEF Goto, inputs, outputs, PCs, Ended, Failed, Started, RankOK, FileNo,
            mypeLocal
<1>1. CASE TooFewCores(r)
  BY <1>1 DEF TypeInv, TypeOK, TooFewCores
<1>2. CASE Setup(r)
  BY <1>2 DEF TypeInv, TypeOK, Setup
<1>3. CASE ReadFilelist(r)
  BY <1>3 DEF TypeInv, TypeOK, ReadFilelist
<1>4. CASE NameTile(r)
  BY <1>4 DEF TypeInv, TypeOK, NameTile
<1>5. CASE ReadHeader(r)
  <2>1. HasFile(r) => r + 1 \in 1..maxfile
    <3>1. tversion = 1 => nlevel[r] = filelist.n
      BY <1>5 DEF TypeInv, TypeOK, ReadHeader
    <3>2. filelist.n \in 0..maxfile
      BY InputAssumption DEF TypeInv, TypeOK
    <3>3. r \in Nat /\ maxfile \in Nat
      BY ConfigAssumption DEF Rank
    <3>4. QED BY <3>1, <3>2, <3>3 DEF HasFile
  <2>2. QED
    BY <1>5, <2>1 DEF TypeInv, TypeOK, ReadHeader
<1>6. CASE Ingest(r)
  BY <1>6 DEF TypeInv, TypeOK, Ingest
<1>7. CASE CallBarrier(r, 1, "barrier1", "wait1")
  BY <1>7 DEF TypeInv, TypeOK, CallBarrier
<1>8. CASE LeaveBarrier(r, 1, "wait1", "interp")
  BY <1>8 DEF TypeInv, TypeOK, LeaveBarrier
<1>9. CASE Interpolate(r)
  BY <1>9 DEF TypeInv, TypeOK, Interpolate
<1>10. CASE Overrun(r)
  BY <1>10 DEF TypeInv, TypeOK, Overrun
<1>11. CASE CallBarrier(r, 2, "barrier2", "wait2")
  BY <1>11 DEF TypeInv, TypeOK, CallBarrier
<1>12. CASE LeaveBarrier(r, 2, "wait2", "reduce")
  BY <1>12 DEF TypeInv, TypeOK, LeaveBarrier
<1>13. CASE Contribute(r)
  BY <1>13 DEF TypeInv, TypeOK, Contribute
<1>14. CASE Write3D(r)
  BY <1>14 DEF TypeInv, TypeOK, Write3D
<1>15. CASE WriteColumns(r)
  <2> DEFINE S == {i \in Interior : \E l \in Level : IsObserved(ref0[i][l])}
  <2>1. S \in SUBSET Interior
    OBVIOUS
  <2>2. columns' = [c \in S |-> ref0[c]]
    BY <1>15 DEF WriteColumns
  <2>3. \A c \in S : ref0[c] \in [Level -> Int]
    BY ConfigAssumption DEF TypeInv, TypeOK, Fields
  <2>4. \E T \in SUBSET Interior : columns' \in [T -> [Level -> Int]]
    BY <2>1, <2>2, <2>3
  <2>5. QED BY <1>15, <2>4 DEF TypeInv, TypeOK, WriteColumns
<1>16. CASE WriteBufr(r)
  BY <1>16 DEF TypeInv, TypeOK, WriteBufr
<1>17. CASE ReportSuccess(r)
  BY <1>17 DEF TypeInv, TypeOK, ReportSuccess
<1>18. CASE Finalize(r)
  BY <1>18 DEF TypeInv, TypeOK, Finalize
<1>19. QED
  BY <1>1, <1>2, <1>3, <1>4, <1>5, <1>6, <1>7, <1>8, <1>9, <1>10, <1>11, <1>12,
     <1>13, <1>14, <1>15, <1>16, <1>17, <1>18 DEF Run

LEMMA KillTypeInv ==
  ASSUME TypeInv, NEW r \in Rank, Kill(r)
  PROVE  TypeInv'
<1> USE DEF inputs, outputs, PCs, Ended, Failed
<1>1. TypeOK'
  BY DEF TypeInv, TypeOK, Kill
<1>2. ASSUME NEW q \in Rank PROVE RankOK(q)'
  BY DEF TypeInv, TypeOK, RankOK, Kill, Started, mypeLocal
<1>3. QED BY <1>1, <1>2 DEF TypeInv

LEMMA StutterTypeInv == TypeInv /\ UNCHANGED vars => TypeInv'
  BY DEF TypeInv, TypeOK, RankOK, vars, inputs, outputs

(* Type correctness: every variable of the job keeps a value of its type.  *)
THEOREM TypeCorrect == Spec => []TypeOK
<1>1. TypeInv /\ [Next]_vars => TypeInv'
  <2> SUFFICES ASSUME TypeInv, [Next]_vars PROVE TypeInv'
    OBVIOUS
  <2>1. CASE \E r \in Rank : Run(r)
    BY <2>1, RunTypeOK, RunRankOK DEF TypeInv
  <2>2. CASE \E r \in Rank : Kill(r)
    BY <2>2, KillTypeInv
  <2>3. CASE UNCHANGED vars
    BY <2>3, StutterTypeInv
  <2>4. QED BY <2>1, <2>2, <2>3 DEF Next, AllEnded
<1>2. TypeInv => TypeOK
  BY DEF TypeInv
<1>3. QED BY InitTypeInv, <1>1, <1>2, PTL DEF Spec

-----------------------------------------------------------------------------
(* Correctness of the merged field.  Own(r, c, l) is what rank r's file, if *)
(* it has one, observes.  The inductive invariant says that every rank     *)
(* that has interpolated holds exactly that, and that the buffer of        *)
(* MPI_REDUCE holds the largest of what the ranks reduced so far hold.     *)

HeaderRead == Started \ {"header"}
Ingested == HeaderRead \ {"ingest"}
Interpolated == Ingested \ {"barrier1", "wait1", "interp"}

AfterReduce == {"collect", "columns", "bufr", "report", "finalize", "done"}

Own(r, c, l) ==
  IF mypeLocal(r) \in ListedFiles THEN Observation(mypeLocal(r), c, l) ELSE Missing

RankMerges(r) ==
  /\ pc[r] \in Started => \A f \in ListedFiles : f <= npe
  /\ pc[r] \in HeaderRead =>
       (fileexist[r] <=> mypeLocal(r) \in ListedFiles /\ mosaic[mypeLocal(r)].exists)
  /\ tversion = 1 /\ fileexist[r] /\ pc[r] \in Ingested =>
       /\ worklevel[r] \in Level
       /\ levelheight[worklevel[r]] = mosaic[mypeLocal(r)].height
  /\ pc[r] \in Interpolated \/ r \in reduced =>
       \A c \in Column, l \in Level : ref3d[r][c][l] = Own(r, c, l)
  /\ r \in reduced => pc[r] \in AfterReduce \cup Failed

ReduceMerges ==
  /\ reduced # {} => \A f \in ListedFiles : f <= npe
  /\ reduced # {} => \A c \in Column, l \in Level :
       /\ \A r \in reduced : ref0[c][l] >= Own(r, c, l)
       /\ \E r \in reduced : ref0[c][l] = Own(r, c, l)
  /\ file3d = NoFile \/ (reduced = Rank /\ file3d = ref0)

MergeInv == TypeInv /\ (\A r \in Rank : RankMerges(r)) /\ ReduceMerges

LEMMA OwnUnchanged ==
  ASSUME UNCHANGED <<mosaic, filelist>>
  PROVE  /\ ListedFiles' = ListedFiles
         /\ \A r, c, l : Own(r, c, l)' = Own(r, c, l)
  BY DEF Own, Observation, ListedFiles, mypeLocal, CellValue

LEMMA InitMergeInv == Init => MergeInv
<1> SUFFICES ASSUME Init PROVE MergeInv
  OBVIOUS
<1>1. TypeInv
  BY InitTypeInv
<1>2. ASSUME NEW r \in Rank PROVE RankMerges(r)
  BY DEF Init, RankMerges, Interpolated, Ingested, HeaderRead, Started
<1>3. ReduceMerges
  BY DEF Init, ReduceMerges
<1>4. QED BY <1>1, <1>2, <1>3 DEF MergeInv

(* A rank's interpolated field is what its file observes.                  *)
LEMMA OnGridIsOwn ==
  ASSUME MergeInv, NEW r \in Rank, pc[r] = "interp",
         NEW c \in Column, NEW l \in Level
  PROVE  (IF fileexist[r] THEN OnGrid(r) ELSE AllMissing)[c][l] = Own(r, c, l)
<1> DEFINE t == mosaic[mypeLocal(r)]
           from == {k \in 1..mscNlev(t) : kk(r, k) = l}
<1>1. /\ fileexist[r] <=> mypeLocal(r) \in ListedFiles /\ t.exists
      /\ tversion = 1 /\ fileexist[r] =>
           worklevel[r] \in Level /\ levelheight[worklevel[r]] = t.height
  BY DEF MergeInv, RankMerges, Ingested, HeaderRead, Started, PCs, Ended, Failed
<1>2. CASE ~fileexist[r]
  BY <1>1, <1>2 DEF Own, Observation, AllMissing
<1>3. CASE fileexist[r]
  <2> SUFFICES OnGrid(r)[c][l] = Own(r, c, l)
    BY <1>3
  <2>1. t \in TileChoices /\ mypeLocal(r) \in ListedFiles /\ t.exists
    BY <1>1, <1>3 DEF MergeInv, TypeInv, TypeOK, RankOK
  <2>2. t.levels \in Nat /\ (tversion = 1 => t.levels >= 1) /\ l \in Nat /\ l >= 1
    BY <2>1, InputAssumption, ConfigAssumption DEF WellFormedTile, Level
  <2>3. OnGrid(r)[c][l] = IF c \in t.inside /\ from # {}
                          THEN CellValue(t, t.cell[c][CHOOSE k \in from : TRUE])
                          ELSE Missing
    BY DEF OnGrid
  <2>4. Own(r, c, l) = Observation(mypeLocal(r), c, l)
    BY <2>1 DEF Own
  <2>5. CASE tversion = 1
    <3>1. from = IF worklevel[r] = l THEN {1} ELSE {}
      BY <2>5 DEF mscNlev, kk
    <3>2. worklevel[r] = l <=> levelheight[l] = t.height
      BY <1>1, <1>3, <2>5, HeightAssumption
    <3>3. CASE worklevel[r] = l
      <4>1. from = {1} /\ from # {} /\ (CHOOSE k \in from : TRUE) = 1
        BY <3>1, <3>3
      <4>2. QED
        BY <4>1, <3>2, <3>3, <2>1, <2>2, <2>3, <2>4, <2>5 DEF Observation
    <3>4. CASE worklevel[r] # l
      BY <3>1, <3>2, <3>4, <2>3, <2>4, <2>5 DEF Observation
    <3>5. QED BY <3>3, <3>4
  <2>6. CASE tversion # 1
    <3>1. from = IF l <= t.levels THEN {l} ELSE {}
      BY <2>2, <2>6 DEF mscNlev, kk
    <3>2. CASE l <= t.levels
      <4>1. from = {l} /\ from # {} /\ (CHOOSE k \in from : TRUE) = l
        BY <3>1, <3>2
      <4>2. QED
        BY <4>1, <3>2, <2>1, <2>3, <2>4, <2>6 DEF Observation
    <3>3. CASE ~(l <= t.levels)
      BY <3>1, <3>3, <2>3, <2>4, <2>6 DEF Observation
    <3>4. QED BY <3>2, <3>3
  <2>7. QED BY <1>3, <2>5, <2>6
<1>4. QED BY <1>2, <1>3

LEMMA QuietReduceMerges ==
  ASSUME ReduceMerges, UNCHANGED <<mosaic, filelist, reduced, ref0, file3d>>
  PROVE  ReduceMerges'
  BY OwnUnchanged DEF ReduceMerges

(* The ranks other than the one that moves keep their part.                *)
LEMMA OthersMerge ==
  ASSUME MergeInv, NEW q \in Rank, UNCHANGED <<mosaic, filelist>>,
         pc'[q] = pc[q], fileexist'[q] = fileexist[q],
         worklevel'[q] = worklevel[q], ref3d'[q] = ref3d[q],
         q \in reduced' <=> q \in reduced
  PROVE  RankMerges(q)'
  BY OwnUnchanged DEF MergeInv, RankMerges, mypeLocal

LEMMA RunRankMerges ==
  ASSUME MergeInv, NEW r \in Rank, Run(r), NEW q \in Rank
  PROVE  RankMerges(q)'
<1>1. UNCHANGED <<mosaic, filelist>>
  BY DEF Run, inputs, TooFewCores, Setup, ReadFilelist, NameTile, ReadHeader, Ingest,
     CallBarrier, LeaveBarrier, Interpolate, Overrun, Contribute, Write3D,
     WriteColumns, WriteBufr, ReportSuccess, Finalize
<1>2. TypeOK /\ RankOK(q) /\ RankMerges(q)
  BY DEF MergeInv, TypeInv
<1>3. CASE q # r
  <2>1. /\ pc'[q] = pc[q] /\ fileexist'[q] = fileexist[q]
        /\ worklevel'[q] = worklevel[q] /\ ref3d'[q] = ref3d[q]
        /\ q \in reduced' <=> q \in reduced
    BY <1>2, <1>3 DEF TypeOK, Run, Goto, TooFewCores, Setup, ReadFilelist, NameTile,
       ReadHeader, Ingest, CallBarrier, LeaveBarrier, Interpolate, Overrun,
       Contribute, Write3D, WriteColumns, WriteBufr, ReportSuccess, Finalize
  <2>2. QED BY <2>1, <1>1, OthersMerge
<1>4. CASE q = r
  <2> USE <1>1, <1>2, <1>4, OwnUnchanged
      DEF TypeOK, RankMerges, Goto, PCs, Ended, Failed, Started, HeaderRead, Ingested,
          Interpolated, AfterReduce, mypeLocal
  <2>1. CASE TooFewCores(r)
    BY <2>1 DEF TooFewCores
  <2>2. CASE Setup(r)
    BY <2>2 DEF Setup
  <2>3. CASE ReadFilelist(r)
    <3>1. ListedFiles' = ListedFiles /\ r \in Rank
      BY OwnUnchanged
    <3>2. ASSUME pc'[r] = "header" PROVE \A f \in ListedFiles : f <= npe
      <4>1. /\ ListedFiles = 1..filelist.n /\ filelist.n \in Nat /\ npe \in Nat
            /\ filelist.n <= npe
        BY <2>3, <3>2, ConfigAssumption, InputAssumption DEF ReadFilelist, ListedFiles
      <4>2. QED BY <4>1
    <3>3. pc'[r] \in {"header", "stopped"} /\ pc[r] = "name"
      BY <2>3 DEF ReadFilelist
    <3>4. r \notin reduced /\ reduced' = reduced /\ ref3d' = ref3d
      BY <2>3, <3>3 DEF ReadFilelist
    <3>5. CASE pc'[r] = "stopped"
      BY <3>4, <3>5
    <3>6. CASE pc'[r] = "header"
      BY <3>1, <3>2, <3>4, <3>6
    <3>7. QED BY <3>3, <3>5, <3>6
  <2>4. CASE NameTile(r)
    <3>1. pc[r] = "name" /\ pc'[r] \in {"header", "stopped"}
      BY <2>4 DEF NameTile
    <3>2. r \notin reduced /\ reduced' = reduced /\ ref3d' = ref3d
      BY <2>4, <3>1 DEF NameTile
    <3>3. ASSUME pc'[r] = "header" PROVE \A f \in ListedFiles : f <= npe
      <4>1. ListedFiles = 1..maxfile /\ maxfile \in Nat /\ npe \in Nat /\ maxfile <= npe
        BY <2>4, <3>3, ConfigAssumption DEF NameTile, ListedFiles, FileNo
      <4>2. QED BY <4>1
    <3>4. CASE pc'[r] = "stopped"
      BY <3>2, <3>4
    <3>5. CASE pc'[r] = "header"
      BY <3>2, <3>3, <3>5
    <3>6. QED BY <3>1, <3>4, <3>5
  <2>5. CASE ReadHeader(r)
    <3>1. HasFile(r) <=> mypeLocal(r) \in ListedFiles /\ mosaic[mypeLocal(r)].exists
      <4>1. tversion = 1 => nlevel[r] = filelist.n
        BY <2>5 DEF ReadHeader, RankOK
      <4>2. r \in Nat /\ filelist.n \in Nat /\ maxfile \in Nat
        BY ConfigAssumption, InputAssumption DEF Rank
      <4>3. QED BY <4>1, <4>2 DEF HasFile, ListedFiles, FileNo
    <3>2. /\ pc[r] = "header" /\ pc'[r] \in {"barrier1", "ingest", "stopped"}
          /\ fileexist'[r] = HasFile(r)
      BY <2>5 DEF ReadHeader
    <3>3. pc'[r] = "barrier1" => ~HasFile(r)
      BY <2>5 DEF ReadHeader
    <3>4. QED
      BY <2>5, <3>1, <3>2, <3>3 DEF ReadHeader
  <2>6. CASE Ingest(r)
    BY <2>6, FoundLevelIs DEF Ingest
  <2>7. CASE CallBarrier(r, 1, "barrier1", "wait1")
    BY <2>7 DEF CallBarrier
  <2>8. CASE LeaveBarrier(r, 1, "wait1", "interp")
    BY <2>8 DEF LeaveBarrier
  <2>9. CASE Interpolate(r)
    BY <2>9, OnGridIsOwn DEF Interpolate
  <2>10. CASE Overrun(r)
    BY <2>10 DEF Overrun
  <2>11. CASE CallBarrier(r, 2, "barrier2", "wait2")
    BY <2>11 DEF CallBarrier
  <2>12. CASE LeaveBarrier(r, 2, "wait2", "reduce")
    BY <2>12 DEF LeaveBarrier
  <2>13. CASE Contribute(r)
    BY <2>13 DEF Contribute
  <2>14. CASE Write3D(r)
    BY <2>14 DEF Write3D
  <2>15. CASE WriteColumns(r)
    BY <2>15 DEF WriteColumns
  <2>16. CASE WriteBufr(r)
    BY <2>16 DEF WriteBufr
  <2>17. CASE ReportSuccess(r)
    BY <2>17 DEF ReportSuccess
  <2>18. CASE Finalize(r)
    BY <2>18 DEF Finalize
  <2>19. QED
    BY <2>1, <2>2, <2>3, <2>4, <2>5, <2>6, <2>7, <2>8, <2>9, <2>10, <2>11, <2>12,
       <2>13, <2>14, <2>15, <2>16, <2>17, <2>18 DEF Run
<1>5. QED BY <1>3, <1>4

LEMMA RunReduceMerges ==
  ASSUME MergeInv, NEW r \in Rank, Run(r)
  PROVE  ReduceMerges'
<1> USE DEF inputs, outputs
<1>1. ReduceMerges
  BY DEF MergeInv
<1>2. CASE Contribute(r)
  <2>1. /\ r \notin reduced /\ \A f \in ListedFiles : f <= npe
        /\ \A c \in Column, l \in Level : ref3d[r][c][l] = Own(r, c, l)
    BY <1>2 DEF MergeInv, RankMerges, Contribute, Goto, Started, HeaderRead, Ingested,
       Interpolated, AfterReduce, PCs, Ended, Failed
  <2>2. UNCHANGED <<mosaic, filelist>> /\ file3d' = file3d
    BY <1>2 DEF Contribute
  <2>3. file3d = NoFile
    BY <1>1, <2>1 DEF ReduceMerges
  <2>4. ASSUME NEW c \in Column, NEW l \in Level
        PROVE  /\ \A q \in reduced' : ref0'[c][l] >= Own(q, c, l)
               /\ \E q \in reduced' : ref0'[c][l] = Own(q, c, l)
    <3>1. reduced' = reduced \cup {r}
      BY <1>2 DEF Contribute
    <3>2. \A q \in Rank : ref3d[q][c][l] \in Int /\ ref0[c][l] \in Int
      BY DEF MergeInv, TypeInv, TypeOK, Fields
    <3>3. \A q \in reduced \cup {r} : Own(q, c, l) = ref3d[q][c][l] /\ q \in Rank
      BY <2>1 DEF MergeInv, RankMerges, TypeInv, TypeOK
    <3>4. CASE reduced = {}
      BY <3>1, <3>2, <3>3, <3>4, <1>2 DEF Contribute
    <3>5. CASE reduced # {}
      <4>1. ref0'[c][l] = Larger(ref0[c][l], ref3d[r][c][l])
        BY <3>5, <1>2 DEF Contribute
      <4>2. /\ \A q \in reduced : ref0[c][l] >= Own(q, c, l)
            /\ \E q \in reduced : ref0[c][l] = Own(q, c, l)
        BY <3>5, <1>1 DEF ReduceMerges
      <4>3. QED
        BY <3>1, <3>2, <3>3, <4>1, <4>2 DEF Larger
    <3>6. QED BY <3>4, <3>5
  <2>5. QED
    BY <2>1, <2>2, <2>3, <2>4, OwnUnchanged DEF ReduceMerges
<1>3. CASE Write3D(r)
  <2>1. UNCHANGED <<mosaic, filelist, reduced, ref0>> /\ reduced = Rank /\ file3d' = ref0
    BY <1>3 DEF Write3D
  <2>2. QED
    BY <1>1, <2>1, OwnUnchanged DEF ReduceMerges
<1>4. CASE ~Contribute(r) /\ ~Write3D(r)
  <2>1. UNCHANGED <<mosaic, filelist, reduced, ref0, file3d>>
    BY <1>4 DEF Run, TooFewCores, Setup, ReadFilelist, NameTile, ReadHeader, Ingest,
       CallBarrier, LeaveBarrier, Interpolate, Overrun, WriteColumns, WriteBufr,
       ReportSuccess, Finalize
  <2>2. QED BY <1>1, <2>1, QuietReduceMerges
<1>5. QED BY <1>2, <1>3, <1>4

LEMMA KillMergeInv ==
  ASSUME MergeInv, NEW r \in Rank, Kill(r)
  PROVE  MergeInv'
<1>1. TypeInv'
  BY KillTypeInv DEF MergeInv
<1>2. UNCHANGED <<mosaic, filelist, nlevel, fileexist, worklevel, ref3d, reduced,
                  ref0, file3d>>
  BY DEF Kill, inputs, outputs
<1>3. ReduceMerges'
  BY <1>2, QuietReduceMerges DEF MergeInv
<1>4. ASSUME NEW q \in Rank PROVE RankMerges(q)'
  BY <1>2, OwnUnchanged
  DEF MergeInv, TypeInv, TypeOK, RankMerges, Kill, mypeLocal, Started, HeaderRead,
      Ingested, Interpolated, PCs, Ended, Failed
<1>5. QED BY <1>1, <1>3, <1>4 DEF MergeInv

LEMMA MergeInvInductive == MergeInv /\ [Next]_vars => MergeInv'
<1> SUFFICES ASSUME MergeInv, [Next]_vars PROVE MergeInv'
  OBVIOUS
<1>1. ASSUME NEW r \in Rank, Run(r) PROVE MergeInv'
  <2>1. TypeInv'
    BY <1>1, RunTypeOK, RunRankOK DEF TypeInv, MergeInv
  <2>2. QED BY <1>1, <2>1, RunRankMerges, RunReduceMerges DEF MergeInv
<1>2. ASSUME NEW r \in Rank, Kill(r) PROVE MergeInv'
  BY <1>2, KillMergeInv
<1>3. CASE UNCHANGED vars
  <2>1. TypeInv'
    BY <1>3, StutterTypeInv DEF MergeInv
  <2>2. ReduceMerges'
    BY <1>3, QuietReduceMerges DEF MergeInv, vars, inputs, outputs
  <2>3. ASSUME NEW q \in Rank PROVE RankMerges(q)'
    BY <1>3, OthersMerge DEF vars, inputs, outputs
  <2>4. QED BY <2>1, <2>2, <2>3 DEF MergeInv
<1>4. QED BY <1>1, <1>2, <1>3 DEF Next, AllEnded

LEMMA ObservationLarge ==
  ASSUME TypeOK, NEW f \in FileNo, NEW c \in Column, NEW l \in Level
  PROVE  Observation(f, c, l) \in Int /\ Observation(f, c, l) >= Missing
<1> DEFINE t == mosaic[f]
           k == IF tversion = 1 THEN 1 ELSE l
<1>1. t \in TileChoices /\ t.levels \in Nat
  BY InputAssumption DEF TypeOK, WellFormedTile
<1>2. Missing \in Int /\ Missing >= Missing
  BY ConfigAssumption DEF Missing, Unit
<1>3. CASE k <= t.levels
  <2>1. k \in 1..t.levels
    BY <1>1, <1>3, ConfigAssumption DEF Level
  <2>2. CellValue(t, t.cell[c][k]) \in Int /\ CellValue(t, t.cell[c][k]) >= Missing
    BY <1>1, <2>1, CellValueType, CellValueLarge
  <2>3. QED BY <1>2, <2>2 DEF Observation
<1>4. CASE ~(k <= t.levels)
  BY <1>2, <1>4 DEF Observation
<1>5. QED BY <1>3, <1>4

LEMMA MergeInvImplies == MergeInv => MergeCorrect
<1> SUFFICES ASSUME MergeInv, file3d # NoFile,
                    NEW c \in Column, NEW l \in Level
             PROVE  /\ file3d[c][l] \in {Missing} \cup
                          {Observation(f, c, l) : f \in ListedFiles}
                    /\ \A f \in ListedFiles : file3d[c][l] >= Observation(f, c, l)
                    /\ file3d[c][l] >= Missing
  BY DEF MergeCorrect, IsMerged
<1>1. /\ reduced = Rank /\ file3d = ref0 /\ reduced # {}
      /\ \A f \in ListedFiles : f <= npe
      /\ \A r \in Rank : ref0[c][l] >= Own(r, c, l)
      /\ \E r \in Rank : ref0[c][l] = Own(r, c, l)
  <2>1. reduced = Rank /\ file3d = ref0
    BY DEF MergeInv, ReduceMerges
  <2>2. 0 \in Rank
    BY ConfigAssumption DEF Rank
  <2>3. QED BY <2>1, <2>2 DEF MergeInv, ReduceMerges
<1>2. ListedFiles \subseteq FileNo /\ FileNo \subseteq Nat /\ npe \in Nat
  BY InputAssumption, ConfigAssumption DEF MergeInv, TypeInv, TypeOK, ListedFiles, FileNo
<1>3. \A f \in ListedFiles : f - 1 \in Rank /\ Own(f - 1, c, l) = Observation(f, c, l)
  <2> TAKE f \in ListedFiles
  <2>1. f \in Nat /\ f >= 1 /\ f <= npe
    BY <1>1, <1>2, ConfigAssumption DEF FileNo
  <2>2. f - 1 \in Rank /\ mypeLocal(f - 1) = f
    BY <2>1, <1>2 DEF Rank, mypeLocal
  <2>3. QED BY <2>2 DEF Own
<1>4. \A r \in Rank : Own(r, c, l) >= Missing
  <2>1. Missing >= Missing
    BY ConfigAssumption DEF Missing, Unit
  <2>2. \A f \in FileNo : Observation(f, c, l) >= Missing
    BY ObservationLarge DEF MergeInv, TypeInv
  <2>3. QED BY <1>2, <2>1, <2>2 DEF Own
<1>5. \A f \in ListedFiles : file3d[c][l] >= Observation(f, c, l)
  BY <1>1, <1>3
<1>6. file3d[c][l] \in {Missing} \cup {Observation(f, c, l) : f \in ListedFiles}
  BY <1>1 DEF Own
<1>7. file3d[c][l] >= Missing
  BY <1>1, <1>4
<1>8. QED BY <1>5, <1>6, <1>7

(* The merged field is the pointwise maximum of what the files observe,    *)
(* for any number of ranks and any order in which they run.                *)
THEOREM MergeIsCorrect == Spec => []MergeCorrect
  BY InitMergeInv, MergeInvInductive, MergeInvImplies, PTL DEF Spec

-----------------------------------------------------------------------------
(* A failed rank holds the others at the second barrier, which it has not  *)
(* called; whatever rank 0 writes, it writes after that barrier.           *)

BeforeSecond == {"start", "name", "header", "ingest", "barrier1", "wait1", "interp",
                 "barrier2"}
RootOnly == {"collect", "columns", "bufr", "report"}

RankHeld(r) ==
  /\ pc[r] \in BeforeSecond => r \notin barrier[2]
  /\ pc[r] = "stopped" => r = Root \/ r \notin barrier[2]
  /\ pc[r] \in RootOnly => r = Root
  /\ pc[r] \in AfterReduce \cup {"reduce"} => barrier[2] = Rank

HeldInv ==
  /\ TypeInv
  /\ \A r \in Rank : RankHeld(r)
  /\ file3d # NoFile \/ columns # NoFile \/ bufr # NoFile \/ success =>
       barrier[2] = Rank

LEMMA InitHeldInv == Init => HeldInv
<1> SUFFICES ASSUME Init PROVE HeldInv
  OBVIOUS
<1>1. ASSUME NEW r \in Rank PROVE RankHeld(r)
  BY DEF Init, RankHeld, RootOnly, AfterReduce
<1>2. QED BY <1>1, InitTypeInv DEF Init, HeldInv

LEMMA HeldInvInductive == HeldInv /\ [Next]_vars => HeldInv'
<1> SUFFICES ASSUME HeldInv, [Next]_vars PROVE HeldInv'
  OBVIOUS
<1> USE DEF HeldInv
<1>1. ASSUME NEW r \in Rank, Run(r) PROVE HeldInv'
  <2>1. TypeInv'
    BY <1>1, RunTypeOK, RunRankOK DEF TypeInv
  <2> USE <1>1 DEF Goto, inputs, outputs, TypeInv, TypeOK, RankHeld, BeforeSecond,
                   RootOnly, AfterReduce, PCs, Ended, Failed
  <2>2. CASE CallBarrier(r, 2, "barrier2", "wait2")
    <3>1. barrier'[2] = barrier[2] \cup {r} /\ barrier[2] \subseteq Rank
      BY <2>2 DEF CallBarrier
    <3>2. ASSUME NEW q \in Rank PROVE RankHeld(q)'
      BY <2>2, <3>1 DEF CallBarrier
    <3>3. QED BY <2>1, <2>2, <3>1, <3>2 DEF CallBarrier
  <2>3. CASE ~CallBarrier(r, 2, "barrier2", "wait2")
    <3>1. barrier'[2] = barrier[2]
      BY <2>3 DEF Run, TooFewCores, Setup, ReadFilelist, NameTile, ReadHeader, Ingest,
         CallBarrier, LeaveBarrier, Interpolate, Overrun, Contribute, Write3D,
         WriteColumns, WriteBufr, ReportSuccess, Finalize
    <3>2. /\ \A q \in Rank : q # r => pc'[q] = pc[q]
          /\ pc'[r] \in BeforeSecond => pc[r] \in BeforeSecond
          /\ pc'[r] = "stopped" => pc[r] \in BeforeSecond \/ pc[r] = "bufr"
          /\ pc'[r] \in RootOnly => pc[r] \in RootOnly \/ r = Root
          /\ pc'[r] \in AfterReduce \cup {"reduce"} =>
               pc[r] \in AfterReduce \cup {"reduce"} \/ barrier[2] = Rank
      BY <2>3 DEF Run, TooFewCores, Setup, ReadFilelist, NameTile, ReadHeader, Ingest,
         CallBarrier, LeaveBarrier, Interpolate, Overrun, Contribute, Write3D,
         WriteColumns, WriteBufr, ReportSuccess, Finalize
    <3>3. ASSUME NEW q \in Rank PROVE RankHeld(q)'
      BY <3>1, <3>2
    <3>4. CASE Write3D(r) \/ WriteColumns(r) \/ WriteBufr(r) \/ ReportSuccess(r)
      <4>1. barrier[2] = Rank
        BY <3>4 DEF Write3D, WriteColumns, WriteBufr, ReportSuccess
      <4>2. QED BY <2>1, <3>1, <3>3, <4>1
    <3>5. CASE UNCHANGED outputs
      BY <2>1, <3>1, <3>3, <3>5
    <3>6. QED
      BY <3>4, <3>5 DEF Run, TooFewCores, Setup, ReadFilelist, NameTile, ReadHeader,
         Ingest, CallBarrier, LeaveBarrier, Interpolate, Overrun, Contribute, Finalize
  <2>4. QED BY <2>2, <2>3
<1>2. ASSUME NEW r \in Rank, Kill(r) PROVE HeldInv'
  <2>1. TypeInv'
    BY <1>2, KillTypeInv
  <2>2. ASSUME NEW q \in Rank PROVE RankHeld(q)'
    BY <1>2 DEF Kill, TypeInv, TypeOK, RankHeld, BeforeSecond, RootOnly, AfterReduce
  <2>3. QED BY <1>2, <2>1, <2>2 DEF Kill, outputs
<1>3. CASE UNCHANGED vars
  BY <1>3, StutterTypeInv DEF vars, inputs, outputs, RankHeld
<1>4. QED BY <1>1, <1>2, <1>3 DEF Next, AllEnded

(* No output is written once a rank other than 0 has failed.               *)
THEOREM FailureHoldsOutput == Spec => []NoOutputAfterFailure
<1>1. HeldInv => NoOutputAfterFailure
  BY DEF HeldInv, RankHeld, NoOutputAfterFailure
<1>2. QED BY InitHeldInv, HeldInvInductive, <1>1, PTL DEF Spec

-----------------------------------------------------------------------------
(* What holds after the reduction.  Rank 0 goes through its three outputs  *)
(* in order; the ranks it has reduced have nothing left that can stop them;*)
(* and a rank is killed only after another one has stopped.                *)

RootProgress(r) ==
  /\ pc[r] \in {"columns", "bufr", "report"} => reduced = Rank /\ file3d # NoFile
  /\ pc[r] \in {"bufr", "report"} => columns # NoFile
  /\ pc[r] = "report" => bufr # NoFile
  /\ r # Root /\ r \in reduced => pc[r] \in {"finalize", "done", "stopped", "killed"}

Reported ==
  success => /\ pc[Root] \in {"finalize", "done", "killed"}
             /\ reduced = Rank
             /\ file3d # NoFile /\ columns # NoFile /\ bufr # NoFile

KilledAfterStop ==
  (\E r \in Rank : pc[r] = "killed") => \E q \in Rank : pc[q] = "stopped"

PublishedOnce ==
  file3d # NoFile =>
    pc[Root] \in {"columns", "bufr", "report", "finalize", "done", "stopped", "killed"}

DoneInv ==
  /\ HeldInv
  /\ \A r \in Rank : RootProgress(r)
  /\ PublishedOnce
  /\ Reported
  /\ KilledAfterStop

LEMMA RootIsRank == Root \in Rank
  BY ConfigAssumption DEF Root, Rank

LEMMA InitDoneInv == Init => DoneInv
<1> SUFFICES ASSUME Init PROVE DoneInv
  OBVIOUS
<1>1. ASSUME NEW r \in Rank PROVE RootProgress(r)
  BY DEF Init, RootProgress
<1>2. PublishedOnce /\ Reported /\ KilledAfterStop
  BY DEF Init, PublishedOnce, Reported, KilledAfterStop
<1>3. QED BY <1>1, <1>2, InitHeldInv DEF DoneInv

(* Once all ranks have called the second barrier, none has failed unless   *)
(* rank 0 has.                                                             *)
LEMMA NoneFailed ==
  ASSUME DoneInv, barrier[2] = Rank, pc[Root] # "stopped"
  PROVE  \A q \in Rank : pc[q] \notin Failed
<1>1. \A q \in Rank : pc[q] # "stopped"
  BY DEF DoneInv, HeldInv, RankHeld
<1>2. QED BY <1>1 DEF DoneInv, KilledAfterStop, Failed

(* A step before the reduction disturbs none of this.                      *)
BeforeReduce == BeforeSecond \cup {"wait2"}
LEMMA EarlyStep ==
  ASSUME DoneInv, NEW r \in Rank, pc[r] \in BeforeReduce,
         pc' = [pc EXCEPT ![r] = pc'[r]],
         pc'[r] \in BeforeReduce \cup {"reduce", "stopped", "badcores"},
         UNCHANGED reduced, UNCHANGED outputs
  PROVE  (\A q \in Rank : RootProgress(q)') /\ PublishedOnce' /\ Reported' /\ KilledAfterStop'
<1> USE DEF DoneInv, HeldInv, TypeInv, TypeOK, BeforeReduce, BeforeSecond, outputs
<1>1. ASSUME NEW q \in Rank PROVE RootProgress(q)'
  BY DEF RootProgress
<1>2. PublishedOnce' /\ Reported'
  BY RootIsRank DEF PublishedOnce, Reported
<1>3. KilledAfterStop'
  BY DEF KilledAfterStop
<1>4. QED BY <1>1, <1>2, <1>3

(* The outputs that are written are there.                                 *)
LEMMA WrittenColumns ==
  ASSUME TypeInv, NEW r \in Rank, WriteColumns(r)
  PROVE  columns' # NoFile
<1> DEFINE S == {i \in Interior : \E l \in Level : IsObserved(ref0[i][l])}
<1>1. S \in SUBSET Interior
  OBVIOUS
<1>2. columns' = [c \in S |-> ref0[c]]
  BY DEF WriteColumns
<1>3. \A c \in S : ref0[c] \in [Level -> Int]
  BY ConfigAssumption DEF TypeInv, TypeOK, Fields
<1>4. QED BY <1>1, <1>2, <1>3, NoFileAssumption

LEMMA WrittenBufr ==
  ASSUME TypeInv, NEW r \in Rank, WriteBufr(r), present.bufrtable
  PROVE  bufr' # NoFile
<1>1. PICK S \in SUBSET Interior : columns \in [S -> [Level -> Int]]
  BY DEF TypeInv, RankOK, WriteBufr, Goto
<1>2. ASSUME NEW v \in Int PROVE BufrValue(v) \in Int
  BY ConfigAssumption DEF BufrValue, Unit
<1>3. bufr' = [c \in DOMAIN columns |-> [l \in Level |-> BufrValue(columns[c][l])]]
  BY DEF WriteBufr
<1>4. bufr' \in [S -> [Level -> Int]]
  BY <1>1, <1>2, <1>3
<1>5. QED BY <1>4, NoFileAssumption

LEMMA RunDoneInv ==
  ASSUME DoneInv, NEW r \in Rank, Run(r)
  PROVE  (\A q \in Rank : RootProgress(q)') /\ PublishedOnce' /\ Reported' /\ KilledAfterStop'
<1> USE DEF Goto, inputs, outputs
<1>1. CASE TooFewCores(r) \/ Setup(r) \/ ReadFilelist(r) \/ NameTile(r) \/ ReadHeader(r)
           \/ Ingest(r) \/ Interpolate(r) \/ Overrun(r)
  <2>1. /\ pc[r] \in BeforeReduce
        /\ pc' = [pc EXCEPT ![r] = pc'[r]]
        /\ pc'[r] \in BeforeReduce \cup {"reduce", "stopped", "badcores"}
        /\ UNCHANGED reduced /\ UNCHANGED outputs
    BY <1>1 DEF TooFewCores, Setup, ReadFilelist, NameTile, ReadHeader, Ingest,
       Interpolate, Overrun, BeforeReduce, BeforeSecond, DoneInv, HeldInv, TypeInv, TypeOK
  <2>2. QED BY <2>1, EarlyStep
<1>2. CASE \/ CallBarrier(r, 1, "barrier1", "wait1") \/ LeaveBarrier(r, 1, "wait1", "interp")
           \/ CallBarrier(r, 2, "barrier2", "wait2") \/ LeaveBarrier(r, 2, "wait2", "reduce")
  <2>1. /\ pc[r] \in BeforeReduce
        /\ pc' = [pc EXCEPT ![r] = pc'[r]]
        /\ pc'[r] \in BeforeReduce \cup {"reduce", "stopped", "badcores"}
        /\ UNCHANGED reduced /\ UNCHANGED outputs
    BY <1>2 DEF CallBarrier, LeaveBarrier, BeforeReduce, BeforeSecond, DoneInv, HeldInv,
       TypeInv, TypeOK
  <2>2. QED BY <2>1, EarlyStep
<1> USE RootIsRank DEF DoneInv, HeldInv, TypeInv, TypeOK, RankHeld, RootOnly
<1>3. CASE Contribute(r)
  <2>1. ASSUME NEW q \in Rank PROVE RootProgress(q)'
    BY <1>3 DEF Contribute, RootProgress
  <2>2. PublishedOnce' /\ Reported' /\ KilledAfterStop'
    BY <1>3 DEF Contribute, PublishedOnce, Reported, KilledAfterStop
  <2>3. QED BY <2>1, <2>2
<1>4. CASE Write3D(r)
  <2>1. r = Root /\ ~success /\ file3d' # NoFile
    BY <1>4, NoFileAssumption DEF Write3D, Fields, Reported
  <2>2. ASSUME NEW q \in Rank PROVE RootProgress(q)'
    BY <1>4, <2>1 DEF Write3D, RootProgress
  <2>3. PublishedOnce' /\ Reported' /\ KilledAfterStop'
    BY <1>4, <2>1 DEF Write3D, PublishedOnce, Reported, KilledAfterStop
  <2>4. QED BY <2>2, <2>3
<1>5. CASE WriteColumns(r)
  <2>1. r = Root /\ ~success /\ columns' # NoFile
    BY <1>5, WrittenColumns DEF WriteColumns, Reported
  <2>2. ASSUME NEW q \in Rank PROVE RootProgress(q)'
    BY <1>5, <2>1 DEF WriteColumns, RootProgress
  <2>3. PublishedOnce' /\ Reported' /\ KilledAfterStop'
    BY <1>5, <2>1 DEF WriteColumns, PublishedOnce, Reported, KilledAfterStop
  <2>4. QED BY <2>2, <2>3
<1>6. CASE WriteBufr(r)
  <2>1. r = Root /\ ~success /\ (present.bufrtable => bufr' # NoFile)
    BY <1>6, WrittenBufr DEF WriteBufr, Reported
  <2>2. ASSUME NEW q \in Rank PROVE RootProgress(q)'
    BY <1>6, <2>1 DEF WriteBufr, RootProgress
  <2>3. PublishedOnce' /\ Reported' /\ KilledAfterStop'
    BY <1>6, <2>1 DEF WriteBufr, PublishedOnce, Reported, KilledAfterStop
  <2>4. QED BY <2>2, <2>3
<1>7. CASE ReportSuccess(r)
  <2>1. ASSUME NEW q \in Rank PROVE RootProgress(q)'
    BY <1>7 DEF ReportSuccess, RootProgress
  <2>2. PublishedOnce' /\ Reported' /\ KilledAfterStop'
    BY <1>7 DEF ReportSuccess, PublishedOnce, Reported, KilledAfterStop, RootProgress
  <2>3. QED BY <2>1, <2>2
<1>8. CASE Finalize(r)
  <2>1. ASSUME NEW q \in Rank PROVE RootProgress(q)'
    BY <1>8 DEF Finalize, RootProgress
  <2>2. PublishedOnce' /\ Reported' /\ KilledAfterStop'
    BY <1>8 DEF Finalize, PublishedOnce, Reported, KilledAfterStop
  <2>3. QED BY <2>1, <2>2
<1>9. QED BY <1>1, <1>2, <1>3, <1>4, <1>5, <1>6, <1>7, <1>8 DEF Run

LEMMA DoneInvInductive == DoneInv /\ [Next]_vars => DoneInv'
<1> SUFFICES ASSUME DoneInv, [Next]_vars PROVE DoneInv'
  OBVIOUS
<1>1. HeldInv'
  BY HeldInvInductive DEF DoneInv
<1>2. ASSUME NEW r \in Rank, Run(r) PROVE DoneInv'
  BY <1>1, <1>2, RunDoneInv DEF DoneInv
<1>3. ASSUME NEW r \in Rank, Kill(r) PROVE DoneInv'
  <2> USE <1>3, RootIsRank DEF Kill, outputs, DoneInv, HeldInv, TypeInv, TypeOK, Ended, Failed
  <2>1. ASSUME NEW q \in Rank PROVE RootProgress(q)'
    BY DEF RootProgress
  <2>2. PublishedOnce' /\ Reported' /\ KilledAfterStop'
    BY DEF PublishedOnce, Reported, KilledAfterStop
  <2>3. QED BY <1>1, <2>1, <2>2
<1>4. CASE UNCHANGED vars
  BY <1>1, <1>4 DEF DoneInv, RootProgress, PublishedOnce, Reported, KilledAfterStop, vars, outputs
<1>5. QED BY <1>2, <1>3, <1>4 DEF Next, AllEnded

(* SUCCESS is printed only by a complete job with complete outputs.        *)
THEOREM SuccessMeansComplete == Spec => []SuccessIsComplete
<1>1. DoneInv => SuccessIsComplete
  <2> SUFFICES ASSUME DoneInv, success PROVE SuccessIsComplete
    BY DEF SuccessIsComplete
  <2>1. reduced = Rank /\ file3d # NoFile /\ columns # NoFile /\ bufr # NoFile
    BY DEF DoneInv, Reported
  <2>2. barrier[2] = Rank /\ pc[Root] # "stopped"
    BY DEF DoneInv, HeldInv, Reported
  <2>3. \A q \in Rank : pc[q] \notin Failed
    BY <2>2, NoneFailed
  <2>4. ASSUME NEW q \in Rank PROVE pc[q] \in {"finalize", "done"}
    BY <2>1, <2>3, RootIsRank DEF DoneInv, RootProgress, Reported, Failed
  <2>5. QED BY <2>1, <2>4 DEF SuccessIsComplete
<1>2. QED BY InitDoneInv, DoneInvInductive, <1>1, PTL DEF Spec

-----------------------------------------------------------------------------
(* The implementation of MosaicMerge.                                      *)

LEMMA FileFieldsUnchanged ==
  ASSUME UNCHANGED <<mosaic, filelist>>
  PROVE  FileFields' = FileFields
BY DEF FileFields, Observation, ListedFiles, CellValue

LEMMA InputsUnchanged == [Next]_vars => UNCHANGED <<mosaic, filelist>>
<1> SUFFICES ASSUME [Next]_vars PROVE UNCHANGED <<mosaic, filelist>>
  OBVIOUS
<1>1. ASSUME NEW r \in Rank, Run(r) PROVE UNCHANGED <<mosaic, filelist>>
  BY <1>1 DEF Run, TooFewCores, Setup, ReadFilelist, NameTile, ReadHeader, Ingest,
     CallBarrier, LeaveBarrier, Interpolate, Overrun, Contribute, Write3D,
     WriteColumns, WriteBufr, ReportSuccess, Finalize, inputs
<1>2. ASSUME NEW r \in Rank, Kill(r) PROVE UNCHANGED <<mosaic, filelist>>
  BY <1>2 DEF Kill, inputs
<1>3. QED BY <1>1, <1>2 DEF Next, AllEnded, vars, inputs

(* A correct field is one that MosaicMerge may publish.                    *)
LEMMA MergedIsLargest ==
  ASSUME NEW F, IsMerged(F), NEW c \in Column, NEW l \in Level
  PROVE  Merge!IsLargest(F[c][l], c, l)
<1> DEFINE values == {Missing} \cup {o[c][l] : o \in FileFields}
           field(f) == [d \in Column |-> [k \in Level |-> Observation(f, d, k)]]
<1>1. values = {Missing} \cup {Observation(f, c, l) : f \in ListedFiles}
  <2>1. \A f : field(f)[c][l] = Observation(f, c, l)
    OBVIOUS
  <2>2. FileFields = {field(f) : f \in ListedFiles}
    BY DEF FileFields
  <2> HIDE DEF field
  <2>3. QED BY <2>1, <2>2
<1>2. /\ F[c][l] \in {Missing} \cup {Observation(f, c, l) : f \in ListedFiles}
      /\ \A f \in ListedFiles : F[c][l] >= Observation(f, c, l)
      /\ F[c][l] >= Missing
  BY DEF IsMerged
<1>3. F[c][l] \in values /\ \A u \in values : F[c][l] >= u
  BY <1>1, <1>2
<1>4. QED BY <1>3 DEF Merge!IsLargest

(* What the last step has written is merged, by the files as they are.     *)
LEMMA WrittenIsMerged ==
  ASSUME UNCHANGED <<mosaic, filelist>>, MergeInv', file3d' # NoFile
  PROVE  IsMerged(file3d')
<1>1. MergeInv' => MergeCorrect'
  BY MergeInvImplies, PTL
<1>2. /\ ListedFiles' = ListedFiles
      /\ \A f, c, l : Observation(f, c, l)' = Observation(f, c, l)
  BY DEF ListedFiles, Observation, CellValue
<1>3. QED BY <1>1, <1>2 DEF MergeCorrect, IsMerged

(* From the first output to SUCCESS the job is running.                    *)
LEMMA StillRunning ==
  ASSUME DoneInv, reduced = Rank, pc[Root] \in {"collect", "columns", "bufr", "report"}
  PROVE  JobStatus = "running"
<1>1. barrier[2] = Rank /\ ~success
  BY RootIsRank DEF DoneInv, HeldInv, RankHeld, AfterReduce, Reported
<1>2. \A q \in Rank : pc[q] \notin Failed
  BY <1>1, NoneFailed
<1>3. \A q \in Rank : pc[q] # "badcores"
  BY RootIsRank DEF DoneInv, RootProgress
<1>4. QED BY <1>1, <1>2, <1>3 DEF JobStatus

(* A step that leaves the field and the report alone can only fail.        *)
LEMMA OtherStep ==
  ASSUME UNCHANGED FileFields, UNCHANGED file3d, UNCHANGED success,
         \A q \in Rank : pc[q] \in Failed \cup {"badcores"} =>
                           pc'[q] \in Failed \cup {"badcores"}
  PROVE  [Merge!Next]_(Merge!vars)
<1>1. CASE JobStatus' = JobStatus
  BY <1>1 DEF Merge!vars
<1>2. CASE JobStatus' # JobStatus
  <2>1. JobStatus = "running" /\ JobStatus' = "failed"
    BY <1>2 DEF JobStatus
  <2>2. QED BY <2>1 DEF Merge!Next, Merge!Fail
<1>3. QED BY <1>1, <1>2

LEMMA StepImplements ==
  ASSUME DoneInv, MergeInv, [Next]_vars
  PROVE  [Merge!Next]_(Merge!vars)
<1>1. FileFields' = FileFields
  BY InputsUnchanged, FileFieldsUnchanged
<1>2. DoneInv' /\ MergeInv'
  BY DoneInvInductive, MergeInvInductive
<1> USE DEF Goto, outputs
<1>3. ASSUME NEW r \in Rank, Write3D(r) PROVE Merge!Publish
  <2>1. r = Root /\ pc[r] = "collect" /\ pc'[r] = "columns" /\ reduced' = Rank
    BY <1>3 DEF Write3D, DoneInv, HeldInv, TypeInv, TypeOK, RankHeld, RootOnly
  <2>2. reduced = Rank /\ file3d = NoFile /\ file3d' # NoFile
    BY <1>2, <1>3, <2>1, RootIsRank DEF Write3D, DoneInv, PublishedOnce, RootProgress
  <2>3. JobStatus = "running"
    BY <2>1, <2>2, StillRunning
  <2>4. JobStatus' = "running"
    BY <1>3, <2>1, <2>3 DEF Write3D, JobStatus, Failed, DoneInv, HeldInv, TypeInv, TypeOK
  <2>5. ASSUME NEW c \in Column, NEW l \in Level
        PROVE  Merge!IsLargest(file3d'[c][l], c, l)
    <3>1. IsMerged(file3d')
      BY <1>2, <2>2, InputsUnchanged, WrittenIsMerged
    <3>2. QED BY <3>1, MergedIsLargest
  <2>6. QED BY <1>1, <2>2, <2>3, <2>4, <2>5 DEF Merge!Publish
<1>4. ASSUME NEW r \in Rank, ReportSuccess(r) PROVE Merge!Succeed
  <2>1. r = Root /\ pc[r] = "report"
    BY <1>4 DEF ReportSuccess, DoneInv, HeldInv, RankHeld, RootOnly
  <2>2. reduced = Rank /\ file3d # NoFile
    BY <2>1, RootIsRank DEF DoneInv, RootProgress
  <2>3. JobStatus = "running" /\ JobStatus' = "succeeded"
    BY <1>4, <2>1, <2>2, StillRunning DEF ReportSuccess, JobStatus
  <2>4. QED BY <1>1, <1>4, <2>2, <2>3 DEF ReportSuccess, Merge!Succeed
<1>5. ASSUME NEW r \in Rank, Run(r), ~Write3D(r), ~ReportSuccess(r)
      PROVE  [Merge!Next]_(Merge!vars)
  <2>1. UNCHANGED file3d /\ UNCHANGED success
    BY <1>5 DEF Run, TooFewCores, Setup, ReadFilelist, NameTile, ReadHeader, Ingest,
       CallBarrier, LeaveBarrier, Interpolate, Overrun, Contribute, WriteColumns,
       WriteBufr, Finalize
  <2>2. pc[r] \notin Failed \cup {"badcores"} /\ \A q \in Rank : q # r => pc'[q] = pc[q]
    BY <1>5 DEF Run, TooFewCores, Setup, ReadFilelist, NameTile, ReadHeader, Ingest,
       CallBarrier, LeaveBarrier, Interpolate, Overrun, Contribute, WriteColumns,
       WriteBufr, Finalize, Failed, DoneInv, HeldInv, TypeInv, TypeOK
  <2>3. QED BY <1>1, <2>1, <2>2, OtherStep
<1>6. ASSUME NEW r \in Rank, Kill(r) PROVE [Merge!Next]_(Merge!vars)
  <2>1. UNCHANGED file3d /\ UNCHANGED success
    BY <1>6 DEF Kill
  <2>2. \A q \in Rank : pc[q] \in Failed \cup {"badcores"} =>
                          pc'[q] \in Failed \cup {"badcores"}
    BY <1>6 DEF Kill, Failed, DoneInv, HeldInv, TypeInv, TypeOK
  <2>3. QED BY <1>1, <2>1, <2>2, OtherStep
<1>7. CASE UNCHANGED vars
  BY <1>1, <1>7, OtherStep DEF vars
<1>8. QED BY <1>3, <1>4, <1>5, <1>6, <1>7 DEF Next, AllEnded, Merge!Next

(* The job is an atomic merge of the files: whatever its ranks do, and     *)
(* whenever they stop, the field comes out once, whole, and of a job that  *)
(* has not failed, and success is reported after it.                       *)
THEOREM ImplementsMerge == Spec => MergeSpec
<1>1. Init => Merge!Init
  BY DEF Init, Merge!Init, JobStatus, Failed
<1>2. DoneInv /\ MergeInv /\ [Next]_vars => [Merge!Next]_(Merge!vars)
  BY StepImplements
<1>3. QED
  BY <1>1, <1>2, InitDoneInv, DoneInvInductive, InitMergeInv, MergeInvInductive, PTL
     DEF Spec, MergeSpec, Merge!Spec

-----------------------------------------------------------------------------
(* Values.                                                                 *)

(* A mean lies between the bounds of its values.                           *)
LEMMA WeightedBetween ==
  ASSUME NEW ce \in Cells, ce.w[1] + ce.w[2] + ce.w[3] + ce.w[4] = W,
         NEW lo \in Int, NEW hi \in Int,
         \A q \in 1..4 : lo <= ce.ref[q] /\ ce.ref[q] <= hi
  PROVE  /\ WeightedSum(ce) \in Int
         /\ lo * W <= WeightedSum(ce) /\ WeightedSum(ce) <= hi * W
<1>1. ASSUME NEW x \in Int, NEW w \in Nat, lo <= x, x <= hi
      PROVE  x * w \in Int /\ lo * w <= x * w /\ x * w <= hi * w
  <2>1. (x - lo) * w >= 0 /\ (hi - x) * w >= 0
    BY <1>1
  <2>2. (x - lo) * w = x * w - lo * w /\ (hi - x) * w = hi * w - x * w
    OBVIOUS
  <2>3. QED BY <2>1, <2>2
<1>2. \A q \in 1..4 : ce.ref[q] \in Int /\ ce.w[q] \in Nat
  BY DEF Cells
<1>3. \A q \in 1..4 : /\ ce.ref[q] * ce.w[q] \in Int
                      /\ lo * ce.w[q] <= ce.ref[q] * ce.w[q]
                      /\ ce.ref[q] * ce.w[q] <= hi * ce.w[q]
  BY <1>1, <1>2
<1>4. /\ lo * W = lo * ce.w[1] + lo * ce.w[2] + lo * ce.w[3] + lo * ce.w[4]
      /\ hi * W = hi * ce.w[1] + hi * ce.w[2] + hi * ce.w[3] + hi * ce.w[4]
  BY <1>2
<1>5. \A q \in 1..4 : lo * ce.w[q] \in Int /\ hi * ce.w[q] \in Int
  BY <1>2
<1>6. QED BY <1>3, <1>4, <1>5 DEF WeightedSum

(* A point has no observation, or a value between the codes.               *)
LEMMA CellValueRange ==
  ASSUME PlausibleValues,
         NEW t \in TileChoices, NEW c \in Column, NEW k \in 1..t.levels
  PROVE  LET v == CellValue(t, t.cell[c][k])
         IN  v = Missing \/ (v \in Int /\ -100 * Unit < v /\ v < 888 * Unit)
<1> DEFINE ce == t.cell[c][k]
<1>1. WellFormedTile(t)
  BY InputAssumption
<1>2. ce \in Cells /\ ce.w[1] + ce.w[2] + ce.w[3] + ce.w[4] = W
  BY <1>1 DEF WellFormedTile
<1>3. W \in Nat \ {0}
  BY ConfigAssumption
<1>4. \/ var_scale(t) = 10 /\ rthresh_ref \in {-500, -90}
      \/ var_scale(t) = 1 /\ rthresh_ref = -90
  BY ConfigAssumption DEF var_scale, rthresh_ref, PlausibleValues
<1>5. \A q \in 1..4 : ce.ref[q] \in Int /\ ce.ref[q] < 888 * var_scale(t)
  BY <1>2 DEF Cells, PlausibleValues
<1>6. CASE \A q \in 1..4 : ce.ref[q] > rthresh_ref
  <2>1. CASE var_scale(t) = 10
    <3>1. \A q \in 1..4 : -500 <= ce.ref[q] /\ ce.ref[q] <= 8879
      BY <1>4, <1>5, <1>6, <2>1
    <3>2. /\ WeightedSum(ce) \in Int
          /\ -500 * W <= WeightedSum(ce) /\ WeightedSum(ce) <= 8879 * W
      <4>1. PICK lo, hi \in Int : lo = -500 /\ hi = 8879
        OBVIOUS
      <4>2. \A q \in 1..4 : lo <= ce.ref[q] /\ ce.ref[q] <= hi
        BY <3>1, <4>1
      <4>3. /\ WeightedSum(ce) \in Int
            /\ lo * W <= WeightedSum(ce) /\ WeightedSum(ce) <= hi * W
        BY <1>2, <4>2, WeightedBetween
      <4>4. QED BY <1>3, <4>1, <4>3
    <3>3. CellValue(t, ce) = WeightedSum(ce)
      BY <1>6, <2>1 DEF CellValue
    <3>4. QED BY <1>3, <3>2, <3>3 DEF Unit
  <2>2. CASE var_scale(t) = 1
    <3>1. \A q \in 1..4 : -90 <= ce.ref[q] /\ ce.ref[q] <= 887
      BY <1>4, <1>5, <1>6, <2>2
    <3>2. /\ WeightedSum(ce) \in Int
          /\ -90 * W <= WeightedSum(ce) /\ WeightedSum(ce) <= 887 * W
      <4>1. PICK lo, hi \in Int : lo = -90 /\ hi = 887
        OBVIOUS
      <4>2. \A q \in 1..4 : lo <= ce.ref[q] /\ ce.ref[q] <= hi
        BY <3>1, <4>1
      <4>3. /\ WeightedSum(ce) \in Int
            /\ lo * W <= WeightedSum(ce) /\ WeightedSum(ce) <= hi * W
        BY <1>2, <4>2, WeightedBetween
      <4>4. QED BY <1>3, <4>1, <4>3
    <3>3. CellValue(t, ce) = 10 * WeightedSum(ce)
      BY <1>6, <2>2 DEF CellValue
    <3>4. QED BY <1>3, <3>2, <3>3 DEF Unit
  <2>3. QED BY <1>4, <2>1, <2>2
<1>7. CASE ~(\A q \in 1..4 : ce.ref[q] > rthresh_ref)
  <2>1. CellValue(t, ce) \in {Clear, Missing}
    BY <1>7 DEF CellValue
  <2>2. Clear \in Int /\ -100 * Unit < Clear /\ Clear < 888 * Unit
    BY <1>3 DEF Clear, Unit
  <2>3. QED BY <2>1, <2>2
<1>8. QED BY <1>6, <1>7

LEMMA ObservationRange ==
  ASSUME PlausibleValues, TypeOK, NEW f \in FileNo, NEW c \in Column, NEW l \in Level
  PROVE  LET v == Observation(f, c, l)
         IN  v = Missing \/ (v \in Int /\ -100 * Unit < v /\ v < 888 * Unit)
<1> DEFINE t == mosaic[f]
           k == IF tversion = 1 THEN 1 ELSE l
<1>1. t \in TileChoices /\ t.levels \in Nat
  BY InputAssumption DEF TypeOK, WellFormedTile
<1>2. CASE k <= t.levels
  <2>1. k \in 1..t.levels
    BY <1>1, <1>2, ConfigAssumption DEF Level
  <2>2. LET v == CellValue(t, t.cell[c][k])
        IN  v = Missing \/ (v \in Int /\ -100 * Unit < v /\ v < 888 * Unit)
    BY <1>1, <2>1, CellValueRange
  <2>3. Observation(f, c, l) \in {Missing, CellValue(t, t.cell[c][k])}
    BY DEF Observation
  <2>4. QED BY <2>2, <2>3
<1>3. CASE ~(k <= t.levels)
  BY <1>3 DEF Observation
<1>4. QED BY <1>2, <1>3

-----------------------------------------------------------------------------
(* What the two outputs hold, in terms of the receive buffer, which does   *)
(* not change once every rank has been reduced.                            *)

ObservedColumns == {i \in Interior : \E l \in Level : IsObserved(ref0[i][l])}

ColumnsHold ==
  columns # NoFile =>
    /\ reduced = Rank /\ file3d # NoFile
    /\ columns = [c \in ObservedColumns |-> ref0[c]]
BufrHolds ==
  bufr # NoFile =>
    /\ columns # NoFile
    /\ bufr = [c \in ObservedColumns |-> [l \in Level |-> BufrValue(ref0[c][l])]]

BufrInv == DoneInv /\ MergeInv /\ ColumnsHold /\ BufrHolds

LEMMA InitBufrInv == Init => BufrInv
  BY InitDoneInv, InitMergeInv DEF BufrInv, ColumnsHold, BufrHolds, Init

(* A step that leaves the outputs alone leaves the buffer alone too, once  *)
(* the columns have been written.                                          *)
LEMMA OutputsKept ==
  ASSUME BufrInv, UNCHANGED <<columns, bufr>>,
         reduced = Rank => reduced' = Rank /\ UNCHANGED ref0,
         file3d # NoFile => file3d' # NoFile
  PROVE  ColumnsHold' /\ BufrHolds'
<1>1. CASE columns = NoFile
  BY <1>1 DEF BufrInv, ColumnsHold, BufrHolds
<1>2. CASE columns # NoFile
  BY <1>2 DEF BufrInv, ColumnsHold, BufrHolds, ObservedColumns
<1>3. QED BY <1>1, <1>2

LEMMA RunBufr ==
  ASSUME BufrInv, NEW r \in Rank, Run(r)
  PROVE  ColumnsHold' /\ BufrHolds'
<1> USE DEF Goto, inputs, outputs
<1>1. CASE WriteColumns(r)
  <2>1. reduced = Rank /\ file3d # NoFile
    BY <1>1 DEF WriteColumns, BufrInv, DoneInv, RootProgress
  <2>2. columns' = [c \in ObservedColumns |-> ref0[c]] /\ ObservedColumns' = ObservedColumns
    BY <1>1 DEF WriteColumns, ObservedColumns
  <2>3. ColumnsHold'
    BY <1>1, <2>1, <2>2 DEF WriteColumns, ColumnsHold
  <2>4. columns' # NoFile
    BY <1>1, WrittenColumns DEF BufrInv, MergeInv
  <2>5. BufrHolds'
    BY <1>1, <2>2, <2>4 DEF WriteColumns, BufrHolds, BufrInv
  <2>6. QED BY <2>3, <2>5
<1>2. CASE WriteBufr(r)
  <2>1. columns # NoFile
    BY <1>2 DEF WriteBufr, BufrInv, DoneInv, RootProgress
  <2>2. columns = [c \in ObservedColumns |-> ref0[c]]
    BY <2>1 DEF BufrInv, ColumnsHold
  <2>3. UNCHANGED <<columns, ref0, reduced, file3d>> /\ ObservedColumns' = ObservedColumns
    BY <1>2 DEF WriteBufr, ObservedColumns
  <2>4. ColumnsHold'
    BY <2>3 DEF ColumnsHold, BufrInv
  <2>5. \/ bufr' = bufr
        \/ bufr' = [c \in ObservedColumns |-> [l \in Level |-> BufrValue(ref0[c][l])]]
    BY <1>2, <2>2 DEF WriteBufr
  <2>6. BufrHolds'
    BY <2>1, <2>3, <2>5 DEF BufrHolds, BufrInv
  <2>7. QED BY <2>4, <2>6
<1>3. CASE Contribute(r)
  <2>1. r \notin reduced
    BY <1>3 DEF Contribute, BufrInv, MergeInv, RankMerges, AfterReduce, Failed
  <2>2. QED BY <1>3, <2>1, OutputsKept DEF Contribute
<1>4. CASE Write3D(r)
  <2>1. file3d' # NoFile
    BY <1>4, NoFileAssumption DEF Write3D, BufrInv, MergeInv, TypeInv, TypeOK, Fields
  <2>2. QED BY <1>4, <2>1, OutputsKept DEF Write3D
<1>5. CASE ~(WriteColumns(r) \/ WriteBufr(r) \/ Contribute(r) \/ Write3D(r))
  <2>1. UNCHANGED <<reduced, ref0, file3d, columns, bufr>>
    BY <1>5 DEF Run, TooFewCores, Setup, ReadFilelist, NameTile, ReadHeader, Ingest,
       CallBarrier, LeaveBarrier, Interpolate, Overrun, ReportSuccess, Finalize
  <2>2. QED BY <2>1, OutputsKept
<1>6. QED BY <1>1, <1>2, <1>3, <1>4, <1>5

LEMMA BufrInvInductive == BufrInv /\ [Next]_vars => BufrInv'
<1> SUFFICES ASSUME BufrInv, [Next]_vars PROVE BufrInv'
  OBVIOUS
<1>1. DoneInv' /\ MergeInv'
  BY DoneInvInductive, MergeInvInductive DEF BufrInv
<1>2. ASSUME NEW r \in Rank, Run(r) PROVE BufrInv'
  BY <1>1, <1>2, RunBufr DEF BufrInv
<1>3. ASSUME NEW r \in Rank, Kill(r) PROVE BufrInv'
  <2>1. UNCHANGED <<reduced, ref0, file3d, columns, bufr>>
    BY <1>3 DEF Kill, outputs
  <2>2. QED BY <1>1, <2>1, OutputsKept DEF BufrInv
<1>4. CASE UNCHANGED vars
  BY <1>1, <1>4, OutputsKept DEF BufrInv, vars, outputs
<1>5. QED BY <1>2, <1>3, <1>4 DEF Next, AllEnded

-----------------------------------------------------------------------------
(* The codes.                                                              *)

LEMMA BufrInvImplies ==
  ASSUME PlausibleValues PROVE BufrInv => BufrFaithful
<1> DEFINE seen(c, l) == \E f \in ListedFiles : Observation(f, c, l) # Missing
<1> SUFFICES ASSUME BufrInv, bufr # NoFile, NEW c \in Interior
             PROVE  /\ c \in DOMAIN bufr <=> \E l \in Level : seen(c, l)
                    /\ c \in DOMAIN bufr => \A l \in Level :
                         /\ bufr[c][l] = -64 * Unit <=> ~seen(c, l)
                         /\ \A f \in ListedFiles : Observation(f, c, l) > -63 * Unit =>
                              /\ bufr[c][l] >= Observation(f, c, l)
                              /\ \E g \in ListedFiles : bufr[c][l] = Observation(g, c, l)
  BY DEF BufrFaithful
<1>1. Unit \in Nat \ {0} /\ Missing = -999 * Unit
  BY ConfigAssumption DEF Unit, Missing
<1>2. file3d # NoFile /\ columns # NoFile
  BY DEF BufrInv, BufrHolds, ColumnsHold
<1>3. IsMerged(ref0)
  BY <1>2, MergeInvImplies DEF MergeCorrect, BufrInv, MergeInv, ReduceMerges
<1>4. ListedFiles \subseteq FileNo /\ c \in Column /\ TypeOK
  BY InputAssumption, ConfigAssumption
     DEF BufrInv, MergeInv, TypeInv, TypeOK, ListedFiles, FileNo
<1>5. ASSUME NEW l \in Level
      PROVE  /\ \/ ref0[c][l] = Missing
                \/ ref0[c][l] \in Int /\ -100 * Unit < ref0[c][l] /\ ref0[c][l] < 888 * Unit
             /\ seen(c, l) <=> ref0[c][l] # Missing
  <2>1. \A f \in ListedFiles :
          LET v == Observation(f, c, l)
          IN  v = Missing \/ (v \in Int /\ -100 * Unit < v /\ v < 888 * Unit)
    BY <1>4, ObservationRange
  <2>2. /\ ref0[c][l] \in {Missing} \cup {Observation(f, c, l) : f \in ListedFiles}
        /\ \A f \in ListedFiles : ref0[c][l] >= Observation(f, c, l)
    BY <1>3, <1>4 DEF IsMerged
  <2>3. QED BY <1>1, <2>1, <2>2
<1>6. bufr = [i \in ObservedColumns |-> [l \in Level |-> BufrValue(ref0[i][l])]]
  BY DEF BufrInv, BufrHolds
<1>7. \A l \in Level : IsObserved(ref0[c][l]) <=> seen(c, l)
  BY <1>1, <1>5 DEF IsObserved
<1>8. c \in DOMAIN bufr <=> \E l \in Level : seen(c, l)
  BY <1>6, <1>7 DEF ObservedColumns
<1>9. ASSUME c \in DOMAIN bufr, NEW l \in Level
      PROVE  /\ bufr[c][l] = -64 * Unit <=> ~seen(c, l)
             /\ \A f \in ListedFiles : Observation(f, c, l) > -63 * Unit =>
                  /\ bufr[c][l] >= Observation(f, c, l)
                  /\ \E g \in ListedFiles : bufr[c][l] = Observation(g, c, l)
  <2>1. bufr[c][l] = BufrValue(ref0[c][l])
    BY <1>6, <1>9
  <2>2. bufr[c][l] = -64 * Unit <=> ~seen(c, l)
    BY <1>1, <1>5, <2>1 DEF BufrValue
  <2>3. ASSUME NEW f \in ListedFiles, Observation(f, c, l) > -63 * Unit
        PROVE  /\ bufr[c][l] >= Observation(f, c, l)
               /\ \E g \in ListedFiles : bufr[c][l] = Observation(g, c, l)
    <3>1. /\ ref0[c][l] \in {Missing} \cup {Observation(g, c, l) : g \in ListedFiles}
          /\ ref0[c][l] >= Observation(f, c, l)
      BY <1>3, <1>4 DEF IsMerged
    <3>2. Observation(f, c, l) \in Int
      BY <1>1, <1>4, ObservationRange
    <3>3. ref0[c][l] \in Int /\ ref0[c][l] > -63 * Unit /\ ref0[c][l] # Missing
      BY <1>1, <1>5, <2>3, <3>1, <3>2
    <3>4. bufr[c][l] = ref0[c][l]
      BY <1>1, <2>1, <3>3 DEF BufrValue
    <3>5. QED BY <3>1, <3>3, <3>4
  <2>4. QED BY <2>2, <2>3
<1>10. QED BY <1>8, <1>9

(* An interior column is in the BUFR exactly when a file observes it, a    *)
(* level is coded missing exactly when none does, and the strongest echo   *)
(* arrives unchanged.                                                      *)
THEOREM BufrIsFaithful == ASSUME PlausibleValues PROVE Spec => []BufrFaithful
<1>1. BufrInv => BufrFaithful
  BY BufrInvImplies
<1>2. QED BY InitBufrInv, BufrInvInductive, <1>1, PTL DEF Spec
=============================================================================

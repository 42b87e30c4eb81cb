------------------------------ MODULE PrepChem ------------------------------
(***************************************************************************)
(* The preparation of the chemistry inputs of one cycle: job executions of *)
(* exglobal_prep_chem.bash (a run and its reruns, possibly overlapping)    *)
(* publish emission files in COMOUTchem, and global_link_chem.bash copies  *)
(* what it finds there into the EMISDIR of a forecast.  Satellite files    *)
(* arrive and are purged meanwhile; a run may die between any two steps    *)
(* (set -e, a node failure, the batch system's time limit).                *)
(***************************************************************************)
EXTENDS Naturals, Sequences, FiniteSets

CONSTANTS
  Runs,          \* executions of the job for the cycle
  DATA,          \* the working directory of each
  SENDCOM,       \* the runs with SENDCOM = YES
  tiles,         \* the last tile, 6
  gbbepx_list,   \* names of the GBBEPx files, a sequence
  days,          \* gbbepx_days: 1 is the day tried first
  GbbepxInout, StaticInout,   \* the two inout_list: [local_name, comdir_name]
  FireFiles,     \* sets of <<directory, day>> with non-empty fire files
  NoFile         \* stands for a file that does not exist

Tile == 1 .. tiles
Day == 1 .. days
Named(list) == {list[i] : i \in DOMAIN list}
ComFile == Tile \X {e.comdir_name : e \in Named(GbbepxInout) \cup Named(StaticInout)}
GbbepxFile == Day \X Named(gbbepx_list) \X Tile
FireDays == {"today", "yesterday"}

Inout == [local_name : STRING, comdir_name : STRING]
ASSUME PrepChemAssumption ==
  /\ SENDCOM \subseteq Runs
  /\ tiles \in Nat \ {0} /\ days \in Nat \ {0}
  /\ gbbepx_list \in Seq(STRING) /\ gbbepx_list # << >>
  /\ GbbepxInout \in Seq(Inout) /\ GbbepxInout # << >>
  /\ StaticInout \in Seq(Inout) /\ StaticInout # << >>
  /\ FireFiles \subseteq SUBSET (FireDays \X FireDays)

(* What a file in COMOUTchem holds: the run that copied it, the day of a   *)
(* GBBEPx source (0: an output of prep_chem_sources), and whether the copy *)
(* is complete.                                                            *)
Content == [run : Runs, day : {0} \cup Day, whole : BOOLEAN]
ASSUME NoFileAssumption == NoFile \notin Content

VARIABLES
  fires,         \* [modis, wfabba]: the non-empty files, by directory and day
  gbbepx,        \* the GBBEPx files that are there and not empty
  purged,        \* days whose GBBEPx files have been scrubbed
  madeDirs,      \* working directories that hold MODIS and WFABBA
  pc,            \* where each run is, or was when it died
  dead,          \* runs that have died
  links,         \* per run: the fire files linked, [modis, wfabba]
  day,           \* per run: the day of the GBBEPx loop
  expect_gbbepx, count_gbbepx,   \* per run: its counters
  use_gbbepx,    \* per run
  itile, inout,  \* per run: the loops over tiles and inout_list
  tempfile,      \* per run: the .tmp.*.part file
  com,           \* COMOUTchem
  ever,          \* files of COMOUTchem that have existed (history)
  link,          \* where global_link_chem is
  found,         \* the rest of its glob
  EMISDIR,       \* what it has copied
  cp,            \* its cp: the file it copies and what it has opened
  calm           \* nobody has been publishing since it began (history)

sources == <<fires, gbbepx, purged>>
decision == <<links, day, expect_gbbepx, count_gbbepx, use_gbbepx>>
linking == <<link, found, EMISDIR, cp>>
vars == <<sources, madeDirs, pc, dead, decision, itile, inout, tempfile, com,
          ever, linking, calm>>

Ended(r) == r \in dead \/ pc[r] = "done"
Goto(r, from, to) == r \notin dead /\ pc[r] = from /\ pc' = [pc EXCEPT ![r] = to]
NoCopy == [file |-> NoFile, opened |-> NoFile]
Publishing == {"send", "copy", "copying", "rename"}

Init ==
  /\ fires \in [modis : FireFiles, wfabba : FireFiles]
  /\ gbbepx = {} /\ purged = {}
  /\ madeDirs \in SUBSET {DATA[r] : r \in Runs}     \* used by earlier jobs
  /\ pc = [r \in Runs |-> "setup"]
  /\ dead = {}
  /\ links = [r \in Runs |-> [modis |-> {}, wfabba |-> {}]]
  /\ day = [r \in Runs |-> 1]
  /\ expect_gbbepx = [r \in Runs |-> 0]
  /\ count_gbbepx = [r \in Runs |-> 0]
  /\ use_gbbepx = [r \in Runs |-> FALSE]
  /\ itile = [r \in Runs |-> 1]
  /\ inout = [r \in Runs |-> 1]
  /\ tempfile = [r \in Runs |-> NoFile]
  /\ com = [f \in ComFile |-> NoFile]
  /\ ever = {}
  /\ link = "idle" /\ found = {} /\ EMISDIR = [f \in {} |-> NoFile]
  /\ cp = NoCopy
  /\ calm = FALSE

-----------------------------------------------------------------------------
(* The data feeds.                                                         *)

Arrive(f) ==
  /\ f \notin gbbepx /\ f[1] \notin purged
  /\ gbbepx' = gbbepx \cup {f}
  /\ UNCHANGED <<fires, purged, madeDirs, pc, dead, decision, itile, inout,
                 tempfile, com, ever, linking, calm>>

Purge(d) ==
  /\ d \notin purged
  /\ purged' = purged \cup {d}
  /\ gbbepx' = {f \in gbbepx : f[1] # d}
  /\ UNCHANGED <<fires, madeDirs, pc, dead, decision, itile, inout, tempfile,
                 com, ever, linking, calm>>

-----------------------------------------------------------------------------
(* exglobal_prep_chem.bash: directories and fire files.                    *)

(* mkdir MODIS fails, and set -e ends the script, in a used directory.     *)
MakeDirs(r) ==
  /\ IF DATA[r] \in madeDirs
       THEN r \notin dead /\ pc[r] = "setup" /\ dead' = dead \cup {r} /\ UNCHANGED pc
       ELSE Goto(r, "setup", "fires") /\ UNCHANGED dead
  /\ madeDirs' = madeDirs \cup {DATA[r]}
  /\ UNCHANGED <<sources, decision, itile, inout, tempfile, com, ever, linking,
                 calm>>

(* The pairs <<directory, day in the file's name>> each loop looks for.    *)
ModisPaths == {<<"yesterday", "today">>, <<"today", "yesterday">>}
WfabbaPaths == {<<"yesterday", "yesterday">>, <<"today", "today">>}

LinkFires(r) ==
  /\ Goto(r, "fires", "scan")
  /\ links' = [links EXCEPT ![r] = [modis |-> fires.modis \cap ModisPaths,
                                    wfabba |-> fires.wfabba \cap WfabbaPaths]]
  /\ UNCHANGED <<sources, madeDirs, dead, day, expect_gbbepx, count_gbbepx,
                 use_gbbepx, itile, inout, tempfile, com, ever, linking, calm>>

-----------------------------------------------------------------------------
(* The GBBEPx loop: the first of the days with every file non-empty.       *)

Expected == Len(gbbepx_list) * tiles
Scanned(n) == <<gbbepx_list[(n \div tiles) + 1], (n % tiles) + 1>>

ScanFile(r) ==
  LET s == Scanned(expect_gbbepx[r])
      there == <<day[r], s[1], s[2]>> \in gbbepx
  IN  /\ Goto(r, "scan", "scan")
      /\ expect_gbbepx[r] < Expected
      /\ expect_gbbepx' = [expect_gbbepx EXCEPT ![r] = @ + 1]
      /\ count_gbbepx' = [count_gbbepx EXCEPT ![r] = IF there THEN @ + 1 ELSE @]
      /\ UNCHANGED <<sources, madeDirs, dead, links, day, use_gbbepx, itile,
                     inout, tempfile, com, ever, linking, calm>>

(* Mutant: the count is not reset for the next day.                        *)
NextDayKeepingCount(r) ==
  /\ Goto(r, "scan", "scan")
  /\ expect_gbbepx[r] = Expected /\ count_gbbepx[r] # Expected /\ day[r] < days
  /\ day' = [day EXCEPT ![r] = @ + 1]
  /\ expect_gbbepx' = [expect_gbbepx EXCEPT ![r] = 0]
  /\ UNCHANGED <<sources, madeDirs, dead, links, count_gbbepx, use_gbbepx, itile,
                 inout, tempfile, com, ever, linking, calm>>

NextDay(r) ==
  /\ Goto(r, "scan", "scan")
  /\ expect_gbbepx[r] = Expected /\ count_gbbepx[r] # Expected /\ day[r] < days
  /\ day' = [day EXCEPT ![r] = @ + 1]
  /\ expect_gbbepx' = [expect_gbbepx EXCEPT ![r] = 0]
  /\ count_gbbepx' = [count_gbbepx EXCEPT ![r] = 0]
  /\ UNCHANGED <<sources, madeDirs, dead, links, use_gbbepx, itile, inout,
                 tempfile, com, ever, linking, calm>>

(* All files of a day found, or no day left.                               *)
Decide(r) ==
  /\ Goto(r, "scan", "exe")
  /\ expect_gbbepx[r] = Expected
  /\ count_gbbepx[r] = Expected \/ day[r] = days
  /\ use_gbbepx' = [use_gbbepx EXCEPT ![r] = count_gbbepx[r] = expect_gbbepx[r]]
  /\ UNCHANGED <<sources, madeDirs, dead, links, day, expect_gbbepx,
                 count_gbbepx, itile, inout, tempfile, com, ever, linking, calm>>

(* prep_chem_sources succeeds; its failure is a death of the run.          *)
PrepChemSources(r) ==
  /\ Goto(r, "exe", IF r \in SENDCOM THEN "send" ELSE "done")
  /\ UNCHANGED <<sources, madeDirs, dead, decision, itile, inout, tempfile, com,
                 ever, linking, calm>>

-----------------------------------------------------------------------------
(* The publishing loop: for each tile, for each entry of inout_list.       *)

inout_list(r) == IF use_gbbepx[r] THEN GbbepxInout ELSE StaticInout
Entry(r) == inout_list(r)[inout[r]]
is_gbbepx_data(e) == e.local_name \in Named(gbbepx_list)
outfile(r) == <<itile[r], Entry(r).comdir_name>>

(* Mutant: the last entry of the list is never reached.                    *)
AdvanceOffByOne(r, from) ==
  IF inout[r] + 1 < Len(inout_list(r))
    THEN /\ Goto(r, from, "send")
         /\ inout' = [inout EXCEPT ![r] = @ + 1] /\ UNCHANGED itile
  ELSE IF itile[r] < tiles
    THEN /\ Goto(r, from, "send")
         /\ itile' = [itile EXCEPT ![r] = @ + 1] /\ inout' = [inout EXCEPT ![r] = 1]
  ELSE Goto(r, from, "done") /\ UNCHANGED <<itile, inout>>

Advance(r, from) ==
  IF inout[r] < Len(inout_list(r))
    THEN /\ Goto(r, from, "send")
         /\ inout' = [inout EXCEPT ![r] = @ + 1] /\ UNCHANGED itile
  ELSE IF itile[r] < tiles
    THEN /\ Goto(r, from, "send")
         /\ itile' = [itile EXCEPT ![r] = @ + 1] /\ inout' = [inout EXCEPT ![r] = 1]
  ELSE Goto(r, from, "done") /\ UNCHANGED <<itile, inout>>

Skip(r) ==
  /\ is_gbbepx_data(Entry(r)) /\ ~use_gbbepx[r]
  /\ Advance(r, "send")
  /\ UNCHANGED <<sources, madeDirs, dead, decision, tempfile, com, ever, linking,
                 calm>>

(* rm -f outfile.                                                          *)
Remove(r) ==
  /\ Goto(r, "send", "copy")
  /\ is_gbbepx_data(Entry(r)) => use_gbbepx[r]
  /\ com' = [com EXCEPT ![outfile(r)] = NoFile]
  /\ calm' = FALSE
  /\ UNCHANGED <<sources, madeDirs, dead, decision, itile, inout, tempfile, ever,
                 linking>>

infile(r) == <<day[r], Entry(r).local_name, itile[r]>>
HasInfile(r) == is_gbbepx_data(Entry(r)) => infile(r) \in gbbepx
Copy(r, whole) ==
  [run |-> r, day |-> IF is_gbbepx_data(Entry(r)) THEN day[r] ELSE 0, whole |-> whole]

(* Mutant: a cp that fails does not end the run.                           *)
CopyFailsIgnored(r) ==
  /\ ~HasInfile(r)
  /\ Advance(r, "copy")
  /\ UNCHANGED <<sources, madeDirs, dead, decision, tempfile, com, ever, linking,
                 calm>>

(* cp -fp infile tempfile, which fails when infile has gone.               *)
StartCopy(r) ==
  /\ HasInfile(r)
  /\ Goto(r, "copy", "copying")
  /\ tempfile' = [tempfile EXCEPT ![r] = Copy(r, FALSE)]
  /\ UNCHANGED <<sources, madeDirs, dead, decision, itile, inout, com, ever,
                 linking, calm>>

CopyFails(r) ==
  /\ r \notin dead /\ pc[r] = "copy" /\ ~HasInfile(r)
  /\ dead' = dead \cup {r}
  /\ UNCHANGED <<sources, madeDirs, pc, decision, itile, inout, tempfile, com,
                 ever, linking, calm>>

EndCopy(r) ==
  /\ Goto(r, "copying", "rename")
  /\ tempfile' = [tempfile EXCEPT ![r] = Copy(r, TRUE)]
  /\ UNCHANGED <<sources, madeDirs, dead, decision, itile, inout, com, ever,
                 linking, calm>>

(* mv -T -f tempfile outfile.                                              *)
Rename(r) ==
  /\ Advance(r, "rename")
  /\ com' = [com EXCEPT ![outfile(r)] = tempfile[r]]
  /\ ever' = ever \cup {outfile(r)}
  /\ tempfile' = [tempfile EXCEPT ![r] = NoFile]
  /\ UNCHANGED <<sources, madeDirs, dead, decision, linking, calm>>

(* The run is killed, or a command of it fails.                            *)
Die(r) ==
  /\ ~Ended(r)
  /\ dead' = dead \cup {r}
  /\ UNCHANGED <<sources, madeDirs, pc, decision, itile, inout, tempfile, com,
                 ever, linking, calm>>

-----------------------------------------------------------------------------
(* global_link_chem.bash: rm -rf EMISDIR, glob, one cp per file, straight  *)
(* to its name there.  A cp that fails ends it (set -e), and the forecast  *)
(* that called it; it is tried again from the start.                       *)

Quiet == \A r \in Runs : pc[r] \in Publishing => r \in dead
(* Mutant: the last tile is missing from the pattern.                      *)
StartLinkShort ==
  /\ link \in {"idle", "failed"} /\ link' = "linking"
  /\ found' = {f \in ComFile : com[f] # NoFile /\ f[1] < tiles}
  /\ EMISDIR' = [f \in {} |-> NoFile]
  /\ calm' = Quiet
  /\ UNCHANGED <<sources, madeDirs, pc, dead, decision, itile, inout, tempfile,
                 com, ever, cp>>

StartLink ==
  /\ link \in {"idle", "failed"} /\ link' = "linking"
  /\ found' = {f \in ComFile : com[f] # NoFile}
  /\ EMISDIR' = [f \in {} |-> NoFile]
  /\ calm' = Quiet
  /\ UNCHANGED <<sources, madeDirs, pc, dead, decision, itile, inout, tempfile,
                 com, ever, cp>>

InEMISDIR(f, content) ==
  EMISDIR' = [g \in DOMAIN EMISDIR \cup {f} |->
                IF g = f THEN content ELSE EMISDIR[g]]

(* cp opens the published file, which it then reads to its end even if the *)
(* name is removed or renamed over, and begins to write the copy.          *)
StartLinkFile(f) ==
  /\ link = "linking" /\ f \in found /\ com[f] # NoFile
  /\ link' = "copying"
  /\ cp' = [file |-> f, opened |-> com[f]]
  /\ InEMISDIR(f, [com[f] EXCEPT !.whole = FALSE])
  /\ UNCHANGED <<sources, madeDirs, pc, dead, decision, itile, inout, tempfile,
                 com, ever, found, calm>>

EndLinkFile ==
  /\ link = "copying" /\ link' = "linking"
  /\ InEMISDIR(cp.file, cp.opened)
  /\ found' = found \ {cp.file}
  /\ cp' = NoCopy
  /\ UNCHANGED <<sources, madeDirs, pc, dead, decision, itile, inout, tempfile,
                 com, ever, calm>>

(* Mutant: the script goes on after a cp that has failed.                  *)
LinkFailsIgnored ==
  /\ link = "copying" /\ link' = "linking"
  /\ found' = found \ {cp.file} /\ cp' = NoCopy
  /\ UNCHANGED <<sources, madeDirs, pc, dead, decision, itile, inout, tempfile,
                 com, ever, EMISDIR, calm>>

(* The file to copy has gone since the glob, the cp fails half-way, or the *)
(* script is killed: what is in EMISDIR stays there as it is.              *)
LinkFails ==
  /\ link \in {"linking", "copying"} /\ link' = "failed"
  /\ found' = {} /\ cp' = NoCopy /\ calm' = FALSE
  /\ UNCHANGED <<sources, madeDirs, pc, dead, decision, itile, inout, tempfile,
                 com, ever, EMISDIR>>

EndLink ==
  /\ link = "linking" /\ found = {} /\ link' = "linked"
  /\ UNCHANGED <<sources, madeDirs, pc, dead, decision, itile, inout, tempfile,
                 com, ever, found, EMISDIR, cp, calm>>

-----------------------------------------------------------------------------
Run(r) ==
  \/ MakeDirs(r) \/ LinkFires(r)
  \/ ScanFile(r) \/ NextDay(r) \/ Decide(r) \/ PrepChemSources(r)
  \/ r \notin dead /\ pc[r] = "send" /\ (Skip(r) \/ Remove(r))
  \/ r \notin dead /\ pc[r] = "copy" /\ (StartCopy(r) \/ CopyFails(r))
  \/ EndCopy(r) \/ Rename(r)

Link ==
  \/ StartLink \/ EndLinkFile \/ LinkFails \/ EndLink
  \/ \E f \in ComFile : StartLinkFile(f)
Feed == (\E f \in GbbepxFile : Arrive(f)) \/ (\E d \in Day : Purge(d))
AllEnded == (\A r \in Runs : Ended(r)) /\ link = "linked" /\ UNCHANGED vars

Next == (\E r \in Runs : Run(r) \/ Die(r)) \/ Link \/ Feed \/ AllEnded

Spec == Init /\ [][Next]_vars

-----------------------------------------------------------------------------
(* Properties.                                                             *)

(* Every variable holds a value the scripts can give it.                   *)
PCs == {"setup", "fires", "scan", "exe", "done"} \cup Publishing
TypeOK ==
  /\ fires \in [modis : FireFiles, wfabba : FireFiles]
  /\ gbbepx \subseteq GbbepxFile /\ purged \subseteq Day
  /\ pc \in [Runs -> PCs] /\ dead \subseteq Runs
  /\ day \in [Runs -> Day]
  /\ expect_gbbepx \in [Runs -> Nat] /\ count_gbbepx \in [Runs -> Nat]
  /\ use_gbbepx \in [Runs -> BOOLEAN]
  /\ itile \in [Runs -> Tile]
  /\ inout \in [Runs -> Nat] /\ \A r \in Runs : inout[r] \in DOMAIN inout_list(r)
  /\ tempfile \in [Runs -> Content \cup {NoFile}]
  /\ com \in [ComFile -> Content \cup {NoFile}]
  /\ ever \subseteq ComFile /\ found \subseteq ComFile
  /\ link \in {"idle", "linking", "copying", "failed", "linked"}
  /\ cp \in [file : ComFile \cup {NoFile}, opened : Content \cup {NoFile}]
  /\ calm \in BOOLEAN

(* In COMOUTchem a file is copied under a temporary name, then renamed.    *)
FilesWhole == \A f \in ComFile : com[f] # NoFile => com[f].whole

(* In EMISDIR it is copied straight onto its name, and can be seen or left *)
(* there half-made; a forecast only goes on from a linking that ended well.*)
LinkedWhole == link = "linked" => \A f \in DOMAIN EMISDIR : EMISDIR[f].whole

(* Whatever overlaps, fails or dies, no half-copied file has a published   *)
(* name; and though each cp of the linking goes straight onto its name, a  *)
(* linking that has ended well leaves whole copies only, whatever was      *)
(* published, removed, killed and tried again meanwhile.                   *)
PublishedWhole == FilesWhole /\ LinkedWhole

(* outfile is removed before it is copied: a published file can be missing *)
(* later only as the one that some run is replacing or was replacing when  *)
(* it died, so that each death loses one file at most.                     *)
Replacing(r, f) == pc[r] \in {"copy", "copying", "rename"} /\ outfile(r) = f
LossBound ==
  \A f \in ever : com[f] = NoFile => \E r \in Runs : Replacing(r, f)

(* 'Success!': a run that has ended well has published every entry of its  *)
(* list for every tile; when no other run has published, what is there is  *)
(* its own, the GBBEPx files all from one day.                             *)
Wanted(r) ==
  {<<t, e.comdir_name>> : t \in Tile,
     e \in {x \in Named(inout_list(r)) : is_gbbepx_data(x) => use_gbbepx[r]}}
Alone(r) == \A q \in Runs \ {r} : pc[q] \in PCs \ ({"done"} \cup Publishing)
SuccessPublishes ==
  \A r \in SENDCOM : pc[r] = "done" =>
    /\ Wanted(r) \subseteq ever
    /\ Alone(r) => \A f \in Wanted(r) :
         com[f] # NoFile /\ com[f].run = r /\ com[f].day \in {0, day[r]}

(* GBBEPx files are used only for a day that has all of them (unless they  *)
(* have been purged since): what is counted for one day never stands in    *)
(* for a file missing on another.                                          *)
UsesCompleteDay ==
  \A r \in Runs : use_gbbepx[r] /\ day[r] \notin purged =>
    {day[r]} \X Named(gbbepx_list) \X Tile \subseteq gbbepx

(* A forecast that links while nobody publishes gets every file of a run   *)
(* that succeeded, but for those that a death has removed.                 *)
CalmLinkComplete ==
  link = "linked" /\ calm =>
    \A r \in SENDCOM : pc[r] = "done" =>
      \A f \in Wanted(r) \ DOMAIN EMISDIR : \E d \in dead : Replacing(d, f)

(* 'directory with today's modis fire data', 'yesterday's': every non-empty*)
(* file of a day, in the directory of that day, is linked.                 *)
OwnDay == {<<d, d>> : d \in FireDays}
ModisFound ==
  \A r \in Runs : pc[r] = "exe" => fires.modis \cap OwnDay \subseteq links[r].modis
=============================================================================

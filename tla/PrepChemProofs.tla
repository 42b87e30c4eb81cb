--------------------------- MODULE PrepChemProofs ---------------------------
(***************************************************************************)
(* Theorems about PrepChem, for every number of runs, tiles, days and      *)
(* entries of the lists: published files are whole and lost only by a run  *)
(* that is replacing them; what a run decides to use is a complete day,    *)
(* what it has published when it ends well is complete and its own, and so *)
(* is what the forecast links.                                             *)
(***************************************************************************)
EXTENDS PrepChem, Integers, TLAPS

-----------------------------------------------------------------------------
(* A run stands at the first file until it has decided what to publish, a  *)
(* file about to be renamed is whole, and so is every published one.       *)
AtStart ==
  \A r \in Runs : pc[r] \in {"setup", "fires", "scan"} =>
    itile[r] = 1 /\ inout[r] = 1
TempWhole ==
  \A r \in Runs : pc[r] = "rename" => tempfile[r] \in Content /\ tempfile[r].whole
(* The only copy in EMISDIR that is not whole is the one that is made, or  *)
(* was made when the linking failed; what is copied was published whole.   *)
LinkInv ==
  /\ DOMAIN EMISDIR \subseteq ComFile
  /\ link \in {"idle", "linking", "copying", "linked"} =>
       \A f \in DOMAIN EMISDIR :
         EMISDIR[f].whole \/ (link = "copying" /\ f = cp.file)
  /\ link = "copying" =>
       cp.file \in ComFile /\ cp.opened \in Content /\ cp.opened.whole
  /\ link # "copying" => cp = NoCopy
Inv == TypeOK /\ AtStart

-----------------------------------------------------------------------------
(* Both lists have a first entry, and every entry names a published file.  *)
LEMMA ListFacts ==
  ASSUME NEW r \in Runs, TypeOK
  PROVE  /\ inout_list(r) \in Seq(Inout)
         /\ Entry(r) \in Named(inout_list(r))
         /\ outfile(r) \in ComFile
<1>1. inout_list(r) \in {GbbepxInout, StaticInout}
  BY DEF inout_list
<1>2. inout_list(r) \in Seq(Inout)
  BY <1>1, PrepChemAssumption
<1>3. inout[r] \in DOMAIN inout_list(r) /\ itile[r] \in Tile
  BY DEF TypeOK
<1>4. Entry(r) \in Named(inout_list(r))
  BY <1>3 DEF Entry, Named
<1>5. Entry(r) \in Named(GbbepxInout) \cup Named(StaticInout)
  BY <1>1, <1>4
<1>6. outfile(r) \in ComFile
  BY <1>3, <1>5 DEF outfile, ComFile
<1> QED BY <1>2, <1>4, <1>6

(* Both lists are non-empty.                                               *)
LEMMA FirstEntry ==
  /\ 1 \in DOMAIN GbbepxInout /\ 1 \in DOMAIN StaticInout
  /\ DOMAIN GbbepxInout \subseteq Nat /\ DOMAIN StaticInout \subseteq Nat
BY PrepChemAssumption

(* Advance goes on to an entry that exists or ends the run.                *)
LEMMA AdvanceFacts ==
  ASSUME NEW r \in Runs, TypeOK, NEW from, Advance(r, from), use_gbbepx' = use_gbbepx
  PROVE  /\ r \notin dead /\ pc[r] = from
         /\ \E x \in {"send", "done"} : pc' = [pc EXCEPT ![r] = x]
         /\ itile' \in [Runs -> Tile]
         /\ inout' \in [Runs -> Nat]
         /\ \A q \in Runs : inout'[q] \in DOMAIN inout_list(q)'
         /\ \A q \in Runs \ {r} : itile'[q] = itile[q] /\ inout'[q] = inout[q]
<1> DEFINE L == inout_list(r)
<1>1. L \in Seq(Inout) /\ inout[r] \in 1..Len(L) /\ 1 \in DOMAIN L
  <2>1. L \in Seq(Inout)
    BY ListFacts
  <2>2. inout[r] \in DOMAIN L
    BY DEF TypeOK
  <2>3. 1 \in DOMAIN L
    BY FirstEntry DEF inout_list
  <2> QED BY <2>1, <2>2, <2>3
<1>2. \A q \in Runs : inout_list(q)' = inout_list(q)
  BY DEF inout_list
<1>3. /\ itile \in [Runs -> Tile] /\ inout \in [Runs -> Nat]
      /\ \A q \in Runs : inout[q] \in DOMAIN inout_list(q)
  BY DEF TypeOK
<1>4. CASE inout[r] < Len(L)
  <2>1. Goto(r, from, "send") /\ inout' = [inout EXCEPT ![r] = @ + 1] /\ itile' = itile
    BY <1>4 DEF Advance
  <2>2. inout[r] + 1 \in DOMAIN L /\ inout[r] + 1 \in Nat
    BY <1>1, <1>4
  <2>3. inout' \in [Runs -> Nat] /\ \A q \in Runs : inout'[q] \in DOMAIN inout_list(q)
    BY <1>3, <2>1, <2>2
  <2> QED BY <1>2, <1>3, <2>1, <2>3 DEF Goto
<1>5. CASE ~(inout[r] < Len(L)) /\ itile[r] < tiles
  <2>1. /\ Goto(r, from, "send") /\ itile' = [itile EXCEPT ![r] = @ + 1]
        /\ inout' = [inout EXCEPT ![r] = 1]
    BY <1>5 DEF Advance
  <2>2. itile' \in [Runs -> Tile]
    BY <1>3, <1>5, <2>1, PrepChemAssumption DEF Tile
  <2>3. inout' \in [Runs -> Nat] /\ \A q \in Runs : inout'[q] \in DOMAIN inout_list(q)
    BY <1>1, <1>3, <2>1
  <2> QED BY <1>2, <1>3, <2>1, <2>2, <2>3 DEF Goto
<1>6. CASE ~(inout[r] < Len(L)) /\ ~(itile[r] < tiles)
  BY <1>2, <1>3, <1>6 DEF Advance, Goto
<1> QED BY <1>4, <1>5, <1>6

(* What a run copies is a content.                                         *)
LEMMA CopyType ==
  ASSUME NEW r \in Runs, TypeOK, NEW w \in BOOLEAN
  PROVE  Copy(r, w) \in Content /\ Copy(r, w).whole = w /\ Copy(r, w) # NoFile
<1>1. day[r] \in Day
  BY DEF TypeOK
<1>2. Copy(r, w) \in Content /\ Copy(r, w).whole = w
  BY <1>1 DEF Copy, Content
<1> QED BY <1>2, NoFileAssumption

-----------------------------------------------------------------------------
LEMMA InitInv == Init => Inv
<1> SUFFICES ASSUME Init PROVE Inv
  OBVIOUS
<1> USE DEF Init
<1>1. 1 \in Day /\ 1 \in Tile
  BY PrepChemAssumption DEF Day, Tile
<1>2. \A r \in Runs : inout_list(r) = StaticInout /\ inout[r] \in DOMAIN inout_list(r)
  BY FirstEntry DEF inout_list
<1>3. /\ fires \in [modis : FireFiles, wfabba : FireFiles]
      /\ gbbepx \subseteq GbbepxFile /\ purged \subseteq Day
      /\ pc \in [Runs -> PCs] /\ dead \subseteq Runs
      /\ day \in [Runs -> Day]
  BY <1>1 DEF PCs
<1>4. /\ expect_gbbepx \in [Runs -> Nat] /\ count_gbbepx \in [Runs -> Nat]
      /\ use_gbbepx \in [Runs -> BOOLEAN]
      /\ itile \in [Runs -> Tile] /\ inout \in [Runs -> Nat]
  BY <1>1
<1>5. /\ tempfile \in [Runs -> Content \cup {NoFile}]
      /\ com \in [ComFile -> Content \cup {NoFile}]
      /\ ever \subseteq ComFile /\ found \subseteq ComFile
      /\ link \in {"idle", "linking", "copying", "failed", "linked"}
      /\ calm \in BOOLEAN
      /\ cp \in [file : ComFile \cup {NoFile}, opened : Content \cup {NoFile}]
  BY DEF NoCopy
<1>6. TypeOK
  BY <1>2, <1>3, <1>4, <1>5 DEF TypeOK
<1> QED BY <1>6 DEF Inv, AtStart

(* Steps of a run that leave its loops alone.                              *)
LEMMA KeepLists ==
  ASSUME TypeOK, UNCHANGED <<use_gbbepx, inout>>
  PROVE  /\ inout' \in [Runs -> Nat]
         /\ \A r \in Runs : inout'[r] \in DOMAIN inout_list(r)'
BY DEF TypeOK, inout_list

LEMMA FeedInv == Inv /\ Feed => Inv'
<1> SUFFICES ASSUME Inv, Feed PROVE Inv'
  OBVIOUS
<1>0. UNCHANGED <<fires, madeDirs, pc, dead, decision, itile, inout, tempfile, com,
                  ever, linking, calm>>
  BY DEF Feed, Arrive, Purge
<1>1. gbbepx' \subseteq GbbepxFile /\ purged' \subseteq Day
  BY DEF Feed, Arrive, Purge, Inv, TypeOK
<1>2. TypeOK'
  BY <1>0, <1>1, KeepLists DEF TypeOK, Inv, decision, linking
<1> QED BY <1>0, <1>2 DEF Inv, AtStart

LEMMA LinkTypes == Inv /\ Link => Inv'
<1> SUFFICES ASSUME Inv, Link PROVE Inv'
  OBVIOUS
<1>0. UNCHANGED <<sources, madeDirs, pc, dead, decision, itile, inout, tempfile,
                  com, ever>>
  BY DEF Link, StartLink, StartLinkFile, EndLinkFile, LinkFails, EndLink
<1>1. /\ found' \subseteq ComFile /\ calm' \in BOOLEAN
      /\ link' \in {"idle", "linking", "copying", "failed", "linked"}
  BY DEF Link, StartLink, StartLinkFile, EndLinkFile, LinkFails, EndLink, Inv,
         TypeOK, Quiet
<1>3. cp' \in [file : ComFile \cup {NoFile}, opened : Content \cup {NoFile}]
  <2>1. ASSUME NEW f \in ComFile, StartLinkFile(f)
        PROVE  cp' \in [file : ComFile \cup {NoFile}, opened : Content \cup {NoFile}]
    <3>1. com[f] \in Content \cup {NoFile}
      BY DEF Inv, TypeOK
    <3> QED BY <2>1, <3>1 DEF StartLinkFile
  <2> QED BY <2>1 DEF Link, StartLink, EndLinkFile, LinkFails, EndLink, NoCopy,
                      Inv, TypeOK
<1>2. TypeOK'
  BY <1>0, <1>1, <1>3, KeepLists DEF TypeOK, Inv, decision, sources
<1> QED BY <1>0, <1>2 DEF Inv, AtStart

-----------------------------------------------------------------------------
LEMMA DecisionInv ==
  ASSUME Inv, NEW r \in Runs,
         \/ MakeDirs(r) \/ LinkFires(r) \/ ScanFile(r) \/ NextDay(r)
         \/ Decide(r) \/ PrepChemSources(r) \/ CopyFails(r) \/ Die(r)
  PROVE  Inv'
<1> USE DEF Inv
<1>1. UNCHANGED <<sources, itile, inout, tempfile, com, ever, linking, calm>>
  BY DEF MakeDirs, LinkFires, ScanFile, NextDay, Decide, PrepChemSources,
         CopyFails, Die, decision
<1>2. /\ dead' \subseteq Runs
      /\ \/ pc' = pc
         \/ \E x \in PCs : /\ pc' = [pc EXCEPT ![r] = x]
                           /\ x \in {"setup", "fires", "scan"} =>
                                pc[r] \in {"setup", "fires", "scan"}
  BY DEF MakeDirs, LinkFires, ScanFile, NextDay, Decide, PrepChemSources,
         CopyFails, Die, Goto, PCs, Publishing, TypeOK
<1>3. pc' \in [Runs -> PCs]
  BY <1>2 DEF TypeOK
<1>4. AtStart'
  BY <1>1, <1>2 DEF AtStart, TypeOK
<1>5. day' \in [Runs -> Day]
  <2>1. CASE NextDay(r)
    BY <2>1, PrepChemAssumption DEF NextDay, Day, TypeOK
  <2>2. CASE ~NextDay(r)
    BY <2>2 DEF MakeDirs, LinkFires, ScanFile, Decide, PrepChemSources, CopyFails,
                Die, decision, TypeOK
  <2> QED BY <2>1, <2>2
<1>6. expect_gbbepx' \in [Runs -> Nat] /\ count_gbbepx' \in [Runs -> Nat]
  BY DEF MakeDirs, LinkFires, ScanFile, NextDay, Decide, PrepChemSources,
         CopyFails, Die, decision, TypeOK
<1>7. /\ use_gbbepx' \in [Runs -> BOOLEAN]
      /\ \A q \in Runs : inout[q] \in DOMAIN inout_list(q)'
  <2>1. CASE Decide(r)
    <3>1. PICK b \in BOOLEAN : use_gbbepx' = [use_gbbepx EXCEPT ![r] = b]
      BY <2>1 DEF Decide
    <3>2. inout[r] = 1
      BY <2>1 DEF Decide, Goto, AtStart
    <3>3. inout[r] \in DOMAIN inout_list(r)'
      BY <3>2, FirstEntry DEF inout_list
    <3>4. \A q \in Runs \ {r} : inout_list(q)' = inout_list(q)
      BY <3>1 DEF inout_list, TypeOK
    <3>5. use_gbbepx' \in [Runs -> BOOLEAN]
      BY <3>1 DEF TypeOK
    <3> QED BY <3>3, <3>4, <3>5 DEF TypeOK
  <2>2. CASE ~Decide(r)
    <3>1. use_gbbepx' = use_gbbepx
      BY <2>2 DEF MakeDirs, LinkFires, ScanFile, NextDay, PrepChemSources,
                  CopyFails, Die, decision
    <3> QED BY <3>1, <1>1, KeepLists DEF TypeOK
  <2> QED BY <2>1, <2>2
<1>8. TypeOK'
  BY <1>1, <1>2, <1>3, <1>5, <1>6, <1>7 DEF TypeOK, sources, linking
<1> QED BY <1>4, <1>8

LEMMA PublishInv ==
  ASSUME Inv, NEW r \in Runs,
         \/ pc[r] = "send" /\ (Skip(r) \/ Remove(r))
         \/ pc[r] = "copy" /\ StartCopy(r)
         \/ EndCopy(r) \/ Rename(r)
  PROVE  Inv'
<1> USE DEF Inv
<1>0. UNCHANGED <<sources, dead, decision, linking>>
  BY DEF Skip, Remove, StartCopy, EndCopy, Rename
<1>1. /\ pc' \in [Runs -> PCs]
      /\ \A q \in Runs : pc'[q] \in {"setup", "fires", "scan"} =>
           q # r /\ pc'[q] = pc[q]
  <2>1. \E x \in {"send", "done", "copy", "copying", "rename"} :
          pc' = [pc EXCEPT ![r] = x]
    BY <1>0, AdvanceFacts DEF Skip, Remove, StartCopy, EndCopy, Rename, Goto, decision
  <2> QED BY <2>1 DEF TypeOK, PCs, Publishing
<1>2. /\ itile' \in [Runs -> Tile] /\ inout' \in [Runs -> Nat]
      /\ \A q \in Runs : inout'[q] \in DOMAIN inout_list(q)'
      /\ \A q \in Runs \ {r} : itile'[q] = itile[q] /\ inout'[q] = inout[q]
  <2>1. CASE Skip(r) \/ Rename(r)
    BY <2>1, <1>0, AdvanceFacts DEF Skip, Rename, decision
  <2>2. CASE Remove(r) \/ StartCopy(r) \/ EndCopy(r)
    <3>1. UNCHANGED <<itile, inout, use_gbbepx>>
      BY <2>2 DEF Remove, StartCopy, EndCopy, decision
    <3> QED BY <3>1, KeepLists DEF TypeOK
  <2> QED BY <2>1, <2>2
<1>3. AtStart'
  BY <1>1, <1>2 DEF AtStart
<1>4. tempfile' \in [Runs -> Content \cup {NoFile}]
  BY CopyType DEF Skip, Remove, StartCopy, EndCopy, Rename, TypeOK
<1>5. com' \in [ComFile -> Content \cup {NoFile}]
  BY ListFacts DEF Skip, Remove, StartCopy, EndCopy, Rename, TypeOK
<1>6. ever' \subseteq ComFile /\ calm' \in BOOLEAN
  BY ListFacts DEF Skip, Remove, StartCopy, EndCopy, Rename, TypeOK
<1>7. TypeOK'
  BY <1>0, <1>1, <1>2, <1>4, <1>5, <1>6 DEF TypeOK, sources, decision, linking
<1> QED BY <1>3, <1>7

LEMMA StutterInv == Inv /\ UNCHANGED vars => Inv'
BY KeepLists DEF Inv, TypeOK, AtStart, vars, sources, decision, linking

LEMMA NextInv == Inv /\ [Next]_vars => Inv'
<1> SUFFICES ASSUME Inv, [Next]_vars PROVE Inv'
  OBVIOUS
<1>1. CASE \E r \in Runs : Run(r) \/ Die(r)
  <2>1. PICK r \in Runs : Run(r) \/ Die(r)
    BY <1>1
  <2>2. \/ MakeDirs(r) \/ LinkFires(r) \/ ScanFile(r) \/ NextDay(r)
        \/ Decide(r) \/ PrepChemSources(r) \/ CopyFails(r) \/ Die(r)
        \/ pc[r] = "send" /\ (Skip(r) \/ Remove(r))
        \/ pc[r] = "copy" /\ StartCopy(r)
        \/ EndCopy(r) \/ Rename(r)
    BY <2>1 DEF Run
  <2> QED BY <2>2, DecisionInv, PublishInv
<1>2. CASE Link \/ Feed
  BY <1>2, LinkTypes, FeedInv
<1>3. CASE AllEnded \/ UNCHANGED vars
  BY <1>3, StutterInv DEF AllEnded
<1> QED BY <1>1, <1>2, <1>3 DEF Next

(* Every variable of the scripts keeps its type.                           *)
THEOREM TypeCorrect == Spec => []TypeOK
<1>1. Inv => TypeOK
  BY DEF Inv
<1> QED BY <1>1, InitInv, NextInv, PTL DEF Spec

-----------------------------------------------------------------------------
(* Published files.  The strengthening says what a temporary file holds.   *)
PubInv == Inv /\ TempWhole /\ LinkInv /\ FilesWhole /\ LossBound

(* What is replaced depends on the loops of that run alone.                *)
LEMMA KeepReplacing ==
  ASSUME TypeOK, NEW q \in Runs, NEW f, Replacing(q, f),
         pc'[q] \in {"copy", "copying", "rename"}, use_gbbepx'[q] = use_gbbepx[q],
         itile'[q] = itile[q], inout'[q] = inout[q]
  PROVE  Replacing(q, f)'
BY DEF Replacing, outfile, Entry, inout_list

LEMMA InitPub == Init => PubInv
<1> SUFFICES ASSUME Init PROVE PubInv
  OBVIOUS
<1>1. TempWhole /\ LinkInv /\ LossBound
  BY DEF Init, TempWhole, LinkInv, LossBound
<1>2. FilesWhole
  BY DEF Init, FilesWhole
<1> QED BY <1>1, <1>2, InitInv DEF PubInv

LEMMA DecisionPub ==
  ASSUME PubInv, NEW r \in Runs,
         \/ MakeDirs(r) \/ LinkFires(r) \/ ScanFile(r) \/ NextDay(r)
         \/ Decide(r) \/ PrepChemSources(r) \/ CopyFails(r) \/ Die(r)
  PROVE  TempWhole' /\ LinkInv' /\ FilesWhole' /\ LossBound'
<1> USE DEF PubInv
<1>1. UNCHANGED <<tempfile, com, ever, EMISDIR, link, cp, itile, inout>>
  BY DEF MakeDirs, LinkFires, ScanFile, NextDay, Decide, PrepChemSources,
         CopyFails, Die, decision, linking
<1>2. \A q \in Runs : pc[q] \in {"copy", "copying", "rename"} =>
        pc'[q] = pc[q] /\ use_gbbepx'[q] = use_gbbepx[q]
  BY DEF MakeDirs, LinkFires, ScanFile, NextDay, Decide, PrepChemSources,
         CopyFails, Die, decision, Goto, Inv, TypeOK
<1>3. \A q \in Runs : pc'[q] = "rename" => pc[q] = "rename"
  BY DEF MakeDirs, LinkFires, ScanFile, NextDay, Decide, PrepChemSources,
         CopyFails, Die, decision, Goto, Inv, TypeOK
<1>4. TempWhole' /\ LinkInv' /\ FilesWhole'
  BY <1>1, <1>3 DEF TempWhole, LinkInv, FilesWhole
<1>5. ASSUME NEW f \in ever', com'[f] = NoFile
      PROVE  \E q \in Runs : Replacing(q, f)'
  <2>1. PICK q \in Runs : Replacing(q, f)
    BY <1>1, <1>5 DEF LossBound
  <2>2. Replacing(q, f)'
    BY <1>1, <1>2, <2>1, KeepReplacing DEF Inv, Replacing
  <2> QED BY <2>2
<1> QED BY <1>4, <1>5 DEF LossBound

LEMMA LinkPub ==
  ASSUME PubInv, Link \/ Feed \/ UNCHANGED vars
  PROVE  TempWhole' /\ LinkInv' /\ FilesWhole' /\ LossBound'
<1> USE DEF PubInv
<1>1. UNCHANGED <<pc, use_gbbepx, itile, inout, tempfile, com, ever>>
  BY DEF Link, StartLink, StartLinkFile, EndLinkFile, LinkFails, EndLink, Feed,
         Arrive, Purge, vars, decision
<1>2. TempWhole'
  BY <1>1 DEF TempWhole
<1>3. LossBound'
  <2>1. \A q \in Runs, f \in ComFile : Replacing(q, f)' <=> Replacing(q, f)
    BY <1>1 DEF Replacing, outfile, Entry, inout_list
  <2> QED BY <1>1, <2>1 DEF LossBound, Inv, TypeOK
<1>4. FilesWhole'
  BY <1>1 DEF FilesWhole
<1>5. LinkInv'
  <2>1. CASE StartLink
    BY <1>1, <2>1 DEF StartLink, LinkInv
  <2>2. CASE \E f \in ComFile : StartLinkFile(f)
    <3>1. PICK f \in ComFile : StartLinkFile(f)
      BY <2>2
    <3>2. com[f] \in Content /\ com[f].whole
      BY <3>1 DEF StartLinkFile, FilesWhole, Inv, TypeOK
    <3>3. cp'.file = f /\ cp'.opened = com[f]
      BY <3>1 DEF StartLinkFile
    <3>4. /\ DOMAIN EMISDIR' = DOMAIN EMISDIR \cup {f}
          /\ \A g \in DOMAIN EMISDIR \ {f} : EMISDIR'[g] = EMISDIR[g]
      BY <3>1 DEF StartLinkFile, InEMISDIR
    <3>6. link = "linking" /\ link' = "copying" /\ cp = NoCopy
      BY <3>1 DEF StartLinkFile, LinkInv
    <3> QED BY <3>2, <3>3, <3>4, <3>6 DEF LinkInv, NoCopy
  <2>3. CASE EndLinkFile
    <3>1. /\ DOMAIN EMISDIR' = DOMAIN EMISDIR \cup {cp.file}
          /\ EMISDIR'[cp.file] = cp.opened
          /\ \A g \in DOMAIN EMISDIR \ {cp.file} : EMISDIR'[g] = EMISDIR[g]
      BY <2>3 DEF EndLinkFile, InEMISDIR
    <3> QED BY <2>3, <3>1 DEF EndLinkFile, LinkInv
  <2>4. CASE LinkFails
    BY <2>4 DEF LinkFails, LinkInv
  <2>5. CASE EndLink \/ Feed \/ UNCHANGED vars
    <3>1. UNCHANGED <<EMISDIR, cp>>
      BY <2>5 DEF EndLink, Feed, Arrive, Purge, vars, linking
    <3>2. link' = link \/ (link = "linking" /\ link' = "linked")
      BY <2>5 DEF EndLink, Feed, Arrive, Purge, vars, linking
    <3> QED BY <3>1, <3>2 DEF LinkInv
  <2> QED BY <2>1, <2>2, <2>3, <2>4, <2>5 DEF Link
<1> QED BY <1>2, <1>3, <1>4, <1>5

LEMMA PublishPub ==
  ASSUME PubInv, NEW r \in Runs,
         \/ pc[r] = "send" /\ (Skip(r) \/ Remove(r))
         \/ pc[r] = "copy" /\ StartCopy(r)
         \/ EndCopy(r) \/ Rename(r)
  PROVE  TempWhole' /\ LinkInv' /\ FilesWhole' /\ LossBound'
<1> USE DEF PubInv
<1>0. UNCHANGED <<use_gbbepx, EMISDIR, link, cp>>
  BY DEF Skip, Remove, StartCopy, EndCopy, Rename, decision, linking
<1>1. \A q \in Runs \ {r} : /\ pc'[q] = pc[q]
                            /\ itile'[q] = itile[q] /\ inout'[q] = inout[q]
  <2>1. CASE Skip(r) \/ Rename(r)
    BY <2>1, <1>0, AdvanceFacts DEF Skip, Rename, Inv, TypeOK
  <2>2. CASE Remove(r) \/ StartCopy(r) \/ EndCopy(r)
    BY <2>2 DEF Remove, StartCopy, EndCopy, Goto, Inv, TypeOK
  <2> QED BY <2>1, <2>2
<1>2. TempWhole'
  <2>1. CASE EndCopy(r)
    BY <2>1, <1>1, CopyType DEF EndCopy, TempWhole, Inv, TypeOK
  <2>2. CASE Skip(r) \/ Rename(r)
    <3>1. pc'[r] # "rename"
      BY <2>2, <1>0, AdvanceFacts DEF Skip, Rename, Inv, TypeOK
    <3>2. \A q \in Runs \ {r} : tempfile'[q] = tempfile[q]
      BY <2>2 DEF Skip, Rename, Inv, TypeOK
    <3> QED BY <3>1, <3>2, <1>1 DEF TempWhole
  <2>3. CASE Remove(r) \/ StartCopy(r)
    <3>1. pc'[r] # "rename"
      BY <2>3 DEF Remove, StartCopy, Goto, Inv, TypeOK
    <3>2. \A q \in Runs \ {r} : tempfile'[q] = tempfile[q]
      BY <2>3 DEF Remove, StartCopy, Inv, TypeOK
    <3> QED BY <3>1, <3>2, <1>1 DEF TempWhole
  <2> QED BY <2>1, <2>2, <2>3
<1>3. CASE Skip(r)
  <2>1. pc[r] = "send" /\ UNCHANGED <<com, ever>>
    BY <1>3, <1>0, AdvanceFacts DEF Skip, Inv
  <2>2. ASSUME NEW f \in ever', com'[f] = NoFile
        PROVE  \E q \in Runs : Replacing(q, f)'
    <3>1. PICK q \in Runs : Replacing(q, f)
      BY <2>1, <2>2 DEF LossBound
    <3>2. q # r
      BY <3>1, <2>1 DEF Replacing
    <3>3. Replacing(q, f)'
      BY <3>1, <3>2, <1>0, <1>1, KeepReplacing DEF Inv, Replacing
    <3> QED BY <3>3
  <2> QED BY <1>0, <1>2, <2>1, <2>2 DEF LossBound, LinkInv, FilesWhole
<1>4. CASE Remove(r)
  <2>1. /\ com' = [com EXCEPT ![outfile(r)] = NoFile]
        /\ UNCHANGED <<ever, itile, inout>> /\ pc'[r] = "copy"
    BY <1>4 DEF Remove, Goto, Inv, TypeOK
  <2>2. FilesWhole'
    BY <1>0, <2>1 DEF FilesWhole, Inv, TypeOK
  <2>3. ASSUME NEW f \in ever', com'[f] = NoFile
        PROVE  \E q \in Runs : Replacing(q, f)'
    <3>1. CASE f = outfile(r)
      <4>1. outfile(r)' = outfile(r)
        BY <1>0, <2>1 DEF outfile, Entry, inout_list
      <4> QED BY <2>1, <3>1, <4>1 DEF Replacing
    <3>2. CASE f # outfile(r)
      <4>1. f \in ever /\ com[f] = NoFile
        BY <2>1, <2>3, <3>2 DEF Inv, TypeOK
      <4>2. PICK q \in Runs : Replacing(q, f)
        BY <4>1 DEF LossBound
      <4>3. q # r
        BY <3>2, <4>2 DEF Replacing
      <4> QED BY <4>2, <4>3, <1>0, <1>1, KeepReplacing DEF Inv, Replacing
    <3> QED BY <3>1, <3>2
  <2> QED BY <1>0, <1>2, <2>2, <2>3 DEF LossBound, LinkInv
<1>5. CASE StartCopy(r) \/ EndCopy(r)
  <2>1. /\ UNCHANGED <<com, ever, itile, inout>>
        /\ pc'[r] \in {"copying", "rename"}
    BY <1>5 DEF StartCopy, EndCopy, Goto, Inv, TypeOK
  <2>2. ASSUME NEW f \in ever', com'[f] = NoFile
        PROVE  \E q \in Runs : Replacing(q, f)'
    <3>1. PICK q \in Runs : Replacing(q, f)
      BY <2>1, <2>2 DEF LossBound
    <3> QED BY <3>1, <2>1, <1>0, <1>1, KeepReplacing DEF Inv, Replacing
  <2> QED BY <1>0, <1>2, <2>1, <2>2 DEF LossBound, LinkInv, FilesWhole
<1>6. CASE Rename(r)
  <2>1. /\ com' = [com EXCEPT ![outfile(r)] = tempfile[r]]
        /\ ever' = ever \cup {outfile(r)} /\ pc[r] = "rename"
    BY <1>6, <1>0, AdvanceFacts DEF Rename, Inv
  <2>2. tempfile[r] # NoFile /\ tempfile[r].whole
    BY <2>1, NoFileAssumption DEF TempWhole
  <2>3. FilesWhole'
    BY <1>0, <2>1, <2>2 DEF FilesWhole, Inv, TypeOK
  <2>4. ASSUME NEW f \in ever', com'[f] = NoFile
        PROVE  \E q \in Runs : Replacing(q, f)'
    <3>1. outfile(r) \in ComFile
      BY ListFacts DEF Inv
    <3>2. f # outfile(r) /\ f \in ever /\ com[f] = NoFile
      BY <2>1, <2>2, <2>4, <3>1 DEF Inv, TypeOK
    <3>3. PICK q \in Runs : Replacing(q, f)
      BY <3>2 DEF LossBound
    <3>4. q # r
      BY <3>2, <3>3 DEF Replacing
    <3> QED BY <3>3, <3>4, <1>0, <1>1, KeepReplacing DEF Inv, Replacing
  <2> QED BY <1>0, <1>2, <2>3, <2>4 DEF LossBound, LinkInv
<1> QED BY <1>3, <1>4, <1>5, <1>6

LEMMA NextPub == PubInv /\ [Next]_vars => PubInv'
<1> SUFFICES ASSUME PubInv, [Next]_vars PROVE PubInv'
  OBVIOUS
<1>1. Inv'
  BY NextInv DEF PubInv
<1>2. CASE \E r \in Runs : Run(r) \/ Die(r)
  <2>1. PICK r \in Runs : Run(r) \/ Die(r)
    BY <1>2
  <2>2. \/ MakeDirs(r) \/ LinkFires(r) \/ ScanFile(r) \/ NextDay(r)
        \/ Decide(r) \/ PrepChemSources(r) \/ CopyFails(r) \/ Die(r)
        \/ pc[r] = "send" /\ (Skip(r) \/ Remove(r))
        \/ pc[r] = "copy" /\ StartCopy(r)
        \/ EndCopy(r) \/ Rename(r)
    BY <2>1 DEF Run
  <2> QED BY <1>1, <2>2, DecisionPub, PublishPub DEF PubInv
<1>3. CASE Link \/ Feed \/ AllEnded \/ UNCHANGED vars
  BY <1>1, <1>3, LinkPub DEF AllEnded, PubInv
<1> QED BY <1>2, <1>3 DEF Next

(* However many runs overlap or die, no half-copied file has a published   *)
(* name, and a linking that ended well leaves whole copies only.           *)
THEOREM PublishedAreWhole == Spec => []PublishedWhole
<1>1. PubInv => PublishedWhole
  BY DEF PubInv, LinkInv, PublishedWhole, LinkedWhole
<1> QED BY <1>1, InitPub, NextPub, PTL DEF Spec

(* A published file is missing only while, or because, a run replaces it.  *)
THEOREM LossIsBounded == Spec => []LossBound
<1>1. PubInv => LossBound
  BY DEF PubInv
<1> QED BY <1>1, InitPub, NextPub, PTL DEF Spec

-----------------------------------------------------------------------------
(* The n-th file that run r looks for, on the day it has come to.          *)
FileScanned(r, n) == <<day[r], Scanned(n)[1], Scanned(n)[2]>>

(* While every file of the day looked for so far was found, they are there,*)
(* unless the day has been purged.                                         *)
ScanOK(r) ==
  /\ pc[r] \in {"setup", "fires"} => expect_gbbepx[r] = 0 /\ count_gbbepx[r] = 0
  /\ pc[r] \in {"setup", "fires", "scan"} => ~use_gbbepx[r]
  /\ pc[r] = "scan" => count_gbbepx[r] <= expect_gbbepx[r]
  /\ (pc[r] = "scan" \/ use_gbbepx[r]) /\ count_gbbepx[r] = expect_gbbepx[r]
       /\ day[r] \notin purged =>
       \A n \in Nat : n < expect_gbbepx[r] => FileScanned(r, n) \in gbbepx
  /\ use_gbbepx[r] => count_gbbepx[r] = expect_gbbepx[r] /\ expect_gbbepx[r] = Expected

ScanInv == Inv /\ \A r \in Runs : ScanOK(r)

-----------------------------------------------------------------------------
(* Division with a remainder, for the loops over names and tiles.           *)
LEMMA DivisionUnique ==
  ASSUME NEW d \in Nat \ {0}, NEW m \in Nat, NEW k \in 0 .. d - 1, NEW n \in Nat,
         n = d * m + k
  PROVE  n \div d = m /\ n % d = k
<1>1. PICK q \in Int, p \in 0 .. d - 1 :
        q = n \div d /\ p = n % d /\ n = d * q + p
  <2>1. /\ n \div d \in Int /\ n % d \in 0 .. d - 1
        /\ n = d * (n \div d) + (n % d)
    OBVIOUS
  <2> QED BY <2>1
<1>2. d * (q - m) \in Int /\ d * (q - m) = k - p
  <2>1. d * q \in Int /\ d * m \in Int /\ d * (q - m) = d * q - d * m
    OBVIOUS
  <2> QED BY <1>1, <2>1
<1>3. ~(q > m)
  <2>1. SUFFICES ASSUME q > m PROVE FALSE
    OBVIOUS
  <2>2. d * (q - m - 1) >= 0 /\ d * (q - m - 1) = d * (q - m) - d
    BY <2>1
  <2> QED BY <1>2, <2>2
<1>4. ~(q < m)
  <2>1. SUFFICES ASSUME q < m PROVE FALSE
    OBVIOUS
  <2>2. d * (m - q - 1) >= 0 /\ d * (m - q - 1) = -(d * (q - m)) - d
    BY <2>1
  <2> QED BY <1>2, <2>2
<1>5. QED BY <1>1, <1>2, <1>3, <1>4

(* The loops over names and tiles reach each of their pairs.               *)
LEMMA ScanCovers ==
  ASSUME NEW s \in Named(gbbepx_list), NEW t \in Tile
  PROVE  \E n \in Nat : n < Expected /\ Scanned(n) = <<s, t>>
<1>1. PICK i \in 1..Len(gbbepx_list) : gbbepx_list[i] = s
  BY PrepChemAssumption DEF Named
<1>2. tiles \in Nat \ {0} /\ t \in 1..tiles /\ Len(gbbepx_list) \in Nat
  BY PrepChemAssumption DEF Tile
<1>3. PICK m \in Nat : m = i - 1 /\ m < Len(gbbepx_list)
  BY <1>1
<1>4. PICK n \in Nat : /\ n = tiles * m + (t - 1)
                       /\ n \div tiles = m /\ n % tiles = t - 1
  <2>1. PICK k \in 0 .. tiles - 1 : k = t - 1
    BY <1>2
  <2>2. PICK n \in Nat : n = tiles * m + k
    BY <1>2, <2>1
  <2>3. tiles \in Nat \ {0} /\ m \in Nat /\ k \in 0 .. tiles - 1 /\ n \in Nat
    BY <1>2, <2>1
  <2>4. n \div tiles = m /\ n % tiles = k
    BY <2>2, <2>3, DivisionUnique, Zenon
  <2> QED BY <2>1, <2>2, <2>4
<1>5. n < Len(gbbepx_list) * tiles
  <2>1. (m + 1) * tiles <= Len(gbbepx_list) * tiles
    <3>1. (Len(gbbepx_list) - (m + 1)) * tiles >= 0
      BY <1>2, <1>3
    <3>2. QED BY <1>2, <1>3, <3>1
  <2>2. n < (m + 1) * tiles
    <3>1. tiles * m \in Nat /\ (m + 1) * tiles = tiles * m + tiles
      BY <1>2
    <3> QED BY <1>2, <1>4, <3>1
  <2>3. (m + 1) * tiles \in Nat /\ Len(gbbepx_list) * tiles \in Nat
    BY <1>2, <1>3
  <2>4. QED BY <1>4, <2>1, <2>2, <2>3
<1>6. Scanned(n) = <<s, t>>
  <2>1. Scanned(n) = <<gbbepx_list[m + 1], (t - 1) + 1>>
    BY <1>4 DEF Scanned
  <2>2. QED BY <1>1, <1>2, <1>3, <2>1
<1>7. QED BY <1>4, <1>5, <1>6 DEF Expected

LEMMA ScanInvImplies == ScanInv => UsesCompleteDay
<1> SUFFICES ASSUME ScanInv, NEW r \in Runs, use_gbbepx[r], day[r] \notin purged,
                    NEW s \in Named(gbbepx_list), NEW t \in Tile
             PROVE  <<day[r], s, t>> \in gbbepx
  BY DEF UsesCompleteDay
<1>1. PICK n \in Nat : n < Expected /\ Scanned(n) = <<s, t>>
  BY ScanCovers
<1>2. FileScanned(r, n) \in gbbepx
  BY <1>1 DEF ScanInv, ScanOK
<1>3. QED BY <1>1, <1>2 DEF FileScanned

-----------------------------------------------------------------------------
LEMMA InitScanInv == Init => ScanInv
<1> SUFFICES ASSUME Init PROVE ScanInv
  OBVIOUS
<1>1. ASSUME NEW r \in Runs PROVE ScanOK(r)
  BY DEF Init, ScanOK
<1>2. QED BY <1>1, InitInv DEF ScanInv

(* A step that leaves the counters of a run alone.                         *)
LEMMA KeepScan ==
  ASSUME NEW q \in Runs, ScanOK(q),
         UNCHANGED <<sources, day, expect_gbbepx, count_gbbepx, use_gbbepx>>,
         pc'[q] \in {"setup", "fires", "scan"} =>
           pc[q] = pc'[q] \/ (pc[q] \in {"setup", "fires"} /\ expect_gbbepx[q] = 0)
  PROVE  ScanOK(q)'
BY DEF ScanOK, FileScanned, Scanned, sources

LEMMA FeedScan ==
  ASSUME ScanInv, Feed, NEW q \in Runs
  PROVE  ScanOK(q)'
<1>1. UNCHANGED <<pc, decision>>
  BY DEF Feed, Arrive, Purge
<1>2. /\ purged \subseteq purged'
      /\ \A f \in gbbepx : f[1] \notin purged' => f \in gbbepx'
  BY DEF Feed, Arrive, Purge
<1>3. ASSUME NEW n, FileScanned(q, n) \in gbbepx, day[q] \notin purged'
      PROVE  FileScanned(q, n)' \in gbbepx'
  BY <1>1, <1>2, <1>3 DEF FileScanned, Scanned, decision
<1>4. QED BY <1>1, <1>2, <1>3 DEF ScanInv, ScanOK, decision

LEMMA RunScan ==
  ASSUME ScanInv, NEW r \in Runs, Run(r) \/ Die(r), NEW q \in Runs
  PROVE  ScanOK(q)'
<1> USE DEF ScanInv, Inv, TypeOK, Goto
<1>1. CASE ScanFile(r)
  <2>1. CASE q # r
    BY <1>1, <2>1 DEF ScanFile, ScanOK, FileScanned, Scanned, sources
  <2>2. CASE q = r
    <3>1. /\ pc'[r] = "scan" /\ pc[r] = "scan" /\ UNCHANGED <<sources, day, use_gbbepx>>
          /\ expect_gbbepx'[r] = expect_gbbepx[r] + 1
          /\ \/ /\ count_gbbepx'[r] = count_gbbepx[r] + 1
                /\ FileScanned(r, expect_gbbepx[r]) \in gbbepx
             \/ count_gbbepx'[r] = count_gbbepx[r]
      BY <1>1 DEF ScanFile, FileScanned
    <3>2. \A n : FileScanned(r, n)' = FileScanned(r, n)
      BY <3>1 DEF FileScanned, Scanned
    <3>3. expect_gbbepx[r] \in Nat /\ count_gbbepx[r] \in Nat
      OBVIOUS
    <3>4. ~use_gbbepx'[r] /\ count_gbbepx'[r] <= expect_gbbepx'[r]
      BY <3>1, <3>3 DEF ScanOK
    <3>5. ASSUME count_gbbepx'[r] = expect_gbbepx'[r], day[r] \notin purged,
                 NEW n \in Nat, n < expect_gbbepx'[r]
          PROVE  FileScanned(r, n) \in gbbepx
      <4>0. count_gbbepx[r] <= expect_gbbepx[r]
        BY <3>1 DEF ScanOK
      <4> HIDE DEF Inv, TypeOK
      <4>1. /\ count_gbbepx[r] = expect_gbbepx[r]
            /\ FileScanned(r, expect_gbbepx[r]) \in gbbepx
        BY <3>1, <3>3, <3>5, <4>0
      <4>2. n = expect_gbbepx[r] \/ n < expect_gbbepx[r]
        BY <3>1, <3>3, <3>5
      <4>3. QED BY <3>1, <3>5, <4>1, <4>2 DEF ScanOK
    <3>6. QED BY <2>2, <3>1, <3>2, <3>4, <3>5 DEF ScanOK, sources
  <2>3. QED BY <2>1, <2>2
<1>2. CASE NextDay(r)
  <2>1. CASE q # r
    BY <1>2, <2>1 DEF NextDay, ScanOK, FileScanned, Scanned, sources
  <2>2. CASE q = r
    BY <1>2, <2>2 DEF NextDay, ScanOK, FileScanned, Scanned, sources
  <2>3. QED BY <2>1, <2>2
<1>3. CASE Decide(r)
  <2>1. CASE q # r
    BY <1>3, <2>1 DEF Decide, ScanOK, FileScanned, Scanned, sources
  <2>2. CASE q = r
    BY <1>3, <2>2 DEF Decide, ScanOK, FileScanned, Scanned, sources
  <2>3. QED BY <2>1, <2>2
<1>4. CASE ~(ScanFile(r) \/ NextDay(r) \/ Decide(r))
  <2>1. UNCHANGED <<sources, day, expect_gbbepx, count_gbbepx, use_gbbepx>>
    BY <1>4 DEF Run, Die, MakeDirs, LinkFires, PrepChemSources, Skip, Remove, StartCopy,
       CopyFails, EndCopy, Rename, decision
  <2>2. \/ pc' = pc
        \/ \E x \in PCs : /\ pc' = [pc EXCEPT ![r] = x]
                          /\ x \in {"setup", "fires", "scan"} =>
                               pc[r] \in {"setup", "fires"}
    <3>1. CASE MakeDirs(r) \/ LinkFires(r) \/ PrepChemSources(r) \/ CopyFails(r) \/ Die(r)
      BY <3>1 DEF MakeDirs, LinkFires, PrepChemSources, CopyFails, Die, PCs, Publishing
    <3>2. CASE Remove(r) \/ StartCopy(r) \/ EndCopy(r)
      <4>1. \E x \in {"copy", "copying", "rename"} : pc' = [pc EXCEPT ![r] = x]
        BY <3>2 DEF Remove, StartCopy, EndCopy
      <4>2. QED BY <4>1 DEF PCs, Publishing
    <3>3. CASE Skip(r) \/ Rename(r)
      BY <2>1, <3>3, AdvanceFacts DEF Skip, Rename, PCs, Publishing
    <3>4. QED BY <1>4, <3>1, <3>2, <3>3 DEF Run
  <2>3. pc'[q] \in {"setup", "fires", "scan"} =>
          pc[q] = pc'[q] \/ (pc[q] \in {"setup", "fires"} /\ expect_gbbepx[q] = 0)
    BY <2>2 DEF ScanOK
  <2>4. QED BY <2>1, <2>3, KeepScan
<1>5. QED BY <1>1, <1>2, <1>3, <1>4

LEMMA NextScan == ScanInv /\ [Next]_vars => ScanInv'
<1> SUFFICES ASSUME ScanInv, [Next]_vars PROVE ScanInv'
  OBVIOUS
<1>1. Inv'
  BY NextInv DEF ScanInv
<1>2. CASE \E r \in Runs : Run(r) \/ Die(r)
  BY <1>1, <1>2, RunScan DEF ScanInv
<1>3. CASE Feed
  BY <1>1, <1>3, FeedScan DEF ScanInv
<1>4. CASE Link \/ AllEnded \/ UNCHANGED vars
  <2>1. UNCHANGED <<sources, decision, pc>>
    BY <1>4 DEF Link, StartLink, StartLinkFile, EndLinkFile, LinkFails, EndLink,
           AllEnded, vars
  <2>2. QED BY <1>1, <2>1, KeepScan DEF ScanInv, decision
<1>5. QED BY <1>2, <1>3, <1>4 DEF Next

(* GBBEPx files are used only for a day that has all of them: a count of   *)
(* one day never stands in for a file missing on another.                  *)
THEOREM CompleteDayUsed == Spec => []UsesCompleteDay
  BY InitScanInv, NextScan, ScanInvImplies, PTL DEF Spec

-----------------------------------------------------------------------------
(* SUCCESS.  The invariant speaks of the positions of the loops over tiles *)
(* and list: every entry that a run has passed and had to send has been    *)
(* published, and is still there, its own, if no other run publishes.      *)

FileAt(r, t, i) == <<t, inout_list(r)[i].comdir_name>>
Sent(r, i) == is_gbbepx_data(inout_list(r)[i]) => use_gbbepx[r]
Passed(r, t, i) ==
  \/ pc[r] = "done"
  \/ pc[r] \in Publishing /\ (t < itile[r] \/ (t = itile[r] /\ i < inout[r]))

Own(r, content) == content \in Content /\ content.run = r /\ content.day \in {0, day[r]}
RunOK(r) ==
  /\ pc[r] = "exe" => itile[r] = 1 /\ inout[r] = 1
  /\ pc[r] \in {"copy", "copying", "rename"} => Sent(r, inout[r])
  /\ pc[r] = "rename" => Own(r, tempfile[r])
PassedOK(r) ==
  \A t \in Tile, i \in DOMAIN inout_list(r) : Passed(r, t, i) /\ Sent(r, i) =>
    /\ FileAt(r, t, i) \in ever
    /\ Alone(r) /\ ~Replacing(r, FileAt(r, t, i)) => Own(r, com[FileAt(r, t, i)])
SuccessInv ==
  /\ PubInv
  /\ \A r \in Runs : RunOK(r)
  /\ \A r \in SENDCOM : PassedOK(r)

LEMMA SuccessInvImplies == SuccessInv => SuccessPublishes
<1> SUFFICES ASSUME SuccessInv, NEW r \in SENDCOM, pc[r] = "done", NEW f \in Wanted(r)
             PROVE  /\ f \in ever
                    /\ Alone(r) => com[f] # NoFile /\ com[f].run = r
                                     /\ com[f].day \in {0, day[r]}
  BY DEF SuccessPublishes
<1>1. PICK t \in Tile, e \in {x \in Named(inout_list(r)) :
                                is_gbbepx_data(x) => use_gbbepx[r]} :
        f = <<t, e.comdir_name>>
  BY DEF Wanted
<1>2. PICK i \in DOMAIN inout_list(r) : e = inout_list(r)[i]
  BY <1>1 DEF Named
<1>3. Passed(r, t, i) /\ Sent(r, i) /\ f = FileAt(r, t, i) /\ ~Replacing(r, f)
  BY <1>1, <1>2 DEF Passed, Sent, FileAt, Replacing
<1>4. f \in ever /\ (Alone(r) => Own(r, com[f]))
  BY <1>1, <1>2, <1>3 DEF SuccessInv, PassedOK
<1>5. QED BY <1>4, NoFileAssumption DEF Own

LEMMA InitSuccess == Init => SuccessInv
<1> SUFFICES ASSUME Init PROVE SuccessInv
  OBVIOUS
<1>1. \A r \in Runs : RunOK(r)
  BY DEF Init, RunOK
<1>2. \A r \in SENDCOM : PassedOK(r)
  BY PrepChemAssumption DEF Init, PassedOK, Passed, Publishing
<1>3. QED BY <1>1, <1>2, InitPub DEF SuccessInv

(* A run goes on in its loops, and none comes back from publishing.        *)
LEMMA AdvanceReaches ==
  ASSUME TypeOK, NEW r \in Runs, NEW from \in Publishing, Advance(r, from),
         use_gbbepx' = use_gbbepx,
         NEW t \in Tile, NEW i \in DOMAIN inout_list(r), Passed(r, t, i)'
  PROVE  Passed(r, t, i) \/ (t = itile[r] /\ i = inout[r])
<1> DEFINE L == inout_list(r)
<1>1. i \in 1 .. Len(L) /\ inout[r] \in 1 .. Len(L) /\ Len(L) \in Nat
  <2>1. L \in Seq(Inout) /\ inout[r] \in DOMAIN L
    BY ListFacts DEF TypeOK
  <2>2. QED BY <2>1
<1>2. t \in Nat /\ itile[r] \in Nat /\ tiles \in Nat /\ t <= tiles /\ itile[r] <= tiles
  BY PrepChemAssumption DEF TypeOK, Tile
<1>3. pc[r] \in Publishing
  BY DEF Advance, Goto
<1>4. CASE inout[r] < Len(L)
  <2>1. /\ pc'[r] = "send" /\ itile'[r] = itile[r] /\ inout'[r] = inout[r] + 1
    BY <1>4 DEF Advance, Goto, TypeOK
  <2>2. t < itile[r] \/ (t = itile[r] /\ i < inout[r] + 1)
    BY <2>1 DEF Passed
  <2>3. QED BY <1>1, <1>3, <2>2 DEF Passed
<1>5. CASE ~(inout[r] < Len(L)) /\ itile[r] < tiles
  <2>1. /\ pc'[r] = "send" /\ itile'[r] = itile[r] + 1 /\ inout'[r] = 1
    BY <1>5 DEF Advance, Goto, TypeOK
  <2>2. t < itile[r] + 1 \/ (t = itile[r] + 1 /\ i < 1)
    BY <2>1 DEF Passed
  <2>3. QED BY <1>1, <1>2, <1>3, <1>5, <2>2 DEF Passed
<1>6. CASE ~(inout[r] < Len(L)) /\ ~(itile[r] < tiles)
  BY <1>1, <1>2, <1>3, <1>6 DEF Passed
<1>7. QED BY <1>4, <1>5, <1>6

Late == {"done"} \cup Publishing
LEMMA AloneBefore ==
  ASSUME TypeOK, TypeOK', NEW r \in Runs, \A q \in Runs : pc[q] \in Late => pc'[q] \in Late,
         Alone(r)'
  PROVE  Alone(r)
BY DEF Alone, Late, TypeOK

(* A run that makes no step of its own.                                    *)
LEMMA KeepRunOK ==
  ASSUME TypeOK, NEW r \in Runs, RunOK(r), pc'[r] = pc[r], day'[r] = day[r],
         use_gbbepx'[r] = use_gbbepx[r], itile'[r] = itile[r], inout'[r] = inout[r],
         tempfile'[r] = tempfile[r]
  PROVE  RunOK(r)'
BY DEF RunOK, Sent, inout_list, Own

LEMMA KeepPassed ==
  ASSUME TypeOK, TypeOK', NEW r \in Runs, PassedOK(r), pc'[r] = pc[r], day'[r] = day[r],
         use_gbbepx'[r] = use_gbbepx[r], itile'[r] = itile[r], inout'[r] = inout[r],
         ever \subseteq ever', \A q \in Runs : pc[q] \in Late => pc'[q] \in Late,
         Alone(r) => com' = com
  PROVE  PassedOK(r)'
<1>1. /\ inout_list(r)' = inout_list(r)
      /\ \A i : Sent(r, i)' = Sent(r, i)
      /\ \A t, i : FileAt(r, t, i)' = FileAt(r, t, i) /\ Passed(r, t, i)' = Passed(r, t, i)
      /\ \A f : Replacing(r, f)' = Replacing(r, f)
      /\ \A x : Own(r, x)' = Own(r, x)
  BY DEF inout_list, Sent, FileAt, Passed, Replacing, outfile, Entry, Own
<1>2. Alone(r)' => Alone(r)
  BY AloneBefore
<1>3. SUFFICES ASSUME NEW t \in Tile, NEW i \in DOMAIN inout_list(r), Passed(r, t, i), Sent(r, i)
               PROVE  /\ FileAt(r, t, i) \in ever'
                      /\ Alone(r)' /\ ~Replacing(r, FileAt(r, t, i)) =>
                           Own(r, com'[FileAt(r, t, i)])
  BY <1>1 DEF PassedOK
<1>4. QED BY <1>2, <1>3 DEF PassedOK

(* A run that has not passed anything.                                     *)
LEMMA NothingPassed ==
  ASSUME TypeOK, TypeOK', NEW r \in Runs,
         \/ pc'[r] \notin Late
         \/ pc'[r] \in Publishing /\ itile'[r] = 1 /\ inout'[r] = 1
  PROVE  PassedOK(r)'
<1>1. (DOMAIN inout_list(r))' \subseteq Nat \ {0}
  <2>1. inout_list(r)' \in {GbbepxInout, StaticInout}
    BY DEF inout_list
  <2>2. QED BY <2>1, PrepChemAssumption
<1>2. \A t \in Tile, i \in (DOMAIN inout_list(r))' : ~Passed(r, t, i)'
  BY <1>1, PrepChemAssumption DEF Passed, Late, Tile, Publishing
<1>3. QED BY <1>2 DEF PassedOK

-----------------------------------------------------------------------------
(* Before publishing.                                                      *)
LEMMA DecisionSuccess ==
  ASSUME SuccessInv, TypeOK', NEW r \in Runs,
         \/ MakeDirs(r) \/ LinkFires(r) \/ ScanFile(r) \/ NextDay(r)
         \/ Decide(r) \/ PrepChemSources(r) \/ CopyFails(r) \/ Die(r)
  PROVE  (\A q \in Runs : RunOK(q)') /\ (\A q \in SENDCOM : PassedOK(q)')
<1> USE DEF SuccessInv, PubInv, Inv
<1>0. TypeOK
  OBVIOUS
<1>1. /\ UNCHANGED <<itile, inout, tempfile, com, ever>>
      /\ \A q \in Runs \ {r} : /\ pc'[q] = pc[q] /\ day'[q] = day[q]
                                /\ use_gbbepx'[q] = use_gbbepx[q]
  BY DEF MakeDirs, LinkFires, ScanFile, NextDay, Decide, PrepChemSources,
         CopyFails, Die, Goto, decision, TypeOK
<1>2. CASE CopyFails(r) \/ Die(r)
  <2>1. UNCHANGED <<pc, day, use_gbbepx>>
    BY <1>2 DEF CopyFails, Die, decision
  <2>2. QED BY <1>0, <1>1, <2>1, KeepRunOK, KeepPassed, PrepChemAssumption
<1>3. CASE ~(CopyFails(r) \/ Die(r))
  <2>1. /\ pc[r] \in {"setup", "fires", "scan", "exe"}
        /\ pc'[r] \in {"setup", "fires", "scan", "exe", "send", "done"}
        /\ pc'[r] = "exe" => pc[r] = "scan"
        /\ pc'[r] \in {"send", "done"} => pc[r] = "exe"
        /\ pc'[r] = "done" => r \notin SENDCOM
    BY <1>3 DEF MakeDirs, LinkFires, ScanFile, NextDay, Decide, PrepChemSources,
                Goto, TypeOK
  <2>2. itile[r] = 1 /\ inout[r] = 1
    BY <2>1 DEF AtStart, RunOK
  <2>3. RunOK(r)'
    BY <1>1, <2>1, <2>2 DEF RunOK
  <2>4. r \in SENDCOM => PassedOK(r)'
    <3>1. \/ pc'[r] \notin Late
          \/ pc'[r] \in Publishing /\ itile'[r] = 1 /\ inout'[r] = 1
          \/ r \notin SENDCOM
      BY <1>1, <2>1, <2>2 DEF Late, Publishing
    <3>2. QED BY <1>0, <3>1, NothingPassed
  <2>5. \A q \in Runs \ {r} : RunOK(q)'
    BY <1>0, <1>1, KeepRunOK
  <2>6. ASSUME NEW q \in SENDCOM \ {r} PROVE PassedOK(q)'
    <3>1. \A p \in Runs : pc[p] \in Late => pc'[p] \in Late
      BY <1>1, <2>1 DEF Late, Publishing
    <3>2. QED BY <1>0, <1>1, <3>1, KeepPassed, PrepChemAssumption
  <2>7. QED BY <2>3, <2>4, <2>5, <2>6
<1>4. QED BY <1>2, <1>3

LEMMA EnvironmentSuccess ==
  ASSUME SuccessInv, TypeOK', Link \/ Feed \/ UNCHANGED vars
  PROVE  (\A q \in Runs : RunOK(q)') /\ (\A q \in SENDCOM : PassedOK(q)')
<1>1. UNCHANGED <<pc, day, use_gbbepx, itile, inout, tempfile, com, ever>>
  BY DEF Link, StartLink, StartLinkFile, EndLinkFile, LinkFails, EndLink, Feed,
         Arrive, Purge, vars, decision
<1>2. TypeOK
  BY DEF SuccessInv, PubInv, Inv
<1>3. QED BY <1>1, <1>2, KeepRunOK, KeepPassed, PrepChemAssumption DEF SuccessInv

-----------------------------------------------------------------------------
(* Publishing.                                                             *)
LEMMA PublishSuccess ==
  ASSUME SuccessInv, TypeOK', NEW r \in Runs,
         \/ pc[r] = "send" /\ (Skip(r) \/ Remove(r))
         \/ pc[r] = "copy" /\ StartCopy(r)
         \/ EndCopy(r) \/ Rename(r)
  PROVE  (\A q \in Runs : RunOK(q)') /\ (\A q \in SENDCOM : PassedOK(q)')
<1> USE DEF SuccessInv, PubInv, Inv
<1>0. TypeOK /\ UNCHANGED <<day, use_gbbepx>>
  BY DEF Skip, Remove, StartCopy, EndCopy, Rename, decision
<1>1. /\ pc[r] \in Publishing /\ pc'[r] \in Late
      /\ \A q \in Runs \ {r} : /\ pc'[q] = pc[q]
                                /\ itile'[q] = itile[q] /\ inout'[q] = inout[q]
  <2>1. CASE Skip(r)
    BY <1>0, <2>1, AdvanceFacts DEF Skip, Publishing, Late, TypeOK
  <2>2. CASE Rename(r)
    <3>1. /\ pc[r] = "rename" /\ \E x \in {"send", "done"} : pc' = [pc EXCEPT ![r] = x]
          /\ \A q \in Runs \ {r} : itile'[q] = itile[q] /\ inout'[q] = inout[q]
      BY <1>0, <2>2, AdvanceFacts DEF Rename
    <3>2. QED BY <1>0, <3>1 DEF Publishing, Late, TypeOK
  <2>3. CASE (pc[r] = "send" /\ Remove(r)) \/ (pc[r] = "copy" /\ StartCopy(r)) \/ EndCopy(r)
    BY <2>3 DEF Remove, StartCopy, EndCopy, Goto, TypeOK, Publishing, Late
  <2>4. QED BY <2>1, <2>2, <2>3
<1>2. /\ \A q \in Runs \ {r} : tempfile'[q] = tempfile[q]
      /\ ever \subseteq ever'
  BY DEF Skip, Remove, StartCopy, EndCopy, Rename, TypeOK
<1>3. \A p \in Runs : pc[p] \in Late => pc'[p] \in Late
  BY <1>1
<1>4. ASSUME NEW q \in Runs \ {r} PROVE RunOK(q)' /\ (q \in SENDCOM => PassedOK(q)')
  <2>1. ~Alone(q)
    BY <1>1 DEF Alone, PCs
  <2>2. QED BY <1>0, <1>1, <1>2, <1>3, <2>1, KeepRunOK, KeepPassed
<1>5. RunOK(r)'
  <2>1. CASE Skip(r) \/ Rename(r)
    <3>1. pc'[r] \in {"send", "done"}
      BY <1>0, <2>1, AdvanceFacts DEF Skip, Rename, TypeOK
    <3>2. QED BY <3>1 DEF RunOK
  <2>2. CASE pc[r] = "send" /\ Remove(r)
    BY <1>0, <2>2 DEF Remove, Goto, RunOK, Sent, inout_list, Entry, TypeOK
  <2>3. CASE pc[r] = "copy" /\ StartCopy(r)
    BY <1>0, <2>3 DEF StartCopy, Goto, RunOK, Sent, inout_list, TypeOK
  <2>4. CASE EndCopy(r)
    <3>1. /\ pc[r] = "copying" /\ pc'[r] = "rename" /\ inout' = inout
          /\ tempfile'[r] = Copy(r, TRUE)
      BY <1>0, <2>4 DEF EndCopy, Goto, TypeOK
    <3>2. Own(r, Copy(r, TRUE))
      BY <1>0, CopyType DEF Own, Copy
    <3>3. Sent(r, inout[r])' = Sent(r, inout[r]) /\ Own(r, tempfile[r])'
      BY <1>0, <3>1, <3>2 DEF Sent, inout_list, Own
    <3>4. QED BY <3>1, <3>3 DEF RunOK
  <2>5. QED BY <2>1, <2>2, <2>3, <2>4
<1>6. ASSUME r \in SENDCOM PROVE PassedOK(r)'
  <2>1. /\ inout_list(r)' = inout_list(r)
        /\ \A i : Sent(r, i)' = Sent(r, i)
        /\ \A t, i : FileAt(r, t, i)' = FileAt(r, t, i)
        /\ \A x : Own(r, x)' = Own(r, x)
    BY <1>0 DEF inout_list, Sent, FileAt, Own
  <2>2. Alone(r)' => Alone(r)
    BY <1>0, <1>3, AloneBefore
  <2>3. outfile(r) = FileAt(r, itile[r], inout[r])
    BY DEF outfile, Entry, FileAt
  <2>4. SUFFICES ASSUME NEW t \in Tile, NEW i \in DOMAIN inout_list(r),
                        Passed(r, t, i)', Sent(r, i)
                 PROVE  /\ FileAt(r, t, i) \in ever'
                        /\ Alone(r) /\ ~Replacing(r, FileAt(r, t, i))' =>
                             Own(r, com'[FileAt(r, t, i)])
    BY <2>1, <2>2 DEF PassedOK
  <2>5. PassedOK(r)
    BY <1>6
  <2>6. CASE Skip(r)
    <3>1. Passed(r, t, i)
      <4>1. ~Sent(r, inout[r])
        BY <2>6 DEF Skip, Sent, Entry
      <4>2. QED BY <1>0, <2>4, <2>6, <4>1, AdvanceReaches DEF Skip, Publishing
    <3>2. pc[r] = "send" /\ UNCHANGED <<com, ever>>
      BY <1>0, <2>6, AdvanceFacts DEF Skip
    <3>3. ~Replacing(r, FileAt(r, t, i))
      BY <3>2 DEF Replacing
    <3>4. QED BY <2>4, <2>5, <3>1, <3>2, <3>3 DEF PassedOK
  <2>7. CASE pc[r] = "send" /\ Remove(r)
    <3>1. /\ pc'[r] = "copy" /\ UNCHANGED <<itile, inout, ever>>
          /\ com' = [com EXCEPT ![outfile(r)] = NoFile]
      BY <1>0, <2>7 DEF Remove, Goto, TypeOK
    <3>2. Passed(r, t, i) /\ ~Replacing(r, FileAt(r, t, i))
      BY <2>4, <2>7, <3>1 DEF Passed, Replacing, Publishing
    <3>3. outfile(r)' = outfile(r)
      BY <1>0, <3>1 DEF outfile, Entry, inout_list
    <3>4. ~Replacing(r, FileAt(r, t, i))' => FileAt(r, t, i) # outfile(r)
      BY <2>1, <3>1, <3>3 DEF Replacing
    <3>5. FileAt(r, t, i) # outfile(r) => com'[FileAt(r, t, i)] = com[FileAt(r, t, i)]
      <4>1. FileAt(r, t, i) \in ComFile
        BY <1>0, <2>4, <2>5, <3>2 DEF PassedOK, TypeOK
      <4>2. QED BY <1>0, <3>1, <4>1 DEF TypeOK
    <3>6. QED BY <2>4, <2>5, <3>1, <3>2, <3>4, <3>5 DEF PassedOK
  <2>8. CASE (pc[r] = "copy" /\ StartCopy(r)) \/ EndCopy(r)
    <3>1. /\ pc[r] \in {"copy", "copying"} /\ pc'[r] \in {"copying", "rename"}
          /\ UNCHANGED <<itile, inout, ever, com>>
      BY <1>0, <2>8 DEF StartCopy, EndCopy, Goto, TypeOK
    <3>2. Passed(r, t, i)
      BY <2>4, <3>1 DEF Passed, Publishing
    <3>3. Replacing(r, FileAt(r, t, i))' = Replacing(r, FileAt(r, t, i))
      BY <1>0, <2>1, <3>1 DEF Replacing, outfile, Entry, inout_list
    <3>4. QED BY <2>4, <2>5, <3>1, <3>2, <3>3 DEF PassedOK
  <2>9. CASE Rename(r)
    <3>1. /\ pc[r] = "rename" /\ ever' = ever \cup {outfile(r)}
          /\ com' = [com EXCEPT ![outfile(r)] = tempfile[r]]
      BY <1>0, <2>9, AdvanceFacts DEF Rename
    <3>2. Own(r, tempfile[r]) /\ outfile(r) \in ComFile
      BY <1>0, <3>1, ListFacts DEF RunOK
    <3>3. CASE FileAt(r, t, i) = outfile(r)
      BY <1>0, <3>1, <3>2, <3>3 DEF TypeOK
    <3>4. CASE FileAt(r, t, i) # outfile(r)
      <4>1. Passed(r, t, i)
        BY <1>0, <2>3, <2>4, <2>9, <3>4, AdvanceReaches DEF Rename, Publishing
      <4>2. ~Replacing(r, FileAt(r, t, i))
        BY <3>4 DEF Replacing
      <4>3. FileAt(r, t, i) \in ever /\ FileAt(r, t, i) \in ComFile
        BY <1>0, <2>4, <2>5, <4>1 DEF PassedOK, TypeOK
      <4>4. com'[FileAt(r, t, i)] = com[FileAt(r, t, i)]
        BY <1>0, <3>1, <3>4, <4>3 DEF TypeOK
      <4>5. QED BY <2>4, <2>5, <3>1, <4>1, <4>2, <4>3, <4>4 DEF PassedOK
    <3>5. QED BY <3>3, <3>4
  <2>10. QED BY <2>6, <2>7, <2>8, <2>9
<1>7. QED BY <1>4, <1>5, <1>6, PrepChemAssumption

LEMMA NextSuccess == SuccessInv /\ [Next]_vars => SuccessInv'
<1> SUFFICES ASSUME SuccessInv, [Next]_vars PROVE SuccessInv'
  OBVIOUS
<1>1. PubInv' /\ TypeOK'
  BY NextPub DEF SuccessInv, PubInv, Inv
<1>2. CASE \E r \in Runs : Run(r) \/ Die(r)
  <2>1. PICK r \in Runs : Run(r) \/ Die(r)
    BY <1>2
  <2>2. \/ MakeDirs(r) \/ LinkFires(r) \/ ScanFile(r) \/ NextDay(r)
        \/ Decide(r) \/ PrepChemSources(r) \/ CopyFails(r) \/ Die(r)
        \/ pc[r] = "send" /\ (Skip(r) \/ Remove(r))
        \/ pc[r] = "copy" /\ StartCopy(r)
        \/ EndCopy(r) \/ Rename(r)
    BY <2>1 DEF Run
  <2>3. QED BY <1>1, <2>2, DecisionSuccess, PublishSuccess DEF SuccessInv
<1>3. CASE Link \/ Feed \/ AllEnded \/ UNCHANGED vars
  BY <1>1, <1>3, EnvironmentSuccess DEF AllEnded, SuccessInv
<1>4. QED BY <1>2, <1>3 DEF Next

(* 'Success!' keeps its promise: all tiles of all entries of the list have *)
(* been published, and they are the run's own, of one day, when no other   *)
(* run has published.                                                      *)
THEOREM SuccessHolds == Spec => []SuccessPublishes
  BY InitSuccess, NextSuccess, SuccessInvImplies, PTL DEF Spec

-----------------------------------------------------------------------------
(* Linking while nobody publishes.  As long as it stays so, no run that    *)
(* lives is between the removal and the renaming of a file, so that what   *)
(* was found is all that there will be.                                    *)
CalmInv ==
  /\ SuccessInv
  /\ link = "linked" => found = {}
  /\ calm => /\ \A q \in Runs : pc[q] \in {"copy", "copying", "rename"} => q \in dead
             /\ \A f \in ever : f \in found \cup DOMAIN EMISDIR \/ com[f] = NoFile

LEMMA CalmInvImplies == CalmInv => CalmLinkComplete
<1> SUFFICES ASSUME CalmInv, link = "linked", calm, NEW r \in SENDCOM, pc[r] = "done",
                    NEW f \in Wanted(r) \ DOMAIN EMISDIR
             PROVE  \E d \in dead : Replacing(d, f)
  BY DEF CalmLinkComplete
<1>1. f \in ever
  BY SuccessInvImplies DEF CalmInv, SuccessPublishes
<1>2. com[f] = NoFile
  BY <1>1 DEF CalmInv
<1>3. PICK q \in Runs : Replacing(q, f)
  BY <1>1, <1>2 DEF CalmInv, SuccessInv, PubInv, LossBound
<1>4. QED BY <1>3 DEF CalmInv, Replacing

LEMMA NextCalm == CalmInv /\ [Next]_vars => CalmInv'
<1> SUFFICES ASSUME CalmInv, [Next]_vars PROVE CalmInv'
  OBVIOUS
<1> USE DEF CalmInv
<1>0. SuccessInv'
  BY NextSuccess
<1>00. TypeOK
  BY DEF SuccessInv, PubInv, Inv
<1>1. CASE \E r \in Runs : Run(r) \/ Die(r)
  <2>1. PICK r \in Runs : Run(r) \/ Die(r)
    BY <1>1
  <2>2. UNCHANGED linking /\ dead \subseteq dead' /\ (calm' => calm)
    <3>1. CASE MakeDirs(r)
      BY <3>1 DEF MakeDirs
    <3>2. CASE LinkFires(r) \/ ScanFile(r) \/ NextDay(r) \/ Decide(r) \/ PrepChemSources(r)
      BY <3>2 DEF LinkFires, ScanFile, NextDay, Decide, PrepChemSources
    <3>3. CASE Skip(r) \/ StartCopy(r) \/ EndCopy(r) \/ Rename(r)
      <4>1. linking' = linking /\ dead' = dead /\ calm' = calm
        BY <3>3 DEF Skip, StartCopy, EndCopy, Rename
      <4>2. QED BY <4>1
    <3>4. CASE CopyFails(r) \/ Die(r)
      BY <3>4 DEF CopyFails, Die
    <3>5. CASE Remove(r)
      <4>1. dead' = dead /\ linking' = linking /\ calm' = FALSE
        BY <3>5 DEF Remove
      <4>2. QED BY <4>1
    <3>6. QED BY <2>1, <3>1, <3>2, <3>3, <3>4, <3>5 DEF Run
  <2>3. ASSUME calm'
        PROVE  /\ UNCHANGED <<com, ever>>
               /\ \A q \in Runs : pc'[q] \in {"copy", "copying", "rename"} =>
                    pc[q] \in {"copy", "copying", "rename"}
    <3>1. calm
      BY <2>2, <2>3
    <3>2. CASE MakeDirs(r) \/ LinkFires(r) \/ ScanFile(r) \/ NextDay(r)
               \/ Decide(r) \/ PrepChemSources(r) \/ CopyFails(r) \/ Die(r)
      BY <1>00, <3>2 DEF MakeDirs, LinkFires, ScanFile, NextDay, Decide,
         PrepChemSources, CopyFails, Die, Goto, TypeOK
    <3>3. CASE pc[r] = "send" /\ Skip(r)
      BY <1>00, <3>3, AdvanceFacts DEF Skip, decision, TypeOK
    <3>4. CASE pc[r] = "send" /\ Remove(r)
      BY <2>3, <3>4 DEF Remove
    <3>5. CASE (pc[r] = "copy" /\ StartCopy(r)) \/ EndCopy(r)
      BY <3>1, <3>5 DEF StartCopy, EndCopy, Goto
    <3>6. CASE Rename(r)
      <4>1. pc[r] = "rename" /\ r \notin dead
        BY <1>00, <3>6, AdvanceFacts DEF Rename, decision
      <4>2. QED BY <3>1, <4>1
    <3>7. QED BY <2>1, <3>2, <3>3, <3>4, <3>5, <3>6 DEF Run
  <2>4. QED BY <1>0, <2>2, <2>3 DEF linking
<1>2. CASE StartLink
  BY <1>0, <1>00, <1>2 DEF StartLink, Quiet, Publishing, TypeOK
<1>3. CASE \E f \in ComFile : StartLinkFile(f)
  BY <1>0, <1>3 DEF StartLinkFile, InEMISDIR
<1>7. CASE EndLinkFile
  BY <1>0, <1>7 DEF EndLinkFile, InEMISDIR
<1>8. CASE LinkFails
  BY <1>0, <1>8 DEF LinkFails
<1>4. CASE EndLink
  BY <1>0, <1>4 DEF EndLink
<1>5. CASE Feed \/ AllEnded \/ UNCHANGED vars
  BY <1>0, <1>5 DEF Feed, Arrive, Purge, AllEnded, vars, linking
<1>6. QED BY <1>1, <1>2, <1>3, <1>4, <1>5, <1>7, <1>8 DEF Next, Link

(* A forecast that links while nobody publishes gets every file of every   *)
(* run that has succeeded, but for those that a death has removed.         *)
THEOREM CalmLinkIsComplete == Spec => []CalmLinkComplete
<1>1. Init => CalmInv
  BY InitSuccess DEF Init, CalmInv
<1>2. QED BY <1>1, NextCalm, CalmInvImplies, PTL DEF Spec
=============================================================================

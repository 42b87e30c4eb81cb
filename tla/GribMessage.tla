---------------------------- MODULE GribMessage ----------------------------
(* Building and reading a GRIB2 message with g2clib: g2_create,            *)
(* g2_addlocal, g2_addgrid, g2_addfield and g2_gribend write sections into *)
(* the caller's buffer, g2_info and g2_getfld read them back.              *)
(*                                                                         *)
(* The buffer is the sequence of its sections 1 to 7; the byte counts of   *)
(* the sections always add up, since every call adds what it wrote to the  *)
(* length in section 0.  The values of a field are abstract: what a        *)
(* packing method does to them is not a matter of the message.             *)
EXTENDS G2Templates, GribSections, FiniteSets

CONSTANTS
  Ids,              \* identification sections
  Locals,           \* contents of local sections
  GridInputs,       \* grids the caller may pass: [num, list]
  FieldInputs,      \* products: [pds, list, drs]
  Points,           \* the points of a field, 1 .. n
  BitmapInputs,     \* bitmaps: functions from Points to {0, 1}
  FieldValues,      \* fields: functions from Points to their values, not 0
  Packings,         \* the packing methods compiled into the library
  MarkerValues,     \* values whose packed form ends with the octets 7777
  ReuseAfterNone,   \* the caller may reuse a bitmap after a field without one
  None,
  MaxSections       \* bound on the sections of a message

ASSUME MaxSectionsAssumption == MaxSections \in Nat \ {0}

\* The points are numbered from 1; a bitmap and a field are about all of them.
ASSUME PointsAssumption ==
  /\ IsFiniteSet(Points) /\ Points # {} /\ Points = 1 .. Cardinality(Points)
  /\ BitmapInputs \subseteq [Points -> {0, 1}] /\ None \notin BitmapInputs
  /\ FieldValues \subseteq [Points -> Int]

\* What the caller passes for a known template has an entry for each of the map, and
\* each fits its octets: the library checks neither.
ASSUME TemplatesAssumption ==
  /\ \A g \in GridInputs :
       /\ g = [num |-> g.num, list |-> g.list]
       /\ g.num \in gridRows =>
            /\ Len(g.list) >= Len(templatesgrid[g.num].map)
            /\ Fits(GridMap(g.num, g.list), g.list)
  /\ \A f \in FieldInputs :
       f.pds \in pdsRows =>
         /\ Len(f.list) >= Len(templatespds[f.pds].map)
         /\ Fits(PdsMap(f.pds, f.list), f.list)

VARIABLES
  cgrib,            \* the buffer: [state, secs]
  ret,              \* the value returned by the last call, 0 for a length
  asked             \* what the caller has put in the message, as it knows from ret:
                    \* [local, grid, bitmap, fields]; the library does not have it

vars == <<cgrib, ret, asked>>

AllPoints == [p \in Points |-> 1]

----------------------------------------------------------------------------
(* Writing. *)

LastSection == cgrib.secs[Len(cgrib.secs)].n

\* The last four octets are 7777: the message has ended, or the data do by chance.
LooksComplete ==
  \/ cgrib.state = "ended"
  \/ /\ LastSection = 7
     /\ cgrib.secs[Len(cgrib.secs)].values # <<>>
     /\ \E v \in MarkerValues :
          cgrib.secs[Len(cgrib.secs)].values[Len(cgrib.secs[Len(cgrib.secs)].values)] = v

\* The common checks: GRIB at the beginning, not complete, the last section.
Refusal(after) ==
  IF cgrib.state = "empty" THEN -1
  ELSE IF LooksComplete THEN -2
  ELSE IF LastSection \notin after THEN -4
  ELSE 0

Return(code) == ret' = code /\ UNCHANGED cgrib

Extend(secs) ==
  /\ cgrib' = [cgrib EXCEPT !.secs = @ \o secs]
  /\ ret' = 0

g2_create(edition, id) ==
  IF edition # 2 THEN Return(-1)
  ELSE /\ cgrib' = [state |-> "open", secs |-> <<[n |-> 1, id |-> id]>>]
       /\ ret' = 0

\* Mutant: a local section also after a grid.
AddlocalAfterGrid(l) ==
  IF Refusal({1, 3, 7}) # 0 THEN Return(Refusal({1, 3, 7}))
  ELSE Extend(<<[n |-> 2, local |-> l]>>)

g2_addlocal(l) ==
  IF Refusal({1, 7}) # 0 THEN Return(Refusal({1, 7}))
  ELSE Extend(<<[n |-> 2, local |-> l]>>)

\* Mutant: a second grid directly after a grid.
AddgridAfterGrid(num, list) ==
  IF Refusal({1, 2, 3, 7}) # 0 THEN Return(Refusal({1, 2, 3, 7}))
  ELSE IF num \notin gridRows THEN Return(-5)
  ELSE Extend(<<[n |-> 3, num |-> num, tmpl |-> Put(GridMap(num, list), list)]>>)

\* Only grids with a template number: igds[0] is 0.
g2_addgrid(num, list) ==
  IF Refusal({1, 2, 7}) # 0 THEN Return(Refusal({1, 2, 7}))
  ELSE IF num \notin gridRows THEN Return(-5)
  ELSE Extend(<<[n |-> 3, num |-> num, tmpl |-> Put(GridMap(num, list), list)]>>)

GridOf(s) == GetGrid(s.num, s.tmpl)

HasGrid == \E i \in 1 .. Len(cgrib.secs) : cgrib.secs[i].n = 3

\* lpos3: the last grid of the message.
LastGrid ==
  cgrib.secs[CHOOSE i \in 1 .. Len(cgrib.secs) :
    /\ cgrib.secs[i].n = 3
    /\ \A j \in i + 1 .. Len(cgrib.secs) : cgrib.secs[j].n # 3]

\* getpoly finds the three spectral truncations, zero for another grid.
Spectral ==
  /\ LastGrid.num \in 50 .. 53
  /\ \A i \in 1 .. 3 : GridOf(LastGrid)[i] # 0

isprevbmap ==
  \E i \in 1 .. Len(cgrib.secs) :
    cgrib.secs[i].n = 6 /\ cgrib.secs[i].ibmap \in 0 .. 253

\* Whether the sections so far let a field follow.
OrderRefusal ==
  IF Refusal({3, 7}) # 0 THEN Refusal({3, 7}) ELSE IF ~HasGrid THEN -6 ELSE 0

\* Whether the data can be packed; packed is whether the packing routine succeeds.
PackingRefusal(drs, packed) ==
  IF drs \notin drsRows THEN -5
  ELSE IF drs = 51 /\ ~Spectral THEN -9
  ELSE IF drs \notin Packings THEN -7
  ELSE IF ~packed THEN -10
  ELSE 0

\* What the checks of g2_addfield return, in their order.
FieldRefusal(f, ibmap, packed) ==
  IF OrderRefusal # 0 THEN OrderRefusal
  ELSE IF f.pds \notin pdsRows THEN -5
  ELSE IF PackingRefusal(f.drs, packed) # 0 THEN PackingRefusal(f.drs, packed)
  ELSE IF ibmap = 254 /\ ~isprevbmap THEN -8
  ELSE 0

\* The values of the points the bitmap keeps, in order.
PackedValues(bmap, fld) ==
  LET upto[p \in Points \cup {0}] ==
        IF p = 0 THEN <<>>
        ELSE IF bmap[p] = 1 THEN Append(upto[p - 1], fld[p]) ELSE upto[p - 1]
  IN  upto[Len(fld)]

FieldSections(f, fld, ibmap, bmap) ==
  LET values == IF ibmap \in {0, 254} THEN PackedValues(bmap, fld) ELSE fld
  IN  << [n |-> 4, pds |-> f.pds, tmpl |-> Put(PdsMap(f.pds, f.list), f.list)],
         [n |-> 5, ndpts |-> Len(values), drs |-> f.drs],
         [n |-> 6, ibmap |-> ibmap, bmap |-> IF ibmap = 0 THEN bmap ELSE <<>>],
         [n |-> 7, values |-> values] >>

g2_addfield(f, fld, ibmap, bmap, packed) ==
  LET refusal == FieldRefusal(f, ibmap, packed)
  IN  IF refusal # 0 THEN Return(refusal)
      ELSE Extend(FieldSections(f, fld, ibmap, bmap))

\* Here 7777 is not looked for: after the end the section counts do not add up.
g2_gribend ==
  IF cgrib.state = "empty" THEN Return(-1)
  ELSE IF cgrib.state = "ended" THEN Return(-3)
  ELSE IF LastSection # 7 THEN Return(-4)
  ELSE cgrib' = [cgrib EXCEPT !.state = "ended"] /\ ret' = 0

----------------------------------------------------------------------------
(* Reading. *)

\* Mutant: grids are counted.
CountGrids(secs) == {i \in 1 .. Len(secs) : secs[i].n = 3}

\* g2_info
numfields(secs) == {i \in 1 .. Len(secs) : secs[i].n = 4}
numlocal(secs) == {i \in 1 .. Len(secs) : secs[i].n = 2}

NewField ==
  [have |-> {}, ierr |-> 0, done |-> FALSE, numfld |-> 0, id |-> None, local |-> None,
   grid |-> None, pds |-> None, list |-> <<>>, ndpts |-> 0, drs |-> None,
   ibmap |-> 255, bmap |-> <<>>, fld |-> <<>>]

Fail(st, code) == [st EXCEPT !.ierr = code, !.done = TRUE]

g2_unpack1(st, s) == [st EXCEPT !.id = s.id]

g2_unpack2(st, s) == [st EXCEPT !.local = s.local]

g2_unpack3(st, s) ==
  IF s.num \notin gridRows THEN Fail(st, 10)
  ELSE [st EXCEPT !.have = @ \cup {3}, !.grid = [num |-> s.num, list |-> GridOf(s)]]

g2_unpack4(st, s) ==
  IF s.pds \notin pdsRows THEN Fail(st, 11)
  ELSE [st EXCEPT !.have = @ \cup {4}, !.pds = s.pds, !.list = GetPds(s.pds, s.tmpl)]

g2_unpack5(st, s) ==
  IF s.drs \notin drsRows THEN Fail(st, 12)
  ELSE [st EXCEPT !.have = @ \cup {5}, !.ndpts = s.ndpts, !.drs = s.drs]

\* Mutant: the bitmap of the section before is not freed by a field without one.
Unpack6Forgets(st, s, unpack) ==
  LET read == [st EXCEPT !.have = @ \cup {6}, !.ibmap = s.ibmap]
  IN  IF ~unpack THEN read
      ELSE IF s.ibmap = 0 THEN [read EXCEPT !.bmap = s.bmap]
      ELSE IF s.ibmap = 254
           THEN IF st.bmap = <<>> THEN Fail(read, 17) ELSE read
      ELSE read

\* Without unpacking only the indicator is read.  With it the bitmap of the section
\* before is kept for indicator 254 and freed otherwise.
g2_unpack6(st, s, unpack) ==
  LET read == [st EXCEPT !.have = @ \cup {6}, !.ibmap = s.ibmap]
  IN  IF ~unpack THEN read
      ELSE IF s.ibmap = 0 THEN [read EXCEPT !.bmap = s.bmap]
      ELSE IF s.ibmap = 254
           THEN IF st.bmap = <<>> THEN Fail(read, 17) ELSE read
      ELSE [read EXCEPT !.bmap = <<>>]

\* The values at the points of the bitmap, 0 elsewhere.
Expand(bmap, values) ==
  [p \in Points |->
     IF bmap[p] = 1
     THEN values[Len(PackedValues(bmap, [q \in 1 .. p |-> q]))]
     ELSE 0]

g2_unpack7(st, s) ==
  [st EXCEPT !.have = @ \cup {7},
             !.fld = IF st.ibmap # 255 /\ st.bmap # <<>>
                     THEN Expand(st.bmap, s.values) ELSE s.values]

\* One section of the loop of g2_getfld, for field ifldnum.
GetSection(st, s, ifldnum, unpack) ==
  LET now == IF s.n = 4 THEN [st EXCEPT !.numfld = @ + 1] ELSE st
      mine == now.numfld = ifldnum
      next == CASE s.n = 1                     -> g2_unpack1(now, s)
                [] s.n = 2                     -> g2_unpack2(now, s)
                [] s.n = 3                     -> g2_unpack3(now, s)
                [] s.n = 4 /\ mine             -> g2_unpack4(now, s)
                [] s.n = 5 /\ mine             -> g2_unpack5(now, s)
                [] s.n = 6                     -> g2_unpack6(now, s, unpack)
                [] s.n = 7 /\ mine /\ unpack   -> g2_unpack7(now, s)
                [] OTHER                       -> now
      needed == IF unpack THEN {3, 4, 5, 6, 7} ELSE {3, 4, 5, 6}
  IN  IF st.done THEN st
      ELSE IF next.done THEN next
      ELSE [next EXCEPT !.done = needed \subseteq next.have]

g2_getfld(secs, ifldnum, unpack) ==
  LET at[i \in 0 .. Len(secs)] ==
        IF i = 0 THEN NewField ELSE GetSection(at[i - 1], secs[i], ifldnum, unpack)
      last == at[Len(secs)]
  IN  IF ifldnum <= 0 THEN Fail(NewField, 3)
      ELSE IF last.done THEN last ELSE Fail(last, 6)

----------------------------------------------------------------------------
(* The caller. *)

NothingAsked == [local |-> None, grid |-> None, bitmap |-> None, fields |-> <<>>]

\* The caller takes a change as made when the call returns a length.
Note(new) == asked' = IF ret' = 0 THEN new ELSE asked

NoneSinceBitmap(secs) ==
  \E i \in 1 .. Len(secs) :
    /\ secs[i].n = 6 /\ secs[i].ibmap = 255
    /\ \A j \in i + 1 .. Len(secs) : secs[j].n = 6 => secs[j].ibmap # 0

Create(edition, id) == g2_create(edition, id) /\ Note(NothingAsked)

AddLocal(l) == g2_addlocal(l) /\ Note([asked EXCEPT !.local = l])

AddGrid(g) == g2_addgrid(g.num, g.list) /\ Note([asked EXCEPT !.grid = g])

\* With indicator 254 the caller passes the bitmap it gave last.
AddField(f, fld, ibmap, packed) ==
  \E b \in CASE ibmap = 0 -> BitmapInputs [] ibmap = 254 -> {asked.bitmap} [] OTHER -> {None} :
    LET bmap == IF b = None THEN AllPoints ELSE b
    IN  /\ ibmap = 254 => (ReuseAfterNone \/ ~NoneSinceBitmap(cgrib.secs))
        /\ g2_addfield(f, fld, ibmap, bmap, packed)
        /\ Note([asked EXCEPT
                   !.bitmap = IF ibmap = 0 THEN b ELSE @,
                   !.fields = Append(@, [local |-> asked.local, grid |-> asked.grid,
                                         product |-> [pds |-> f.pds, list |-> f.list],
                                         bitmap |-> b,
                                         values |-> [p \in Points |-> fld[p] * bmap[p]]])])

GribEnd == g2_gribend /\ UNCHANGED asked

Room == Len(cgrib.secs) + 4 <= MaxSections

Init ==
  /\ cgrib = [state |-> "empty", secs |-> <<>>]
  /\ ret = 0
  /\ asked = NothingAsked

Next ==
  \/ \E edition \in {1, 2}, id \in Ids : Create(edition, id)
  \/ Room /\ \E l \in Locals : AddLocal(l)
  \/ Room /\ \E g \in GridInputs : AddGrid(g)
  \/ Room /\ \E f \in FieldInputs, fld \in FieldValues,
               ibmap \in {0, 254, 255}, packed \in BOOLEAN : AddField(f, fld, ibmap, packed)
  \/ GribEnd

Spec == Init /\ [][Next]_vars

----------------------------------------------------------------------------
(* Properties. *)

TypeOK ==
  /\ cgrib.state \in {"empty", "open", "ended"}
  /\ \A i \in 1 .. Len(cgrib.secs) : cgrib.secs[i].n \in 1 .. 7
  /\ Len(cgrib.secs) <= MaxSections
  /\ ret \in -10 .. 0

\* The sections of a message are in an order a reader accepts: section 1 first and
\* only first, a field's sections 4 to 7 in one piece, a grid before the first field
\* and after every local section, an end only after a field.
SectionOrder ==
  LET secs == cgrib.secs
  IN  /\ (cgrib.state = "empty") <=> (secs = <<>>)
      /\ \A i \in 1 .. Len(secs) :
           /\ (secs[i].n = 1) <=> (i = 1)
           /\ secs[i].n = 2 => secs[i - 1].n \in {1, 7}
           /\ secs[i].n = 3 => secs[i - 1].n \in {1, 2, 7}
           /\ secs[i].n = 4 => secs[i - 1].n \in {3, 7}
           /\ secs[i].n \in 5 .. 7 => secs[i - 1].n = secs[i].n - 1
           /\ secs[i].n \in 4 .. 6 => i < Len(secs)
      /\ cgrib.state = "ended" => secs[Len(secs)].n = 7

\* A field as a reader gets it.
ReadLocal(secs, i) == IF i = Null THEN None ELSE secs[i].local

\* wgrib2: submessage k through the pointers of parse_msg.c.
WgribField(secs, k) ==
  LET sec == Submessage(secs, k)
      bmap == IF secs[sec[6]].ibmap = 255 THEN <<>> ELSE secs[sec[6]].bmap
      s4 == secs[sec[4]]
  IN  [local |-> ReadLocal(secs, sec[2]),
       grid |-> [num |-> secs[sec[3]].num, list |-> GridOf(secs[sec[3]])],
       product |-> [pds |-> s4.pds, list |-> GetPds(s4.pds, s4.tmpl)],
       bitmap |-> IF bmap = <<>> THEN None ELSE bmap,
       values |-> IF bmap = <<>> THEN secs[sec[7]].values
                  ELSE Expand(bmap, secs[sec[7]].values)]

\* g2clib: field k of g2_getfld, unpacked and expanded.
G2Field(got) ==
  [local |-> got.local, grid |-> got.grid,
   product |-> [pds |-> got.pds, list |-> got.list],
   bitmap |-> IF got.bmap = <<>> THEN None ELSE got.bmap,
   values |-> got.fld]

\* Whatever calls were made, refused ones included, wgrib2 finds in the message the
\* fields the caller added, with the grid, local section and bitmap in force
\* (parse_1st_msg, parse_next_msg).
WgribReadsBack ==
  cgrib.state = "ended" =>
    /\ num_submsgs(cgrib.secs) = Len(asked.fields)
    /\ \A k \in 1 .. Len(asked.fields) : WgribField(cgrib.secs, k) = asked.fields[k]

\* The first field that reuses a bitmap given before a field without one, 0 for none.
Unreadable(secs) ==
  LET bad == {i \in 1 .. Len(secs) : /\ secs[i].n = 6 /\ secs[i].ibmap = 254
                                     /\ NoneSinceBitmap(SubSeq(secs, 1, i))}
  IN  IF bad = {} THEN 0
      ELSE LET first == CHOOSE i \in bad : \A j \in bad : i <= j
           IN  Cardinality(numfields(SubSeq(secs, 1, first)))

\* g2_getfld returns the same fields, up to the first one that reuses a bitmap after
\* a field without bitmap: that one and all fields after it are refused, which the
\* encoder's isprevbmap did not foresee.
GetfldReadsBack ==
  cgrib.state = "ended" =>
    \A k \in 1 .. Len(asked.fields) :
      LET got == g2_getfld(cgrib.secs, k, TRUE)
          bad == Unreadable(cgrib.secs)
      IN  IF bad = 0 \/ k < bad
          THEN got.ierr = 0 /\ G2Field(got) = asked.fields[k]
          ELSE got.ierr = 17

\* g2_info counts the fields that can be asked for: the next one is refused.
InfoCounts ==
  cgrib.state = "ended" =>
    /\ Cardinality(numfields(cgrib.secs)) = Len(asked.fields)
    /\ Unreadable(cgrib.secs) = 0 =>
         g2_getfld(cgrib.secs, Len(asked.fields) + 1, TRUE).ierr = 6

\* What the caller is told refines a list of fields (module GribFields).
Fields ==
  INSTANCE GribFields WITH
    Grids <- GridInputs,
    Products <- {[pds |-> f.pds, list |-> f.list] : f \in FieldInputs},
    Bitmaps <- BitmapInputs,
    Values <- {[p \in Points |-> fld[p] * b[p]] : fld \in FieldValues, b \in BitmapInputs \cup {AllPoints}},
    phase <- IF cgrib.state = "empty" THEN "none"
             ELSE IF cgrib.state = "ended" THEN "end"
             ELSE CASE LastSection = 1 -> "id" [] LastSection = 2 -> "local"
                    [] LastSection = 3 -> "grid" [] OTHER -> "field",
    local <- asked.local, grid <- asked.grid, bitmap <- asked.bitmap,
    fields <- asked.fields

MessageSpec == Fields!Spec
=============================================================================

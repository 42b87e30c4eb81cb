---------------------------- MODULE GroupPacking ----------------------------
(* A field is packed by one of the encoders and read by the decoders of both  *)
(* libraries: compack.c, misspack.c, cmplxpack.c and simpack.c of g2clib,     *)
(* complex_pk.c and simple_pk.c of wgrib2.  Fields are of integers: the       *)
(* decimal scale is left out, the binary scale rounds.                        *)
EXTENDS PackGroups, ComplexPk

CONSTANTS
  Jobs,     \* fields and options: [by, fld, bin, order, missing, minpk, ...]; minpk is 10 in g2clib
  UnsetRef  \* what novref of compack and misspack may hold when pack_gp has not set it

ASSUME UnsetRefAssumption == UnsetRef \subseteq Int /\ 0 \in UnsetRef

ASSUME JobsAssumption ==
  \A j \in Jobs : j.by = "g2" =>
    /\ j.fld \in Seq(Int \cup {None, Second}) /\ j.fld # <<>>
    /\ j.missing \in 0..2 /\ j.minpk \in Nat \ {0}

VARIABLES
  job,   \* what is packed
  step,  \* "encode", "groups", "write", "read" or "end"
  msg,   \* the message
  out    \* what the decoders make of it

vars == <<groupVars, sectionVars, job, step, msg, out>>

----------------------------------------------------------------------------
(* Arithmetic of the encoders. *)

\* (g2int) ceil(temp) with the float temp = log(n) / alog2: 2^j + d is taken for 2^j when
\* the quotient is rounded to j.
Rounded == [j \in 0..30 |->
  CASE j = 21 -> 1 [] j = 22 -> 2 [] j = 23 -> 5 [] j = 24 -> 11 [] j = 25 -> 23
    [] j = 26 -> 47 [] j = 27 -> 95 [] j = 28 -> 191 [] j = 29 -> 384 [] j = 30 -> 771
    [] OTHER -> 0]
LogBits(n) == Min({j \in 0..30 : n - Rounded[j] <= 2^j})

\* rint(n / d): to the nearest, halves to the even one.
Rint(n, d) ==
  LET q == n \div d
      twice == 2 * (n % d)
  IN IF twice < d THEN q ELSE IF twice > d THEN q + 1 ELSE q + (q % 2)
\* rint(n * 2^-e) and floor(n * 2^-e + 0.5)
RintScaled(n, e) == IF e >= 0 THEN Rint(n, 2^e) ELSE n * 2^(-e)
FloorScaled(n, e) == IF e >= 0 THEN (2 * n + 2^e) \div 2^(e + 1) ELSE n * 2^(-e)

ValuesOf(fld) == SelectSeq(fld, LAMBDA x : x \notin {None, Second})
Least(s) == Min(Range(s))
Greatest(s) == Max(Range(s))

\* Differences of the given order of the values s, the first ones 0.
Differences(s, order) ==
  [n \in DOMAIN s |->
     IF order = 0 THEN s[n]
     ELSE IF n <= order THEN 0
     ELSE IF order = 1 THEN s[n] - s[n - 1]
     ELSE s[n] - 2 * s[n - 1] + s[n - 2]]

----------------------------------------------------------------------------
(* compack and misspack: before and after pack_gp. *)

ScaledValues ==
  LET s == ValuesOf(job.fld)
  IN [n \in DOMAIN s |-> RintScaled(s[n] - Least(s), job.bin)]

\* minsd: the least difference, and that after the values when there is none.
Minsd(d) ==
  LET later == {d[n] : n \in {j \in DOMAIN d : j > job.order}}
  IN IF job.order = 0 \/ later = {} THEN 0 ELSE Min(later)
Shifted(d) == [n \in DOMAIN d |-> IF n > job.order THEN d[n] - Minsd(d) ELSE d[n]]

\* The differences, with codes below the least one for missing points (misspack.c 244-263).
Spread ==
  LET d == Shifted(Differences(ScaledValues, job.order))
      miss1 == (IF d = <<>> THEN 0 ELSE Least(d)) - 1
      nth(i) == Cardinality({j \in 1..i : job.fld[j] \notin {None, Second}})
  IN [ic |-> [i \in DOMAIN job.fld |->
                IF job.fld[i] = None THEN miss1
                ELSE IF job.fld[i] = Second THEN miss1 - 1 ELSE d[nth(i)]],
      is523 |-> job.missing, missp |-> miss1, misss |-> miss1 - 1,
      minpk |-> job.minpk,
      ndg |-> Len(job.fld) \div job.minpk + 1]

\* The octets for the first values and minsd, with a bit for a sign.
ExtraOctets ==
  LET s == ScaledValues
      least == Minsd(Differences(s, job.order))
      firsts == {0} \cup {s[n] : n \in 1..Min({job.order, Len(s)})}
      Abs(n) == IF n < 0 THEN -n ELSE n
  IN Octets(Max({LogBits(Abs(least) + 1) + 1, LogBits(Max(firsts) + 1) + 1}))

IsConstant == job.missing = 0 /\ Least(job.fld) = Greatest(job.fld)

\* The reference, width and codes of the group of the points S.
GroupInfo(S) ==
  LET Kind(i) == IF job.fld[i] = None THEN 1 ELSE IF job.fld[i] = Second THEN 2 ELSE 0
      values == {field.ic[i] : i \in {j \in S : Kind(j) = 0}}
      kinds == {Kind(i) : i \in S}
      ref == IF values # {} THEN Min(values)
             ELSE IF kinds = {1} THEN -1 ELSE IF kinds = {1, 2} THEN 0 ELSE -2
      top == Max(values) + job.missing
      width == IF values # {} THEN IF top = ref THEN 0 ELSE LogBits(top - ref + 1)
               ELSE IF kinds = {1, 2} THEN 1 ELSE 0
  IN [ref |-> ref, width |-> width,
      Code |-> [i \in S |-> IF Kind(i) = 0 THEN field.ic[i] - ref ELSE 2^width - Kind(i)]]

GroupStart(glen, g) == Total(SubSeq(glen, 1, g - 1))
Points(glen, g) == (GroupStart(glen, g) + 1)..(GroupStart(glen, g) + glen[g])

G2Infos(glen) == [g \in DOMAIN glen |-> GroupInfo(Points(glen, g))]

\* For comparison: the bits of n values, without that for n itself.
BitsBelow(n) == IF n = 0 THEN 0 ELSE LogBits(n)
\* Bits for numbers from 0 to n, 0 for n = 0.
BitsFor(n) == IF n = 0 THEN 0 ELSE LogBits(n + 1)

\* What both encoders write of groups: the references, widths and lengths less their least.
Coded(info, lengths, nbits, lengthref, widthbits, lengthbits) ==
  LET of == Concat([g \in DOMAIN info |-> [i \in 1..lengths[g] |-> g]])
      widthref == Min({info[g].width : g \in DOMAIN info})
  IN [ndpts |-> Len(of), ngroups |-> Len(info), nbits |-> nbits, bitmap |-> <<>>,
      refs |-> [g \in DOMAIN info |-> Low(info[g].ref, nbits)],
      widthref |-> widthref, widthbits |-> widthbits,
      widths |-> [g \in DOMAIN info |-> Low(info[g].width - widthref, widthbits)],
      lengthref |-> lengthref, lengthbits |-> lengthbits, last |-> lengths[Len(info)],
      lengths |-> [g \in DOMAIN info |-> Low(lengths[g] - lengthref, lengthbits)],
      codes |-> [i \in DOMAIN of |-> Low(info[of[i]].Code[i], info[of[i]].width)]]

\* Section 7 is as long as its parts.
Sized(m) == m @@ [octets |-> HeadOctets(m) + Octets(DataBits(m))]

G2Message(glen) ==
  LET info == G2Infos(glen)
      s == ScaledValues
      refs == {info[g].ref : g \in DOMAIN info}
      widths == {info[g].width : g \in DOMAIN info}
      \* the lengths of all groups but the last count
      some == {glen[g] : g \in 1..Max({1, Len(glen) - 1})}
      top == Max(refs) + job.missing
      nbits == BitsFor(top)
      All(g) == IF nbits > 0 /\ info[g].ref < 0 THEN 2^nbits + info[g].ref ELSE info[g].ref
      coded == Coded([g \in DOMAIN info |-> [info[g] EXCEPT !.ref = All(g)]], glen, nbits,
                     Min(some), BitsFor(Max(widths) - Min(widths)), BitsFor(Max(some) - Min(some)))
      extraOctets == IF job.order = 0 THEN 0 ELSE ExtraOctets
  IN Sized([coded EXCEPT !.ndpts = Len(job.fld)] @@
       [missing |-> job.missing, order |-> job.order, bin |-> job.bin,
        ref |-> IF s = <<>> THEN 0 ELSE Least(ValuesOf(job.fld)), extraOctets |-> extraOctets,
        extra |-> [n \in 1..job.order |-> IF n <= Len(s) THEN Low(s[n], 8 * extraOctets) ELSE 0],
        minsd |-> IF job.order = 0 THEN 0
                  ELSE Signed(Minsd(Differences(s, job.order)), 8 * extraOctets)])

\* Without groups: the reference and no data.
NoGroups ==
  [ngroups |-> 0, ndpts |-> Len(job.fld), bitmap |-> <<>>, bin |-> job.bin,
   ref |-> IF ValuesOf(job.fld) = <<>> THEN 0 ELSE Least(ValuesOf(job.fld))]

ConstantMessage ==
  [ngroups |-> 0, ndpts |-> Len(job.fld), bitmap |-> <<>>, ref |-> job.fld[1], bin |-> 0]

\* cmplxpack: up to the call of pack_gp, or all for a constant field.
CallPackGp ==
  /\ step = "encode" /\ job.by = "g2"
  /\ IF IsConstant
     THEN /\ msg' = ConstantMessage
          /\ step' = "read"
          /\ UNCHANGED groupVars
     ELSE /\ Call(Spread)
          /\ step' = "groups"
          /\ UNCHANGED msg
  /\ UNCHANGED <<job, out, sectionVars>>

InPackGp == /\ step = "groups" /\ job.by = "g2" /\ PackGp
            /\ UNCHANGED <<job, step, msg, out, sectionVars>>

\* The groups there were when pack_gp gave up; lengths that go past the field, of which the
\* encoder would read what lies behind it, are left out.
Leftover(unset) == [g \in DOMAIN groups |-> groups[g].nov + unset]
InField(glen) == (\A g \in DOMAIN glen : glen[g] > 0) /\ Total(glen) <= nxy

\* ier is not looked at: after pack_gp has given up with 706 the sections are written of the
\* groups it had closed, with lengths to which novref is added, that was never set.
WriteGroups ==
  /\ step = "groups" /\ job.by = "g2"
  /\ \/ pc = "done" /\ msg' = G2Message(lens)
     \/ pc = "failed" /\ groups = <<>> /\ msg' = NoGroups
     \/ /\ pc = "failed" /\ groups # <<>>
        /\ \E unset \in UnsetRef : /\ InField(Leftover(unset))
                                    /\ msg' = G2Message(Leftover(unset))
  /\ step' = "read"
  /\ UNCHANGED <<job, out, groupVars, sectionVars>>

----------------------------------------------------------------------------
(* complex_grib_out and simple_grib_out of wgrib2. *)

Bitmap == [i \in DOMAIN job.fld |-> job.fld[i] # None]
AllDefined == \A i \in DOMAIN job.fld : job.fld[i] # None
\* The points that are packed: the defined ones when there is a bitmap.
Packed == IF job.bitmap THEN ValuesOf(job.fld) ELSE job.fld

\* The binary scale for use_scale, with max_bits, and that for wanted_bits.
GivenScale(range) ==
  LET nbits == find_nbits(FloorScaled(range, job.bin))
  IN [bin |-> IF nbits > job.bits THEN job.bin + nbits - job.bits ELSE job.bin,
      nbits |-> IF nbits > job.bits THEN job.bits ELSE nbits]
WantedScale(range) ==
  LET bin == find_nbits(range) - job.bits
      nbits == find_nbits(FloorScaled(range, bin))
  IN IF range = 0 THEN [bin |-> 0, nbits |-> 0]
     ELSE [bin |-> IF nbits # job.bits THEN bin + 1 ELSE bin, nbits |-> job.bits]
ScaleOf(s) ==
  LET range == Greatest(s) - Least(s)
  IN IF job.use_scale THEN GivenScale(range) ELSE WantedScale(range)

PackedValues ==
  LET defined == ValuesOf(job.fld)
  IN [i \in DOMAIN Packed |->
        IF Packed[i] = None THEN IntMax
        ELSE FloorScaled(Packed[i] - Least(defined), ScaleOf(defined).bin)]

\* Differences between defined points, in place, and vmn, the least of them and 0, or the
\* least value.
InPlace ==
  LET v == PackedValues
      d == Differences(SelectSeq(v, LAMBDA x : x # IntMax), job.order)
      nth(i) == Cardinality({j \in 1..i : v[j] # IntMax})
      vmn == IF job.order = 0 THEN Least(d) ELSE Min({0} \cup Range(d))
      vmx == IF job.order = 0 THEN Greatest(d) ELSE Max({0} \cup Range(d))
  IN [vmn |-> vmn, vmx |-> vmx - vmn, has_undef |-> IF IntMax \in Range(v) THEN 1 ELSE 0,
      v |-> [i \in DOMAIN v |-> IF v[i] = IntMax THEN IntMax ELSE d[nth(i)] - vmn]]

UndefinedMessage ==
  [ndpts |-> Len(job.fld), ngroups |-> 1, nbits |-> 8, bitmap |-> <<>>, refs |-> <<255>>,
   widthref |-> 0, widthbits |-> 8, widths |-> <<0>>, lengthref |-> Len(job.fld),
   lengthbits |-> 8, lengths |-> <<0>>, last |-> Len(job.fld),
   codes |-> [i \in DOMAIN job.fld |-> 0], missing |-> 1, order |-> 0, bin |-> 0, ref |-> 0,
   extraOctets |-> 0, extra |-> <<>>, minsd |-> 0, octets |-> 3]

StartSections ==
  /\ step = "encode" /\ job.by = "complex"
  /\ IF ValuesOf(job.fld) = <<>>
     THEN /\ msg' = UndefinedMessage
          /\ step' = "read"
          /\ UNCHANGED sectionVars
     ELSE /\ grid' = InPlace
          /\ label' = "runs"
          /\ limit' = [max |-> LenSecMax, bits |-> LenBits]
          /\ step' = "groups"
          /\ UNCHANGED <<msg, list, at, krange, backup>>
  /\ UNCHANGED <<job, out, groupVars>>

InSections == /\ step = "groups" /\ job.by = "complex" /\ Sections
              /\ UNCHANGED <<job, step, msg, out, groupVars>>

SectionInfo(s) ==
  LET width == SectionBits(s)
  IN [ref |-> s.mn, width |-> width,
      Code |-> [i \in s.i0..s.i1 |-> IF grid.v[i] = IntMax THEN 2^width - 1 ELSE grid.v[i] - s.mn]]

ComplexMessage ==
  LET info == [j \in DOMAIN list |-> SectionInfo(list[j])]
      lengths == [j \in DOMAIN list |-> list[j].i1 - list[j].i0 + 1]
      widths == {info[j].width : j \in DOMAIN list}
      defined == ValuesOf(job.fld)
      s == SelectSeq(PackedValues, LAMBDA x : x # IntMax)
      top == Max({0} \cup ({info[j].ref : j \in DOMAIN list} \ {IntMax}))
      nbits == find_nbits(top + grid.has_undef)
      All(j) == IF info[j].ref = IntMax THEN 2^nbits - 1 ELSE info[j].ref
      coded == Coded([j \in DOMAIN info |-> [info[j] EXCEPT !.ref = All(j)]], lengths, nbits,
                     Least(lengths), find_nbits(Max(widths) - Min(widths) + grid.has_undef),
                     find_nbits(Greatest(lengths) - Least(lengths)))
      firsts == [n \in 1..job.order |-> IF n <= Len(s) THEN s[n] ELSE 0]
      Abs(n) == IF n < 0 THEN -n ELSE n
      extraOctets == IF job.order = 0 THEN 0
                     ELSE Octets(Max({find_nbits(Abs(grid.vmn)), find_nbits(Greatest(firsts))}) + 1)
  IN Sized([coded EXCEPT !.bitmap = IF job.bitmap /\ ~AllDefined THEN Bitmap ELSE <<>>] @@
       [missing |-> grid.has_undef, order |-> job.order, bin |-> ScaleOf(defined).bin,
        ref |-> Least(defined), extraOctets |-> extraOctets, extra |-> firsts,
        minsd |-> Signed(grid.vmn, 8 * extraOctets)])

WriteSections ==
  /\ step = "groups" /\ label = "sections" /\ job.by = "complex"
  /\ msg' = ComplexMessage
  /\ step' = "read"
  /\ UNCHANGED <<job, out, groupVars, sectionVars>>

----------------------------------------------------------------------------
(* Simple packing. *)

\* simpack: bits and scale as given, or one of them made to suit the other.
SimpackScale(range) ==
  LET largest == 2^job.bits - 1
      Fits(e) == IF e >= 0 THEN range <= largest * 2^e ELSE range * 2^(-e) <= largest
  IN CASE job.bits = 0 ->
            [bin |-> job.bin, nbits |-> LogBits(RintScaled(range, job.bin) + 1)]
       [] job.bits # 0 /\ job.bin = 0 -> [bin |-> Min({e \in -8..20 : Fits(e)}), nbits |-> job.bits]
       [] OTHER -> [bin |-> job.bin, nbits |-> job.bits]

Simpack ==
  LET s == job.fld
      scale == IF IsConstant THEN [bin |-> job.bin, nbits |-> 0]
               ELSE SimpackScale(Greatest(s) - Least(s))
  IN [ndpts |-> Len(s), bitmap |-> <<>>, ref |-> Least(s), bin |-> scale.bin, nbits |-> scale.nbits,
      codes |-> [i \in DOMAIN s |-> Low(RintScaled(s[i] - Least(s), scale.bin), scale.nbits)]]

\* simple_grib_out: a field of no bits keeps no scale.
SimpleMessage ==
  LET s == ValuesOf(job.fld)
      scale == ScaleOf(s)
      map == IF AllDefined THEN <<>> ELSE Bitmap
  IN IF s = <<>>
     THEN [ndpts |-> 0, bitmap |-> map, ref |-> 0, bin |-> 0, nbits |-> 0, codes |-> <<>>]
     ELSE [ndpts |-> Len(s), bitmap |-> map, ref |-> Least(s), nbits |-> scale.nbits,
           bin |-> IF scale.nbits = 0 THEN 0 ELSE scale.bin,
           codes |-> [i \in DOMAIN s |-> Low(FloorScaled(s[i] - Least(s), scale.bin), scale.nbits)]]

PackSimple ==
  /\ step = "encode" /\ job.by \in {"simpack", "simple"}
  /\ msg' = IF job.by = "simpack" THEN Simpack ELSE SimpleMessage
  /\ step' = "read"
  /\ UNCHANGED <<job, out, groupVars, sectionVars>>

----------------------------------------------------------------------------

\* Both libraries read the message.
Read ==
  /\ step = "read"
  /\ out' = IF job.by \in {"simpack", "simple"}
            THEN [g2 |-> Expanded(msg, simunpack(msg)), wgrib2 |-> unpk_0(msg)]
            ELSE [g2 |-> IF msg.bitmap = <<>> THEN comunpack(msg)
                         ELSE Expanded(msg, comunpack(msg)),
                  wgrib2 |-> unpk_complex(msg)]
  /\ step' = "end"
  /\ UNCHANGED <<job, msg, groupVars, sectionVars>>

End == step = "end" /\ UNCHANGED vars

Nobody == [ic |-> <<>>, is523 |-> 0, missp |-> 0, misss |-> 0, minpk |-> 0, ndg |-> 0]
Empty == [from |-> 1, to |-> 0, bits |-> 0, miss |-> TRUE, min |-> 0, max |-> 0,
          minat |-> Mallow, maxat |-> -Mallow]

Init ==
  /\ job \in Jobs
  /\ step = "encode" /\ msg = <<>> /\ out = <<>>
  /\ field = Nobody /\ pc = "L105" /\ sizes = [kinc |-> Inc, lminpk |-> 0, ired |-> 0]
  /\ a = Empty /\ b = Empty /\ adda = FALSE /\ groups = <<>> /\ lens = <<>>
  /\ grid = [v |-> <<>>, vmn |-> 0, vmx |-> 0, has_undef |-> 0] /\ label = "none" /\ list = <<>>
  /\ at = 1 /\ krange = 0 /\ limit = [max |-> LenSecMax, bits |-> LenBits]
  /\ backup = [list |-> <<>>, size |-> 0]

Next ==
  \/ CallPackGp \/ InPackGp \/ WriteGroups
  \/ StartSections \/ InSections \/ WriteSections
  \/ PackSimple \/ Read \/ End

Spec == Init /\ [][Next]_vars

----------------------------------------------------------------------------

\* The values of the points S of what pack_gp packs.
ValuesAt(S) == {field.ic[i] : i \in {j \in S : ~Missing(j)}}
\* B may remember extremes of points that were looked at and left to later groups.
Holds(g) ==
  LET values == ValuesAt(g.from..g.to)
  IN /\ g.from <= g.to
     /\ g.miss => values = {}
     /\ values # {} => /\ g.min <= Min(values) /\ Max(values) <= g.max
                       /\ g.max - g.min + lmiss < 2^g.bits
ChainFrom(gs, from) ==
  \A i \in DOMAIN gs : gs[i].from = (IF i = 1 THEN from ELSE gs[i - 1].to + 1)

\* What pack_gp asks of its caller: values from -2^30 to 2^30 (pack_gp.c:171).
Packable == \A i \in 1..nxy : ~Missing(i) => field.ic[i] \in -(2^30)..2^30

\* Points given back from A to B, added to A from B or looked at once more stay in one group:
\* the closed groups, A and B follow each other without gap or overlap, each with bounds
\* for its own points and bits that hold them, and they are never more than the arrays of
\* compack hold, for all values that pack_gp.c allows.
GroupsCover ==
  (step = "groups" /\ job.by = "g2" /\ Packable) =>
    /\ ChainFrom(groups, 1) /\ Len(groups) <= field.ndg
    /\ \A i \in DOMAIN groups : Holds(groups[i])
    /\ pc \in {"L133", "L170"} =>
         Holds(a) /\ a.from = (IF groups = <<>> THEN 1 ELSE Last(groups).to + 1)
    /\ pc = "L170" => Holds(b) /\ b.from = a.to + 1
    /\ pc = "L209" => Last(groups).to = nxy

\* What reduce counts: minima and lengths below the powers of 2 in ibxx2 (pack_gp.c:1263 and
\* 1404), and no total that is not one.  When the totals fall down to length 2, or there is no
\* length to try, it reads the word before ntotbt (reduce.c:270) and may call it an improvement.
Reducible ==
  /\ nxy <= 2^30 /\ \A i \in 1..lx : groups[i].min < 2^30
  /\ ~(Better /\ jj = 0)

\* The lengths that pack_gp gives back, reduced (reduce.c) or not, are those of all points,
\* none is zero, and they are not more than the arrays of compack hold: boxes made group by
\* group, from a quotient that may not divide, lose no point and add none.
LengthsCover ==
  (step = "groups" /\ job.by = "g2" /\ pc = "done" /\ Packable /\ Reducible) =>
    /\ Total(lens) = nxy /\ \A i \in DOMAIN lens : lens[i] > 0
    /\ Len(lens) <= field.ndg

\* What find_nbits can count, up to 30 bits: a field has at most 25 (Grib.c:167 and 260; that
\* -set_metadata may ask for more, Set_metadata.c:160, is left out), its differences of second
\* order have two more.
Codable ==
  (step = "groups" /\ job.by = "complex") =>
    /\ grid.v \in Seq(Int) /\ grid.v # <<>>
    /\ \A i \in DOMAIN grid.v : grid.v[i] = IntMax \/ grid.v[i] \in 0..(2^30 - 2)

\* Merged, taken back when longer ones did not pay and with points passed over their borders,
\* the sections of complex_pk.c are those of all points, with the extremes of the points in
\* them.  None is longer than LEN_SEC_MAX, but for one point more that exchange lets in.
SectionsExact ==
  (step = "groups" /\ job.by = "complex" /\ label # "runs") =>
    /\ list[1].i0 = 1 /\ Last(list).i1 = Len(grid.v)
    /\ \A j \in DOMAIN list :
         LET s == list[j]
             values == {grid.v[i] : i \in s.i0..s.i1}
         IN /\ j > 1 => s.i0 = list[j - 1].i1 + 1
            /\ s.i1 - s.i0 \in 0..(IF label \in {"exchange", "last", "sections"}
                                  THEN limit.max ELSE limit.max - 1)
            /\ s.missing <=> IntMax \in values
            /\ s.mn = Min(values)
            /\ s.mx = IF values = {IntMax} THEN IntMax ELSE Max(values \ {IntMax})

\* With only secondary missing values there is no group of values from which to tell them.
NoValues == ValuesOf(job.fld) = <<>>
\* Half a unit of the binary scale is lost, and nothing when there is none.
Near(x, y, bin) ==
  LET d == IF x > y THEN x - y ELSE y - x IN IF bin > 0 THEN 2 * d <= 2^bin ELSE d = 0
Same(read, wrote, secondary) ==
  /\ Len(read) = Len(wrote)
  /\ \A i \in DOMAIN wrote :
       IF wrote[i] = None THEN read[i] = None
       ELSE IF wrote[i] = Second THEN read[i] = secondary \/ (NoValues /\ read[i] = None)
       ELSE read[i] \notin {None, Second} /\ Near(read[i], wrote[i], msg.bin)

BothRead == Same(out.g2, job.fld, Second) /\ Same(out.wgrib2, job.fld, None)

\* Values and differences for which log counts the bits as they are (see Rounded) and that
\* pack_gp never gives up on; wgrib2 counts without it.
Narrow ==
  LET values == Range(ValuesOf(job.fld))
  IN job.by \in {"g2", "simpack"} /\ values # {} => Max(values) - Min(values) < 2^18

\* What either library packed, both libraries unpack, with the missing points where they were:
\* four encoders that choose their own groups, widths and references, and decoders that check
\* the length of the section in different ways, have to agree on every field whose values are
\* less than 2^18 apart (RetainedExactly is about the others).
RoundTrip == step = "end" /\ Narrow => BothRead

\* What pack_gp says of its values: in the range from -2^30 to 2^30 they "will be retained
\* exactly through packing and unpacking" (pack_gp.c:170-175).  compack goes on when pack_gp
\* gives up on values that are 2^30 apart, and gives values that are 2^21 apart a bit less
\* than they need.
RetainedExactly == step = "end" /\ job.by = "g2" /\ Packable => BothRead
=============================================================================

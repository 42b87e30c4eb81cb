----------------------------- MODULE PackGroups -----------------------------
(* The groups of GRIB2 complex packing as g2clib chooses them: pack_gp.c and  *)
(* reduce.c.  A run of the machine is one call of pack_gp, as compack.c and   *)
(* misspack.c make it: points are put in a group A, the points after it are   *)
(* looked at as a group B, and points move between the two until A is closed. *)
(* kstart and ktotal are a.from and a.to; group B begins after a.to, ends at  *)
(* b.to (nendb), and kounta, kountb and nenda follow from these.              *)
EXTENDS Totals, FiniteSets, SequencesExt, FiniteSetsExt

CONSTANTS
  Inc,      \* inc, the points added to A at a time: 1 in compack.c
  Before,   \* the word in memory before ntotbt, which reduce may read
  Boxes     \* newboxtp, static in reduce, as an earlier call left it

ASSUME PackAssumption ==
  /\ Inc \in Nat \ {0}
  /\ Before \in Nat /\ Boxes \in Nat

VARIABLES
  field,    \* [ic, is523, missp, misss, minpk, ndg]: the arguments
  pc,       \* the label reached
  sizes,    \* [kinc, lminpk, ired]
  a, b,     \* groups A and B: extremes, where they are, bits, all missing
  adda,     \* points were added to A
  groups,   \* the groups closed so far: lx, jmin, lbit, nov, misslx
  lens      \* the group lengths given back

groupVars == <<field, pc, sizes, a, b, adda, groups, lens>>

Mallow == 2^30 + 1
nxy == Len(field.ic)
lmiss == field.is523

Missing(k) ==
  \/ field.is523 \in {1, 2} /\ field.ic[k] = field.missp
  \/ field.is523 = 2 /\ field.ic[k] = field.misss

Nothing == [min |-> Mallow, max |-> -Mallow, minat |-> Mallow, maxat |-> -Mallow]

\* Extremes e and those of the points in S, which replace an equal one when ties holds;
\* the first or the last of equal points is remembered.
With(e, S, ties, last) ==
  LET seen == {k \in S : ~Missing(k)}
      values == {field.ic[k] : k \in seen}
      At(v) == LET where == {k \in seen : field.ic[k] = v}
               IN IF last THEN Max(where) ELSE Min(where)
      lower == values # {} /\ (Min(values) < e.min \/ (ties /\ Min(values) = e.min))
      higher == values # {} /\ (Max(values) > e.max \/ (ties /\ Max(values) = e.max))
  IN [min |-> IF lower THEN Min(values) ELSE e.min,
      minat |-> IF lower THEN At(Min(values)) ELSE e.minat,
      max |-> IF higher THEN Max(values) ELSE e.max,
      maxat |-> IF higher THEN At(Max(values)) ELSE e.maxat]

\* The least number of bits that holds 0 .. n.
Bits(n) == Min({j \in 0..30 : n < 2^j})
TooWide(e) == e.min # Mallow /\ e.max - e.min + lmiss >= 2^30
GroupBits(e) ==
  IF e.min # Mallow THEN Bits(e.max - e.min + lmiss)
  ELSE IF field.is523 = 2 THEN Bits(lmiss) ELSE 0

\* A group of which the extremes are e; one without values has the minimum 0.
Group(e, from, to) ==
  [from |-> from, to |-> to, bits |-> GroupBits(e), miss |-> e.min = Mallow,
   min |-> IF e.min = Mallow THEN 0 ELSE e.min, max |-> IF e.min = Mallow THEN 0 ELSE e.max,
   minat |-> e.minat, maxat |-> e.maxat]

\* The tail rule: a rest of at most half a group is taken as well.
ToTail(end, rest) == IF nxy - end <= rest \div 2 THEN nxy ELSE end

\* The end of the string of values equal to that of k; SkipMissing passes over missing ones.
StringEnd(k, skipMissing) ==
  LET other == {j \in (k + 1)..nxy :
                  field.ic[j] # field.ic[k] /\ ~(skipMissing /\ Missing(j))}
  IN IF other = {} THEN nxy ELSE Min(other) - 1

FirstEnd ==
  LET end == ToTail(Min({sizes.lminpk, nxy}), sizes.lminpk)
  IN IF end # nxy /\ field.ic[1] = field.ic[2] THEN Max({end, StringEnd(1, TRUE)}) ELSE end

\* L105: the first group.
FirstGroup ==
  /\ pc = "L105"
  /\ LET e == With(Nothing, 1..FirstEnd, FALSE, FALSE) IN
       \/ /\ TooWide(e)
          /\ pc' = "failed"
          /\ UNCHANGED <<field, sizes, a, b, adda, groups, lens>>
       \/ /\ ~TooWide(e)
          /\ a' = Group(e, 1, FirstEnd)
          /\ pc' = "L133"
          /\ adda' = FALSE
          /\ groups' = <<>>
          /\ UNCHANGED <<field, sizes, b, lens>>

\* L150: B grows from the extremes e over the points from mstart on.
LookAt(e, mstart, nendb, next) ==
  LET end == ToTail(Max({nendb, Min({next + sizes.lminpk, nxy})}), sizes.lminpk)
  IN [e |-> With(e, mstart..end, TRUE, TRUE), to |-> end]

\* L140: the group B after the point ktotal.
LookAhead(ktotal) ==
  LookAt(Nothing, ktotal + 1,
         IF ktotal + 1 < nxy /\ field.is523 = 0 THEN StringEnd(ktotal + 1, FALSE) ELSE 1,
         ktotal)

\* L170: which of the groups may gain points.
Compared(grown, ktotal) ==
  \/ TooWide(grown.e) /\ pc' = "failed" /\ UNCHANGED b
  \/ /\ ~TooWide(grown.e)
     /\ b' = Group(grown.e, ktotal + 1, grown.to)
     /\ pc' = "L170"

SecondGroup ==
  /\ pc = "L133"
  /\ IF a.to >= nxy
     THEN pc' = "L200" /\ UNCHANGED b
     ELSE Compared(LookAhead(a.to), a.to)
  /\ UNCHANGED <<field, sizes, a, adda, groups, lens>>

CloseA ==
  /\ pc = "L170" /\ b.bits < a.bits /\ adda
  /\ pc' = "L200"
  /\ UNCHANGED <<field, sizes, a, b, adda, groups, lens>>

\* B and the points of A from k on fit in the bits of B.
FitsB(e) == e.max - e.min < 2^b.bits - lmiss
Taken(k) == With([min |-> b.min, max |-> b.max, minat |-> b.minat, maxat |-> b.maxat],
                 k..a.to, FALSE, TRUE)
\* The last point that stays in A, a.from - 1 when none does.
Stays == Max({a.from - 1} \cup {k \in a.from..a.to : ~Missing(k) /\ ~FitsB(Taken(k))})

\* Group B takes points of A from its end backwards (803-1029).
GiveBack ==
  /\ pc = "L170" /\ b.bits < a.bits /\ ~adda
  /\ LET to == Stays
         e == Taken(to + 1)
         rest == With(Nothing, a.from..to, FALSE, FALSE)
         valued == \E k \in (to + 1)..a.to : ~Missing(k)
     IN /\ pc' = "L200"
        /\ b' = [b EXCEPT !.from = to + 1, !.min = e.min, !.max = e.max, !.minat = e.minat,
                          !.maxat = e.maxat, !.miss = @ /\ ~valued]
        /\ a' = IF to = a.to \/ (to > a.minat /\ to > a.maxat) THEN [a EXCEPT !.to = to]
                ELSE [Group(rest, a.from, to) EXCEPT !.minat = a.minat, !.maxat = a.maxat]
  /\ UNCHANGED <<field, sizes, adda, groups, lens>>

\* L180: the points of B that A may take, and A with them, group C.
MoreKinc == IF nxy - (a.to + sizes.kinc) <= sizes.lminpk \div 2
            THEN nxy - a.to ELSE sizes.kinc
TakenEnd == Min({a.to + MoreKinc, nxy})
GroupC ==
  LET known == [min |-> a.min, max |-> a.max, minat |-> a.minat, maxat |-> a.minat]
  IN With(IF a.miss THEN Nothing ELSE known, (a.to + 1)..TakenEnd, FALSE, FALSE)
\* For comparison: a range of one too many.
FitsOneMore == GroupC.min # Mallow => GroupC.max - GroupC.min <= 2^a.bits - lmiss
FitsA == GroupC.min # Mallow => GroupC.max - GroupC.min < 2^a.bits - lmiss

\* L195: what A becomes; its bits stay.
Extended ==
  LET e == GroupC
  IN IF e.min = Mallow
     THEN [a EXCEPT !.to = TakenEnd, !.miss = TRUE]
     ELSE [a EXCEPT !.to = TakenEnd, !.miss = FALSE, !.min = e.min, !.max = e.max,
                    !.minat = e.minat, !.maxat = e.maxat]

KeepA ==
  /\ pc = "L170" /\ b.bits >= a.bits /\ ~FitsA
  /\ sizes' = [sizes EXCEPT !.kinc = MoreKinc]
  /\ pc' = "L200"
  /\ UNCHANGED <<field, a, b, adda, groups, lens>>

ExtendA ==
  /\ pc = "L170" /\ b.bits >= a.bits /\ FitsA
  /\ sizes' = [sizes EXCEPT !.kinc = MoreKinc]
  /\ LET to == TakenEnd
         known == [min |-> b.min, max |-> b.max, minat |-> b.minat, maxat |-> b.maxat]
     IN /\ a' = Extended
        /\ adda' = TRUE
        /\ IF to >= nxy THEN pc' = "L200" /\ UNCHANGED b
           ELSE Compared(IF b.minat > to /\ b.maxat > to
                         THEN LookAt(known, b.to + 1, 1, to)
                         ELSE LookAhead(to), to)
  /\ UNCHANGED <<field, groups, lens>>

\* What is kept of A: its first and last point, bits, extremes and number of points.
Kept == [from |-> a.from, to |-> a.to, bits |-> a.bits, miss |-> a.miss, min |-> a.min,
         max |-> a.max, nov |-> a.to - a.from + 1]

\* L200: A is closed and B is the next A.  With the ndg of compack there is always room for
\* the group: pack_gp would start over with a larger lminpk (see GroupsCover).
Close ==
  /\ pc = "L200"
  /\ groups' = Append(groups, Kept)
  /\ IF a.to >= nxy THEN pc' = "L209" /\ UNCHANGED <<a, adda>>
     ELSE pc' = "L133" /\ a' = b /\ adda' = FALSE
  /\ UNCHANGED <<field, sizes, b, lens>>

----------------------------------------------------------------------------
(* reduce.c: groups may be split so that their lengths take fewer bits. *)

lx == Len(groups)
novref == Min({groups[i].nov : i \in 1..lx})
Nov == [i \in 1..lx |-> groups[i].nov - novref]
kbit == Bits(Max(Range(Nov)))

\* ibit + jbit, the bits of a group's minimum and of its width.
InfoBits ==
  LET widths == {groups[i].bits : i \in 1..lx}
  IN Bits(Max({0} \cup {groups[i].min : i \in 1..lx})) + Bits(Max(widths) - Min(widths))

\* The new boxes of group i for lengths of j bits.
NewBoxes(i, j) ==
  LET n == Nov[i]
      first == (n - 1) \div (2^j - 1) + 1
      m == Min({q \in first..(first + n) : (n + q - 1) \div q < 2^j})
  IN IF n < 2^j THEN 0 ELSE m - 1
SumBoxes(j) == Total([i \in 1..lx |-> NewBoxes(i, j)])

iorigb == (InfoBits + kbit) * lx
TotalBits(j) == IF j = kbit THEN iorigb ELSE (InfoBits + j) * (lx + SumBoxes(j))

\* jj: the length of 2 bits or more before which the total stops falling, else 0.
jj == LET rises == {j \in 2..(kbit - 1) : TotalBits(j) >= TotalBits(j + 1)}
      IN IF rises = {} THEN 0 ELSE Max(rises) + 1

\* ntotbt[jj - 1], which is the word before the array for jj = 0.
BestTotal == IF jj > 0 THEN TotalBits(jj) ELSE IF kbit = 0 THEN iorigb ELSE Before
\* Of no bits at all nothing is saved: 0 / 0 is not a number.
Better == iorigb > 0 /\ (iorigb - BestTotal) * 100 >= 2 * iorigb

\* newboxp and newboxtp, as the last length that was an improvement left them.
LastBetter == IF kbit <= 2 \/ jj = kbit THEN 0 ELSE IF jj = 0 THEN 2 ELSE jj
NewBoxP(i) == IF LastBetter = 0 THEN 0 ELSE NewBoxes(i, LastBetter)
newboxtp == IF LastBetter = 0 THEN Boxes ELSE SumBoxes(LastBetter)

\* Division of C.
Quotient(n, d) == IF n >= 0 THEN n \div d ELSE -((-n) \div d)

Movmin(i) ==
  LET n == NewBoxP(i)
      largest == 2^jj - 1
  IN IF n * (largest + novref) + novref > Nov[i] + novref
     THEN Quotient(Nov[i] - n * novref, n) ELSE largest

Divides(i) ==
  LET n == NewBoxP(i)
      each == Movmin(i) + novref
  IN \/ n = 0
     \/ each * n + novref <= groups[i].nov /\ each * (n + 1) >= groups[i].nov

\* For comparison: what every box has besides is not counted as moved.
BoxesLessMoved(i) ==
  LET left[n \in 0..NewBoxP(i)] ==
        IF n = 0 THEN Nov[i] ELSE left[n - 1] - Min({Movmin(i), left[n - 1]})
  IN Reverse([n \in 1..(NewBoxP(i) + 1) |-> Min({Movmin(i), left[n - 1]}) + novref])

\* The boxes of group i, the last of which is filled first.
BoxesOf(i) ==
  LET left[n \in 0..NewBoxP(i)] ==
        IF n = 0 THEN Nov[i] ELSE left[n - 1] - Min({Movmin(i), left[n - 1]}) - novref
  IN Reverse([n \in 1..(NewBoxP(i) + 1) |-> Min({Movmin(i), left[n - 1]}) + novref])

Unreduced == [i \in 1..lx |-> groups[i].nov]

\* The boxes are filled from the last one of newboxtp new ones down: with a count that an
\* earlier call left, the first groups stay before them as they were.
Reduced ==
  SubSeq(Unreduced, 1, IF LastBetter = 0 THEN Boxes ELSE 0)
    \o FlattenSeq([i \in 1..lx |-> BoxesOf(i)])

Aborts == Better /\ (lx + newboxtp > field.ndg \/ \E i \in 1..lx : ~Divides(i))

\* L209: the lengths are reduced, or, when that fails, all is done again without it.
Finish ==
  /\ pc = "L209"
  /\ \/ /\ sizes.ired = 1 \/ lx = 1 \/ ~Better
        /\ lens' = Unreduced
        /\ pc' = "done"
        /\ UNCHANGED sizes
     \/ /\ sizes.ired = 0 /\ lx > 1 /\ Better /\ ~Aborts
        /\ lens' = Reduced
        /\ pc' = "done"
        /\ UNCHANGED sizes
     \/ /\ sizes.ired = 0 /\ lx > 1 /\ Aborts
        /\ sizes' = [kinc |-> Inc, lminpk |-> field.minpk, ired |-> 1]
        /\ pc' = "L105"
        /\ UNCHANGED lens
  /\ UNCHANGED <<field, a, b, adda, groups>>

----------------------------------------------------------------------------

\* A call of pack_gp for the field f.
Call(f) ==
  /\ field' = f
  /\ pc' = "L105"
  /\ sizes' = [kinc |-> Inc, lminpk |-> f.minpk, ired |-> 0]
  /\ UNCHANGED <<a, b, adda, groups, lens>>

PackGp ==
  \/ FirstGroup \/ SecondGroup \/ CloseA \/ GiveBack \/ KeepA \/ ExtendA
  \/ Close \/ Finish
=============================================================================

----------------------------- MODULE ComplexPk -----------------------------
(* The groups of complex packing as wgrib2 chooses them, complex_pk.c: the    *)
(* list of sections starts with the runs of equal values, neighbours are      *)
(* merged while that saves bits, longer sections are tried, points are passed *)
(* over the borders, and neighbours are merged a last time.                   *)
(* A section holds the points i0 .. i1; IntMax is an undefined point.         *)
EXTENDS PackedMessage

CONSTANTS
  LenSecMax,  \* the first LEN_SEC_MAX, 127 in complex_pk.c
  LenBits,    \* the first LEN_BITS, 7
  LenBitsEnd, \* 25, the bits at which no longer sections are tried
  GroupWidth  \* est_group_width, 6

ASSUME SectionAssumption ==
  /\ LenSecMax \in Nat \ {0} /\ LenBits \in Nat /\ LenBitsEnd \in Nat /\ GroupWidth \in Nat

VARIABLES
  grid,      \* [v, has_undef, vmx]: what is packed
  label,     \* "runs", "grow", "longer", "exchange", "last" or "sections"
  list,      \* the sections
  at,        \* h of merge_j, s of exchange: a place in list
  krange,    \* the largest range that is merged
  limit,     \* [max, bits]: LEN_SEC_MAX and LEN_BITS
  backup     \* [list, size]: list_backup and j0

sectionVars == <<grid, label, list, at, krange, limit, backup>>

IntMax == 2147483647

\* The bits of a section of n points.
SizeOf(mn, mx, missing, n) ==
  LET head == find_nbits(grid.vmx + grid.has_undef) + limit.bits + GroupWidth
  IN IF mn = IntMax THEN head
     ELSE IF mn = mx THEN head + (IF missing THEN n * grid.has_undef ELSE 0)
     ELSE head + n * find_nbits(mx - mn + grid.has_undef)
sizeofsection(s) == SizeOf(s.mn, s.mx, s.missing, s.i1 - s.i0 + 1)
size_all == Octets(Total([i \in DOMAIN list |-> sizeofsection(list[i])]))

\* Two neighbours as one.
Joined(s, t) ==
  LET low == IF s.mn < t.mn THEN s.mn ELSE t.mn
      high == IF s.mx > t.mx THEN s.mx ELSE t.mx
  IN [mn |-> low, i0 |-> s.i0, i1 |-> t.i1, missing |-> s.missing \/ t.missing,
      mx |-> IF t.mn = IntMax THEN s.mx ELSE IF s.mn = IntMax THEN t.mx ELSE high]

\* The bits that joining s and t saves, -1 when they may not be joined.
Saving(s, t) ==
  LET u == Joined(s, t)
  IN IF t.i1 - s.i0 < limit.max /\ u.mx - u.mn <= krange
     THEN sizeofsection(s) + sizeofsection(t) - sizeofsection(u) ELSE -1

SavingAt(i) == IF i < Len(list) THEN Saving(list[i], list[i + 1]) ELSE -1

JoinAt(i) ==
  SubSeq(list, 1, i - 1) \o <<Joined(list[i], list[i + 1])>> \o SubSeq(list, i + 2, Len(list))

\* The runs of equal values, none longer than LEN_SEC_MAX.
Single(i) == [mn |-> grid.v[i], mx |-> grid.v[i], missing |-> grid.v[i] = IntMax,
              i0 |-> i, i1 |-> i]
AddPoint(runs, i) ==
  IF runs # <<>> /\ i - Last(runs).i0 < limit.max /\ grid.v[i] = Last(runs).mn
  THEN [runs EXCEPT ![Len(runs)].i1 = i] ELSE Append(runs, Single(i))
Runs ==
  LET runs[i \in 0..Len(grid.v)] == IF i = 0 THEN <<>> ELSE AddPoint(runs[i - 1], i)
  IN runs[Len(grid.v)]

FirstRange == IF grid.has_undef = 1 THEN 2 ELSE 1

\* After the loop over k, or when it is not entered, longer sections are tried.
Grow(next) == next < grid.vmx \div 2

MakeRuns ==
  /\ label = "runs"
  /\ list' = Runs
  /\ at' = 1
  /\ krange' = FirstRange
  /\ label' = IF Grow(FirstRange) THEN "grow" ELSE "try"
  /\ UNCHANGED <<grid, limit, backup>>

\* One step of merge_j: the section at is joined with the next, or the next with the one
\* after it, or neither, whichever saves most.
MergeStep ==
  /\ label \in {"grow", "longer", "last"}
  /\ at < Len(list)
  /\ LET first == SavingAt(at)
         second == SavingAt(at + 1)
     IN \/ /\ first >= second /\ first >= 0
           /\ list' = JoinAt(at)
           /\ at' = Max({1, at - 1})
        \/ /\ second > first /\ second >= 0
           /\ list' = JoinAt(at + 1)
           /\ at' = at
        \/ /\ first < 0 /\ second < 0
           /\ at' = at + 1
           /\ list' = list
  /\ UNCHANGED <<grid, label, krange, limit, backup>>

Merged == at >= Len(list)

Grown ==
  /\ label = "grow" /\ Merged
  /\ krange' = 2 * krange + 1 + grid.has_undef
  /\ at' = 1
  /\ label' = IF Grow(krange') THEN "grow" ELSE "try"
  /\ UNCHANGED <<grid, list, limit, backup>>

\* Sections of twice the length, as long as the last doubling made the message shorter.
TryLonger ==
  /\ label = "try"
  /\ backup' = [list |-> list, size |-> size_all]
  /\ limit' = [max |-> 2 * limit.max + 1, bits |-> limit.bits + 1]
  /\ label' = "longer"
  /\ at' = 1
  /\ UNCHANGED <<grid, list, krange>>

Longer ==
  /\ label = "longer" /\ Merged
  /\ at' = 1
  /\ IF size_all > backup.size
     THEN /\ list' = backup.list
          /\ limit' = [max |-> (limit.max - 1) \div 2, bits |-> limit.bits - 1]
     ELSE UNCHANGED <<list, limit>>
  /\ label' = IF size_all < backup.size /\ limit.bits < LenBitsEnd THEN "try" ELSE "exchange"
  /\ UNCHANGED <<grid, krange, backup>>

----------------------------------------------------------------------------
(* exchange: a border moves towards the section of more bits. *)

SectionBits(s) ==
  IF s.mn = IntMax THEN 0
  ELSE IF s.mn = s.mx THEN IF s.missing THEN 1 ELSE 0
  ELSE find_nbits(s.mx - s.mn + grid.has_undef)

\* For comparison: the extremes stay when the point that had one goes.
WithoutLook(s, i0, i1, val) == [s EXCEPT !.i0 = i0, !.i1 = i1]
\* Section s without one of its points, of value val.
Without(s, i0, i1, val) ==
  LET values == {grid.v[i] : i \in i0..i1}
  IN [s EXCEPT !.i0 = i0, !.i1 = i1,
               !.mx = IF val = s.mx THEN Max(values) ELSE @,
               !.mn = IF val # s.mx /\ val = s.mn THEN Min(values) ELSE @]

Exchange ==
  /\ label = "exchange" /\ at < Len(list)
  /\ LET s == list[at]
         t == list[at + 1]
         first == grid.v[t.i0]
         last == grid.v[s.i1]
         Room(x) == x.i1 - x.i0 < limit.max
         whole == ~s.missing /\ ~t.missing
         left == /\ whole /\ SectionBits(s) < SectionBits(t) /\ Room(s)
                 /\ first >= s.mn /\ first <= s.mx
         right == /\ whole /\ SectionBits(s) > SectionBits(t) /\ Room(t)
                  /\ last >= t.mn /\ last <= t.mx
     IN \/ /\ left
           /\ list' = [list EXCEPT ![at].i1 = t.i0,
                                   ![at + 1] = Without(t, t.i0 + 1, t.i1, first)]
           /\ at' = at
        \/ /\ right
           /\ list' = [list EXCEPT ![at] = Without(s, s.i0, s.i1 - 1, last),
                                   ![at + 1].i0 = s.i1]
           /\ at' = at
        \/ /\ ~left /\ ~right
           /\ at' = at + 1
           /\ list' = list
  /\ UNCHANGED <<grid, label, krange, limit, backup>>

Exchanged ==
  /\ label = "exchange" /\ Merged
  /\ label' = "last"
  /\ at' = 1
  /\ krange' = grid.vmx
  /\ UNCHANGED <<grid, list, limit, backup>>

LastMerged ==
  /\ label = "last" /\ Merged
  /\ label' = "sections"
  /\ UNCHANGED <<grid, list, at, krange, limit, backup>>

Sections ==
  \/ MakeRuns \/ MergeStep \/ Grown \/ TryLonger \/ Longer
  \/ Exchange \/ Exchanged \/ LastMerged
=============================================================================

--------------------------- MODULE PackedMessage ---------------------------
(* Sections 5 and 7 of packed fields and the four decoders that read them:    *)
(* comunpack.c and simunpack.c of g2clib, unpk_complex.c and unpk_0.c of      *)
(* wgrib2.  A message keeps each number as the bits that were written of it.  *)
EXTENDS Totals, FiniteSets, SequencesExt, FiniteSetsExt

CONSTANTS
  None,     \* an undefined value: the primary missing value of the templates
  Second    \* the secondary missing value

\* The low bits of v, which sbits and add_many_bitstream write.
Low(v, bits) == v % (2^bits)
Octets(bits) == (bits + 7) \div 8

\* The number of bits of n >= 0.
find_nbits(n) == Min({j \in 0..30 : n < 2^j})

\* Sign and magnitude.
Signed(v, bits) == IF v >= 0 THEN Low(v, bits) ELSE 2^(bits - 1) + Low(-v, bits - 1)
FromSigned(code, bits) ==
  IF code >= 2^(bits - 1) THEN -(code - 2^(bits - 1)) ELSE code

Concat(seqs) == FlattenSeq(seqs)

\* n times 2^e, the value of a scaled integer; halves are the only fractions that occur.
Scaled(n, e) == IF e >= 0 THEN n * 2^e ELSE n \div 2^(-e)

----------------------------------------------------------------------------
(* Complex packing.  m has for each group the coded reference, width and length, and for *)
(* each point the bits of the group it is in.                                            *)

Width(m, g) == m.widths[g] + m.widthref
Length(m, g) == IF g = m.ngroups THEN m.last ELSE m.lengths[g] + m.lengthref
Lengths(m) == [g \in 1..m.ngroups |-> Length(m, g)]
GroupOfPoint(m) == Concat([g \in 1..m.ngroups |-> [i \in 1..Length(m, g) |-> g]])
DataBits(m) == Total([g \in 1..m.ngroups |-> Width(m, g) * Length(m, g)])

\* Octets before the packed values, and all octets of section 7 after its header.
HeadOctets(m) ==
  (IF m.order = 0 THEN 0 ELSE (m.order + 1) * m.extraOctets)
    + Octets(m.nbits * m.ngroups) + Octets(m.widthbits * m.ngroups)
    + Octets(m.lengthbits * m.ngroups)

\* Which missing value the code of a point stands for: 0 none, 1 primary, 2 secondary.
MissingKind(m, g, code) ==
  LET all == 2^(IF Width(m, g) = 0 THEN m.nbits ELSE Width(m, g)) - 1
      c == IF Width(m, g) = 0 THEN m.refs[g] ELSE code
  IN IF m.missing >= 1 /\ c = all THEN 1
     ELSE IF m.missing = 2 /\ c = all - 1 THEN 2 ELSE 0

Kinds(m) ==
  LET of == GroupOfPoint(m) IN [i \in 1..m.ndpts |-> MissingKind(m, of[i], m.codes[i])]
\* The values that are there, in order.
Present(m) ==
  LET of == GroupOfPoint(m)
      kinds == Kinds(m)
      points == SelectSeq([i \in 1..m.ndpts |-> i], LAMBDA i : kinds[i] = 0)
  IN [n \in 1..Len(points) |-> m.codes[points[n]] + m.refs[of[points[n]]]]

\* Spatial differences are summed up from the first values on.
Summed(m, s) ==
  LET min == FromSigned(m.minsd, 8 * m.extraOctets)
      Sum(f, d) ==
        LET n == Len(f) + 1
        IN Append(f, IF n <= m.order THEN m.extra[n]
                     ELSE IF m.order = 1 THEN d + min + f[n - 1]
                     ELSE d + min + 2 * f[n - 1] - f[n - 2])
  IN IF m.order = 0 THEN s ELSE FoldLeft(Sum, <<>>, s)

\* The field of kinds and values; missing[kind] is what stands for a missing point.
Field(m, missing) ==
  LET values == Summed(m, Present(m))
      kinds == Kinds(m)
      nth == [i \in 1..m.ndpts |-> Cardinality({j \in 1..i : kinds[j] = 0})]
  IN [i \in 1..m.ndpts |-> IF kinds[i] = 0 THEN Scaled(values[nth[i]], m.bin) + m.ref
                           ELSE missing[kinds[i]]]

Constant(m) == [i \in 1..m.ndpts |-> m.ref]
Unreadable == <<"unreadable">>

\* g2clib: lengths and widths have to fit the number of values and the section's length.
comunpack(m) ==
  IF m.ngroups = 0 THEN Constant(m)
  ELSE IF Total(Lengths(m)) # m.ndpts \/ DataBits(m) > 8 * (m.octets + 5) THEN Unreadable
  ELSE Field(m, <<None, Second>>)

\* The field of which the bitmap keeps the points of m.
Expanded(m, values) ==
  IF m.bitmap = <<>> THEN values
  ELSE [i \in 1..Len(m.bitmap) |->
          IF m.bitmap[i] THEN values[Cardinality({j \in 1..i : m.bitmap[j]})] ELSE None]

\* wgrib2: the octets have to be those of the section, and both missing values are undefined.
unpk_complex(m) ==
  IF m.ngroups = 0 THEN Expanded(m, Constant(m))
  ELSE IF \/ Total(Lengths(m)) # m.ndpts
          \/ HeadOctets(m) + Octets(DataBits(m)) # m.octets
       THEN Unreadable
  ELSE Expanded(m, Field(m, <<None, None>>))

----------------------------------------------------------------------------
(* Simple packing: a reference value and codes of nbits bits. *)

\* g2clib: a field of no bits has its reference value everywhere.
simunpack(m) ==
  [i \in 1..m.ndpts |-> IF m.nbits = 0 THEN m.ref ELSE Scaled(m.codes[i], m.bin) + m.ref]

unpk_0(m) ==
  Expanded(m, [i \in 1..m.ndpts |-> Scaled(IF m.nbits = 0 THEN 0 ELSE m.codes[i], m.bin) + m.ref])
=============================================================================

---------------------------- MODULE G2Templates ----------------------------
(* The templates of g2clib (gridtemplates.c, pdstemplates.c,               *)
(* drstemplates.c and the loops over them in g2_add*.c and g2_unpack*.c).  *)
(* A template is a list of integers.  Its map gives the octets of each     *)
(* entry, negative for an entry stored as sign and magnitude; some         *)
(* templates are extended by a map that depends on their own entries.      *)
(* C arrays start at 0, the sequences here at 1.                           *)
EXTENDS Integers, Sequences

CONSTANT OctetBits      \* the bits of an octet: 8 in the code

ASSUME OctetBitsAssumption == OctetBits \in Nat /\ OctetBits > 1

Abs(n) == IF n < 0 THEN -n ELSE n

Bits(m) == Abs(m) * OctetBits

----------------------------------------------------------------------------
(* The rows of the tables the models use. *)

NoExt(map) == [map |-> map, needext |-> FALSE]
NeedExt(map) == [map |-> map, needext |-> TRUE]

gridRows == {0, 50, 120}
templatesgrid ==
  [n \in gridRows |->
     CASE n = 0   -> NoExt(<<1,1,4,1,4,1,4,4,4,4,4,-4,4,1,-4,4,4,4,1>>)
       [] n = 50  -> NoExt(<<4,4,4,1,1>>)
       [] n = 120 -> NeedExt(<<4,4,-4,4,4,4,1>>)]

\* Parts that many product templates share: a product at a point in time, at a
\* point in time without levels, an ensemble member, a cluster, a range of time.
Point == <<1, 1, 1, 1, 1, 2, 1, 1, 4>>
Levels == <<1, -1, -4, 1, -1, -4>>
Product == Point \o Levels
Member == <<1, 1, 1>>
Cluster == <<1, 1, 1, 1, 1, 1, 1>>
Probability == <<1, 1, 1, -1, -4, -1, -4>>
Statistics == <<1, 1, 1, 4, 1, 4>>
Range_ == <<2, 1, 1, 1, 1, 1, 1, 4>> \o Statistics
Chemical == <<1, 1, 2, 1, 1, 1, 2, 1, 1, 4>> \o Levels
SizeInterval == <<1, -1, -4, -1, -4>>
Aerosol == <<1, 1, 2>> \o SizeInterval \o <<1, 1, 1, 2, 1, 1, 4>> \o Levels

pdsRows == 0 .. 15 \cup {20} \cup 30 .. 32 \cup 40 .. 48 \cup 50 .. 52
           \cup {91, 254, 1000, 1001, 1002, 1100, 1101}
templatespds ==
  [n \in pdsRows |->
     CASE n \in {0, 7, 1100} -> NoExt(Product)
       [] n = 1   -> NoExt(Product \o Member)
       [] n = 2   -> NoExt(Product \o <<1, 1>>)
       [] n = 3   -> NeedExt(Product \o Cluster \o <<-4, -4, 4, 4, 1, -1, 4, -1, 4>>)
       [] n = 4   -> NeedExt(Product \o Cluster \o <<-4, 4, 4, 1, -1, 4, -1, 4>>)
       [] n = 5   -> NoExt(Product \o Probability)
       [] n = 6   -> NoExt(Product \o <<1>>)
       [] n = 8   -> NeedExt(Product \o Range_)
       [] n = 9   -> NeedExt(Product \o Probability \o Range_)
       [] n = 10  -> NeedExt(Product \o <<1>> \o Range_)
       [] n = 11  -> NeedExt(Product \o Member \o Range_)
       [] n = 12  -> NeedExt(Product \o <<1, 1>> \o Range_)
       [] n = 13  -> NeedExt(Product \o Cluster \o <<-4, -4, 4, 4, 1, -1, 4, -1, 4>> \o Range_)
       [] n = 14  -> NeedExt(Product \o Cluster \o <<-4, 4, 4, 1, -1, 4, -1, 4>> \o Range_)
       [] n = 15  -> NoExt(Product \o <<1, 1, 1>>)
       [] n = 20  -> NoExt(<<1, 1, 1, 1, 1, -4, 4, 2, 4, 2, 1, 1, 1, 1, 1, 2, 1, 3, 2>>)
       [] n \in {30, 31} -> NeedExt(<<1, 1, 1, 1, 1>>)
       [] n = 32  -> NeedExt(<<1, 1, 1, 1, 1, 2, 1, 1, 2, 1>>)
       [] n = 40  -> NoExt(Chemical)
       [] n = 41  -> NoExt(Chemical \o Member)
       [] n = 42  -> NeedExt(Chemical \o Range_)
       [] n = 43  -> NeedExt(Chemical \o Member \o Range_)
       [] n = 44  -> NoExt(<<1, 1, 2>> \o SizeInterval \o <<1, 1, 1, 2, 1, 1, 2>> \o Levels)
       [] n = 45  -> NoExt(Aerosol \o Member)
       [] n = 46  -> NeedExt(Aerosol \o Range_)
       [] n = 47  -> NeedExt(<<1, 1, 1, 2>> \o SizeInterval \o <<1, 1, 2, 1, 1, 4>>
                             \o Levels \o Member \o Range_)
       [] n = 48  -> NoExt(<<1, 1, 2>> \o SizeInterval \o SizeInterval
                           \o <<1, 1, 1, 2, 1, 1, 4>> \o Levels)
       [] n = 50  -> NoExt(Product \o <<1, 1, 4, 4, 4, 4>>)
       [] n \in {51, 91} -> NeedExt(Product \o <<1>>)
       [] n = 52  -> NoExt(<<1, 1, 1, 1, 1, 1, 1, 1, 2, 1, 1, 4, 1, -1, -4>>)
       [] n = 254 -> NoExt(<<1, 1, 4>>)
       [] n = 1000 -> NoExt(Point)
       [] n = 1001 -> NoExt(Point \o <<4>> \o Statistics)
       [] n = 1002 -> NoExt(Point \o <<1, 1, 1, 4, 4, 2>>)
       [] n = 1101 -> NoExt(Product \o <<4>> \o Statistics)]

drsRows == {0, 2, 3, 40, 41, 50, 51, 40000, 40010}

----------------------------------------------------------------------------
(* The extensions. *)

\* (index of the number of time ranges, first of the six entries of a range)
TimeRange ==
  [n \in {8, 9, 10, 11, 12, 13, 14, 42, 43, 46, 47} |->
     CASE n = 8  -> <<21, 23>>  [] n = 9  -> <<28, 30>>  [] n = 10 -> <<22, 24>>
       [] n = 11 -> <<24, 26>>  [] n = 12 -> <<23, 25>>  [] n = 13 -> <<37, 39>>
       [] n = 14 -> <<36, 38>>  [] n = 42 -> <<22, 24>>  [] n = 43 -> <<25, 27>>
       [] n = 46 -> <<27, 29>>  [] n = 47 -> <<30, 32>>]

\* The index of the number of forecasts of a cluster.
ClusterCount3 == [n \in {3, 4, 13, 14} |-> 26]
ClusterCount == [n \in {3, 4, 13, 14} |-> IF n \in {3, 13} THEN 26 ELSE 25]

MoreRanges(n, map, list) ==
  LET count == list[TimeRange[n][1] + 1]
      first == TimeRange[n][2]
  IN  [i \in 1 .. (IF count > 1 THEN 6 * (count - 1) ELSE 0) |->
         map[first + 1 + ((i - 1) % 6)]]

\* A band of a satellite: series, number, instrument, scale factor and value.
Band(n, i) == <<2, 2, IF n = 30 THEN 1 ELSE 2, 1, 4>>[1 + ((i - 1) % 5)]

Ones(count) == [i \in 1 .. count |-> 1]

\* Template 32 is given ten entries per band and only the widths of the first half
\* are set: the others are 0 here, and no model has a message of it.  Templates 51
\* and 91 have no extension: their branches are nested in the one of template 47.
extpdstemplate(n, map, list) ==
  CASE n \in {13, 14} ->
         LET forecasts == list[ClusterCount[n] + 1]
             extlen == (list[TimeRange[n][1] + 1] - 1) * 6 + forecasts
         IN  SubSeq(MoreRanges(n, map, list) \o Ones(forecasts), 1, extlen)
    [] n \in DOMAIN TimeRange \ {13, 14} -> MoreRanges(n, map, list)
    [] n \in {3, 4} -> Ones(list[ClusterCount[n] + 1])
    [] n \in {30, 31} -> [i \in 1 .. 5 * list[5] |-> Band(n, i)]
    [] n = 32 -> [i \in 1 .. 10 * list[10] |-> IF i <= 5 * list[10] THEN Band(n, i) ELSE 0]
    [] OTHER -> <<>>

extgridtemplate(n, list) ==
  CASE n = 120  -> [i \in 1 .. 2 * list[2] |-> IF i % 2 = 1 THEN 2 ELSE -2]
    [] n = 1000 -> [i \in 1 .. list[20] |-> 4]
    [] n = 1200 -> [i \in 1 .. list[16] |-> 4]
    [] OTHER    -> <<>>

\* The whole map of a product template with these entries.
PdsMap(n, list) ==
  LET t == templatespds[n]
  IN  IF t.needext THEN t.map \o extpdstemplate(n, t.map, list) ELSE t.map

GridMap(n, list) ==
  LET t == templatesgrid[n]
  IN  IF t.needext THEN t.map \o extgridtemplate(n, list) ELSE t.map

----------------------------------------------------------------------------
(* Entries of the template in the message. *)

\* Storing takes the low order bits of a value; a negative value of a signed
\* entry is a sign bit and the low order bits of its magnitude.
PutEntry(m, v) ==
  IF m >= 0 \/ v >= 0
  THEN v % 2^Bits(m)
  ELSE 2^(Bits(m) - 1) + ((-v) % 2^(Bits(m) - 1))

GetEntry(m, code) ==
  IF m >= 0 \/ code < 2^(Bits(m) - 1)
  THEN code
  ELSE 2^(Bits(m) - 1) - code

Put(map, list) == [i \in 1 .. Len(map) |-> PutEntry(map[i], list[i])]

\* Whether a value can be stored in an entry, and a list in the entries of a map.
FitsEntry(m, v) ==
  IF m >= 0 THEN v \in 0 .. 2^Bits(m) - 1
  ELSE v \in -(2^(Bits(m) - 1) - 1) .. 2^(Bits(m) - 1) - 1

Fits(map, list) ==
  /\ list \in Seq(Int)
  /\ Len(list) = Len(map)
  /\ \A i \in 1 .. Len(map) : FitsEntry(map[i], list[i])

\* The static part is read first and gives the rest of the map.
GetPds(n, codes) ==
  LET t == templatespds[n]
      static == [i \in 1 .. Len(t.map) |-> GetEntry(t.map[i], codes[i])]
      map == PdsMap(n, static)
  IN  [i \in 1 .. Len(map) |-> GetEntry(map[i], codes[i])]

GetGrid(n, codes) ==
  LET t == templatesgrid[n]
      static == [i \in 1 .. Len(t.map) |-> GetEntry(t.map[i], codes[i])]
      map == GridMap(n, static)
  IN  [i \in 1 .. Len(map) |-> GetEntry(map[i], codes[i])]
=============================================================================

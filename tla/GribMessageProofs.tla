-------------------------- MODULE GribMessageProofs -------------------------
(***************************************************************************)
(* For every choice of grids, products, bitmaps, fields and packing        *)
(* methods: the sections of a message are in an order a reader accepts,    *)
(* what the caller is told is a list of fields (GribFields), and wgrib2    *)
(* and g2_getfld find in a message the fields its caller added, but for    *)
(* those g2_getfld refuses; g2_info counts them.  First, that the entries  *)
(* of a template come back from its octets.                                *)
(***************************************************************************)
EXTENDS GribMessage, DataInduction, SequenceTheorems, FiniteSetTheorems, TLAPS

-----------------------------------------------------------------------------
(* For every size of an octet: a grid or a product whose entries fit their *)
(* octets is read from a message as it was written.                        *)

LEMMA PowerOfTwo ==
  ASSUME NEW n \in Nat
  PROVE  2^n \in Nat \ {0} /\ 2^n <= 2^(n + 1)
<1> DEFINE sets(k) == SUBSET (1..k)
<1>1. ASSUME NEW k \in Nat PROVE IsFiniteSet(sets(k)) /\ Cardinality(sets(k)) = 2^k
  <2>1. IsFiniteSet(1..k) /\ Cardinality(1..k) = k
    BY FS_Interval
  <2> QED BY <2>1, FS_SUBSET
<1>2. n + 1 \in Nat
  OBVIOUS
<1>3. sets(n) \subseteq sets(n + 1) /\ sets(n) # {}
  <2>1. 1..n \subseteq 1..n + 1 /\ {} \in sets(n)
    OBVIOUS
  <2> QED BY <2>1
<1> HIDE DEF sets
<1>4. Cardinality(sets(n)) \in Nat /\ Cardinality(sets(n)) # 0
  BY <1>1, <1>3, FS_CardinalityType, FS_EmptySet
<1>5. Cardinality(sets(n)) <= Cardinality(sets(n + 1))
  BY <1>1, <1>2, <1>3, FS_Subset
<1> QED BY <1>1, <1>2, <1>4, <1>5

LEMMA SmallRemainder ==
  ASSUME NEW P \in Nat \ {0}, NEW v \in 0..P - 1
  PROVE  v % P = v
OBVIOUS

LEMMA SomeBits ==
  ASSUME NEW m \in Int
  PROVE  /\ Bits(m) \in Nat
         /\ m < 0 => Bits(m) - 1 \in Nat
BY OctetBitsAssumption DEF Bits, Abs

LEMMA EntryReadsBack ==
  ASSUME NEW m \in Int, NEW v \in Int, FitsEntry(m, v)
  PROVE  GetEntry(m, PutEntry(m, v)) = v
<1> DEFINE P == 2^Bits(m)
           H == 2^(Bits(m) - 1)
<1>1. CASE m >= 0
  <2>1. P \in Nat \ {0}
    BY SomeBits, PowerOfTwo
  <2>2. v \in 0..P - 1
    BY <1>1 DEF FitsEntry
  <2>3. v % P = v
    <3> HIDE DEF P
    <3> QED BY <2>1, <2>2, SmallRemainder
  <2> QED BY <1>1, <2>3 DEF PutEntry, GetEntry
<1>2. CASE m < 0
  <2>1. Bits(m) \in Nat /\ Bits(m) - 1 \in Nat /\ (Bits(m) - 1) + 1 = Bits(m)
    BY <1>2, SomeBits
  <2>2. P \in Nat \ {0} /\ H \in Nat \ {0} /\ H <= P
    BY <2>1, PowerOfTwo
  <2>3. v \in -(H - 1)..H - 1 /\ ~(m >= 0)
    BY <1>2 DEF FitsEntry
  <2>4. CASE v >= 0
    <3>1. v \in 0..P - 1
      <4> HIDE DEF P, H
      <4> QED BY <2>2, <2>3, <2>4
    <3>2. v % P = v
      <4> HIDE DEF P
      <4> QED BY <2>2, <3>1, SmallRemainder
    <3>3. PutEntry(m, v) = v
      BY <2>4, <3>2 DEF PutEntry
    <3>4. v < H
      <4> HIDE DEF P, H
      <4> QED BY <2>2, <2>3
    <3> QED BY <3>3, <3>4 DEF GetEntry
  <2>5. CASE v < 0
    <3>1. -v \in 0..H - 1
      <4> HIDE DEF P, H
      <4> QED BY <2>2, <2>3, <2>5
    <3>2. (-v) % H = -v
      <4> HIDE DEF H
      <4> QED BY <2>2, <3>1, SmallRemainder
    <3>3. PutEntry(m, v) = H + (-v)
      BY <2>3, <2>5, <3>2 DEF PutEntry
    <3>4. GetEntry(m, H + (-v)) = IF H + (-v) < H THEN H + (-v) ELSE H - (H + (-v))
      BY <2>3 DEF GetEntry
    <3>5. ~(H + (-v) < H) /\ H - (H + (-v)) = v
      <4> HIDE DEF P, H
      <4> QED BY <2>2, <2>5
    <3> QED BY <3>3, <3>4, <3>5
  <2> QED BY <2>4, <2>5
<1> QED BY <1>1, <1>2

MapOf(s, k) == s \in Seq(Int) /\ Len(s) = k

LEMMA MapConcat ==
  ASSUME NEW s, NEW t, NEW j \in Nat, NEW k \in Nat, MapOf(s, j), MapOf(t, k)
  PROVE  MapOf(s \o t, j + k)
BY SMTT(40) DEF MapOf

LEMMA Parts ==
  /\ MapOf(Point, 9) /\ MapOf(Levels, 6) /\ MapOf(Product, 15) /\ MapOf(Member, 3)
  /\ MapOf(Cluster, 7) /\ MapOf(Probability, 7) /\ MapOf(Statistics, 6)
  /\ MapOf(Range_, 14) /\ MapOf(Chemical, 16) /\ MapOf(SizeInterval, 5)
  /\ MapOf(Aerosol, 21)
BY DEF Point, Levels, Product, Member, Cluster, Probability, Statistics, Range_,
  Chemical, SizeInterval, Aerosol, MapOf

RowOf(n) == templatespds[n].map

LEMMA ProductRows ==
  ASSUME NEW n \in pdsRows
  PROVE  /\ RowOf(n) \in Seq(Int)
         /\ n \in DOMAIN TimeRange => TimeRange[n][1] + 1 \in 1..Len(RowOf(n))
                                      /\ TimeRange[n][2] \in Nat
                                      /\ TimeRange[n][2] + 6 = Len(RowOf(n))
         /\ n \in {3, 4, 13, 14} => ClusterCount[n] + 1 \in 1..Len(RowOf(n))
         /\ n \in {30, 31} => Len(RowOf(n)) = 5
         /\ n = 32 => Len(RowOf(n)) = 10
<1> USE DEF Point, Levels, Product, Member, Cluster, Probability, Statistics, Range_,
            Chemical, SizeInterval, Aerosol, MapOf
<1>1. MapOf(Product, 15)
  OBVIOUS
<1>2. MapOf(Product \o Member, 18)
  OBVIOUS
<1>3. MapOf(Product \o <<1, 1>>, 17)
  OBVIOUS
<1>4. MapOf(Product \o Cluster \o <<-4, -4, 4, 4, 1, -1, 4, -1, 4>>, 31)
  OBVIOUS
<1>5. MapOf(Product \o Cluster \o <<-4, 4, 4, 1, -1, 4, -1, 4>>, 30)
  OBVIOUS
<1>6. MapOf(Product \o Probability, 22)
  OBVIOUS
<1>7. MapOf(Product \o <<1>>, 16)
  OBVIOUS
<1>8. MapOf(Product \o Range_, 29)
  OBVIOUS
<1>9. MapOf(Product \o Probability \o Range_, 36)
  OBVIOUS
<1>10. MapOf(Product \o <<1>> \o Range_, 30)
  OBVIOUS
<1>11. MapOf(Product \o Member \o Range_, 32)
  OBVIOUS
<1>12. MapOf(Product \o <<1, 1>> \o Range_, 31)
  OBVIOUS
<1>13. MapOf(Product \o Cluster \o <<-4, -4, 4, 4, 1, -1, 4, -1, 4>> \o Range_, 45)
  OBVIOUS
<1>14. MapOf(Product \o Cluster \o <<-4, 4, 4, 1, -1, 4, -1, 4>> \o Range_, 44)
  OBVIOUS
<1>15. MapOf(Product \o <<1, 1, 1>>, 18)
  OBVIOUS
<1>16. MapOf(<<1, 1, 1, 1, 1, -4, 4, 2, 4, 2, 1, 1, 1, 1, 1, 2, 1, 3, 2>>, 19)
  OBVIOUS
<1>17. MapOf(<<1, 1, 1, 1, 1>>, 5)
  OBVIOUS
<1>18. MapOf(<<1, 1, 1, 1, 1, 2, 1, 1, 2, 1>>, 10)
  OBVIOUS
<1>19. MapOf(Chemical, 16)
  OBVIOUS
<1>20. MapOf(Chemical \o Member, 19)
  OBVIOUS
<1>21. MapOf(Chemical \o Range_, 30)
  OBVIOUS
<1>22. MapOf(Chemical \o Member \o Range_, 33)
  OBVIOUS
<1>23. MapOf(<<1, 1, 2>> \o SizeInterval \o <<1, 1, 1, 2, 1, 1, 2>> \o Levels, 21)
  OBVIOUS
<1>24. MapOf(Aerosol \o Member, 24)
  OBVIOUS
<1>25. MapOf(Aerosol \o Range_, 35)
  OBVIOUS
<1>26. MapOf(<<1, 1, 1, 2>> \o SizeInterval \o <<1, 1, 2, 1, 1, 4>> \o Levels \o Member
      \o Range_, 38)
  OBVIOUS
<1>27. MapOf(<<1, 1, 2>> \o SizeInterval \o SizeInterval \o <<1, 1, 1, 2, 1, 1, 4>> \o
      Levels, 26)
  OBVIOUS
<1>28. MapOf(Product \o <<1, 1, 4, 4, 4, 4>>, 21)
  OBVIOUS
<1>29. MapOf(<<1, 1, 1, 1, 1, 1, 1, 1, 2, 1, 1, 4, 1, -1, -4>>, 15)
  OBVIOUS
<1>30. MapOf(<<1, 1, 4>>, 3)
  OBVIOUS
<1>31. MapOf(Point, 9)
  OBVIOUS
<1>32. MapOf(Point \o <<4>> \o Statistics, 16)
  OBVIOUS
<1>33. MapOf(Point \o <<1, 1, 1, 4, 4, 2>>, 15)
  OBVIOUS
<1>34. MapOf(Product \o <<4>> \o Statistics, 22)
  OBVIOUS
<1> HIDE DEF Point, Levels, Product, Member, Cluster, Probability, Statistics, Range_,
            Chemical, SizeInterval, Aerosol
<1> USE DEF RowOf, NoExt, NeedExt, TimeRange, ClusterCount
<1>35. CASE n = 0
  <2>1. templatespds[n] = NoExt(Product)
    BY <1>35 DEF templatespds, pdsRows
  <2> QED BY <1>35, <1>1, <2>1
<1>36. CASE n = 7
  <2>1. templatespds[n] = NoExt(Product)
    BY <1>36 DEF templatespds, pdsRows
  <2> QED BY <1>36, <1>1, <2>1
<1>37. CASE n = 1100
  <2>1. templatespds[n] = NoExt(Product)
    BY <1>37 DEF templatespds, pdsRows
  <2> QED BY <1>37, <1>1, <2>1
<1>38. CASE n = 1
  <2>1. templatespds[n] = NoExt(Product \o Member)
    BY <1>38 DEF templatespds, pdsRows
  <2> QED BY <1>38, <1>2, <2>1
<1>39. CASE n = 2
  <2>1. templatespds[n] = NoExt(Product \o <<1, 1>>)
    BY <1>39 DEF templatespds, pdsRows
  <2> QED BY <1>39, <1>3, <2>1
<1>40. CASE n = 3
  <2>1. templatespds[n] = NeedExt(Product \o Cluster \o <<-4, -4, 4, 4, 1, -1, 4, -1,
      4>>)
    BY <1>40 DEF templatespds, pdsRows
  <2> QED BY <1>40, <1>4, <2>1
<1>41. CASE n = 4
  <2>1. templatespds[n] = NeedExt(Product \o Cluster \o <<-4, 4, 4, 1, -1, 4, -1, 4>>)
    BY <1>41 DEF templatespds, pdsRows
  <2> QED BY <1>41, <1>5, <2>1
<1>42. CASE n = 5
  <2>1. templatespds[n] = NoExt(Product \o Probability)
    BY <1>42 DEF templatespds, pdsRows
  <2> QED BY <1>42, <1>6, <2>1
<1>43. CASE n = 6
  <2>1. templatespds[n] = NoExt(Product \o <<1>>)
    BY <1>43 DEF templatespds, pdsRows
  <2> QED BY <1>43, <1>7, <2>1
<1>44. CASE n = 8
  <2>1. templatespds[n] = NeedExt(Product \o Range_)
    BY <1>44 DEF templatespds, pdsRows
  <2> QED BY <1>44, <1>8, <2>1
<1>45. CASE n = 9
  <2>1. templatespds[n] = NeedExt(Product \o Probability \o Range_)
    BY <1>45 DEF templatespds, pdsRows
  <2> QED BY <1>45, <1>9, <2>1
<1>46. CASE n = 10
  <2>1. templatespds[n] = NeedExt(Product \o <<1>> \o Range_)
    BY <1>46 DEF templatespds, pdsRows
  <2> QED BY <1>46, <1>10, <2>1
<1>47. CASE n = 11
  <2>1. templatespds[n] = NeedExt(Product \o Member \o Range_)
    BY <1>47 DEF templatespds, pdsRows
  <2> QED BY <1>47, <1>11, <2>1
<1>48. CASE n = 12
  <2>1. templatespds[n] = NeedExt(Product \o <<1, 1>> \o Range_)
    BY <1>48 DEF templatespds, pdsRows
  <2> QED BY <1>48, <1>12, <2>1
<1>49. CASE n = 13
  <2>1. templatespds[n] = NeedExt(Product \o Cluster \o <<-4, -4, 4, 4, 1, -1, 4, -1,
      4>> \o Range_)
    BY <1>49 DEF templatespds, pdsRows
  <2> QED BY <1>49, <1>13, <2>1
<1>50. CASE n = 14
  <2>1. templatespds[n] = NeedExt(Product \o Cluster \o <<-4, 4, 4, 1, -1, 4, -1, 4>> \o
      Range_)
    BY <1>50 DEF templatespds, pdsRows
  <2> QED BY <1>50, <1>14, <2>1
<1>51. CASE n = 15
  <2>1. templatespds[n] = NoExt(Product \o <<1, 1, 1>>)
    BY <1>51 DEF templatespds, pdsRows
  <2> QED BY <1>51, <1>15, <2>1
<1>52. CASE n = 20
  <2>1. templatespds[n] = NoExt(<<1, 1, 1, 1, 1, -4, 4, 2, 4, 2, 1, 1, 1, 1, 1, 2, 1, 3,
      2>>)
    BY <1>52 DEF templatespds, pdsRows
  <2> QED BY <1>52, <1>16, <2>1
<1>53. CASE n = 30
  <2>1. templatespds[n] = NeedExt(<<1, 1, 1, 1, 1>>)
    BY <1>53 DEF templatespds, pdsRows
  <2> QED BY <1>53, <1>17, <2>1
<1>54. CASE n = 31
  <2>1. templatespds[n] = NeedExt(<<1, 1, 1, 1, 1>>)
    BY <1>54 DEF templatespds, pdsRows
  <2> QED BY <1>54, <1>17, <2>1
<1>55. CASE n = 32
  <2>1. templatespds[n] = NeedExt(<<1, 1, 1, 1, 1, 2, 1, 1, 2, 1>>)
    BY <1>55 DEF templatespds, pdsRows
  <2> QED BY <1>55, <1>18, <2>1
<1>56. CASE n = 40
  <2>1. templatespds[n] = NoExt(Chemical)
    BY <1>56 DEF templatespds, pdsRows
  <2> QED BY <1>56, <1>19, <2>1
<1>57. CASE n = 41
  <2>1. templatespds[n] = NoExt(Chemical \o Member)
    BY <1>57 DEF templatespds, pdsRows
  <2> QED BY <1>57, <1>20, <2>1
<1>58. CASE n = 42
  <2>1. templatespds[n] = NeedExt(Chemical \o Range_)
    BY <1>58 DEF templatespds, pdsRows
  <2> QED BY <1>58, <1>21, <2>1
<1>59. CASE n = 43
  <2>1. templatespds[n] = NeedExt(Chemical \o Member \o Range_)
    BY <1>59 DEF templatespds, pdsRows
  <2> QED BY <1>59, <1>22, <2>1
<1>60. CASE n = 44
  <2>1. templatespds[n] = NoExt(<<1, 1, 2>> \o SizeInterval \o <<1, 1, 1, 2, 1, 1, 2>>
      \o Levels)
    BY <1>60 DEF templatespds, pdsRows
  <2> QED BY <1>60, <1>23, <2>1
<1>61. CASE n = 45
  <2>1. templatespds[n] = NoExt(Aerosol \o Member)
    BY <1>61 DEF templatespds, pdsRows
  <2> QED BY <1>61, <1>24, <2>1
<1>62. CASE n = 46
  <2>1. templatespds[n] = NeedExt(Aerosol \o Range_)
    BY <1>62 DEF templatespds, pdsRows
  <2> QED BY <1>62, <1>25, <2>1
<1>63. CASE n = 47
  <2>1. templatespds[n] = NeedExt(<<1, 1, 1, 2>> \o SizeInterval \o <<1, 1, 2, 1, 1, 4>>
      \o Levels \o Member \o Range_)
    BY <1>63 DEF templatespds, pdsRows
  <2> QED BY <1>63, <1>26, <2>1
<1>64. CASE n = 48
  <2>1. templatespds[n] = NoExt(<<1, 1, 2>> \o SizeInterval \o SizeInterval \o <<1, 1,
      1, 2, 1, 1, 4>> \o Levels)
    BY <1>64 DEF templatespds, pdsRows
  <2> QED BY <1>64, <1>27, <2>1
<1>65. CASE n = 50
  <2>1. templatespds[n] = NoExt(Product \o <<1, 1, 4, 4, 4, 4>>)
    BY <1>65 DEF templatespds, pdsRows
  <2> QED BY <1>65, <1>28, <2>1
<1>66. CASE n = 51
  <2>1. templatespds[n] = NeedExt(Product \o <<1>>)
    BY <1>66 DEF templatespds, pdsRows
  <2> QED BY <1>66, <1>7, <2>1
<1>67. CASE n = 91
  <2>1. templatespds[n] = NeedExt(Product \o <<1>>)
    BY <1>67 DEF templatespds, pdsRows
  <2> QED BY <1>67, <1>7, <2>1
<1>68. CASE n = 52
  <2>1. templatespds[n] = NoExt(<<1, 1, 1, 1, 1, 1, 1, 1, 2, 1, 1, 4, 1, -1, -4>>)
    BY <1>68 DEF templatespds, pdsRows
  <2> QED BY <1>68, <1>29, <2>1
<1>69. CASE n = 254
  <2>1. templatespds[n] = NoExt(<<1, 1, 4>>)
    BY <1>69 DEF templatespds, pdsRows
  <2> QED BY <1>69, <1>30, <2>1
<1>70. CASE n = 1000
  <2>1. templatespds[n] = NoExt(Point)
    BY <1>70 DEF templatespds, pdsRows
  <2> QED BY <1>70, <1>31, <2>1
<1>71. CASE n = 1001
  <2>1. templatespds[n] = NoExt(Point \o <<4>> \o Statistics)
    BY <1>71 DEF templatespds, pdsRows
  <2> QED BY <1>71, <1>32, <2>1
<1>72. CASE n = 1002
  <2>1. templatespds[n] = NoExt(Point \o <<1, 1, 1, 4, 4, 2>>)
    BY <1>72 DEF templatespds, pdsRows
  <2> QED BY <1>72, <1>33, <2>1
<1>73. CASE n = 1101
  <2>1. templatespds[n] = NoExt(Product \o <<4>> \o Statistics)
    BY <1>73 DEF templatespds, pdsRows
  <2> QED BY <1>73, <1>34, <2>1
<1> HIDE DEF RowOf, NoExt, NeedExt, TimeRange, ClusterCount, MapOf
<1>74. \/ n = 0 \/ n = 7 \/ n = 1100 \/ n = 1 \/ n = 2 \/ n = 3 \/ n = 4 \/ n = 5 \/ n = 6
       \/ n = 8 \/ n = 9 \/ n = 10 \/ n = 11 \/ n = 12 \/ n = 13 \/ n = 14 \/ n = 15 \/ n = 20
       \/ n = 30 \/ n = 31 \/ n = 32 \/ n = 40 \/ n = 41 \/ n = 42 \/ n = 43 \/ n = 44 \/ n = 45
       \/ n = 46 \/ n = 47 \/ n = 48 \/ n = 50 \/ n = 51 \/ n = 91 \/ n = 52 \/ n = 254 \/ n = 1000
       \/ n = 1001 \/ n = 1002 \/ n = 1101
  BY DEF pdsRows
<1> QED BY <1>35, <1>36, <1>37, <1>38, <1>39, <1>40, <1>41, <1>42, <1>43, <1>44, <1>45,
      <1>46, <1>47, <1>48, <1>49, <1>50, <1>51, <1>52, <1>53, <1>54, <1>55, <1>56,
      <1>57, <1>58, <1>59, <1>60, <1>61, <1>62, <1>63, <1>64, <1>65, <1>66, <1>67,
      <1>68, <1>69, <1>70, <1>71, <1>72, <1>73, <1>74, ZenonT(60)

LEMMA Interval ==
  ASSUME NEW k \in Int
  PROVE  \E j \in Nat : 1..k = 1..j /\ (k >= 0 => j = k)
<1>1. CASE k >= 0
  BY <1>1
<1>2. CASE k < 0
  <2>1. 1..k = 1..0
    BY <1>2
  <2> QED BY <1>2, <2>1
<1> QED BY <1>1, <1>2

LEMMA FromInterval ==
  ASSUME NEW k \in Int, NEW f \in [1..k -> Int]
  PROVE  f \in Seq(Int) /\ Len(f) = IF k >= 0 THEN k ELSE 0
<1>1. PICK j \in Nat : 1..k = 1..j /\ (k >= 0 => j = k)
  BY Interval
<1>2. f \in [1..j -> Int]
  BY <1>1
<1>3. k < 0 => j = 0
  <2> SUFFICES ASSUME k < 0, j # 0 PROVE FALSE
    OBVIOUS
  <2>1. 1 \in 1..j
    OBVIOUS
  <2> QED BY <1>1, <2>1
<1> QED BY <1>1, <1>2, <1>3

LEMMA MoreRangesType ==
  ASSUME NEW n \in DOMAIN TimeRange \cap pdsRows, NEW list,
         list[TimeRange[n][1] + 1] \in Int
  PROVE  LET count == list[TimeRange[n][1] + 1]
         IN  /\ MoreRanges(n, RowOf(n), list) \in Seq(Int)
             /\ Len(MoreRanges(n, RowOf(n), list)) =
                  IF count > 1 THEN 6 * (count - 1) ELSE 0
<1> DEFINE count == list[TimeRange[n][1] + 1]
           first == TimeRange[n][2]
           k == IF count > 1 THEN 6 * (count - 1) ELSE 0
<1>1. k \in Nat
  OBVIOUS
<1>2. /\ first \in Nat /\ first + 6 = Len(RowOf(n)) /\ RowOf(n) \in Seq(Int)
  BY ProductRows
<1>3. ASSUME NEW i \in 1..k PROVE RowOf(n)[first + 1 + ((i - 1) % 6)] \in Int
  <2>1. (i - 1) % 6 \in 0..5
    BY <1>1
  <2>2. first + 1 + ((i - 1) % 6) \in 1..Len(RowOf(n))
    <3> HIDE DEF first
    <3> QED BY <1>2, <2>1
  <2> HIDE DEF first
  <2> QED BY <1>2, <2>2
<1>4. MoreRanges(n, RowOf(n), list) =
        [i \in 1..k |-> RowOf(n)[first + 1 + ((i - 1) % 6)]]
  BY DEF MoreRanges
<1>5. MoreRanges(n, RowOf(n), list) \in [1..k -> Int]
  BY <1>3, <1>4
<1> HIDE DEF k, first
<1>6. MoreRanges(n, RowOf(n), list) \in Seq(Int) /\ Len(MoreRanges(n, RowOf(n), list)) =
      k
  BY <1>1, <1>5
<1> QED BY <1>6 DEF k

LEMMA OnesType ==
  ASSUME NEW k \in Int
  PROVE  Ones(k) \in Seq(Int) /\ Len(Ones(k)) = IF k >= 0 THEN k ELSE 0
<1>1. Ones(k) \in [1..k -> Int]
  BY DEF Ones
<1> QED BY <1>1, FromInterval

LEMMA BandType ==
  ASSUME NEW n, NEW i \in Int
  PROVE  Band(n, i) \in Int
<1>1. (i - 1) % 5 \in 0..4
  OBVIOUS
<1>2. 1 + ((i - 1) % 5) \in 1..5
  BY <1>1
<1> DEFINE j == 1 + ((i - 1) % 5)
<1>3. <<2, 2, IF n = 30 THEN 1 ELSE 2, 1, 4>>[j] \in Int
  <2> HIDE DEF j
  <2>1. j \in 1..5
    BY <1>2 DEF j
  <2> QED BY <2>1
<1> QED BY <1>3 DEF Band

LEMMA ExtensionType ==
  ASSUME NEW n \in pdsRows, NEW list,
         \A i \in 1..Len(RowOf(n)) : list[i] \in Int
  PROVE  extpdstemplate(n, RowOf(n), list) \in Seq(Int)
<1> DEFINE ext == extpdstemplate(n, RowOf(n), list)
<1>1. CASE n \in {13, 14}
  <2>1. n \in DOMAIN TimeRange \cap pdsRows
    BY <1>1 DEF TimeRange
  <2> DEFINE count == list[TimeRange[n][1] + 1]
             forecasts == list[ClusterCount[n] + 1]
             more == MoreRanges(n, RowOf(n), list)
             extlen == (count - 1) * 6 + forecasts
  <2>2. count \in Int /\ forecasts \in Int
    BY <1>1, <2>1, ProductRows
  <2>3. more \in Seq(Int) /\ Len(more) = IF count > 1 THEN 6 * (count - 1) ELSE 0
    BY <2>1, <2>2, MoreRangesType
  <2>4. Ones(forecasts) \in Seq(Int) /\ Len(Ones(forecasts)) = IF forecasts >= 0 THEN
      forecasts ELSE 0
    BY <2>2, OnesType
  <2>5. ext = SubSeq(more \o Ones(forecasts), 1, extlen)
    <3> HIDE DEF ext
    <3>1. /\ n \in {13, 14} /\ n \notin {3, 4} /\ n \notin {30, 31} /\ n # 32
          /\ n \notin DOMAIN TimeRange \ {13, 14}
      BY <1>1
    <3> QED BY <3>1, Zenon DEF extpdstemplate, ext
  <2> HIDE DEF more, forecasts, count
  <2>6. /\ more \o Ones(forecasts) \in Seq(Int)
        /\ Len(more \o Ones(forecasts)) = Len(more) + Len(Ones(forecasts))
    BY <2>3, <2>4
  <2>7. extlen \in Int /\ extlen <= Len(more \o Ones(forecasts))
    BY <2>2, <2>3, <2>4, <2>6
  <2>8. \A i \in 1..extlen : (more \o Ones(forecasts))[i] \in Int
    BY <2>6, <2>7
  <2> HIDE DEF extlen
  <2> QED BY <2>5, <2>7, <2>8, SubSeqProperties
<1>2. CASE n \in DOMAIN TimeRange \ {13, 14}
  <2>1. list[TimeRange[n][1] + 1] \in Int
    BY <1>2, ProductRows
  <2>2. n \in DOMAIN TimeRange \cap pdsRows /\ n \notin {13, 14}
    BY <1>2
  <2>3. MoreRanges(n, RowOf(n), list) \in Seq(Int)
    BY <2>1, <2>2, MoreRangesType
  <2>4. ext = MoreRanges(n, RowOf(n), list)
    BY <1>2, <2>2 DEF extpdstemplate, TimeRange
  <2> QED BY <2>3, <2>4
<1>3. CASE n \in {3, 4}
  <2>1. list[ClusterCount[n] + 1] \in Int
    BY <1>3, ProductRows
  <2>2. n \notin DOMAIN TimeRange /\ n \notin {13, 14}
    BY <1>3 DEF TimeRange
  <2>3. ext = Ones(list[ClusterCount[n] + 1])
    BY <1>3, <2>2 DEF extpdstemplate, TimeRange
  <2> QED BY <2>1, <2>3, OnesType
<1>4. CASE n \in {30, 31}
  <2>1. list[5] \in Int
    <3>1. Len(RowOf(n)) = 5
      BY <1>4, ProductRows
    <3> QED BY <3>1
  <2>2. \A i \in 1..5 * list[5] : Band(n, i) \in Int
    BY <2>1, BandType
  <2>3. ext = [i \in 1..5 * list[5] |-> Band(n, i)]
    BY <1>4 DEF extpdstemplate, TimeRange
  <2>4. ext \in [1..5 * list[5] -> Int] /\ 5 * list[5] \in Int
    BY <2>1, <2>2, <2>3
  <2> QED BY <2>4, FromInterval
<1>5. CASE n = 32
  <2>1. list[10] \in Int
    <3>1. Len(RowOf(n)) = 10
      BY <1>5, ProductRows
    <3> QED BY <3>1
  <2>2. \A i \in 1..10 * list[10] : Band(n, i) \in Int
    BY <2>1, BandType
  <2>3. ext = [i \in 1..10 * list[10] |-> IF i <= 5 * list[10] THEN Band(n, i) ELSE 0]
    BY <1>5 DEF extpdstemplate, TimeRange
  <2>4. ext \in [1..10 * list[10] -> Int] /\ 10 * list[10] \in Int
    BY <2>1, <2>2, <2>3
  <2> QED BY <2>4, FromInterval
<1>6. CASE n \notin DOMAIN TimeRange \cup {3, 4, 30, 31, 32}
  BY <1>6 DEF extpdstemplate, TimeRange
<1>7. \/ n \in {13, 14} \/ n \in DOMAIN TimeRange \ {13, 14} \/ n \in {3, 4}
      \/ n \in {30, 31} \/ n = 32 \/ n \notin DOMAIN TimeRange \cup {3, 4, 30, 31, 32}
  OBVIOUS
<1> HIDE DEF ext
<1> QED BY <1>1, <1>2, <1>3, <1>4, <1>5, <1>6, <1>7, Zenon

LEMMA Prefixed ==
  ASSUME NEW s \in Seq(Int), NEW e \in Seq(Int), NEW m, m = s \/ m = s \o e
  PROVE  m \in Seq(Int) /\ Len(s) <= Len(m) /\ \A i \in 1..Len(s) : m[i] = s[i]
<1>1. CASE m = s
  BY <1>1
<1>2. CASE m = s \o e
  BY <1>2, ConcatProperties
<1> QED BY <1>1, <1>2

(* The map of a message depends on the static entries only.                *)
PdsList(n, list) == \A i \in 1..Len(RowOf(n)) : list[i] \in Int

LEMMA ProductMap ==
  ASSUME NEW n \in pdsRows, NEW list, PdsList(n, list)
  PROVE  /\ PdsMap(n, list) \in Seq(Int)
         /\ Len(RowOf(n)) <= Len(PdsMap(n, list))
         /\ \A i \in 1..Len(RowOf(n)) : PdsMap(n, list)[i] = RowOf(n)[i]
<1>1. RowOf(n) \in Seq(Int)
  BY ProductRows
<1>2. extpdstemplate(n, RowOf(n), list) \in Seq(Int)
  BY ExtensionType DEF PdsList
<1>3. \/ PdsMap(n, list) = RowOf(n)
      \/ PdsMap(n, list) = RowOf(n) \o extpdstemplate(n, RowOf(n), list)
  BY DEF PdsMap, RowOf
<1> QED BY <1>1, <1>2, <1>3, Prefixed

LEMMA SameRanges ==
  ASSUME NEW n \in DOMAIN TimeRange \cap pdsRows, NEW list, NEW other,
         \A i \in 1..Len(RowOf(n)) : other[i] = list[i]
  PROVE  MoreRanges(n, RowOf(n), other) = MoreRanges(n, RowOf(n), list)
<1>1. other[TimeRange[n][1] + 1] = list[TimeRange[n][1] + 1]
  BY ProductRows
<1> QED BY <1>1 DEF MoreRanges

LEMMA SameMap ==
  ASSUME NEW n \in pdsRows, NEW list, NEW other,
         \A i \in 1..Len(RowOf(n)) : other[i] = list[i]
  PROVE  PdsMap(n, other) = PdsMap(n, list)
<1>1. extpdstemplate(n, RowOf(n), other) = extpdstemplate(n, RowOf(n), list)
  <2>1. CASE n \in {13, 14}
    <3>1. n \in DOMAIN TimeRange \cap pdsRows
      BY <2>1 DEF TimeRange
    <3>2. /\ MoreRanges(n, RowOf(n), other) = MoreRanges(n, RowOf(n), list)
          /\ other[ClusterCount[n] + 1] = list[ClusterCount[n] + 1]
          /\ other[TimeRange[n][1] + 1] = list[TimeRange[n][1] + 1]
      BY <2>1, <3>1, ProductRows, SameRanges
    <3>3. /\ n \in {13, 14} /\ n \notin {3, 4} /\ n \notin {30, 31} /\ n # 32
          /\ n \notin DOMAIN TimeRange \ {13, 14}
      BY <2>1
    <3> QED BY <3>2, <3>3, Zenon DEF extpdstemplate
  <2>2. CASE n \in DOMAIN TimeRange \ {13, 14}
    <3>1. MoreRanges(n, RowOf(n), other) = MoreRanges(n, RowOf(n), list)
      BY <2>2, SameRanges
    <3> QED BY <2>2, <3>1 DEF extpdstemplate, TimeRange
  <2>3. CASE n \in {3, 4}
    <3>1. other[ClusterCount[n] + 1] = list[ClusterCount[n] + 1]
      BY <2>3, ProductRows
    <3> QED BY <2>3, <3>1 DEF extpdstemplate, TimeRange
  <2>4. CASE n \in {30, 31}
    <3>1. Len(RowOf(n)) = 5
      BY <2>4, ProductRows
    <3>2. other[5] = list[5]
      BY <3>1
    <3> QED BY <2>4, <3>2 DEF extpdstemplate, TimeRange
  <2>5. CASE n = 32
    <3>1. Len(RowOf(n)) = 10
      BY <2>5, ProductRows
    <3>2. other[10] = list[10]
      BY <3>1
    <3> QED BY <2>5, <3>2 DEF extpdstemplate, TimeRange
  <2>6. CASE n \notin DOMAIN TimeRange \cup {3, 4, 30, 31, 32}
    BY <2>6 DEF extpdstemplate, TimeRange
  <2> QED BY <2>1, <2>2, <2>3, <2>4, <2>5, <2>6 DEF TimeRange
<1> QED BY <1>1 DEF PdsMap, RowOf

(* A product that g2_addfield accepts, its values fitting their octets, is *)
(* what g2_unpack4 and wgrib2 read from the message: of every template,    *)
(* with as many time ranges, members, bands and clusters as it says.       *)
THEOREM ProductReadsBack ==
  ASSUME NEW n \in pdsRows, NEW list, Fits(PdsMap(n, list), list), PdsList(n, list)
  PROVE  GetPds(n, Put(PdsMap(n, list), list)) = list
<1> DEFINE map == PdsMap(n, list)
           codes == Put(map, list)
           static == [i \in 1..Len(RowOf(n)) |-> GetEntry(RowOf(n)[i], codes[i])]
<1>1. /\ map \in Seq(Int) /\ Len(RowOf(n)) <= Len(map) /\ Len(RowOf(n)) \in Nat
      /\ \A i \in 1..Len(RowOf(n)) : map[i] = RowOf(n)[i]
  BY ProductMap, ProductRows
<1>2. list \in Seq(Int) /\ Len(list) = Len(map)
  BY DEF Fits
<1>3. ASSUME NEW i \in 1..Len(map) PROVE GetEntry(map[i], codes[i]) = list[i]
  <2>1. map[i] \in Int /\ list[i] \in Int /\ FitsEntry(map[i], list[i])
    BY <1>1, <1>2 DEF Fits
  <2>2. codes[i] = PutEntry(map[i], list[i])
    BY DEF Put
  <2> HIDE DEF map, codes
  <2> QED BY <2>1, <2>2, EntryReadsBack
<1>4. \A i \in 1..Len(RowOf(n)) : static[i] = list[i]
  <2> HIDE DEF map, codes
  <2> QED BY <1>1, <1>3
<1>5. PdsMap(n, static) = map
  <2> HIDE DEF static
  <2> QED BY <1>4, SameMap
<1>6. GetPds(n, codes) = [i \in 1..Len(map) |-> GetEntry(map[i], codes[i])]
  <2> HIDE DEF codes, map
  <2> QED BY <1>5 DEF GetPds, RowOf
<1> HIDE DEF codes, map
<1> QED BY <1>2, <1>3, <1>6 DEF codes, map

GridRowOf(n) == templatesgrid[n].map

LEMMA GridRows ==
  ASSUME NEW n \in gridRows
  PROVE  GridRowOf(n) \in Seq(Int) /\ (n = 120 => Len(GridRowOf(n)) = 7)
<1>1. CASE n = 0
  <2>1. templatesgrid[n] = NoExt(<<1,1,4,1,4,1,4,4,4,4,4,-4,4,1,-4,4,4,4,1>>)
    BY <1>1 DEF templatesgrid, gridRows
  <2> QED BY <1>1, <2>1 DEF GridRowOf, NoExt
<1>2. CASE n = 50
  <2>1. templatesgrid[n] = NoExt(<<4,4,4,1,1>>)
    BY <1>2 DEF templatesgrid, gridRows
  <2> QED BY <1>2, <2>1 DEF GridRowOf, NoExt
<1>3. CASE n = 120
  <2>1. templatesgrid[n] = NeedExt(<<4,4,-4,4,4,4,1>>)
    BY <1>3 DEF templatesgrid, gridRows
  <2> QED BY <1>3, <2>1 DEF GridRowOf, NeedExt
<1> QED BY <1>1, <1>2, <1>3 DEF gridRows

LEMMA GridMaps ==
  ASSUME NEW n \in gridRows, NEW list, \A i \in 1..Len(GridRowOf(n)) : list[i] \in Int
  PROVE  /\ GridMap(n, list) \in Seq(Int)
         /\ Len(GridRowOf(n)) <= Len(GridMap(n, list))
         /\ \A i \in 1..Len(GridRowOf(n)) : GridMap(n, list)[i] = GridRowOf(n)[i]
<1>1. GridRowOf(n) \in Seq(Int)
  BY GridRows
<1>2. extgridtemplate(n, list) \in Seq(Int)
  <2>1. CASE n = 120
    <3>1. Len(GridRowOf(n)) = 7
      BY <2>1, GridRows
    <3>2. list[2] \in Int
      BY <3>1
    <3>3. extgridtemplate(n, list) = [i \in 1..2 * list[2] |-> IF i % 2 = 1 THEN 2 ELSE
      -2]
      BY <2>1 DEF extgridtemplate
    <3>4. extgridtemplate(n, list) \in [1..2 * list[2] -> Int] /\ 2 * list[2] \in Int
      BY <3>2, <3>3
    <3> QED BY <3>4, FromInterval
  <2>2. CASE n # 120
    BY <2>2 DEF extgridtemplate, gridRows
  <2> QED BY <2>1, <2>2
<1>3. GridMap(n, list) = GridRowOf(n) \/ GridMap(n, list) = GridRowOf(n) \o
      extgridtemplate(n, list)
  BY DEF GridMap, GridRowOf
<1> DEFINE s == GridRowOf(n)
           e == extgridtemplate(n, list)
           m == GridMap(n, list)
<1>4. s \in Seq(Int) /\ e \in Seq(Int) /\ (m = s \/ m = s \o e)
  BY <1>1, <1>2, <1>3
<1> HIDE DEF s, e, m
<1>5. m \in Seq(Int) /\ Len(s) <= Len(m) /\ \A i \in 1..Len(s) : m[i] = s[i]
  <2>1. \A z \in Seq(Int) :
          z = s \/ z = s \o e => z \in Seq(Int) /\ Len(s) <= Len(z) /\ \A i \in 1..Len(s) : z[i] = s[i]
    BY <1>4, Prefixed, Zenon
  <2> QED BY <1>4, <2>1, ConcatProperties, Zenon
<1> QED BY <1>5 DEF s, m

LEMMA SameGridMap ==
  ASSUME NEW n \in gridRows, NEW list, NEW other,
         \A i \in 1..Len(GridRowOf(n)) : other[i] = list[i]
  PROVE  GridMap(n, other) = GridMap(n, list)
<1>1. CASE n = 120
  <2>1. Len(GridRowOf(n)) = 7
    BY <1>1, GridRows
  <2>2. other[2] = list[2]
    BY <2>1
  <2>3. extgridtemplate(n, other) = extgridtemplate(n, list)
    BY <1>1, <2>2 DEF extgridtemplate
  <2> QED BY <2>3 DEF GridMap
<1>2. CASE n # 120
  <2>1. extgridtemplate(n, other) = extgridtemplate(n, list)
    BY <1>2 DEF extgridtemplate, gridRows
  <2> QED BY <2>1 DEF GridMap
<1> QED BY <1>1, <1>2

LEMMA GridReadsBack ==
  ASSUME NEW n \in gridRows, NEW list, Fits(GridMap(n, list), list),
         \A i \in 1..Len(GridRowOf(n)) : list[i] \in Int
  PROVE  GetGrid(n, Put(GridMap(n, list), list)) = list
<1> DEFINE map == GridMap(n, list)
           codes == Put(map, list)
           static == [i \in 1..Len(GridRowOf(n)) |-> GetEntry(GridRowOf(n)[i],
      codes[i])]
<1>1. /\ map \in Seq(Int) /\ Len(GridRowOf(n)) <= Len(map) /\ Len(GridRowOf(n)) \in Nat
      /\ \A i \in 1..Len(GridRowOf(n)) : map[i] = GridRowOf(n)[i]
  BY GridMaps, GridRows
<1>2. list \in Seq(Int) /\ Len(list) = Len(map)
  BY DEF Fits
<1>3. ASSUME NEW i \in 1..Len(map) PROVE GetEntry(map[i], codes[i]) = list[i]
  <2>1. map[i] \in Int /\ list[i] \in Int /\ FitsEntry(map[i], list[i])
    BY <1>1, <1>2 DEF Fits
  <2>2. codes[i] = PutEntry(map[i], list[i])
    BY DEF Put
  <2> HIDE DEF map, codes
  <2> QED BY <2>1, <2>2, EntryReadsBack
<1>4. \A i \in 1..Len(GridRowOf(n)) : static[i] = list[i]
  <2> HIDE DEF map, codes
  <2> QED BY <1>1, <1>3
<1>5. GridMap(n, static) = map
  <2> HIDE DEF static
  <2> QED BY <1>4, SameGridMap
<1>6. GetGrid(n, codes) = [i \in 1..Len(map) |-> GetEntry(map[i], codes[i])]
  <2> HIDE DEF codes, map
  <2> QED BY <1>5 DEF GetGrid, GridRowOf
<1> HIDE DEF codes, map
<1> QED BY <1>2, <1>3, <1>6 DEF codes, map

-----------------------------------------------------------------------------
(* The sections the calls can write.                                       *)

BitmapArguments == BitmapInputs \cup {None, AllPoints}

FieldSection ==
  {FieldSections(f, fld, ibmap, bmap)[i] :
     f \in FieldInputs, fld \in FieldValues, ibmap \in {0, 254, 255},
     bmap \in BitmapArguments, i \in 1..4}

Section ==
  {[n |-> 1, id |-> id] : id \in Ids}
    \cup {[n |-> 2, local |-> l] : l \in Locals}
    \cup {[n |-> 3, num |-> g.num, tmpl |-> Put(GridMap(g.num, g.list), g.list)] :
            g \in GridInputs}
    \cup FieldSection

FieldRecord ==
  [local : Locals \cup {None}, grid : GridInputs \cup {None},
   product : {[pds |-> f.pds, list |-> f.list] : f \in FieldInputs},
   bitmap : BitmapInputs \cup {None},
   values : {[p \in Points |-> fld[p] * b[p]] :
               fld \in FieldValues, b \in BitmapInputs \cup {AllPoints}}]

BufferOK == cgrib \in [state : {"empty", "open", "ended"}, secs : Seq(Section)]

AskedOK ==
  asked \in [local : Locals \cup {None}, grid : GridInputs \cup {None},
             bitmap : BitmapInputs \cup {None}, fields : Seq(FieldRecord)]

TypeInv == TypeOK /\ BufferOK /\ AskedOK

(* The four sections of a field.                                           *)
LEMMA FourSections ==
  ASSUME NEW f \in FieldInputs, NEW fld \in FieldValues, NEW ibmap \in {0, 254, 255},
         NEW bmap \in BitmapArguments
  PROVE  LET four == FieldSections(f, fld, ibmap, bmap)
         IN  /\ four \in Seq(Section)
             /\ Len(four) = 4
             /\ \A i \in 1..4 : four[i].n = i + 3
<1> DEFINE four == FieldSections(f, fld, ibmap, bmap)
<1>1. \A i \in 1..4 : four[i] \in Section
  BY DEF Section, FieldSection
<1>2. Len(four) = 4 /\ \A i \in 1..4 : four[i].n = i + 3
  BY DEF FieldSections
<1>3. four = <<four[1], four[2], four[3], four[4]>>
  BY DEF FieldSections
<1>4. <<four[1], four[2], four[3], four[4]>> \in Seq(Section)
  <2> HIDE DEF four
  <2> QED BY <1>1
<1> QED BY <1>1, <1>2, <1>3, <1>4

(* Each section has a number.                                              *)
LEMMA SectionNumber ==
  ASSUME NEW s \in Section
  PROVE  s.n \in 1..7
<1>1. CASE s \in FieldSection
  BY <1>1, FourSections DEF FieldSection
<1>2. CASE s \notin FieldSection
  BY <1>2 DEF Section
<1> QED BY <1>1, <1>2

(* Sections are only added at the end.                                     *)
LEMMA Extended ==
  ASSUME TypeInv, NEW ext \in Seq(Section), Extend(ext)
  PROVE  /\ cgrib' \in [state : {cgrib.state}, secs : Seq(Section)]
         /\ Len(cgrib'.secs) = Len(cgrib.secs) + Len(ext)
         /\ \A i \in 1..Len(cgrib.secs) : cgrib'.secs[i] = cgrib.secs[i]
         /\ \A i \in 1..Len(ext) : cgrib'.secs[Len(cgrib.secs) + i] = ext[i]
         /\ ret' = 0
<1>1. cgrib' = [cgrib EXCEPT !.secs = cgrib.secs \o ext] /\ ret' = 0
  BY DEF Extend
<1>2. cgrib.secs \in Seq(Section)
  BY DEF TypeInv, BufferOK, AskedOK
<1>3. /\ cgrib.secs \o ext \in Seq(Section)
      /\ Len(cgrib.secs \o ext) = Len(cgrib.secs) + Len(ext)
      /\ \A i \in 1..Len(cgrib.secs) + Len(ext) :
           (cgrib.secs \o ext)[i] =
             IF i <= Len(cgrib.secs) THEN cgrib.secs[i] ELSE ext[i - Len(cgrib.secs)]
  BY <1>2, ConcatProperties
<1>4. cgrib'.secs = cgrib.secs \o ext /\ cgrib'.state = cgrib.state
      /\ cgrib' \in [state : {cgrib.state}, secs : Seq(Section)]
  BY <1>1, <1>3 DEF TypeInv, BufferOK, AskedOK
<1>5. Len(cgrib.secs) \in Nat /\ Len(ext) \in Nat
  BY <1>2
<1> HIDE DEF Extend, TypeInv
<1> QED BY <1>1, <1>3, <1>4, <1>5

(* What the common checks of the calls leave.                              *)
LEMMA NotRefused ==
  ASSUME NEW after, Refusal(after) = 0
  PROVE  cgrib.state # "empty" /\ cgrib.state # "ended" /\ LastSection \in after
BY DEF Refusal, LooksComplete

LEMMA RefusalRange ==
  ASSUME NEW after
  PROVE  Refusal(after) \in -10..0
BY DEF Refusal

LEMMA InitTypeInv == Init => TypeInv
BY MaxSectionsAssumption, EmptySeq DEF Init, TypeInv, BufferOK, AskedOK, TypeOK, NothingAsked

(* A new local section, a new grid and a new field.                        *)
LEMMA AddsLocal ==
  ASSUME NEW l \in Locals
  PROVE  <<[n |-> 2, local |-> l]>> \in Seq(Section)
BY DEF Section

LEMMA AddsGrid ==
  ASSUME NEW g \in GridInputs
  PROVE  <<[n |-> 3, num |-> g.num, tmpl |-> Put(GridMap(g.num, g.list), g.list)]>>
           \in Seq(Section)
BY DEF Section

(* Whatever a call is refused for, it changes nothing but the return code. *)
LEMMA RefusedCode ==
  ASSUME NEW f, NEW ibmap, NEW packed
  PROVE  FieldRefusal(f, ibmap, packed) \in -10..0
BY RefusalRange DEF FieldRefusal, OrderRefusal, PackingRefusal

-----------------------------------------------------------------------------
(* The steps: a call is refused and nothing but ret changes, or it adds its*)
(* sections and the caller notes what it asked for.                        *)

Refused == UNCHANGED <<cgrib, asked>> /\ ret' \in -10..0

LocalAdded(l) ==
  /\ cgrib.state = "open" /\ LastSection \in {1, 7}
  /\ Extend(<<[n |-> 2, local |-> l]>>)
  /\ asked' = [asked EXCEPT !.local = l]

GridAdded(g) ==
  /\ cgrib.state = "open" /\ LastSection \in {1, 2, 7}
  /\ g.num \in gridRows
  /\ Extend(<<[n |-> 3, num |-> g.num, tmpl |-> Put(GridMap(g.num, g.list), g.list)]>>)
  /\ asked' = [asked EXCEPT !.grid = g]

(* The arguments b of the caller and bmap of the call.                     *)
BitmapOf(b) == IF b = None THEN AllPoints ELSE b

Asked(f, fld, b) ==
  [local |-> asked.local, grid |-> asked.grid,
   product |-> [pds |-> f.pds, list |-> f.list],
   bitmap |-> b,
   values |-> [p \in Points |-> fld[p] * BitmapOf(b)[p]]]

FieldAdded(f, fld, ibmap, b) ==
  /\ cgrib.state = "open" /\ LastSection \in {3, 7} /\ HasGrid
  /\ f.pds \in pdsRows /\ f.drs \in drsRows
  /\ ibmap = 254 => isprevbmap /\ b = asked.bitmap
  /\ ibmap = 0 => b \in BitmapInputs
  /\ ibmap = 255 => b = None
  /\ Extend(FieldSections(f, fld, ibmap, BitmapOf(b)))
  /\ asked' = [local |-> asked.local, grid |-> asked.grid,
               bitmap |-> IF ibmap = 0 THEN b ELSE asked.bitmap,
               fields |-> Append(asked.fields, Asked(f, fld, b))]

LEMMA LocalStep ==
  ASSUME TypeInv, NEW l \in Locals, AddLocal(l)
  PROVE  Refused \/ LocalAdded(l)
<1>1. CASE Refusal({1, 7}) = 0
  BY <1>1, NotRefused DEF AddLocal, g2_addlocal, Note, LocalAdded, Extend, TypeInv, BufferOK, AskedOK
<1>2. CASE Refusal({1, 7}) # 0
  BY <1>2, RefusalRange DEF AddLocal, g2_addlocal, Return, Note, Refused
<1> QED BY <1>1, <1>2

LEMMA GridStep ==
  ASSUME TypeInv, NEW g \in GridInputs, AddGrid(g)
  PROVE  Refused \/ GridAdded(g)
<1>1. CASE Refusal({1, 2, 7}) = 0 /\ g.num \in gridRows
  <2>1. cgrib.state = "open" /\ LastSection \in {1, 2, 7}
    BY <1>1, NotRefused DEF TypeInv, BufferOK, AskedOK
  <2>2. /\ Extend(<<[n |-> 3, num |-> g.num, tmpl |-> Put(GridMap(g.num, g.list), g.list)]>>)
        /\ asked' = [asked EXCEPT !.grid = g]
    BY <1>1 DEF AddGrid, g2_addgrid, Note, Extend
  <2> QED BY <1>1, <2>1, <2>2 DEF GridAdded
<1>2. CASE Refusal({1, 2, 7}) # 0
  BY <1>2, RefusalRange DEF AddGrid, g2_addgrid, Return, Note, Refused
<1>3. CASE Refusal({1, 2, 7}) = 0 /\ g.num \notin gridRows
  BY <1>3 DEF AddGrid, g2_addgrid, Return, Note, Refused
<1> QED BY <1>1, <1>2, <1>3

LEMMA FieldStep ==
  ASSUME TypeInv, NEW f \in FieldInputs, NEW fld \in FieldValues,
         NEW ibmap \in {0, 254, 255}, NEW packed \in BOOLEAN, AddField(f, fld, ibmap, packed)
  PROVE  Refused \/ \E b \in BitmapInputs \cup {None} : FieldAdded(f, fld, ibmap, b)
<1>1. PICK b \in CASE ibmap = 0 -> BitmapInputs [] ibmap = 254 -> {asked.bitmap}
                   [] OTHER -> {None} :
        /\ g2_addfield(f, fld, ibmap, BitmapOf(b), packed)
        /\ Note([asked EXCEPT !.bitmap = IF ibmap = 0 THEN b ELSE @,
                              !.fields = Append(@, Asked(f, fld, b))])
  BY DEF AddField, BitmapOf, Asked
<1>2. b \in BitmapInputs \cup {None}
  BY <1>1 DEF TypeInv, BufferOK, AskedOK
<1>3. CASE FieldRefusal(f, ibmap, packed) = 0
  <2>1. /\ cgrib.state = "open" /\ LastSection \in {3, 7} /\ HasGrid
        /\ f.pds \in pdsRows /\ f.drs \in drsRows /\ (ibmap = 254 => isprevbmap)
    BY <1>3, NotRefused DEF FieldRefusal, OrderRefusal, PackingRefusal, TypeInv, BufferOK, AskedOK
  <2>2. /\ Extend(FieldSections(f, fld, ibmap, BitmapOf(b)))
        /\ asked' = [asked EXCEPT !.bitmap = IF ibmap = 0 THEN b ELSE @,
                                  !.fields = Append(@, Asked(f, fld, b))]
    BY <1>1, <1>3 DEF g2_addfield, Note, Extend
  <2>3. asked' = [local |-> asked.local, grid |-> asked.grid,
               bitmap |-> IF ibmap = 0 THEN b ELSE asked.bitmap,
               fields |-> Append(asked.fields, Asked(f, fld, b))]
    BY <2>2 DEF TypeInv, BufferOK, AskedOK
  <2>4. /\ ibmap = 254 => b = asked.bitmap
        /\ ibmap = 0 => b \in BitmapInputs
        /\ ibmap = 255 => b = None
    BY <1>1
  <2>5. FieldAdded(f, fld, ibmap, b)
    BY <2>1, <2>2, <2>3, <2>4, Zenon DEF FieldAdded
  <2> QED BY <1>2, <2>5
<1>4. CASE FieldRefusal(f, ibmap, packed) # 0
  BY <1>1, <1>4, RefusedCode DEF g2_addfield, Return, Note, Refused
<1> QED BY <1>3, <1>4

Created(id) ==
  /\ cgrib' = [state |-> "open", secs |-> <<[n |-> 1, id |-> id]>>]
  /\ ret' = 0
  /\ asked' = NothingAsked

Closed ==
  /\ cgrib.state = "open" /\ LastSection = 7
  /\ cgrib' = [state |-> "ended", secs |-> cgrib.secs]
  /\ ret' = 0
  /\ UNCHANGED asked

LEMMA NextSteps ==
  ASSUME TypeInv, Next
  PROVE  \/ Refused
         \/ \E id \in Ids : Created(id)
         \/ \E l \in Locals : Room /\ LocalAdded(l)
         \/ \E g \in GridInputs : Room /\ GridAdded(g)
         \/ \E f \in FieldInputs, fld \in FieldValues, ibmap \in {0, 254, 255},
               b \in BitmapInputs \cup {None} : Room /\ FieldAdded(f, fld, ibmap, b)
         \/ Closed
<1>1. ASSUME NEW edition \in {1, 2}, NEW id \in Ids, Create(edition, id)
      PROVE  Refused \/ Created(id)
  BY <1>1 DEF Create, g2_create, Return, Note, Refused, Created
<1>2. ASSUME NEW l \in Locals, Room, AddLocal(l)
      PROVE  Refused \/ (Room /\ LocalAdded(l))
  BY <1>2, LocalStep
<1>3. ASSUME NEW g \in GridInputs, Room, AddGrid(g)
      PROVE  Refused \/ (Room /\ GridAdded(g))
  BY <1>3, GridStep
<1>4. ASSUME GribEnd PROVE Refused \/ Closed
  BY <1>4 DEF GribEnd, g2_gribend, Return, Refused, Closed, TypeInv, BufferOK, AskedOK
<1>5. CASE \E edition \in {1, 2}, id \in Ids : Create(edition, id)
  BY <1>1, <1>5, Zenon
<1>6. CASE Room /\ \E l \in Locals : AddLocal(l)
  BY <1>2, <1>6, Zenon
<1>7. CASE Room /\ \E g \in GridInputs : AddGrid(g)
  BY <1>3, <1>7, Zenon
<1>8. CASE Room /\ \E f \in FieldInputs, fld \in FieldValues,
                     ibmap \in {0, 254, 255}, packed \in BOOLEAN : AddField(f, fld, ibmap, packed)
  <2>1. PICK f \in FieldInputs, fld \in FieldValues, ibmap \in {0, 254, 255},
             packed \in BOOLEAN : AddField(f, fld, ibmap, packed)
    BY <1>8
  <2>2. Refused \/ \E b \in BitmapInputs \cup {None} : FieldAdded(f, fld, ibmap, b)
    BY <2>1, FieldStep
  <2> QED BY <1>8, <2>2, ZenonT(40)
<1> QED BY <1>4, <1>5, <1>6, <1>7, <1>8, Zenon DEF Next

(* Everything about the added sections that the invariants need.           *)
LEMMA TypeStep ==
  ASSUME TypeInv, [Next]_vars
  PROVE  TypeInv'
<1> USE DEF TypeInv
<1>1. CASE UNCHANGED vars \/ Refused
  BY <1>1 DEF vars, Refused, TypeOK, BufferOK, AskedOK
<1>2. ASSUME NEW id \in Ids, Created(id) PROVE TypeInv'
  <2>1. [n |-> 1, id |-> id] \in Section
    BY DEF Section
  <2>2. /\ <<[n |-> 1, id |-> id]>> \in Seq(Section)
        /\ Len(<<[n |-> 1, id |-> id]>>) = 1
        /\ <<[n |-> 1, id |-> id]>>[1].n = 1
    BY <2>1
  <2>3. TypeOK'
    BY <1>2, <2>2, MaxSectionsAssumption DEF Created, TypeOK
  <2>4. BufferOK'
    BY <1>2, <2>2 DEF Created, BufferOK
  <2>5. AskedOK'
    BY <1>2, EmptySeq DEF AskedOK, Created, NothingAsked
  <2> QED BY <2>3, <2>4, <2>5
<1>3. ASSUME NEW ext \in Seq(Section), Extend(ext), Len(ext) <= 4, Room
      PROVE  /\ TypeOK'
             /\ BufferOK'
  <2>1. /\ cgrib' \in [state : {cgrib.state}, secs : Seq(Section)]
        /\ Len(cgrib'.secs) = Len(cgrib.secs) + Len(ext)
        /\ ret' = 0
    BY <1>3, Extended DEF BufferOK
  <2>2. \A i \in 1..Len(cgrib'.secs) : cgrib'.secs[i].n \in 1..7
    BY <2>1, SectionNumber, ElementOfSeq
  <2>3. Len(cgrib'.secs) <= MaxSections
    BY <1>3, <2>1, MaxSectionsAssumption DEF Room
  <2> QED BY <2>1, <2>2, <2>3 DEF TypeOK, BufferOK
<1>4. ASSUME NEW l \in Locals, Room, LocalAdded(l) PROVE TypeInv'
  <2>1. PICK ext \in Seq(Section) : Len(ext) = 1 /\ Extend(ext)
    BY <1>4, AddsLocal DEF LocalAdded
  <2>2. Len(ext) <= 4
    BY <2>1
  <2>3. TypeOK' /\ BufferOK'
    BY <1>3, <1>4, <2>1, <2>2
  <2> QED BY <1>4, <2>3 DEF LocalAdded, AskedOK
<1>5. ASSUME NEW g \in GridInputs, Room, GridAdded(g) PROVE TypeInv'
  <2>1. PICK ext \in Seq(Section) : Len(ext) = 1 /\ Extend(ext)
    BY <1>5, AddsGrid DEF GridAdded
  <2>2. Len(ext) <= 4
    BY <2>1
  <2>3. TypeOK' /\ BufferOK'
    BY <1>3, <1>5, <2>1, <2>2
  <2> QED BY <1>5, <2>3 DEF GridAdded, AskedOK
<1>6. ASSUME NEW f \in FieldInputs, NEW fld \in FieldValues, NEW ibmap \in {0, 254, 255},
             NEW b \in BitmapInputs \cup {None}, Room, FieldAdded(f, fld, ibmap, b)
      PROVE  TypeInv'
  <2>1. BitmapOf(b) \in BitmapArguments
    BY DEF BitmapOf, BitmapArguments
  <2>2. /\ TypeOK'
        /\ BufferOK'
    <3> DEFINE ext == FieldSections(f, fld, ibmap, BitmapOf(b))
    <3>1. ext \in Seq(Section) /\ Len(ext) = 4
      BY <2>1, FourSections
    <3>2. Extend(ext)
      BY <1>6 DEF FieldAdded
    <3> HIDE DEF ext
    <3>3. Len(ext) <= 4
      BY <3>1
    <3> QED BY <1>3, <1>6, <3>1, <3>2, <3>3
  <2>3. Asked(f, fld, b) \in FieldRecord
    BY DEF AskedOK, Asked, FieldRecord, BitmapOf
  <2>4. Append(asked.fields, Asked(f, fld, b)) \in Seq(FieldRecord)
    BY <2>3, AppendProperties DEF AskedOK
  <2>5. AskedOK'
    BY <1>6, <2>4 DEF FieldAdded, AskedOK
  <2> QED BY <2>2, <2>5
<1>7. ASSUME Closed PROVE TypeInv'
  BY <1>7 DEF Closed, TypeOK, BufferOK, AskedOK
<1> QED BY <1>1, <1>2, <1>4, <1>5, <1>6, <1>7, NextSteps

(* The buffer always holds whole sections, no more than fit.               *)
THEOREM GribTypeOK == Spec => []TypeOK
<1>1. TypeInv => TypeOK
  BY DEF TypeInv
<1> QED BY <1>1, InitTypeInv, TypeStep, PTL DEF Spec

-----------------------------------------------------------------------------
(* The order of the sections is kept by every call.                        *)

(* What may follow a section: a is the section before, b the one after.    *)
MayFollow(a, b) ==
  /\ b # 1
  /\ b = 2 => a \in {1, 7}
  /\ b = 3 => a \in {1, 2, 7}
  /\ b = 4 => a \in {3, 7}
  /\ b \in 5..7 => a = b - 1

OrderInv == TypeInv /\ SectionOrder

LEMMA NotEmpty ==
  ASSUME OrderInv, cgrib.state # "empty"
  PROVE  Len(cgrib.secs) \in Nat \ {0}
<1>1. cgrib.secs \in Seq(Section) /\ cgrib.secs # <<>>
  BY DEF OrderInv, TypeInv, BufferOK, SectionOrder
<1> QED BY <1>1, EmptySeq

LEMMA OrderExtended ==
  ASSUME OrderInv, cgrib.state = "open", NEW ext \in Seq(Section), Extend(ext),
         Len(ext) \in Nat \ {0}, MayFollow(LastSection, ext[1].n),
         \A i \in 2..Len(ext) : MayFollow(ext[i - 1].n, ext[i].n),
         \A i \in 1..Len(ext) : ext[i].n \in 4..6 => i < Len(ext)
  PROVE  SectionOrder'
<1> DEFINE L == Len(cgrib.secs)
           new == cgrib'.secs
<1>1. /\ cgrib'.state = "open" /\ new \in Seq(Section)
      /\ Len(new) = L + Len(ext)
      /\ \A i \in 1..L : new[i] = cgrib.secs[i]
      /\ \A i \in 1..Len(ext) : new[L + i] = ext[i]
  BY Extended DEF OrderInv
<1>2. L \in Nat \ {0}
  BY NotEmpty
<1>3. LastSection = cgrib.secs[L].n
  BY DEF LastSection
<1>4. new # <<>>
  BY <1>1, <1>2, EmptySeq
<1>5. ASSUME NEW i \in 1..L
      PROVE  /\ (new[i].n = 1) <=> (i = 1)
             /\ i # 1 => MayFollow(new[i - 1].n, new[i].n)
  <2>1. /\ (cgrib.secs[i].n = 1) <=> (i = 1)
        /\ i # 1 => MayFollow(cgrib.secs[i - 1].n, cgrib.secs[i].n)
    BY DEF OrderInv, SectionOrder, MayFollow
  <2>2. new[i] = cgrib.secs[i] /\ (i # 1 => new[i - 1] = cgrib.secs[i - 1])
    <3>1. i # 1 => i - 1 \in 1..L
      BY <1>2
    <3> HIDE DEF new, L
    <3> QED BY <1>1, <3>1
  <2> HIDE DEF new
  <2> QED BY <2>1, <2>2
<1>6. ASSUME NEW i \in L + 1..L + Len(ext)
      PROVE  /\ new[i].n # 1 /\ i # 1
             /\ MayFollow(new[i - 1].n, new[i].n)
             /\ new[i].n \in 4..6 => i < L + Len(ext)
  <2>1. PICK j \in 1..Len(ext) : i = L + j
    <3>1. i - L \in 1..Len(ext) /\ i = L + (i - L)
      BY <1>2
    <3> QED BY <3>1
  <2>2. new[i] = ext[j]
    BY <1>1, <2>1
  <2>3. CASE j = 1
    <3>0. i - 1 = L /\ L \in 1..L /\ i # 1
      <4> HIDE DEF L
      <4> QED BY <1>2, <2>1, <2>3
    <3>1. new[i - 1] = cgrib.secs[L] /\ i # 1 /\ Len(ext) \in Nat
      <4> HIDE DEF L, new
      <4> QED BY <1>1, <3>0
    <3> HIDE DEF new
    <3>2. MayFollow(new[i - 1].n, new[i].n)
      BY <1>3, <2>2, <2>3, <3>1
    <3>3. new[i].n # 1
      BY <3>2 DEF MayFollow
    <3>4. new[i].n \in 4..6 => i < L + Len(ext)
      <4>1. new[i].n \in 4..6 => 1 < Len(ext)
        BY <2>2, <2>3
      <4> HIDE DEF L
      <4> QED BY <1>2, <2>1, <2>3, <3>1, <4>1
    <3> QED BY <3>1, <3>2, <3>3, <3>4
  <2>4. CASE j # 1
    <3>1. j - 1 \in 1..Len(ext) /\ j \in 2..Len(ext) /\ i - 1 = L + (j - 1)
      BY <1>2, <2>1, <2>4
    <3>2. new[i - 1] = ext[j - 1]
      BY <1>1, <3>1
    <3> QED BY <1>2, <2>1, <2>2, <3>1, <3>2 DEF MayFollow
  <2> QED BY <2>3, <2>4
<1>7. \A i \in 1..Len(new) :
        /\ (new[i].n = 1) <=> (i = 1)
        /\ i # 1 => MayFollow(new[i - 1].n, new[i].n)
        /\ new[i].n \in 4..6 => i < Len(new)
  <2> SUFFICES ASSUME NEW i \in 1..Len(new)
               PROVE  /\ (new[i].n = 1) <=> (i = 1)
                      /\ i # 1 => MayFollow(new[i - 1].n, new[i].n)
                      /\ new[i].n \in 4..6 => i < Len(new)
    OBVIOUS
  <2>1. CASE i <= L
    <3>1. i \in 1..L /\ i < Len(new)
      BY <1>1, <1>2, <2>1
    <3> HIDE DEF new
    <3> QED BY <1>5, <3>1
  <2>2. CASE i > L
    <3>1. i \in L + 1..L + Len(ext)
      BY <1>1, <1>2, <2>2
    <3> HIDE DEF new
    <3> QED BY <1>1, <1>6, <3>1
  <2> QED BY <1>1, <1>2, <2>1, <2>2
<1> QED BY <1>1, <1>4, <1>7 DEF SectionOrder, MayFollow

LEMMA OrderStep ==
  ASSUME OrderInv, [Next]_vars
  PROVE  SectionOrder'
<1>1. CASE UNCHANGED vars \/ Refused
  BY <1>1 DEF vars, Refused, OrderInv, SectionOrder
<1>2. ASSUME NEW id \in Ids, Created(id) PROVE SectionOrder'
  <2>1. cgrib'.secs = <<[n |-> 1, id |-> id]>> /\ cgrib'.state = "open"
    BY <1>2 DEF Created
  <2>2. Len(cgrib'.secs) = 1 /\ cgrib'.secs[1].n = 1 /\ cgrib'.secs # <<>>
    BY <2>1
  <2> QED BY <2>1, <2>2 DEF SectionOrder
<1>3. ASSUME NEW l \in Locals, LocalAdded(l) PROVE SectionOrder'
  <2>1. PICK ext \in Seq(Section) : Len(ext) = 1 /\ ext[1].n = 2 /\ Extend(ext)
    BY <1>3, AddsLocal DEF LocalAdded
  <2>2. cgrib.state = "open" /\ MayFollow(LastSection, ext[1].n)
    BY <1>3, <2>1 DEF LocalAdded, MayFollow
  <2>3. /\ \A i \in 2..Len(ext) : MayFollow(ext[i - 1].n, ext[i].n)
        /\ \A i \in 1..Len(ext) : ext[i].n \in 4..6 => i < Len(ext)
        /\ Len(ext) \in Nat \ {0}
    BY <2>1
  <2> QED BY <2>1, <2>2, <2>3, OrderExtended
<1>4. ASSUME NEW g \in GridInputs, GridAdded(g) PROVE SectionOrder'
  <2>1. PICK ext \in Seq(Section) : Len(ext) = 1 /\ ext[1].n = 3 /\ Extend(ext)
    BY <1>4, AddsGrid DEF GridAdded
  <2>2. cgrib.state = "open" /\ MayFollow(LastSection, ext[1].n)
    BY <1>4, <2>1 DEF GridAdded, MayFollow
  <2>3. /\ \A i \in 2..Len(ext) : MayFollow(ext[i - 1].n, ext[i].n)
        /\ \A i \in 1..Len(ext) : ext[i].n \in 4..6 => i < Len(ext)
        /\ Len(ext) \in Nat \ {0}
    BY <2>1
  <2> QED BY <2>1, <2>2, <2>3, OrderExtended
<1>5. ASSUME NEW f \in FieldInputs, NEW fld \in FieldValues, NEW ibmap \in {0, 254, 255},
             NEW b \in BitmapInputs \cup {None}, FieldAdded(f, fld, ibmap, b)
      PROVE  SectionOrder'
  <2>1. BitmapOf(b) \in BitmapArguments
    BY DEF BitmapOf, BitmapArguments
  <2>2. PICK ext \in Seq(Section) :
          /\ Len(ext) = 4 /\ Extend(ext)
          /\ \A i \in 1..4 : ext[i].n = i + 3
    BY <1>5, <2>1, FourSections DEF FieldAdded
  <2>3. ext[1].n = 4 /\ ext[2].n = 5 /\ ext[3].n = 6 /\ ext[4].n = 7
    BY <2>2
  <2>4. cgrib.state = "open" /\ MayFollow(LastSection, ext[1].n)
    BY <1>5, <2>3 DEF FieldAdded, MayFollow
  <2>5. /\ \A i \in 2..Len(ext) : MayFollow(ext[i - 1].n, ext[i].n)
        /\ \A i \in 1..Len(ext) : ext[i].n \in 4..6 => i < Len(ext)
        /\ Len(ext) \in Nat \ {0}
    BY <2>2 DEF MayFollow
  <2> QED BY <2>2, <2>4, <2>5, OrderExtended
<1>6. ASSUME Closed PROVE SectionOrder'
  BY <1>6 DEF Closed, OrderInv, SectionOrder, LastSection
<1> QED BY <1>1, <1>2, <1>3, <1>4, <1>5, <1>6, NextSteps DEF OrderInv

LEMMA OrderInvariant == Spec => []OrderInv
<1>1. Init => OrderInv
  BY InitTypeInv DEF Init, OrderInv, SectionOrder
<1>2. OrderInv /\ [Next]_vars => OrderInv'
  BY TypeStep, OrderStep DEF OrderInv
<1> QED BY <1>1, <1>2, PTL DEF Spec

(* Whatever calls are made, and whichever of them are refused, the sections*)
(* of a message are in an order that its readers accept.                   *)
THEOREM SectionsInOrder == Spec => []SectionOrder
<1>1. OrderInv => SectionOrder
  BY DEF OrderInv
<1> QED BY <1>1, OrderInvariant, PTL

-----------------------------------------------------------------------------
(* The message refines the list of fields.                                 *)

(* The phase of the list of fields, as Fields maps it.                     *)
Phase ==
  IF cgrib.state = "empty" THEN "none"
  ELSE IF cgrib.state = "ended" THEN "end"
  ELSE CASE LastSection = 1 -> "id" [] LastSection = 2 -> "local"
         [] LastSection = 3 -> "grid" [] OTHER -> "field"

LEMMA PhaseAfterExtend ==
  ASSUME OrderInv, cgrib.state = "open", NEW ext \in Seq(Section), Extend(ext),
         Len(ext) \in Nat \ {0}
  PROVE  Phase' = CASE ext[Len(ext)].n = 1 -> "id" [] ext[Len(ext)].n = 2 -> "local"
                    [] ext[Len(ext)].n = 3 -> "grid" [] OTHER -> "field"
<1>1. /\ cgrib'.state = "open"
      /\ Len(cgrib'.secs) = Len(cgrib.secs) + Len(ext)
      /\ \A i \in 1..Len(ext) : cgrib'.secs[Len(cgrib.secs) + i] = ext[i]
  BY Extended DEF OrderInv
<1>2. LastSection' = ext[Len(ext)].n
  BY <1>1 DEF LastSection
<1> QED BY <1>1, <1>2 DEF Phase

LEMMA RefineInit == Init => Fields!Init
BY DEF Init, Fields!Init, NothingAsked

LEMMA RefineStep ==
  ASSUME OrderInv, [Next]_vars
  PROVE  [Fields!Next]_(Fields!vars)
<1>1. CASE UNCHANGED vars \/ Refused
  BY <1>1 DEF vars, Refused, Fields!vars, LastSection
<1>2. ASSUME NEW id \in Ids, Created(id) PROVE Fields!Start
  <2>1. cgrib'.state = "open" /\ LastSection' = 1
    BY <1>2 DEF Created, LastSection
  <2>2. Phase' = "id"
    BY <2>1 DEF Phase
  <2> QED BY <1>2, <2>2 DEF Created, NothingAsked, Fields!Start, Phase
<1>3. ASSUME NEW l \in Locals, LocalAdded(l) PROVE Fields!SetLocal(l)
  <2>1. PICK ext \in Seq(Section) : Len(ext) = 1 /\ ext[1].n = 2 /\ Extend(ext)
    BY <1>3, AddsLocal DEF LocalAdded
  <2>2. Phase \in {"id", "field"} /\ cgrib.state = "open"
    BY <1>3 DEF LocalAdded, Phase
  <2>3. Phase' = "local"
    <3>1. Len(ext) \in Nat \ {0} /\ ext[Len(ext)].n = 2
      BY <2>1
    <3>2. Phase' = CASE ext[Len(ext)].n = 1 -> "id" [] ext[Len(ext)].n = 2 -> "local"
                     [] ext[Len(ext)].n = 3 -> "grid" [] OTHER -> "field"
      BY <3>1, <2>1, <2>2, PhaseAfterExtend, Zenon
    <3> QED BY <3>1, <3>2
  <2>4. /\ asked'.local = l
        /\ UNCHANGED <<asked.grid, asked.bitmap, asked.fields>>
    BY <1>3 DEF LocalAdded, OrderInv, TypeInv, AskedOK
  <2> QED BY <2>2, <2>3, <2>4 DEF Fields!SetLocal, Phase
<1>4. ASSUME NEW g \in GridInputs, GridAdded(g) PROVE Fields!SetGrid(g)
  <2>1. PICK ext \in Seq(Section) : Len(ext) = 1 /\ ext[1].n = 3 /\ Extend(ext)
    BY <1>4, AddsGrid DEF GridAdded
  <2>2. Phase \in {"id", "local", "field"} /\ cgrib.state = "open"
    BY <1>4 DEF GridAdded, Phase
  <2>3. Phase' = "grid"
    <3>1. Len(ext) \in Nat \ {0} /\ ext[Len(ext)].n = 3
      BY <2>1
    <3>2. Phase' = CASE ext[Len(ext)].n = 1 -> "id" [] ext[Len(ext)].n = 2 -> "local"
                     [] ext[Len(ext)].n = 3 -> "grid" [] OTHER -> "field"
      BY <3>1, <2>1, <2>2, PhaseAfterExtend, Zenon
    <3> QED BY <3>1, <3>2
  <2>4. /\ asked'.grid = g
        /\ UNCHANGED <<asked.local, asked.bitmap, asked.fields>>
    BY <1>4 DEF GridAdded, OrderInv, TypeInv, AskedOK
  <2> QED BY <2>2, <2>3, <2>4 DEF Fields!SetGrid, Phase
<1>5. ASSUME NEW f \in FieldInputs, NEW fld \in FieldValues, NEW ibmap \in {0, 254, 255},
             NEW b \in BitmapInputs \cup {None}, FieldAdded(f, fld, ibmap, b)
      PROVE  Fields!Add([pds |-> f.pds, list |-> f.list], b, ibmap = 0,
                        [p \in Points |-> fld[p] * BitmapOf(b)[p]])
  <2>1. BitmapOf(b) \in BitmapArguments
    BY DEF BitmapOf, BitmapArguments
  <2>2. PICK ext \in Seq(Section) : Len(ext) = 4 /\ ext[4].n = 7 /\ Extend(ext)
    <3>1. \A i \in 1..4 : FieldSections(f, fld, ibmap, BitmapOf(b))[i].n = i + 3
      BY <2>1, FourSections
    <3> QED BY <1>5, <2>1, <3>1, FourSections DEF FieldAdded
  <2>3. Phase \in {"grid", "field"} /\ cgrib.state = "open"
    BY <1>5 DEF FieldAdded, Phase
  <2>4. Phase' = "field"
    <3>1. Len(ext) \in Nat \ {0} /\ ext[Len(ext)].n = 7
      BY <2>2
    <3>2. Phase' = CASE ext[Len(ext)].n = 1 -> "id" [] ext[Len(ext)].n = 2 -> "local"
                     [] ext[Len(ext)].n = 3 -> "grid" [] OTHER -> "field"
      BY <3>1, <2>2, <2>3, PhaseAfterExtend, Zenon
    <3> QED BY <3>1, <3>2
  <2>5. /\ asked'.bitmap = IF ibmap = 0 THEN b ELSE asked.bitmap
        /\ ~(ibmap = 0) => b \in {None, asked.bitmap}
        /\ asked'.fields = Append(asked.fields, Asked(f, fld, b))
        /\ UNCHANGED <<asked.local, asked.grid>>
    BY <1>5 DEF FieldAdded
  <2> QED BY <2>3, <2>4, <2>5 DEF Fields!Add, Phase, Asked
<1>6. ASSUME Closed PROVE Fields!End
  <2>1. Phase = "field" /\ Phase' = "end"
    BY <1>6 DEF Closed, Phase
  <2> QED BY <1>6, <2>1 DEF Closed, Fields!End, Phase
<1>7. ASSUME NEW f \in FieldInputs, NEW fld \in FieldValues, NEW ibmap \in {0, 254, 255},
             NEW b \in BitmapInputs \cup {None}, FieldAdded(f, fld, ibmap, b)
      PROVE  Fields!Next
  <2> DEFINE v == [p \in Points |-> fld[p] * BitmapOf(b)[p]]
             product == [pds |-> f.pds, list |-> f.list]
             given == ibmap = 0
  <2>1. Fields!Add(product, b, given, v)
    BY <1>5, <1>7
  <2>2. /\ v \in {[p \in Points |-> fl[p] * bm[p]] :
                    fl \in FieldValues, bm \in BitmapInputs \cup {AllPoints}}
        /\ product \in {[pds |-> h.pds, list |-> h.list] : h \in FieldInputs}
        /\ given \in BOOLEAN
    BY DEF BitmapOf
  <2> HIDE DEF v, product, given
  <2> QED BY <2>1, <2>2 DEF Fields!Next
<1> QED BY <1>1, <1>2, <1>3, <1>4, <1>6, <1>7, NextSteps DEF OrderInv, Fields!Next

(* Building a message is building a list of fields: each call that returns *)
(* a length is one step of GribFields, each refused call none.             *)
THEOREM RefinesFields == Spec => MessageSpec
<1>1. Spec => Fields!Init
  BY RefineInit DEF Spec
<1>2. OrderInv /\ [Next]_vars => [Fields!Next]_(Fields!vars)
  BY RefineStep
<1> QED BY <1>1, <1>2, OrderInvariant, PTL DEF Spec, MessageSpec, Fields!Spec

-----------------------------------------------------------------------------
(* The values of the points a bitmap keeps, and their places.              *)

LEMMA Numbered ==
  \E n \in Nat \ {0} : Points = 1..n
<1>1. Cardinality(Points) \in Nat /\ Points = 1..Cardinality(Points) /\ Points # {}
  BY PointsAssumption, FS_CardinalityType
<1>2. Cardinality(Points) # 0
  <2> SUFFICES ASSUME Cardinality(Points) = 0 PROVE FALSE
    OBVIOUS
  <2>1. 1..0 = {}
    OBVIOUS
  <2> QED BY <1>1, <2>1
<1> QED BY <1>1, <1>2

PackedSteps(g, b, fld, n) ==
  /\ g[0] = <<>>
  /\ \A p \in 1..n : g[p] = IF b[p] = 1 THEN Append(g[p - 1], fld[p]) ELSE g[p - 1]

Kept(fld) == {fld[p] : p \in Points}

LEMMA PackedExists ==
  ASSUME NEW b, NEW fld, NEW n \in Nat \ {0}, Points = 1..n, Len(fld) \in 0..n
  PROVE  \E g \in [0..n -> Seq(Kept(fld))] :
           PackedSteps(g, b, fld, n) /\ PackedValues(b, fld) = g[Len(fld)]
<1> DEFINE X == Seq(Kept(fld))
           Solves(w) == w = [p \in Points \cup {0} |->
                               IF p = 0 THEN <<>>
                               ELSE IF b[p] = 1 THEN Append(w[p - 1], fld[p]) ELSE w[p - 1]]
           step == [p \in Nat |-> [s \in X |-> IF p \in 1..n /\ b[p] = 1
                                                THEN Append(s, fld[p]) ELSE s]]
<1>1. PackedValues(b, fld) = (CHOOSE w : Solves(w))[Len(fld)]
  BY DEF PackedValues
<1>2. step \in [Nat -> [X -> X]]
  <2>1. ASSUME NEW p \in Nat, NEW s \in X
        PROVE  (IF p \in 1..n /\ b[p] = 1 THEN Append(s, fld[p]) ELSE s) \in X
    <3>1. p \in 1..n => fld[p] \in Kept(fld)
      BY DEF Kept
    <3> QED BY <3>1
  <2> HIDE DEF X
  <2> QED BY <2>1
<1>3. PICK g : /\ g \in [0..n -> X]
                /\ g[0] = <<>> /\ \A p \in 1..n : g[p] = step[p][g[p - 1]]
  <2>1. <<>> \in X
    OBVIOUS
  <2>2. n \in Nat
    OBVIOUS
  <2> HIDE DEF X, step
  <2>3. Steps(X, <<>>, step, n)
    BY <1>2, <2>1, <2>2 DEF Steps
  <2>4. PICK g : Takes(g, X, <<>>, step, n)
    BY <2>3, StepFunction
  <2> QED BY <2>4 DEF Takes
<1>4. PackedSteps(g, b, fld, n)
  <2>1. ASSUME NEW p \in 1..n
        PROVE  g[p] = IF b[p] = 1 THEN Append(g[p - 1], fld[p]) ELSE g[p - 1]
    <3>1. p \in Nat /\ g[p - 1] \in X
      BY <1>3
    <3> HIDE DEF X
    <3> QED BY <1>3, <3>1
  <2> QED BY <1>3, <2>1 DEF PackedSteps
<1>5. Solves(g)
  <2>1. Points \cup {0} = 0..n
    OBVIOUS
  <2>2. ASSUME NEW p \in 0..n
        PROVE  g[p] = IF p = 0 THEN <<>>
                      ELSE IF b[p] = 1 THEN Append(g[p - 1], fld[p]) ELSE g[p - 1]
    <3>1. CASE p = 0
      BY <1>4, <3>1 DEF PackedSteps
    <3>2. CASE p # 0
      <4>1. p \in 1..n
        BY <3>2
      <4> QED BY <1>4, <3>2, <4>1 DEF PackedSteps
    <3> QED BY <3>1, <3>2
  <2> HIDE DEF X
  <2> QED BY <1>3, <2>1, <2>2
<1> DEFINE w == CHOOSE v : Solves(v)
<1>6. Solves(w)
  <2> HIDE DEF Solves
  <2> QED BY <1>5
<1>7. Points \cup {0} = 0..n
  OBVIOUS
<1> HIDE DEF w, X
<1>8. /\ w[0] = <<>>
      /\ \A p \in 1..n : w[p] = IF b[p] = 1 THEN Append(w[p - 1], fld[p]) ELSE w[p - 1]
  <2>1. w[0] = <<>>
    BY <1>6, <1>7
  <2>2. ASSUME NEW p \in 1..n
        PROVE  w[p] = IF b[p] = 1 THEN Append(w[p - 1], fld[p]) ELSE w[p - 1]
    <3>1. p \in Points \cup {0} /\ p # 0
      OBVIOUS
    <3> QED BY <1>6, <3>1
  <2> QED BY <2>1, <2>2
<1>9. \A p \in 0..n : w[p] = g[p]
  <2>1. PICK lo \in Int, hi \in Int : lo = 0 /\ hi = n
    OBVIOUS
  <2>2. lo \in Int /\ hi \in Int /\ w[lo] = g[lo]
    BY <1>3, <1>8, <2>1
  <2>3. \A p \in lo + 1..hi : w[p - 1] = g[p - 1] => w[p] = g[p]
    BY <1>4, <1>8, <2>1 DEF PackedSteps
  <2>4. \A p \in lo..hi : w[p] = g[p]
    BY ONLY <2>2, <2>3, SameSteps
  <2> QED BY <2>1, <2>4
<1>10. PackedValues(b, fld) = g[Len(fld)]
  BY <1>1, <1>9 DEF w
<1> QED BY <1>3, <1>4, <1>10 DEF X

Packs(g, b, fld, n, S) ==
  /\ n \in Nat
  /\ g \in [0..n -> Seq(S)]
  /\ PackedSteps(g, b, fld, n)
  /\ \A p \in 1..n : fld[p] \in S

LEMMA SameLength ==
  ASSUME NEW n, NEW S, NEW T, NEW g, NEW h, NEW b, NEW fld, NEW ids,
         Packs(g, b, fld, n, S), Packs(h, b, ids, n, T)
  PROVE  \A p \in 0..n : Len(g[p]) = Len(h[p])
<1> DEFINE f == [p \in 0..n |-> Len(g[p])]
           k == [p \in 0..n |-> Len(h[p])]
<1>0. /\ n \in Nat /\ g \in [0..n -> Seq(S)] /\ h \in [0..n -> Seq(T)]
      /\ PackedSteps(g, b, fld, n) /\ PackedSteps(h, b, ids, n)
      /\ \A p \in 1..n : fld[p] \in S /\ ids[p] \in T
  BY DEF Packs
<1>1. PICK lo \in Int, hi \in Int : lo = 0 /\ hi = n
  BY <1>0
<1>2. lo \in Int /\ hi \in Int /\ f[lo] = k[lo]
  BY <1>0, <1>1 DEF PackedSteps
<1>3. ASSUME NEW p \in lo + 1..hi, f[p - 1] = k[p - 1] PROVE f[p] = k[p]
  <2>1. p \in 1..n /\ p - 1 \in 0..n /\ p \in 0..n
    BY <1>0, <1>1
  <2>2. Len(g[p - 1]) = Len(h[p - 1]) /\ g[p - 1] \in Seq(S) /\ h[p - 1] \in Seq(T)
    BY <1>0, <1>3, <2>1
  <2>3. /\ g[p] = IF b[p] = 1 THEN Append(g[p - 1], fld[p]) ELSE g[p - 1]
        /\ h[p] = IF b[p] = 1 THEN Append(h[p - 1], ids[p]) ELSE h[p - 1]
    BY <1>0, <2>1 DEF PackedSteps
  <2>4. fld[p] \in S /\ ids[p] \in T
    BY <1>0, <2>1
  <2>5. Len(g[p]) = Len(h[p])
    <3>1. CASE b[p] = 1
      <4>1. g[p] = Append(g[p - 1], fld[p]) /\ h[p] = Append(h[p - 1], ids[p])
        BY <2>3, <3>1
      <4>2. Len(g[p]) = Len(g[p - 1]) + 1 /\ Len(h[p]) = Len(h[p - 1]) + 1
        BY <2>2, <2>4, <4>1, AppendProperties
      <4> QED BY <2>2, <4>2
    <3>2. CASE b[p] # 1
      BY <2>2, <2>3, <3>2
    <3> QED BY <3>1, <3>2
  <2> QED BY <2>1, <2>5
<1>4. \A p \in 0..n : f[p] = k[p]
  <2> HIDE DEF f, k
  <2>1. \A p \in lo..hi : f[p] = k[p]
    BY ONLY <1>2, <1>3, SameSteps
  <2> QED BY <1>1, <2>1
<1> QED BY <1>4

(* A value keeps its place while more are appended.                        *)
LEMMA KeepsPlace ==
  ASSUME NEW n, NEW S, NEW g, NEW b, NEW fld, Packs(g, b, fld, n, S),
         NEW p \in 1..n, b[p] = 1
  PROVE  \A q \in p..n : Len(g[p]) \in 1..Len(g[q]) /\ g[q][Len(g[p])] = fld[p]
<1> DEFINE OK(q) == Len(g[p]) \in 1..Len(g[q]) /\ g[q][Len(g[p])] = fld[p]
           D == {d \in Nat : p + d <= n => OK(p + d)}
<1>0. /\ n \in Nat /\ g \in [0..n -> Seq(S)] /\ PackedSteps(g, b, fld, n)
      /\ \A i \in 1..n : fld[i] \in S
  BY DEF Packs
<1>1. 0 \in D
  <2>1. g[p] = Append(g[p - 1], fld[p]) /\ g[p - 1] \in Seq(S) /\ fld[p] \in S
    <3>1. p - 1 \in 0..n
      BY <1>0
    <3> QED BY <1>0, <3>1 DEF PackedSteps
  <2>2. OK(p)
    BY <2>1, AppendProperties
  <2>3. p + 0 = p
    OBVIOUS
  <2> QED BY <2>2, <2>3
<1>2. ASSUME NEW d \in Nat, d \in D PROVE d + 1 \in D
  <2> SUFFICES ASSUME p + (d + 1) <= n PROVE OK(p + (d + 1))
    OBVIOUS
  <2> DEFINE q == p + (d + 1)
  <2>1. p + d <= n /\ q \in 1..n /\ q - 1 = p + d /\ q - 1 \in 0..n /\ q \in 0..n
    BY <1>0
  <2>2. OK(q - 1)
    BY <1>2, <2>1
  <2> HIDE DEF q
  <2>3. g[q] = IF b[q] = 1 THEN Append(g[q - 1], fld[q]) ELSE g[q - 1]
    BY <1>0, <2>1 DEF PackedSteps
  <2>4. g[q - 1] \in Seq(S) /\ fld[q] \in S /\ g[p] \in Seq(S)
    BY <1>0, <2>1
  <2>5. OK(q)
    <3>1. CASE b[q] = 1
      <4>1. g[q] = Append(g[q - 1], fld[q])
        BY <2>3, <3>1
      <4> QED BY <2>2, <2>4, <4>1, AppendProperties
    <3>2. CASE b[q] # 1
      BY <2>2, <2>3, <3>2
    <3> QED BY <3>1, <3>2
  <2> QED BY <2>5 DEF q
<1>3. \A d \in Nat : d \in D
  <2> HIDE DEF D
  <2> QED BY <1>1, <1>2, SetInduction
<1>4. ASSUME NEW q \in p..n PROVE OK(q)
  <2>1. q - p \in Nat /\ p + (q - p) = q /\ p + (q - p) <= n
    BY <1>0
  <2>2. q - p \in D
    BY <1>3, <2>1
  <2> QED BY <2>1, <2>2
<1> QED BY <1>4

LEMMA ExpandsPacked ==
  ASSUME NEW b, b \in [Points -> {0, 1}], NEW fld, fld \in [Points -> Int]
  PROVE  Expand(b, PackedValues(b, fld)) = [p \in Points |-> fld[p] * b[p]]
<1>1. PICK n \in Nat \ {0} : Points = 1..n
  BY Numbered
<1>2. fld \in Seq(Int) /\ Len(fld) = n
  BY <1>1
<1>3. PICK g : /\ g \in [0..n -> Seq(Kept(fld))]
                /\ PackedSteps(g, b, fld, n) /\ PackedValues(b, fld) = g[n]
  <2>1. Len(fld) \in 0..n /\ n \in Nat \ {0}
    BY <1>2
  <2>2. \E g \in [0..n -> Seq(Kept(fld))] :
          PackedSteps(g, b, fld, n) /\ PackedValues(b, fld) = g[Len(fld)]
    BY ONLY <1>1, <2>1, PackedExists
  <2> QED BY <1>2, <2>2
<1>4. ASSUME NEW p \in 1..n
      PROVE  (IF b[p] = 1 THEN g[n][Len(PackedValues(b, [q \in 1..p |-> q]))] ELSE 0)
               = fld[p] * b[p]
  <2>1. CASE b[p] = 1
    <3> DEFINE ids == [q \in 1..p |-> q]
    <3>1. Len(ids) = p
      OBVIOUS
    <3>2. PICK h : /\ h \in [0..n -> Seq(Kept(ids))]
                   /\ PackedSteps(h, b, ids, n) /\ PackedValues(b, ids) = h[p]
      <4> HIDE DEF ids
      <4>1. Len(ids) \in 0..n
        BY <3>1
      <4> QED BY <1>1, <3>1, <4>1, PackedExists
    <3>3. \A q \in 1..n : fld[q] \in Kept(fld) /\ ids[q] \in Kept(ids)
      BY <1>1 DEF Kept
    <3> HIDE DEF ids
    <3>4. Packs(g, b, fld, n, Kept(fld)) /\ Packs(h, b, ids, n, Kept(ids))
      BY <1>3, <3>2, <3>3 DEF Packs
    <3>8. \A q \in 0..n : Len(g[q]) = Len(h[q])
      BY <3>4, SameLength
    <3>9. g[n][Len(g[p])] = fld[p]
      BY <2>1, <3>4, KeepsPlace
    <3>6. g[n][Len(PackedValues(b, ids))] = fld[p]
      BY <3>2, <3>8, <3>9
    <3>7. fld[p] \in Int /\ fld[p] * 1 = fld[p]
      BY <1>1
    <3> QED BY <2>1, <3>6, <3>7 DEF ids
  <2>2. CASE b[p] # 1
    <3>1. b[p] = 0 /\ fld[p] \in Int
      BY <1>1, <2>2
    <3> QED BY <3>1
  <2> QED BY <2>1, <2>2
<1>5. Expand(b, PackedValues(b, fld)) =
        [p \in Points |-> IF b[p] = 1 THEN g[n][Len(PackedValues(b, [q \in 1..p |-> q]))] ELSE 0]
  BY <1>3 DEF Expand
<1> QED BY <1>1, <1>4, <1>5

-----------------------------------------------------------------------------
(* The pointers of parse_msg.c in closed form: the last section of each    *)
(* number up to a position, with the bitmap a reused one stands for.       *)

Positions(secs, i, n) == {j \in 1..i : secs[j].n = n}

GivenBitmaps(secs, i) == {j \in 1..i : secs[j].n = 6 /\ secs[j].ibmap = 0}

LastIn(P) == IF P = {} THEN Null ELSE CHOOSE j \in P : \A k \in P : k <= j

Pointers(secs, i) ==
  [n \in 0..9 |->
     IF n = 9 THEN LastIn(GivenBitmaps(secs, i))
     ELSE IF /\ n = 6 /\ LastIn(Positions(secs, i, 6)) # Null
             /\ secs[LastIn(Positions(secs, i, 6))].ibmap = 254
          THEN LastIn(GivenBitmaps(secs, i))
     ELSE LastIn(Positions(secs, i, n))]

(* A bitmap is given, reused or absent; it is reused only when one was     *)
(* given before.                                                           *)
BitmapsOK(secs) ==
  \A i \in 1..Len(secs) :
    secs[i].n = 6 =>
      /\ secs[i].ibmap \in {0, 254, 255}
      /\ secs[i].ibmap = 254 => GivenBitmaps(secs, i - 1) # {}

LEMMA LastInProperties ==
  ASSUME NEW i \in Nat, NEW P \in SUBSET (1..i)
  PROVE  /\ P = {} => LastIn(P) = 0
         /\ P # {} => LastIn(P) \in P /\ \A k \in P : k <= LastIn(P)
         /\ LastIn(P) \in 0..i
<1>1. ASSUME P # {} PROVE LastIn(P) \in P /\ \A k \in P : k <= LastIn(P)
  <2>1. P \in SUBSET Nat /\ \A k \in P : k <= i
    OBVIOUS
  <2>2. \E j \in P : \A k \in P : k <= j
    BY <1>1, <2>1, GreatestNatural
  <2> QED BY <1>1, <2>2 DEF LastIn
<1>2. P = {} => LastIn(P) = 0
  BY DEF LastIn, Null
<1>3. CASE P = {}
  BY <1>2, <1>3
<1>4. CASE P # {}
  <2>1. LastIn(P) \in P /\ \A k \in P : k <= LastIn(P)
    BY <1>1, <1>4
  <2>2. LastIn(P) \in 0..i
    <3>1. PICK j \in P : j = LastIn(P)
      BY <2>1, Zenon
    <3>2. j \in 0..i
      OBVIOUS
    <3> QED BY <3>1, <3>2, Zenon
  <2> QED BY <1>4, <2>1, <2>2
<1> QED BY <1>3, <1>4

LEMMA LastInAdd ==
  ASSUME NEW i \in Nat \ {0}, NEW P \in SUBSET (1..i - 1)
  PROVE  LastIn(P \cup {i}) = i
<1>1. P \cup {i} \in SUBSET (1..i) /\ P \cup {i} # {}
  OBVIOUS
<1>2. LastIn(P \cup {i}) \in P \cup {i} /\ \A k \in P \cup {i} : k <= LastIn(P \cup {i})
  BY <1>1, LastInProperties
<1>3. LastIn(P \cup {i}) \in 1..i /\ i <= LastIn(P \cup {i})
  BY <1>1, <1>2
<1> QED BY <1>3

LEMMA PointersType ==
  ASSUME NEW secs, NEW i \in Nat
  PROVE  /\ Pointers(secs, i) \in [0..9 -> 0..i]
         /\ Pointers(secs, i) # Bad /\ Pointers(secs, i) # Ended
<1>1. \A n : Positions(secs, i, n) \in SUBSET (1..i)
  BY DEF Positions
<1>2. GivenBitmaps(secs, i) \in SUBSET (1..i)
  BY DEF GivenBitmaps
<1>3. /\ \A n : LastIn(Positions(secs, i, n)) \in 0..i
      /\ LastIn(GivenBitmaps(secs, i)) \in 0..i
  BY <1>1, <1>2, LastInProperties
<1>4. Pointers(secs, i) \in [0..9 -> 0..i]
  BY <1>3 DEF Pointers
<1>5. Bad[1] = -1 /\ Ended[1] = -2 /\ Pointers(secs, i)[1] \in 0..i
  BY <1>4 DEF Bad, Ended
<1> QED BY <1>4, <1>5

(* One more section.                                                       *)
LEMMA PositionsStep ==
  ASSUME NEW secs, NEW i \in Nat \ {0}, NEW n
  PROVE  LastIn(Positions(secs, i, n)) =
           IF secs[i].n = n THEN i ELSE LastIn(Positions(secs, i - 1, n))
<1>1. Positions(secs, i - 1, n) \in SUBSET (1..i - 1)
  BY DEF Positions
<1>2. CASE secs[i].n = n
  <2>1. Positions(secs, i, n) = Positions(secs, i - 1, n) \cup {i}
    BY <1>2 DEF Positions
  <2> QED BY <1>1, <1>2, <2>1, LastInAdd
<1>3. CASE secs[i].n # n
  <2>1. Positions(secs, i, n) = Positions(secs, i - 1, n)
    BY <1>3 DEF Positions
  <2> QED BY <1>3, <2>1
<1> QED BY <1>2, <1>3

LEMMA GivenStep ==
  ASSUME NEW secs, NEW i \in Nat \ {0}
  PROVE  LastIn(GivenBitmaps(secs, i)) =
           IF secs[i].n = 6 /\ secs[i].ibmap = 0 THEN i
           ELSE LastIn(GivenBitmaps(secs, i - 1))
<1>1. GivenBitmaps(secs, i - 1) \in SUBSET (1..i - 1)
  BY DEF GivenBitmaps
<1>2. CASE secs[i].n = 6 /\ secs[i].ibmap = 0
  <2>1. GivenBitmaps(secs, i) = GivenBitmaps(secs, i - 1) \cup {i}
    BY <1>2 DEF GivenBitmaps
  <2> QED BY <1>1, <1>2, <2>1, LastInAdd
<1>3. CASE ~(secs[i].n = 6 /\ secs[i].ibmap = 0)
  <2>1. GivenBitmaps(secs, i) = GivenBitmaps(secs, i - 1)
    BY <1>3 DEF GivenBitmaps
  <2> QED BY <1>3, <2>1
<1> QED BY <1>2, <1>3

LEMMA PointersStep ==
  ASSUME NEW secs, NEW i \in 1..Len(secs), Len(secs) \in Nat, BitmapsOK(secs),
         secs[i].n \in 1..7
  PROVE  LET now == [Pointers(secs, i - 1) EXCEPT ![secs[i].n] = i]
         IN  Pointers(secs, i) =
               IF secs[i].n # 6 \/ secs[i].ibmap = 255 THEN now
               ELSE IF secs[i].ibmap = 0 THEN [now EXCEPT ![9] = i]
               ELSE [now EXCEPT ![6] = now[9]]
<1> DEFINE now == [Pointers(secs, i - 1) EXCEPT ![secs[i].n] = i]
           next == IF secs[i].n # 6 \/ secs[i].ibmap = 255 THEN now
                   ELSE IF secs[i].ibmap = 0 THEN [now EXCEPT ![9] = i]
                   ELSE [now EXCEPT ![6] = now[9]]
           last(n) == LastIn(Positions(secs, i, n))
           before(n) == LastIn(Positions(secs, i - 1, n))
           given == LastIn(GivenBitmaps(secs, i))
           givenBefore == LastIn(GivenBitmaps(secs, i - 1))
<1>1. i \in Nat \ {0} /\ i - 1 \in Nat /\ i # Null
  BY DEF Null
<1>2. \A n : last(n) = IF secs[i].n = n THEN i ELSE before(n)
  BY <1>1, PositionsStep
<1>3. given = IF secs[i].n = 6 /\ secs[i].ibmap = 0 THEN i ELSE givenBefore
  BY <1>1, GivenStep
<1>4. Pointers(secs, i) =
        [n \in 0..9 |-> IF n = 9 THEN given
                        ELSE IF n = 6 /\ last(6) # Null /\ secs[last(6)].ibmap = 254 THEN given
                        ELSE last(n)]
  BY DEF Pointers
<1>5. Pointers(secs, i - 1) =
        [n \in 0..9 |-> IF n = 9 THEN givenBefore
                        ELSE IF n = 6 /\ before(6) # Null /\ secs[before(6)].ibmap = 254
                             THEN givenBefore
                        ELSE before(n)]
  BY DEF Pointers
<1>6. secs[i].n = 6 => secs[i].ibmap \in {0, 254, 255}
  BY DEF BitmapsOK
<1> HIDE DEF last, before, given, givenBefore
<1>7. now \in [0..9 -> {now[n] : n \in 0..9}]
      /\ \A n \in 0..9 : now[n] = IF n = secs[i].n THEN i ELSE Pointers(secs, i - 1)[n]
  BY <1>5
<1>8. CASE secs[i].n # 6
  <2>1. \A n \in 0..9 : Pointers(secs, i)[n] = now[n]
    BY <1>2, <1>3, <1>4, <1>5, <1>7, <1>8
  <2>2. Pointers(secs, i) = now
    BY <1>4, <1>5, <2>1
  <2> QED BY <1>8, <2>2
<1>9. CASE secs[i].n = 6 /\ secs[i].ibmap = 255
  <2>1. \A n \in 0..9 : Pointers(secs, i)[n] = now[n]
    BY <1>1, <1>2, <1>3, <1>4, <1>5, <1>7, <1>9
  <2>2. Pointers(secs, i) = now
    BY <1>4, <1>5, <2>1
  <2> QED BY <1>9, <2>2
<1>10. CASE secs[i].n = 6 /\ secs[i].ibmap = 0
  <2>1. \A n \in 0..9 : Pointers(secs, i)[n] = [now EXCEPT ![9] = i][n]
    BY <1>1, <1>2, <1>3, <1>4, <1>5, <1>7, <1>10
  <2>2. Pointers(secs, i) = [now EXCEPT ![9] = i]
    BY <1>4, <1>5, <2>1
  <2> QED BY <1>10, <2>2
<1>11. CASE secs[i].n = 6 /\ secs[i].ibmap = 254
  <2>1. \A n \in 0..9 : Pointers(secs, i)[n] = [now EXCEPT ![6] = now[9]][n]
    BY <1>1, <1>2, <1>3, <1>4, <1>5, <1>7, <1>11
  <2>2. Pointers(secs, i) = [now EXCEPT ![6] = now[9]]
    BY <1>4, <1>5, <2>1
  <2> QED BY <1>11, <2>2
<1>12. secs[i].n # 6 \/ (secs[i].n = 6 /\ secs[i].ibmap = 255)
         \/ (secs[i].n = 6 /\ secs[i].ibmap = 0) \/ (secs[i].n = 6 /\ secs[i].ibmap = 254)
  BY <1>6
<1> HIDE DEF now
<1> QED BY <1>8, <1>9, <1>10, <1>11, <1>12

-----------------------------------------------------------------------------
(* Walking through the sections keeps the pointers in that form.           *)

WalkStep(secs, prev, i, reuse) ==
  IF prev = Bad THEN Bad
  ELSE LET s == secs[i]
           now == [prev EXCEPT ![s.n] = i]
       IN  IF s.n # 6 THEN now
           ELSE CASE s.ibmap = 0 -> [now EXCEPT ![9] = i]
                  [] s.ibmap = 254 /\ reuse /\ now[9] # Null -> [now EXCEPT ![6] = now[9]]
                  [] s.ibmap = 255 -> now
                  [] OTHER -> Bad

LEMMA WalkStepPointers ==
  ASSUME NEW secs, NEW i \in 1..Len(secs), Len(secs) \in Nat, BitmapsOK(secs),
         secs[i].n \in 1..7, NEW reuse \in BOOLEAN,
         ~reuse => ~(secs[i].n = 6 /\ secs[i].ibmap = 254)
  PROVE  WalkStep(secs, Pointers(secs, i - 1), i, reuse) = Pointers(secs, i)
<1> DEFINE prev == Pointers(secs, i - 1)
           now == [prev EXCEPT ![secs[i].n] = i]
<1>1. prev # Bad /\ prev \in [0..9 -> 0..i - 1]
  BY PointersType
<1>2. Pointers(secs, i) = IF secs[i].n # 6 \/ secs[i].ibmap = 255 THEN now
                          ELSE IF secs[i].ibmap = 0 THEN [now EXCEPT ![9] = i]
                          ELSE [now EXCEPT ![6] = now[9]]
  BY PointersStep
<1>3. secs[i].n = 6 => secs[i].ibmap \in {0, 254, 255}
  BY DEF BitmapsOK
<1>4. secs[i].n = 6 /\ secs[i].ibmap = 254 => now[9] # Null
  <2> SUFFICES ASSUME secs[i].n = 6, secs[i].ibmap = 254 PROVE now[9] # Null
    OBVIOUS
  <2>1. GivenBitmaps(secs, i - 1) # {} /\ GivenBitmaps(secs, i - 1) \in SUBSET (1..i - 1)
    BY DEF BitmapsOK, GivenBitmaps
  <2>2. LastIn(GivenBitmaps(secs, i - 1)) \in GivenBitmaps(secs, i - 1)
    BY <2>1, LastInProperties
  <2>3. prev[9] = LastIn(GivenBitmaps(secs, i - 1))
    BY DEF Pointers
  <2>4. prev[9] \in 1..i - 1
    BY <2>1, <2>2, <2>3
  <2> QED BY <1>1, <2>4 DEF Null
<1> HIDE DEF prev
<1>5. WalkStep(secs, prev, i, reuse) =
        IF secs[i].n # 6 THEN now
        ELSE CASE secs[i].ibmap = 0 -> [now EXCEPT ![9] = i]
               [] secs[i].ibmap = 254 /\ reuse /\ now[9] # Null -> [now EXCEPT ![6] = now[9]]
               [] secs[i].ibmap = 255 -> now
               [] OTHER -> Bad
  BY <1>1 DEF WalkStep
<1> HIDE DEF now
<1>6. CASE secs[i].n # 6
  BY <1>2, <1>5, <1>6 DEF prev
<1>7. CASE secs[i].n = 6 /\ secs[i].ibmap = 0
  BY <1>2, <1>5, <1>7 DEF prev
<1>8. CASE secs[i].n = 6 /\ secs[i].ibmap = 254
  BY <1>2, <1>4, <1>5, <1>8 DEF prev
<1>9. CASE secs[i].n = 6 /\ secs[i].ibmap = 255
  BY <1>2, <1>5, <1>9 DEF prev
<1> QED BY <1>3, <1>6, <1>7, <1>8, <1>9

WalkEquation(w, secs, first, last, sec, reuse) ==
  w = [i \in first - 1..last |-> IF i = first - 1 THEN sec
                                 ELSE WalkStep(secs, w[i - 1], i, reuse)]

LEMMA WalkPointers ==
  ASSUME NEW secs, Len(secs) \in Nat, BitmapsOK(secs),
         \A i \in 1..Len(secs) : secs[i].n \in 1..7,
         NEW first \in Nat \ {0}, NEW last \in Nat, first <= last, last <= Len(secs),
         NEW reuse \in BOOLEAN,
         ~reuse => \A i \in first..last : ~(secs[i].n = 6 /\ secs[i].ibmap = 254)
  PROVE  Walk(secs, first, last, Pointers(secs, first - 1), reuse) = Pointers(secs, last)
<1> DEFINE sec == Pointers(secs, first - 1)
           Solves(w) == WalkEquation(w, secs, first, last, sec, reuse)
           closed == [i \in first - 1..last |-> Pointers(secs, i)]
<1>1. Walk(secs, first, last, sec, reuse) = (CHOOSE w : Solves(w))[last]
  BY DEF Walk, WalkStep, WalkEquation
<1>2. ASSUME NEW i \in first..last
      PROVE  WalkStep(secs, Pointers(secs, i - 1), i, reuse) = Pointers(secs, i)
  <2>1. i \in 1..Len(secs) /\ secs[i].n \in 1..7
    OBVIOUS
  <2> QED BY <2>1, WalkStepPointers
<1>3. Solves(closed)
  <2>1. ASSUME NEW i \in first - 1..last
        PROVE  closed[i] = IF i = first - 1 THEN sec ELSE WalkStep(secs, closed[i - 1], i, reuse)
    <3>1. CASE i = first - 1
      BY <3>1
    <3>2. CASE i # first - 1
      <4>1. i \in first..last /\ i - 1 \in first - 1..last
        BY <3>2
      <4> QED BY <1>2, <3>2, <4>1
    <3> QED BY <3>1, <3>2
  <2> HIDE DEF sec
  <2> QED BY <2>1 DEF WalkEquation
<1>4. ASSUME NEW w, Solves(w) PROVE w[last] = Pointers(secs, last)
  <2>1. PICK lo \in Int, hi \in Int : lo = first - 1 /\ hi = last
    OBVIOUS
  <2>2. hi \in lo..hi /\ lo \in lo..hi /\ lo \in Int /\ hi \in Int
    BY <2>1
  <2>3. w[lo] = closed[lo]
    BY <1>4, <2>1, <2>2 DEF WalkEquation
  <2>4. ASSUME NEW i \in lo + 1..hi, w[i - 1] = closed[i - 1]
        PROVE  w[i] = closed[i]
    <3>1. i \in first - 1..last /\ i - 1 \in first - 1..last /\ i # first - 1 /\ i \in first..last
      BY <2>1
    <3> QED BY <1>2, <1>4, <2>4, <3>1 DEF WalkEquation
  <2>5. \A i \in lo..hi : w[i] = closed[i]
    <3> HIDE DEF closed
    <3> QED BY ONLY <2>2, <2>3, <2>4, SameSteps
  <2> QED BY <2>1, <2>2, <2>5
<1> HIDE DEF Solves
<1> QED BY <1>1, <1>3, <1>4

-----------------------------------------------------------------------------
(* The submessages are read one after the other, up to the positions ends. *)

EndsOK(secs, n, ends) ==
  /\ n \in Nat
  /\ ends \in [1..n -> 1..Len(secs)]
  /\ \A j, k \in 1..n : j < k => ends[j] < ends[k]
  /\ {ends[k] : k \in 1..n} = Submessages(secs)

LEMMA NextEndIs ==
  ASSUME NEW secs, Len(secs) \in Nat, NEW n, NEW ends, EndsOK(secs, n, ends), NEW k \in 1..n
  PROVE  NextEnd(secs, IF k = 1 THEN 1 ELSE ends[k - 1] + 1) = ends[k]
<1> DEFINE from == IF k = 1 THEN 1 ELSE ends[k - 1] + 1
           later == {i \in Submessages(secs) : i >= from}
<1>1. k \in Nat /\ n \in Nat /\ ends[k] \in 1..Len(secs) /\ from \in Nat
  BY DEF EndsOK
<1>2. ends[k] >= from
  BY DEF EndsOK
<1>3. ends[k] \in later
  BY <1>1, <1>2 DEF EndsOK
<1>4. ASSUME NEW i \in later PROVE ends[k] <= i
  <2>1. PICK j \in 1..n : i = ends[j]
    BY DEF EndsOK
  <2>2. i >= from /\ i \in 1..Len(secs)
    BY <2>1 DEF EndsOK
  <2>3. CASE j < k
    <3>1. j <= k - 1 /\ k # 1 /\ k - 1 \in 1..n
      BY <1>1, <2>3
    <3>2. ends[j] <= ends[k - 1]
      BY <2>1, <3>1, SMTT(40) DEF EndsOK
    <3>3. ends[j] \in Nat /\ ends[k - 1] \in Nat /\ ends[j] >= ends[k - 1] + 1
      BY <2>1, <2>2, <3>1 DEF EndsOK
    <3> QED BY <3>2, <3>3
  <2>4. CASE j = k
    BY <1>1, <2>1, <2>4
  <2>5. CASE j > k
    <3>1. ends[k] < ends[j] /\ ends[j] \in Nat
      BY <2>1, <2>5 DEF EndsOK
    <3> QED BY <1>1, <2>1, <3>1
  <2> QED BY <1>1, <2>3, <2>4, <2>5
<1>5. \A i, j \in later : i \in Nat
  BY DEF Submessages
<1>6. (CHOOSE i \in later : \A j \in later : i <= j) = ends[k]
  <2> HIDE DEF later
  <2>1. PICK m \in later : m = ends[k] /\ \A j \in later : m <= j
    BY <1>3, <1>4
  <2>2. \A i \in later : (\A j \in later : i <= j) => i = m
    BY <1>5, <2>1
  <2> QED BY <2>1, <2>2
<1> QED BY <1>3, <1>6 DEF NextEnd

(* No bitmap is reused in the first submessage.                            *)
FirstOK(secs, n, ends) ==
  n >= 1 => \A i \in 1..ends[1] : ~(secs[i].n = 6 /\ secs[i].ibmap = 254)

WellFormed(secs, n, ends) ==
  /\ Len(secs) \in Nat
  /\ \A i \in 1..Len(secs) : secs[i].n \in 1..7
  /\ BitmapsOK(secs)
  /\ EndsOK(secs, n, ends)
  /\ FirstOK(secs, n, ends)

LEMMA FirstMessage ==
  ASSUME NEW secs, NEW n, NEW ends, WellFormed(secs, n, ends), 1 \in 1..n
  PROVE  parse_1st_msg(secs, NoSections) = Pointers(secs, ends[1])
<1>1. /\ Len(secs) \in Nat /\ ends[1] \in 1..Len(secs) /\ EndsOK(secs, n, ends) /\ BitmapsOK(secs)
      /\ \A i \in 1..Len(secs) : secs[i].n \in 1..7
      /\ \A i \in 1..ends[1] : ~(secs[i].n = 6 /\ secs[i].ibmap = 254)
  BY DEF WellFormed, EndsOK, FirstOK
<1>2. NextEnd(secs, 1) = ends[1]
  BY <1>1, NextEndIs
<1>3. Pointers(secs, 0) = NoSections
  <2>1. \A m : Positions(secs, 0, m) = {}
    BY DEF Positions
  <2>2. GivenBitmaps(secs, 0) = {}
    BY DEF GivenBitmaps
  <2>3. LastIn({}) = Null
    BY DEF LastIn
  <2> QED BY <2>1, <2>2, <2>3 DEF Pointers, NoSections
<1>4. [NoSections EXCEPT ![2] = Null, ![6] = Null, ![9] = Null] = NoSections
  BY DEF NoSections
<1>5. PICK e \in Nat : e = ends[1] /\ 1 <= e /\ e <= Len(secs)
  BY <1>1
<1>6. \A i \in 1..e : ~(secs[i].n = 6 /\ secs[i].ibmap = 254)
  BY <1>1, <1>5
<1>7. Walk(secs, 1, e, Pointers(secs, 1 - 1), FALSE) = Pointers(secs, e)
  <2>1. 1 \in Nat \ {0} /\ FALSE \in BOOLEAN
    OBVIOUS
  <2> QED BY <1>1, <1>5, <1>6, <2>1, WalkPointers, Zenon
<1>8. Walk(secs, 1, e, NoSections, FALSE) = Pointers(secs, e)
  <2>1. 1 - 1 = 0
    OBVIOUS
  <2> QED BY <1>3, <1>7, <2>1, Zenon
<1>9. ends[1] # Null
  BY <1>5 DEF Null
<1> QED BY <1>2, <1>4, <1>5, <1>8, <1>9, Zenon DEF parse_1st_msg

LEMMA NextMessage ==
  ASSUME NEW secs, NEW n, NEW ends, WellFormed(secs, n, ends), NEW k \in 2..n
  PROVE  parse_next_msg(secs, Pointers(secs, ends[k - 1])) = Pointers(secs, ends[k])
<1>1. /\ Len(secs) \in Nat /\ EndsOK(secs, n, ends) /\ BitmapsOK(secs) /\ n \in Nat
      /\ \A i \in 1..Len(secs) : secs[i].n \in 1..7
  BY DEF WellFormed, EndsOK
<1>2. k \in 1..n /\ k - 1 \in 1..n /\ k # 1 /\ k - 1 < k
  BY <1>1
<1>3. PICK e \in Nat, d \in Nat \ {0} : /\ e = ends[k] /\ d = ends[k - 1]
                                      /\ d < e /\ e <= Len(secs)
                                      /\ d \in Submessages(secs)
  <2>1. ends[k] \in 1..Len(secs) /\ ends[k - 1] \in 1..Len(secs) /\ ends[k - 1] < ends[k]
    BY <1>1, <1>2 DEF EndsOK
  <2>2. ends[k - 1] \in Submessages(secs)
    BY <1>1, <1>2 DEF EndsOK
  <2> QED BY <1>1, <2>1, <2>2
<1>4. NextEnd(secs, d + 1) = e
  BY <1>1, <1>2, <1>3, NextEndIs
<1>5. Pointers(secs, d)[7] = d
  <2>1. secs[d].n = 7
    BY <1>3 DEF Submessages
  <2>2. LastIn(Positions(secs, d, 7)) = d
    BY <1>3, <2>1, PositionsStep
  <2> QED BY <2>2 DEF Pointers
<1>6. Walk(secs, d + 1, e, Pointers(secs, d), TRUE) = Pointers(secs, e)
  <2>1. d + 1 \in Nat \ {0} /\ d + 1 <= e /\ (d + 1) - 1 = d
    BY <1>3
  <2>2. Walk(secs, d + 1, e, Pointers(secs, (d + 1) - 1), TRUE) = Pointers(secs, e)
    <3>1. /\ TRUE \in BOOLEAN /\ e <= Len(secs)
          /\ ~TRUE => \A i \in d + 1..e : ~(secs[i].n = 6 /\ secs[i].ibmap = 254)
      BY <1>3
    <3>2. e \in Nat /\ Len(secs) \in Nat /\ BitmapsOK(secs)
          /\ \A i \in 1..Len(secs) : secs[i].n \in 1..7
      BY <1>1, <1>3
    <3> QED BY ONLY <2>1, <3>1, <3>2, WalkPointers
  <2> QED BY <2>1, <2>2
<1>7. e # Null
  BY <1>3 DEF Null
<1> QED BY <1>3, <1>4, <1>5, <1>6, <1>7 DEF parse_next_msg

SubmessageEquation(w, secs, k) ==
  w = [i \in 1..k |-> IF i = 1 THEN parse_1st_msg(secs, NoSections)
                      ELSE IF w[i - 1] \in {Bad, Ended} THEN w[i - 1]
                      ELSE parse_next_msg(secs, w[i - 1])]

LEMMA SubmessagePointers ==
  ASSUME NEW secs, NEW n, NEW ends, WellFormed(secs, n, ends), NEW k \in 1..n
  PROVE  Submessage(secs, k) = Pointers(secs, ends[k])
<1> DEFINE Solves(w) == SubmessageEquation(w, secs, k)
           closed == [i \in 1..k |-> Pointers(secs, ends[i])]
<1>1. Submessage(secs, k) = (CHOOSE w : Solves(w))[k]
  BY DEF Submessage, SubmessageEquation
<1>2. n \in Nat /\ k \in Nat /\ 1 \in 1..n /\ \A i \in 1..n : ends[i] \in Nat
  BY DEF WellFormed, EndsOK
<1>3. parse_1st_msg(secs, NoSections) = Pointers(secs, ends[1])
  BY <1>2, FirstMessage
<1>4. ASSUME NEW i \in 2..k
      PROVE  /\ Pointers(secs, ends[i - 1]) \notin {Bad, Ended}
             /\ parse_next_msg(secs, Pointers(secs, ends[i - 1])) = Pointers(secs, ends[i])
  <2>1. i \in 2..n /\ i - 1 \in 1..n
    BY <1>2
  <2>2. ends[i - 1] \in Nat
    BY <1>2, <2>1
  <2> QED BY <2>1, <2>2, NextMessage, PointersType
<1>5. Solves(closed)
  <2>1. ASSUME NEW i \in 1..k
        PROVE  closed[i] = IF i = 1 THEN parse_1st_msg(secs, NoSections)
                           ELSE IF closed[i - 1] \in {Bad, Ended} THEN closed[i - 1]
                           ELSE parse_next_msg(secs, closed[i - 1])
    <3>1. CASE i = 1
      BY <1>3, <3>1
    <3>2. CASE i # 1
      <4>1. i \in 2..k /\ i - 1 \in 1..k
        BY <1>2, <3>2
      <4>2. closed[i - 1] = Pointers(secs, ends[i - 1]) /\ closed[i] = Pointers(secs, ends[i])
        BY <4>1
      <4> HIDE DEF closed
      <4> QED BY <1>4, <3>2, <4>1, <4>2
    <3> QED BY <3>1, <3>2
  <2> QED BY <2>1 DEF SubmessageEquation
<1>6. ASSUME NEW w, Solves(w) PROVE w[k] = Pointers(secs, ends[k])
  <2>1. PICK lo \in Int, hi \in Int : lo = 1 /\ hi = k
    BY <1>2
  <2>2. hi \in lo..hi /\ lo \in lo..hi /\ lo \in Int /\ hi \in Int
    BY <1>2, <2>1
  <2>3. w[lo] = closed[lo]
    BY <1>3, <1>6, <2>1, <2>2 DEF SubmessageEquation
  <2>4. ASSUME NEW i \in lo + 1..hi, w[i - 1] = closed[i - 1]
        PROVE  w[i] = closed[i]
    <3>1. i \in 2..k /\ i \in 1..k /\ i - 1 \in 1..k /\ i # 1
      BY <1>2, <2>1
    <3>2. closed[i - 1] = Pointers(secs, ends[i - 1]) /\ closed[i] = Pointers(secs, ends[i])
      BY <3>1
    <3>3. w[i] = IF w[i - 1] \in {Bad, Ended} THEN w[i - 1] ELSE parse_next_msg(secs, w[i - 1])
      BY <1>6, <3>1 DEF SubmessageEquation
    <3> QED BY <1>4, <2>4, <3>1, <3>2, <3>3
  <2>5. \A i \in lo..hi : w[i] = closed[i]
    <3> HIDE DEF closed
    <3> QED BY ONLY <2>2, <2>3, <2>4, SameSteps, SMTT(40)
  <2> QED BY <2>1, <2>2, <2>5
<1> HIDE DEF Solves
<1> QED BY <1>1, <1>5, <1>6

(* num_submsgs counts the last sections.                                   *)
CountEquation(w, secs) ==
  w = [i \in 0..Len(secs) |->
         IF i = 0 THEN 0 ELSE w[i - 1] + (IF secs[i].n = 7 THEN 1 ELSE 0)]

LEMMA SubmessageCount ==
  ASSUME NEW secs, Len(secs) \in Nat
  PROVE  num_submsgs(secs) = Cardinality(Submessages(secs))
<1> DEFINE Solves(w) == CountEquation(w, secs)
           ended(i) == {j \in 1..i : secs[j].n = 7}
           closed == [i \in 0..Len(secs) |-> Cardinality(ended(i))]
<1>1. num_submsgs(secs) = (CHOOSE w : Solves(w))[Len(secs)]
  BY DEF num_submsgs, CountEquation
<1>2. Cardinality(ended(0)) = 0
  <2>1. ended(0) = {}
    OBVIOUS
  <2> QED BY <2>1, FS_EmptySet
<1>3. ASSUME NEW i \in 1..Len(secs)
      PROVE  Cardinality(ended(i)) = Cardinality(ended(i - 1)) + (IF secs[i].n = 7 THEN 1 ELSE 0)
  <2>1. IsFiniteSet(ended(i - 1)) /\ i \notin ended(i - 1)
    <3>1. IsFiniteSet(1..i - 1)
      <4>1. 1 \in Int /\ i - 1 \in Int
        OBVIOUS
      <4> QED BY <4>1, FS_Interval
    <3>2. ended(i - 1) \subseteq 1..i - 1
      OBVIOUS
    <3> QED BY <3>1, <3>2, FS_Subset
  <2>2. CASE secs[i].n = 7
    <3>1. ended(i) = ended(i - 1) \cup {i}
      BY <2>2
    <3> QED BY <2>1, <2>2, <3>1, FS_AddElement
  <2>3. CASE secs[i].n # 7
    <3>1. ended(i) = ended(i - 1)
      BY <2>3
    <3>2. Cardinality(ended(i - 1)) \in Nat
      BY <2>1, FS_CardinalityType
    <3> HIDE DEF ended
    <3> QED BY <2>3, <3>1, <3>2
  <2> QED BY <2>2, <2>3
<1>4. closed[0] = 0 /\ closed[Len(secs)] = Cardinality(Submessages(secs))
  BY <1>2 DEF Submessages
<1> HIDE DEF ended
<1>5. Solves(closed)
  <2>1. ASSUME NEW i \in 0..Len(secs)
        PROVE  closed[i] = IF i = 0 THEN 0 ELSE closed[i - 1] + (IF secs[i].n = 7 THEN 1 ELSE 0)
    <3>1. CASE i = 0
      BY <1>2, <3>1
    <3>2. CASE i # 0
      <4>1. i \in 1..Len(secs) /\ i - 1 \in 0..Len(secs)
        BY <3>2
      <4> QED BY <1>3, <3>2, <4>1
    <3> QED BY <3>1, <3>2
  <2> QED BY <2>1 DEF CountEquation
<1>6. ASSUME NEW w, Solves(w) PROVE w[Len(secs)] = Cardinality(Submessages(secs))
  <2>1. PICK lo \in Int, hi \in Int : lo = 0 /\ hi = Len(secs)
    OBVIOUS
  <2>2. hi \in lo..hi /\ lo \in lo..hi /\ lo \in Int /\ hi \in Int
    BY <2>1
  <2>3. w[lo] = closed[lo]
    BY <1>4, <1>6, <2>1, <2>2 DEF CountEquation
  <2>4. ASSUME NEW i \in lo + 1..hi, w[i - 1] = closed[i - 1]
        PROVE  w[i] = closed[i]
    <3>1. i \in 1..Len(secs) /\ i \in 0..Len(secs) /\ i - 1 \in 0..Len(secs) /\ i # 0
      BY <2>1
    <3>2. w[i] = w[i - 1] + (IF secs[i].n = 7 THEN 1 ELSE 0)
      BY <1>6, <3>1 DEF CountEquation
    <3>3. closed[i] = closed[i - 1] + (IF secs[i].n = 7 THEN 1 ELSE 0)
      BY <1>3, <3>1
    <3> QED BY <2>4, <3>2, <3>3
  <2>5. \A i \in lo..hi : w[i] = closed[i]
    <3> HIDE DEF closed
    <3> QED BY ONLY <2>2, <2>3, <2>4, SameSteps
  <2> QED BY <1>4, <2>1, <2>2, <2>5
<1> HIDE DEF Solves
<1> QED BY <1>1, <1>4, <1>5, <1>6

LEMMA CountEnds ==
  ASSUME NEW secs, Len(secs) \in Nat, NEW n, NEW ends, EndsOK(secs, n, ends)
  PROVE  num_submsgs(secs) = n
<1>1. n \in Nat /\ ends \in [1..n -> 1..Len(secs)] /\ Submessages(secs) = {ends[k] : k \in 1..n}
  BY DEF EndsOK
<1>2. IsFiniteSet(1..n) /\ Cardinality(1..n) = n
  BY <1>1, FS_Interval
<1>3. ends \in Bijection(1..n, Submessages(secs))
  <2>1. ASSUME NEW j \in 1..n, NEW k \in 1..n, ends[j] = ends[k] PROVE j = k
    <3>1. ends[j] \in Nat /\ ends[k] \in Nat
      BY <1>1
    <3> QED BY <1>1, <2>1, <3>1 DEF EndsOK
  <2>2. ends \in [1..n -> Submessages(secs)]
    BY <1>1
  <2>3. ends \in Injection(1..n, Submessages(secs))
    BY <2>1, <2>2 DEF Injection, IsInjective
  <2>4. ends \in Surjection(1..n, Submessages(secs))
    BY <1>1, <2>2 DEF Surjection
  <2> QED BY <2>3, <2>4 DEF Bijection
<1>4. Cardinality(Submessages(secs)) = n
  BY <1>2, <1>3, FS_Bijection DEF ExistsBijection
<1> QED BY <1>4, SubmessageCount

-----------------------------------------------------------------------------
(* A message that grows keeps its submessages.                             *)

Grows(new, secs) ==
  /\ Len(secs) \in Nat /\ Len(new) \in Nat /\ Len(secs) <= Len(new)
  /\ \A i \in 1..Len(secs) : new[i] = secs[i]

LEMMA SamePointers ==
  ASSUME NEW secs, NEW new, Grows(new, secs), NEW e \in 0..Len(secs)
  PROVE  Pointers(new, e) = Pointers(secs, e)
<1>1. e \in Nat /\ \A i \in 1..e : new[i] = secs[i]
  BY DEF Grows
<1>2. \A n : Positions(new, e, n) = Positions(secs, e, n)
  BY <1>1 DEF Positions
<1>3. GivenBitmaps(new, e) = GivenBitmaps(secs, e)
  BY <1>1 DEF GivenBitmaps
<1> DEFINE last == LastIn(Positions(secs, e, 6))
<1>4. last # Null => new[last].ibmap = secs[last].ibmap
  <2>1. Positions(secs, e, 6) \in SUBSET (1..e)
    BY DEF Positions
  <2>2. last \in 0..e
    BY <1>1, <2>1, LastInProperties
  <2> HIDE DEF last
  <2> QED BY <1>1, <2>2 DEF Null
<1> QED BY <1>2, <1>3, <1>4 DEF Pointers

ReadAt(secs, sec) ==
  LET bmap == IF secs[sec[6]].ibmap = 255 THEN <<>> ELSE secs[sec[6]].bmap
      s4 == secs[sec[4]]
  IN  [local |-> ReadLocal(secs, sec[2]),
       grid |-> [num |-> secs[sec[3]].num, list |-> GridOf(secs[sec[3]])],
       product |-> [pds |-> s4.pds, list |-> GetPds(s4.pds, s4.tmpl)],
       bitmap |-> IF bmap = <<>> THEN None ELSE bmap,
       values |-> IF bmap = <<>> THEN secs[sec[7]].values
                  ELSE Expand(bmap, secs[sec[7]].values)]

FieldAt(secs, e, field) ==
  LET sec == Pointers(secs, e)
  IN  /\ sec[3] # Null /\ sec[4] # Null /\ sec[6] # Null /\ sec[7] # Null
      /\ ReadAt(secs, sec) = field

LEMMA FieldKept ==
  ASSUME NEW secs, NEW new, Grows(new, secs), NEW e \in 0..Len(secs), NEW field,
         FieldAt(secs, e, field)
  PROVE  FieldAt(new, e, field)
<1> DEFINE sec == Pointers(secs, e)
<1>1. Pointers(new, e) = sec
  BY SamePointers
<1>2. sec \in [0..9 -> 0..e] /\ e \in Nat /\ e <= Len(secs)
  BY PointersType DEF Grows
<1>3. sec[3] # Null /\ sec[4] # Null /\ sec[6] # Null /\ sec[7] # Null
  BY DEF FieldAt
<1>4. ASSUME NEW n \in {2, 3, 4, 6, 7}, sec[n] # Null PROVE sec[n] \in 1..Len(secs)
  <2> HIDE DEF sec
  <2>1. n \in 0..9
    OBVIOUS
  <2>2. PICK x : x = sec[n]
    OBVIOUS
  <2>3. x \in 0..e
    BY <1>2, <2>1, <2>2, Zenon
  <2>4. Len(secs) \in Nat /\ x # 0
    BY <1>4, <2>2 DEF Grows, Null
  <2>5. x \in 1..Len(secs)
    BY <1>2, <2>3, <2>4
  <2> QED BY <2>2, <2>5
<1>5. \A n \in {2, 3, 4, 6, 7} : sec[n] # Null => new[sec[n]] = secs[sec[n]]
  BY <1>4 DEF Grows
<1>6. /\ new[sec[3]] = secs[sec[3]] /\ new[sec[4]] = secs[sec[4]]
      /\ new[sec[6]] = secs[sec[6]] /\ new[sec[7]] = secs[sec[7]]
  BY <1>3, <1>5
<1>7. ReadLocal(new, sec[2]) = ReadLocal(secs, sec[2])
  BY <1>5 DEF ReadLocal
<1> HIDE DEF sec
<1>8. ReadAt(new, sec) = ReadAt(secs, sec)
  BY <1>6, <1>7 DEF ReadAt
<1> QED BY <1>1, <1>3, <1>8 DEF FieldAt, sec

FieldsAt(secs, fields) ==
  \E ends : /\ EndsOK(secs, Len(fields), ends)
            /\ \A k \in 1..Len(fields) : FieldAt(secs, ends[k], fields[k])

(* Sections that do not end a field.                                       *)
LEMMA FieldsKept ==
  ASSUME NEW secs, NEW new, Grows(new, secs), NEW fields, FieldsAt(secs, fields),
         \A i \in Len(secs) + 1..Len(new) : new[i].n # 7
  PROVE  FieldsAt(new, fields)
<1>1. PICK ends : /\ EndsOK(secs, Len(fields), ends)
                  /\ \A k \in 1..Len(fields) : FieldAt(secs, ends[k], fields[k])
  BY DEF FieldsAt
<1>2. Submessages(new) = Submessages(secs)
  BY DEF Submessages, Grows
<1>3. ends \in [1..Len(fields) -> 1..Len(new)]
  BY <1>1 DEF EndsOK, Grows
<1>4. EndsOK(new, Len(fields), ends)
  BY <1>1, <1>2, <1>3 DEF EndsOK
<1>5. ASSUME NEW k \in 1..Len(fields) PROVE FieldAt(new, ends[k], fields[k])
  <2>1. ends[k] \in 0..Len(secs)
    BY <1>1 DEF EndsOK
  <2> QED BY <1>1, <2>1, FieldKept
<1> QED BY <1>4, <1>5 DEF FieldsAt

(* Sections of which the last ends a field.                                *)
LEMMA FieldsAdded ==
  ASSUME NEW secs, NEW new, Grows(new, secs), NEW S, NEW fields \in Seq(S), FieldsAt(secs, fields),
         Len(secs) < Len(new), new[Len(new)].n = 7,
         \A i \in Len(secs) + 1..Len(new) - 1 : new[i].n # 7,
         NEW field \in S, FieldAt(new, Len(new), field)
  PROVE  FieldsAt(new, Append(fields, field))
<1> DEFINE n == Len(fields)
           more == Append(fields, field)
<1>1. PICK ends : /\ EndsOK(secs, n, ends)
                  /\ \A k \in 1..n : FieldAt(secs, ends[k], fields[k])
  BY DEF FieldsAt
<1>2. /\ n \in Nat /\ Len(more) = n + 1 /\ more[n + 1] = field
      /\ \A k \in 1..n : more[k] = fields[k]
  OBVIOUS
<1> DEFINE to == [k \in 1..n + 1 |-> IF k = n + 1 THEN Len(new) ELSE ends[k]]
<1> HIDE DEF n, more
<1>3. Submessages(new) = Submessages(secs) \cup {Len(new)}
  BY DEF Submessages, Grows
<1>4. \A k \in 1..n : ends[k] \in 1..Len(secs)
  BY <1>1 DEF EndsOK
<1>5. to \in [1..n + 1 -> 1..Len(new)]
  BY <1>2, <1>4 DEF Grows
<1>6. ASSUME NEW j \in 1..n + 1, NEW k \in 1..n + 1, j < k PROVE to[j] < to[k]
  <2>1. j \in 1..n /\ to[j] = ends[j] /\ ends[j] \in 1..Len(secs)
    BY <1>2, <1>4, <1>6
  <2>2. CASE k = n + 1
    <3>1. to[k] = Len(new)
      BY <2>2
    <3> HIDE DEF to
    <3> QED BY <2>1, <3>1 DEF Grows
  <2>3. CASE k # n + 1
    <3>1. k \in 1..n /\ to[k] = ends[k]
      BY <1>2, <2>3
    <3> HIDE DEF to
    <3> QED BY <1>1, <1>6, <2>1, <3>1 DEF EndsOK
  <2> QED BY <2>2, <2>3
<1>7. {to[k] : k \in 1..n + 1} = Submessages(new)
  <2>1. {to[k] : k \in 1..n + 1} = {ends[k] : k \in 1..n} \cup {Len(new)}
    <3>1. \A k \in 1..n : k \in 1..n + 1 /\ k # n + 1
      BY <1>2
    <3>2. n + 1 \in 1..n + 1 /\ \A k \in 1..n + 1 : k = n + 1 \/ k \in 1..n
      BY <1>2
    <3> QED BY <3>1, <3>2
  <2> QED BY <1>1, <1>3, <2>1 DEF EndsOK
<1>8. EndsOK(new, n + 1, to)
  BY <1>2, <1>5, <1>6, <1>7 DEF EndsOK
<1>9. ASSUME NEW k \in 1..n + 1 PROVE FieldAt(new, to[k], more[k])
  <2>1. CASE k = n + 1
    BY <1>2, <2>1
  <2>2. CASE k # n + 1
    <3>1. k \in 1..n /\ to[k] = ends[k] /\ more[k] = fields[k]
      BY <1>2, <2>2
    <3>2. ends[k] \in 0..Len(secs) /\ FieldAt(secs, ends[k], fields[k])
      BY <1>1, <1>4, <3>1
    <3> QED BY <3>1, <3>2, FieldKept
  <2> QED BY <2>1, <2>2
<1> QED BY <1>2, <1>8, <1>9 DEF FieldsAt, more

-----------------------------------------------------------------------------
(* The inductive invariant: the sections in force are what the caller put  *)
(* in the message last, and the submessages so far are its fields.         *)

InForce ==
  LET secs == cgrib.secs
      sec == Pointers(secs, Len(secs))
  IN  /\ ReadLocal(secs, sec[2]) = asked.local
      /\ sec[3] # Null =>
           asked.grid = [num |-> secs[sec[3]].num, list |-> GridOf(secs[sec[3]])]
      /\ sec[9] # Null => /\ asked.bitmap \in BitmapInputs
                          /\ secs[sec[9]].bmap = asked.bitmap

ReadInv ==
  /\ OrderInv
  /\ BitmapsOK(cgrib.secs)
  /\ InForce
  /\ FieldsAt(cgrib.secs, asked.fields)

LEMMA NoSubmessages ==
  ASSUME NEW secs, Len(secs) \in Nat, \A i \in 1..Len(secs) : secs[i].n # 7
  PROVE  FieldsAt(secs, <<>>)
<1> DEFINE ends == [k \in 1..0 |-> 1]
<1>1. EndsOK(secs, 0, ends)
  BY DEF EndsOK, Submessages
<1>2. Len(<<>>) = 0
  OBVIOUS
<1> QED BY <1>1, <1>2 DEF FieldsAt

LEMMA ReadInit == Init => ReadInv
<1> SUFFICES ASSUME Init PROVE ReadInv
  OBVIOUS
<1>1. OrderInv
  BY InitTypeInv DEF Init, OrderInv, SectionOrder
<1>2. cgrib.secs = <<>> /\ Len(cgrib.secs) = 0 /\ asked = NothingAsked
  BY DEF Init
<1>3. BitmapsOK(cgrib.secs)
  BY <1>2 DEF BitmapsOK
<1>4. Pointers(cgrib.secs, 0) \in [0..9 -> 0..0]
  BY PointersType
<1>5. InForce
  <2>1. \A n \in 0..9 : Pointers(cgrib.secs, 0)[n] = 0
    BY <1>4
  <2> QED BY <1>2, <2>1 DEF InForce, ReadLocal, Null, NothingAsked
<1>6. FieldsAt(cgrib.secs, asked.fields)
  BY <1>2, NoSubmessages DEF NothingAsked
<1> QED BY <1>1, <1>3, <1>5, <1>6 DEF ReadInv

LEMMA BufferGrows ==
  ASSUME TypeInv, NEW ext \in Seq(Section), Extend(ext)
  PROVE  /\ Grows(cgrib'.secs, cgrib.secs)
         /\ Len(cgrib'.secs) = Len(cgrib.secs) + Len(ext)
         /\ \A i \in 1..Len(ext) : cgrib'.secs[Len(cgrib.secs) + i] = ext[i]
         /\ \A i \in 1..Len(cgrib'.secs) : cgrib'.secs[i].n \in 1..7
<1>1. /\ cgrib' \in [state : {cgrib.state}, secs : Seq(Section)]
      /\ Len(cgrib'.secs) = Len(cgrib.secs) + Len(ext)
      /\ \A i \in 1..Len(cgrib.secs) : cgrib'.secs[i] = cgrib.secs[i]
      /\ \A i \in 1..Len(ext) : cgrib'.secs[Len(cgrib.secs) + i] = ext[i]
  BY Extended
<1>2. Len(cgrib.secs) \in Nat /\ Len(ext) \in Nat /\ cgrib'.secs \in Seq(Section)
  BY <1>1 DEF TypeInv, BufferOK
<1>3. ASSUME NEW i \in 1..Len(cgrib'.secs) PROVE cgrib'.secs[i].n \in 1..7
  <2>1. cgrib'.secs[i] \in Section
    BY <1>2
  <2> QED BY <2>1, SectionNumber
<1> QED BY <1>1, <1>2, <1>3 DEF Grows

(* One section that is not part of a field.                                *)
LEMMA OneMore ==
  ASSUME ReadInv, NEW s, <<s>> \in Seq(Section), Extend(<<s>>), s.n \in {2, 3},
         asked'.fields = asked.fields
  PROVE  LET secs == cgrib.secs
             new == cgrib'.secs
         IN  /\ BitmapsOK(new)
             /\ FieldsAt(new, asked'.fields)
             /\ Grows(new, secs) /\ Len(new) = Len(secs) + 1 /\ new[Len(new)] = s
             /\ Pointers(new, Len(new)) =
                  [Pointers(secs, Len(secs)) EXCEPT ![s.n] = Len(new)]
<1> DEFINE secs == cgrib.secs
           new == cgrib'.secs
           L == Len(secs)
<1>1. TypeInv /\ BitmapsOK(secs) /\ FieldsAt(secs, asked.fields)
  BY DEF ReadInv, OrderInv
<1>2. <<s>>[1] = s /\ Len(<<s>>) = 1
  OBVIOUS
<1>3. /\ Grows(new, secs) /\ Len(new) = L + 1 /\ new[L + 1] = s
      /\ \A i \in 1..Len(new) : new[i].n \in 1..7
  <2>1. /\ Grows(new, secs) /\ Len(new) = L + Len(<<s>>)
        /\ \A i \in 1..Len(<<s>>) : new[L + i] = <<s>>[i]
        /\ \A i \in 1..Len(new) : new[i].n \in 1..7
    BY <1>1, BufferGrows
  <2>2. 1 \in 1..Len(<<s>>)
    BY <1>2
  <2>3. new[L + 1] = <<s>>[1]
    BY <2>1, <2>2
  <2> QED BY <1>2, <2>1, <2>3
<1>4. L \in Nat
  BY <1>3 DEF Grows
<1> HIDE DEF secs, new, L
<1>5. BitmapsOK(new)
  <2> SUFFICES ASSUME NEW i \in 1..Len(new), new[i].n = 6
               PROVE  /\ new[i].ibmap \in {0, 254, 255}
                      /\ new[i].ibmap = 254 => GivenBitmaps(new, i - 1) # {}
    BY DEF BitmapsOK
  <2>1. i \in 1..L /\ new[i] = secs[i]
    BY <1>3, <1>4 DEF Grows, L
  <2>2. GivenBitmaps(new, i - 1) = GivenBitmaps(secs, i - 1)
    BY <1>3, <1>4, <2>1, SMTT(40) DEF GivenBitmaps, Grows, L
  <2> QED BY <1>1, <2>1, <2>2 DEF BitmapsOK, L
<1>6. FieldsAt(new, asked'.fields)
  <2>1. \A i \in L + 1..Len(new) : new[i].n # 7
    BY <1>3, <1>4
  <2> QED BY <1>1, <1>3, <2>1, FieldsKept DEF L
<1>7. Pointers(new, L + 1) = [Pointers(secs, L) EXCEPT ![s.n] = L + 1]
  <2>1. Pointers(new, L) = Pointers(secs, L)
    BY <1>3, <1>4, SamePointers DEF L
  <2>2. L + 1 \in 1..Len(new) /\ new[L + 1].n \in 1..7 /\ new[L + 1].n # 6 /\ (L + 1) - 1 = L
        /\ Len(new) \in Nat
    BY <1>3, <1>4
  <2>3. PICK j : j = L + 1
    OBVIOUS
  <2>4. j \in 1..Len(new) /\ new[j].n \in 1..7 /\ new[j].n # 6 /\ Len(new) \in Nat
    BY <2>2, <2>3
  <2>5. Pointers(new, j) = [Pointers(new, j - 1) EXCEPT ![new[j].n] = j]
    BY ONLY <1>5, <2>4, PointersStep
  <2>6. j - 1 = L
    BY <1>4, <2>3
  <2> QED BY <1>3, <2>1, <2>3, <2>5, <2>6
<1> QED BY <1>3, <1>5, <1>6, <1>7 DEF secs, new, L

LEMMA CreatedReads ==
  ASSUME ReadInv, NEW id \in Ids, Created(id)
  PROVE  BitmapsOK(cgrib'.secs) /\ InForce' /\ FieldsAt(cgrib'.secs, asked'.fields)
<1> DEFINE new == cgrib'.secs
<1>1. new = <<[n |-> 1, id |-> id]>> /\ asked' = NothingAsked
  BY DEF Created
<1>2. Len(new) = 1 /\ new[1].n = 1 /\ Len(new) \in Nat
  BY <1>1
<1> HIDE DEF new
<1>3. BitmapsOK(new)
  BY <1>2 DEF BitmapsOK
<1>4. FieldsAt(new, <<>>)
  BY <1>2, NoSubmessages
<1>5. /\ Positions(new, 1, 2) = {} /\ Positions(new, 1, 3) = {} /\ GivenBitmaps(new, 1) = {}
      /\ LastIn({}) = Null
  BY <1>2 DEF Positions, GivenBitmaps, LastIn
<1>6. /\ Pointers(new, 1)[2] = Null /\ Pointers(new, 1)[3] = Null
      /\ Pointers(new, 1)[9] = Null
  BY <1>5 DEF Pointers
<1>7. InForce'
  BY <1>1, <1>2, <1>6 DEF InForce, ReadLocal, NothingAsked, new
<1> QED BY <1>1, <1>3, <1>4, <1>7 DEF new, NothingAsked

LEMMA LocalReads ==
  ASSUME ReadInv, NEW l \in Locals, LocalAdded(l)
  PROVE  BitmapsOK(cgrib'.secs) /\ InForce' /\ FieldsAt(cgrib'.secs, asked'.fields)
<1> DEFINE s == [n |-> 2, local |-> l]
           secs == cgrib.secs
           new == cgrib'.secs
           sec == Pointers(secs, Len(secs))
           now == Pointers(new, Len(new))
<1>1. /\ <<s>> \in Seq(Section) /\ Extend(<<s>>) /\ s.n = 2 /\ s.local = l
      /\ asked' = [asked EXCEPT !.local = l]
  BY AddsLocal DEF LocalAdded
<1>2. AskedOK /\ InForce
  BY DEF ReadInv, OrderInv, TypeInv
<1>3. /\ asked'.local = l /\ asked'.grid = asked.grid /\ asked'.bitmap = asked.bitmap
      /\ asked'.fields = asked.fields
  BY <1>1, <1>2 DEF AskedOK
<1> HIDE DEF s
<1>4. /\ BitmapsOK(new) /\ FieldsAt(new, asked'.fields)
      /\ Grows(new, secs) /\ Len(new) = Len(secs) + 1 /\ new[Len(new)] = s
      /\ now = [sec EXCEPT ![2] = Len(new)]
  BY <1>1, <1>3, OneMore
<1>5. sec \in [0..9 -> 0..Len(secs)] /\ Len(secs) \in Nat
  BY <1>4, PointersType DEF Grows
<1> HIDE DEF secs, new, sec, now
<1>6. now[2] = Len(new) /\ now[3] = sec[3] /\ now[9] = sec[9] /\ Len(new) # Null
  BY <1>4, <1>5 DEF Null
<1>7. \A n \in {3, 9} : sec[n] # Null => new[sec[n]] = secs[sec[n]]
  <2> SUFFICES ASSUME NEW n \in {3, 9}, sec[n] # Null PROVE new[sec[n]] = secs[sec[n]]
    OBVIOUS
  <2>1. sec[n] \in 1..Len(secs)
    BY <1>5, SMTT(40) DEF Null
  <2> QED BY <1>4, <2>1 DEF Grows
<1>8. ReadLocal(new, now[2]) = asked'.local
  BY <1>1, <1>3, <1>4, <1>6 DEF ReadLocal
<1>9. now[3] # Null => asked'.grid = [num |-> new[now[3]].num, list |-> GridOf(new[now[3]])]
  BY <1>2, <1>3, <1>6, <1>7 DEF InForce, secs, sec
<1>10. now[9] # Null => asked'.bitmap \in BitmapInputs /\ new[now[9]].bmap = asked'.bitmap
  BY <1>2, <1>3, <1>6, <1>7 DEF InForce, secs, sec
<1>11. InForce'
  BY <1>8, <1>9, <1>10 DEF InForce, new, now
<1> QED BY <1>4, <1>11 DEF new

LEMMA GridReads ==
  ASSUME ReadInv, NEW g \in GridInputs, GridAdded(g)
  PROVE  BitmapsOK(cgrib'.secs) /\ InForce' /\ FieldsAt(cgrib'.secs, asked'.fields)
<1> DEFINE s == [n |-> 3, num |-> g.num, tmpl |-> Put(GridMap(g.num, g.list), g.list)]
           secs == cgrib.secs
           new == cgrib'.secs
           sec == Pointers(secs, Len(secs))
           now == Pointers(new, Len(new))
<1>1. /\ <<s>> \in Seq(Section) /\ Extend(<<s>>) /\ s.n = 3
      /\ asked' = [asked EXCEPT !.grid = g]
  BY AddsGrid DEF GridAdded
<1>2. AskedOK /\ InForce
  BY DEF ReadInv, OrderInv, TypeInv
<1>3. /\ asked'.local = asked.local /\ asked'.grid = g /\ asked'.bitmap = asked.bitmap
      /\ asked'.fields = asked.fields
  BY <1>1, <1>2 DEF AskedOK
<1>4. [num |-> s.num, list |-> GridOf(s)] = g
  <2>1. g = [num |-> g.num, list |-> g.list] /\ g.num \in gridRows
        /\ Len(g.list) >= Len(GridRowOf(g.num)) /\ Fits(GridMap(g.num, g.list), g.list)
    BY TemplatesAssumption DEF GridAdded, GridRowOf
  <2>2. \A i \in 1..Len(GridRowOf(g.num)) : g.list[i] \in Int
    <3>1. g.list \in Seq(Int) /\ Len(GridRowOf(g.num)) \in Nat
      BY <2>1, GridRows DEF Fits
    <3> QED BY <2>1, <3>1
  <2>3. GetGrid(g.num, Put(GridMap(g.num, g.list), g.list)) = g.list
    BY <2>1, <2>2, GridReadsBack
  <2> QED BY <2>1, <2>3 DEF GridOf
<1> HIDE DEF s
<1>5. /\ BitmapsOK(new) /\ FieldsAt(new, asked'.fields)
      /\ Grows(new, secs) /\ Len(new) = Len(secs) + 1 /\ new[Len(new)] = s
      /\ now = [sec EXCEPT ![3] = Len(new)]
  BY <1>1, <1>3, OneMore
<1>6. sec \in [0..9 -> 0..Len(secs)] /\ Len(secs) \in Nat
  BY <1>5, PointersType DEF Grows
<1> HIDE DEF secs, new, sec, now
<1>7. now[3] = Len(new) /\ now[2] = sec[2] /\ now[9] = sec[9]
  BY <1>5, <1>6
<1>8. \A n \in {2, 9} : sec[n] # Null => new[sec[n]] = secs[sec[n]]
  <2> SUFFICES ASSUME NEW n \in {2, 9}, sec[n] # Null PROVE new[sec[n]] = secs[sec[n]]
    OBVIOUS
  <2>1. sec[n] \in 1..Len(secs)
    BY <1>6, SMTT(40) DEF Null
  <2> QED BY <1>5, <2>1 DEF Grows
<1>9. ReadLocal(new, now[2]) = asked'.local
  BY <1>2, <1>3, <1>7, <1>8 DEF ReadLocal, InForce, secs, sec
<1>10. asked'.grid = [num |-> new[now[3]].num, list |-> GridOf(new[now[3]])]
  BY <1>3, <1>4, <1>5, <1>7
<1>11. now[9] # Null => asked'.bitmap \in BitmapInputs /\ new[now[9]].bmap = asked'.bitmap
  BY <1>2, <1>3, <1>7, <1>8 DEF InForce, secs, sec
<1>12. InForce'
  BY <1>9, <1>10, <1>11 DEF InForce, new, now
<1> QED BY <1>5, <1>12 DEF new

(* The four sections of a field, and the pointers after them.              *)
LEMMA FieldSectionsAdded ==
  ASSUME ReadInv, NEW f \in FieldInputs, NEW fld \in FieldValues, NEW ibmap \in {0, 254, 255},
         NEW b \in BitmapInputs \cup {None}, FieldAdded(f, fld, ibmap, b)
  PROVE  LET secs == cgrib.secs
             new == cgrib'.secs
             L == Len(secs)
             four == FieldSections(f, fld, ibmap, BitmapOf(b))
         IN  /\ Grows(new, secs) /\ L \in Nat /\ Len(new) = L + 4
             /\ new[L + 1] = four[1] /\ new[L + 2] = four[2]
             /\ new[L + 3] = four[3] /\ new[L + 4] = four[4]
             /\ new[L + 1].n = 4 /\ new[L + 2].n = 5 /\ new[L + 3].n = 6 /\ new[L + 4].n = 7
             /\ \A i \in 1..Len(new) : new[i].n \in 1..7
<1> DEFINE four == FieldSections(f, fld, ibmap, BitmapOf(b))
<1>1. BitmapOf(b) \in BitmapArguments
  BY DEF BitmapArguments, BitmapOf
<1>2. four \in Seq(Section) /\ Len(four) = 4 /\ \A i \in 1..4 : four[i].n = i + 3
  BY <1>1, FourSections
<1>3. TypeInv /\ Extend(four)
  BY DEF ReadInv, OrderInv, FieldAdded
<1> HIDE DEF four
<1>4. /\ Grows(cgrib'.secs, cgrib.secs)
      /\ Len(cgrib'.secs) = Len(cgrib.secs) + Len(four)
      /\ \A i \in 1..Len(four) : cgrib'.secs[Len(cgrib.secs) + i] = four[i]
      /\ \A i \in 1..Len(cgrib'.secs) : cgrib'.secs[i].n \in 1..7
  BY <1>2, <1>3, BufferGrows
<1>5. 1 \in 1..4 /\ 2 \in 1..4 /\ 3 \in 1..4 /\ 4 \in 1..4
  OBVIOUS
<1>6. /\ four[1].n = 4 /\ four[2].n = 5 /\ four[3].n = 6 /\ four[4].n = 7
  BY <1>2, <1>5
<1>7. Len(cgrib.secs) \in Nat
  BY <1>4 DEF Grows
<1> QED BY <1>2, <1>4, <1>5, <1>6, <1>7 DEF four

LEMMA FieldBitmaps ==
  ASSUME ReadInv, NEW f \in FieldInputs, NEW fld \in FieldValues, NEW ibmap \in {0, 254, 255},
         NEW b \in BitmapInputs \cup {None}, FieldAdded(f, fld, ibmap, b)
  PROVE  /\ BitmapsOK(cgrib'.secs)
         /\ ibmap = 254 => GivenBitmaps(cgrib.secs, Len(cgrib.secs)) # {}
<1> DEFINE secs == cgrib.secs
           new == cgrib'.secs
           L == Len(secs)
           four == FieldSections(f, fld, ibmap, BitmapOf(b))
<1>1. /\ Grows(new, secs) /\ L \in Nat /\ Len(new) = L + 4
      /\ new[L + 1].n = 4 /\ new[L + 2].n = 5 /\ new[L + 3].n = 6 /\ new[L + 4].n = 7
      /\ new[L + 3] = four[3]
  BY FieldSectionsAdded
<1>2. new[L + 3].ibmap = ibmap
  BY <1>1 DEF FieldSections
<1>3. BitmapsOK(secs)
  BY DEF ReadInv
<1>4. ibmap = 254 => GivenBitmaps(secs, L) # {}
  <2> SUFFICES ASSUME ibmap = 254 PROVE GivenBitmaps(secs, L) # {}
    OBVIOUS
  <2>1. PICK i \in 1..L : secs[i].n = 6 /\ secs[i].ibmap \in 0..253
    BY DEF FieldAdded, isprevbmap
  <2>2. secs[i].ibmap \in {0, 254, 255}
    BY <1>3, <2>1 DEF BitmapsOK
  <2>3. secs[i].ibmap = 0
    <3>1. PICK x : x = secs[i].ibmap
      OBVIOUS
    <3>2. x \in 0..253 /\ (x = 0 \/ x = 254 \/ x = 255)
      BY <2>1, <2>2, <3>1
    <3>3. x = 0
      BY ONLY <3>2
    <3> QED BY <3>1, <3>3
  <2>4. i \in GivenBitmaps(secs, L)
    BY <2>1, <2>3 DEF GivenBitmaps
  <2> QED BY <2>4
<1> HIDE DEF secs, new, L, four
<1>5. BitmapsOK(new)
  <2> SUFFICES ASSUME NEW i \in 1..Len(new), new[i].n = 6
               PROVE  /\ new[i].ibmap \in {0, 254, 255}
                      /\ new[i].ibmap = 254 => GivenBitmaps(new, i - 1) # {}
    BY DEF BitmapsOK
  <2>1. CASE i \in 1..L
    <3>1. new[i] = secs[i]
      BY <1>1, <2>1 DEF Grows, L
    <3>2. GivenBitmaps(new, i - 1) = GivenBitmaps(secs, i - 1)
      BY <1>1, <2>1, SMTT(40) DEF GivenBitmaps, Grows, L
    <3> QED BY <1>3, <2>1, <3>1, <3>2 DEF BitmapsOK, L
  <2>2. CASE i = L + 3
    <3>1. GivenBitmaps(secs, L) \subseteq GivenBitmaps(new, i - 1)
      BY <1>1, <2>2 DEF GivenBitmaps, Grows, L
    <3> QED BY <1>2, <1>4, <2>2, <3>1
  <2>3. i \in 1..L \/ i = L + 3
    BY <1>1
  <2> QED BY <2>1, <2>2, <2>3
<1> QED BY <1>4, <1>5 DEF secs, new, L

LEMMA FieldPointers ==
  ASSUME ReadInv, NEW f \in FieldInputs, NEW fld \in FieldValues, NEW ibmap \in {0, 254, 255},
         NEW b \in BitmapInputs \cup {None}, FieldAdded(f, fld, ibmap, b)
  PROVE  LET secs == cgrib.secs
             new == cgrib'.secs
             L == Len(secs)
             sec == Pointers(secs, L)
             now == Pointers(new, Len(new))
         IN  /\ now[2] = sec[2] /\ now[3] = sec[3] /\ now[4] = L + 1 /\ now[7] = L + 4
             /\ now[6] = IF ibmap = 254 THEN sec[9] ELSE L + 3
             /\ now[9] = IF ibmap = 0 THEN L + 3 ELSE sec[9]
<1> DEFINE secs == cgrib.secs
           new == cgrib'.secs
           L == Len(secs)
           sec == Pointers(secs, L)
           four == FieldSections(f, fld, ibmap, BitmapOf(b))
<1>1. /\ Grows(new, secs) /\ L \in Nat /\ Len(new) = L + 4
      /\ new[L + 1].n = 4 /\ new[L + 2].n = 5 /\ new[L + 3].n = 6 /\ new[L + 4].n = 7
      /\ new[L + 3] = four[3]
  BY FieldSectionsAdded
<1>2. new[L + 3].ibmap = ibmap
  BY <1>1 DEF FieldSections
<1>3. BitmapsOK(new)
  BY FieldBitmaps
<1>4. Pointers(new, L) = sec
  BY <1>1, SamePointers
<1> HIDE DEF secs, new, L, sec, four
<1>5. sec \in [0..9 -> 0..L]
  BY <1>1, PointersType DEF sec
<1>6. ASSUME NEW j, j \in {L + 1, L + 2, L + 4}
      PROVE  Pointers(new, j) = [Pointers(new, j - 1) EXCEPT ![new[j].n] = j]
  <2>1. j \in 1..Len(new) /\ new[j].n \in 1..7 /\ new[j].n # 6 /\ Len(new) \in Nat
    BY <1>1, <1>6
  <2> QED BY ONLY <1>3, <2>1, PointersStep
<1>7. LET prev == [Pointers(new, L + 2) EXCEPT ![6] = L + 3]
      IN  Pointers(new, L + 3) = IF ibmap = 255 THEN prev
                                 ELSE IF ibmap = 0 THEN [prev EXCEPT ![9] = L + 3]
                                 ELSE [prev EXCEPT ![6] = prev[9]]
  <2>1. PICK j : j = L + 3
    OBVIOUS
  <2>2. j \in 1..Len(new) /\ new[j].n = 6 /\ Len(new) \in Nat /\ new[j].ibmap = ibmap
        /\ new[j].n \in 1..7
    BY <1>1, <1>2, <2>1
  <2> DEFINE prev == [Pointers(new, j - 1) EXCEPT ![new[j].n] = j]
  <2>3. Pointers(new, j) = IF new[j].n # 6 \/ new[j].ibmap = 255 THEN prev
                           ELSE IF new[j].ibmap = 0 THEN [prev EXCEPT ![9] = j]
                           ELSE [prev EXCEPT ![6] = prev[9]]
    BY ONLY <1>3, <2>2, PointersStep
  <2>4. j - 1 = L + 2
    BY <1>1, <2>1
  <2>5. prev = [Pointers(new, L + 2) EXCEPT ![6] = L + 3]
    BY <2>1, <2>2, <2>4
  <2> HIDE DEF prev
  <2>6. Pointers(new, L + 3) = IF ibmap = 255 THEN prev
                               ELSE IF ibmap = 0 THEN [prev EXCEPT ![9] = L + 3]
                               ELSE [prev EXCEPT ![6] = prev[9]]
    <3>1. new[j].n = 6 /\ new[j].ibmap = ibmap /\ j = L + 3
      BY <2>1, <2>2
    <3>2. CASE ibmap = 0
      <4>1. Pointers(new, j) = [prev EXCEPT ![9] = j]
        BY <2>3, <3>1, <3>2
      <4> QED BY <3>1, <3>2, <4>1
    <3>3. CASE ibmap = 254
      <4>1. Pointers(new, j) = [prev EXCEPT ![6] = prev[9]]
        BY <2>3, <3>1, <3>3
      <4> QED BY <3>1, <3>3, <4>1
    <3>4. CASE ibmap = 255
      <4>1. Pointers(new, j) = prev
        BY <2>3, <3>1, <3>4
      <4> QED BY <3>1, <3>4, <4>1
    <3> QED BY <3>2, <3>3, <3>4
  <2> QED BY <2>5, <2>6
<1>8. Pointers(new, L + 1) = [sec EXCEPT ![4] = L + 1]
  <2>1. PICK j : j = L + 1
    OBVIOUS
  <2>2. j \in {L + 1, L + 2, L + 4} /\ j - 1 = L /\ new[j].n = 4
    BY <1>1, <2>1
  <2>3. Pointers(new, j) = [Pointers(new, j - 1) EXCEPT ![new[j].n] = j]
    BY ONLY <1>6, <2>2
  <2> QED BY <1>4, <2>1, <2>2, <2>3
<1>9. Pointers(new, L + 2) = [sec EXCEPT ![4] = L + 1, ![5] = L + 2]
  <2> PICK j : j = L + 2
    OBVIOUS
  <2>1. j \in {L + 1, L + 2, L + 4} /\ j - 1 = L + 1 /\ new[j].n = 5
    BY <1>1
  <2>3. Pointers(new, j) = [Pointers(new, j - 1) EXCEPT ![new[j].n] = j]
    BY ONLY <1>6, <2>1
  <2>2. Pointers(new, L + 2) = [Pointers(new, L + 1) EXCEPT ![5] = L + 2]
    BY <2>1, <2>3
  <2> QED BY <1>8, <2>2
<1>10. Pointers(new, L + 4) = [Pointers(new, L + 3) EXCEPT ![7] = L + 4]
  <2> PICK j : j = L + 4
    OBVIOUS
  <2>1. j \in {L + 1, L + 2, L + 4} /\ j - 1 = L + 3 /\ new[j].n = 7
    BY <1>1
  <2>3. Pointers(new, j) = [Pointers(new, j - 1) EXCEPT ![new[j].n] = j]
    BY ONLY <1>6, <2>1
  <2> QED BY <2>1, <2>3
<1> DEFINE three == Pointers(new, L + 3)
<1>11. /\ three[2] = sec[2] /\ three[3] = sec[3] /\ three[4] = L + 1
       /\ three[6] = IF ibmap = 254 THEN sec[9] ELSE L + 3
       /\ three[9] = IF ibmap = 0 THEN L + 3 ELSE sec[9]
       /\ DOMAIN three = 0..9
  <2> DEFINE prev == [Pointers(new, L + 2) EXCEPT ![6] = L + 3]
  <2>1. /\ prev[2] = sec[2] /\ prev[3] = sec[3] /\ prev[4] = L + 1 /\ prev[6] = L + 3
        /\ prev[9] = sec[9] /\ DOMAIN prev = 0..9
    <3>1. PICK P : P = Pointers(new, L + 2)
      OBVIOUS
    <3>2. DOMAIN sec = 0..9
      BY <1>5
    <3>3. P = [sec EXCEPT ![4] = L + 1, ![5] = L + 2]
      BY <1>9, <3>1
    <3>4. /\ P[2] = sec[2] /\ P[3] = sec[3] /\ P[4] = L + 1
          /\ P[9] = sec[9] /\ DOMAIN P = 0..9
      BY <3>2, <3>3
    <3>5. prev = [P EXCEPT ![6] = L + 3]
      BY <3>1
    <3> HIDE DEF prev
    <3> QED BY <3>4, <3>5
  <2>2. three = IF ibmap = 255 THEN prev
                ELSE IF ibmap = 0 THEN [prev EXCEPT ![9] = L + 3]
                ELSE [prev EXCEPT ![6] = prev[9]]
    BY <1>7
  <2> HIDE DEF prev, three
  <2>3. CASE ibmap = 0
    BY <2>1, <2>2, <2>3
  <2>4. CASE ibmap = 254
    BY <2>1, <2>2, <2>4
  <2>5. CASE ibmap = 255
    BY <2>1, <2>2, <2>5
  <2> QED BY <2>3, <2>4, <2>5
<1> HIDE DEF three
<1>12. Len(new) = L + 4 /\ Pointers(new, Len(new)) = [three EXCEPT ![7] = L + 4]
  BY <1>1, <1>10 DEF three
<1> DEFINE now == Pointers(new, Len(new))
<1>13. /\ now[2] = sec[2] /\ now[3] = sec[3] /\ now[4] = L + 1 /\ now[7] = L + 4
       /\ now[6] = IF ibmap = 254 THEN sec[9] ELSE L + 3
       /\ now[9] = IF ibmap = 0 THEN L + 3 ELSE sec[9]
  <2> HIDE DEF now
  <2>1. now = [three EXCEPT ![7] = L + 4]
    BY <1>12 DEF now
  <2> QED BY <1>11, <2>1
<1> QED BY <1>13 DEF secs, new, L, sec

(* The bitmap of a field with one is a bitmap the caller gave.             *)
LEMMA BitmapGiven ==
  ASSUME ReadInv, NEW f \in FieldInputs, NEW fld \in FieldValues, NEW ibmap \in {0, 254},
         NEW b \in BitmapInputs \cup {None}, FieldAdded(f, fld, ibmap, b)
  PROVE  /\ b \in BitmapInputs /\ b \in [Points -> {0, 1}] /\ b # <<>> /\ BitmapOf(b) = b
         /\ ibmap = 254 => LET sec == Pointers(cgrib.secs, Len(cgrib.secs))
                           IN  /\ sec[9] \in 1..Len(cgrib.secs)
                               /\ cgrib.secs[sec[9]].ibmap = 0 /\ cgrib.secs[sec[9]].bmap = b
<1> DEFINE secs == cgrib.secs
           sec == Pointers(secs, Len(secs))
<1>1. Len(secs) \in Nat
  BY FieldSectionsAdded
<1>2. ASSUME ibmap = 254
      PROVE  /\ sec[9] \in 1..Len(secs) /\ secs[sec[9]].ibmap = 0
             /\ secs[sec[9]].bmap = b /\ b \in BitmapInputs
  <2>1. GivenBitmaps(secs, Len(secs)) # {}
    BY <1>2, FieldBitmaps
  <2>2. sec[9] = LastIn(GivenBitmaps(secs, Len(secs)))
    BY DEF Pointers
  <2>3. GivenBitmaps(secs, Len(secs)) \in SUBSET (1..Len(secs))
    BY DEF GivenBitmaps
  <2>4. sec[9] \in GivenBitmaps(secs, Len(secs)) /\ sec[9] \in 1..Len(secs)
    BY <1>1, <2>1, <2>2, <2>3, LastInProperties
  <2>7. secs[sec[9]].ibmap = 0
    BY <2>4 DEF GivenBitmaps
  <2>5. sec[9] # Null
    BY <1>1, <2>4 DEF Null
  <2>6. b = asked.bitmap
    BY <1>2 DEF FieldAdded
  <2> QED BY <2>4, <2>5, <2>6, <2>7 DEF ReadInv, InForce
<1>3. ibmap = 0 => b \in BitmapInputs
  BY DEF FieldAdded
<1>4. b \in BitmapInputs
  BY <1>2, <1>3
<1>5. b \in [Points -> {0, 1}] /\ b # None
  BY <1>4, PointsAssumption
<1>6. b # <<>>
  <2>1. PICK n \in Nat \ {0} : Points = 1..n
    BY Numbered
  <2>2. b \in Seq({0, 1}) /\ Len(b) = n
    BY <1>5, <2>1
  <2>3. Len(<<>>) = 0
    OBVIOUS
  <2> QED BY <2>2, <2>3
<1> QED BY <1>2, <1>4, <1>5, <1>6 DEF BitmapOf

(* The field just added, read at the end of the message.                   *)
LEMMA FieldReadsBack ==
  ASSUME ReadInv, NEW f \in FieldInputs, NEW fld \in FieldValues, NEW ibmap \in {0, 254, 255},
         NEW b \in BitmapInputs \cup {None}, FieldAdded(f, fld, ibmap, b)
  PROVE  FieldAt(cgrib'.secs, Len(cgrib'.secs), Asked(f, fld, b))
<1> DEFINE secs == cgrib.secs
           new == cgrib'.secs
           L == Len(secs)
           sec == Pointers(secs, L)
           now == Pointers(new, Len(new))
           four == FieldSections(f, fld, ibmap, BitmapOf(b))
           want == [p \in Points |-> fld[p] * BitmapOf(b)[p]]
<1>1. /\ Grows(new, secs) /\ L \in Nat /\ Len(new) = L + 4
      /\ new[L + 1] = four[1] /\ new[L + 3] = four[3] /\ new[L + 4] = four[4]
  BY FieldSectionsAdded
<1>2. /\ now[2] = sec[2] /\ now[3] = sec[3] /\ now[4] = L + 1 /\ now[7] = L + 4
      /\ now[6] = IF ibmap = 254 THEN sec[9] ELSE L + 3
      /\ now[9] = IF ibmap = 0 THEN L + 3 ELSE sec[9]
  BY FieldPointers
<1>3. sec \in [0..9 -> 0..L]
  BY <1>1, PointersType
<1>4. four[1] = [n |-> 4, pds |-> f.pds, tmpl |-> Put(PdsMap(f.pds, f.list), f.list)]
  BY DEF FieldSections
<1>5. four[3].ibmap = ibmap /\ four[3].bmap = IF ibmap = 0 THEN BitmapOf(b) ELSE <<>>
  BY DEF FieldSections
<1>6. four[4].values = IF ibmap \in {0, 254} THEN PackedValues(BitmapOf(b), fld) ELSE fld
  BY DEF FieldSections
<1>7. fld \in [Points -> Int]
  BY PointsAssumption
<1>8. GetPds(f.pds, Put(PdsMap(f.pds, f.list), f.list)) = f.list
  <2>1. f.pds \in pdsRows /\ Len(f.list) >= Len(RowOf(f.pds)) /\ Fits(PdsMap(f.pds, f.list), f.list)
    BY TemplatesAssumption DEF FieldAdded, RowOf
  <2>2. PdsList(f.pds, f.list)
    <3>1. f.list \in Seq(Int) /\ Len(RowOf(f.pds)) \in Nat
      BY <2>1, ProductRows DEF Fits
    <3> QED BY <2>1, <3>1 DEF PdsList
  <2> QED BY <2>1, <2>2, ProductReadsBack
<1>9. InForce
  BY DEF ReadInv
<1>10. sec[3] \in 1..L
  <2>1. PICK i \in 1..L : secs[i].n = 3
    BY DEF FieldAdded, HasGrid
  <2>2. Positions(secs, L, 3) # {} /\ Positions(secs, L, 3) \in SUBSET (1..L)
    BY <2>1 DEF Positions
  <2>3. sec[3] = LastIn(Positions(secs, L, 3))
    BY DEF Pointers
  <2> QED BY <1>1, <2>2, <2>3, LastInProperties
<1> HIDE DEF secs, new, L, sec, now, four, want
<1>11. ReadLocal(new, now[2]) = asked.local
  <2>1. ReadLocal(secs, sec[2]) = asked.local
    BY <1>9 DEF InForce, secs, sec, L
  <2>2. sec[2] # Null => new[sec[2]] = secs[sec[2]]
    <3>1. sec[2] # Null => sec[2] \in 1..L
      BY <1>1, <1>3, SMTT(40) DEF Null
    <3> QED BY <1>1, <3>1 DEF Grows, L
  <2> QED BY <1>2, <2>1, <2>2 DEF ReadLocal
<1>12. asked.grid = [num |-> new[now[3]].num, list |-> GridOf(new[now[3]])]
  <2>1. new[sec[3]] = secs[sec[3]]
    BY <1>1, <1>10 DEF Grows, L
  <2>2. sec[3] # Null
    BY <1>1, <1>10 DEF Null
  <2>3. asked.grid = [num |-> secs[sec[3]].num, list |-> GridOf(secs[sec[3]])]
    BY <1>9, <2>2 DEF InForce, secs, sec, L
  <2> QED BY <1>2, <2>1, <2>3
<1>13. new[now[4]].pds = f.pds /\ GetPds(new[now[4]].pds, new[now[4]].tmpl) = f.list
  BY <1>1, <1>2, <1>4, <1>8
<1> DEFINE bmap == IF new[now[6]].ibmap = 255 THEN <<>> ELSE new[now[6]].bmap
<1>14. /\ (IF bmap = <<>> THEN None ELSE bmap) = b
       /\ (IF bmap = <<>> THEN new[now[7]].values ELSE Expand(bmap, new[now[7]].values)) = want
  <2>1. CASE ibmap = 255
    <3>1. bmap = <<>>
      BY <1>1, <1>2, <1>5, <2>1
    <3>2. new[now[7]].values = fld /\ b = None
      BY <1>1, <1>2, <1>6, <2>1 DEF FieldAdded
    <3>3. fld = want
      <4>1. BitmapOf(b) = [p \in Points |-> 1]
        BY <3>2 DEF BitmapOf, AllPoints
      <4>2. \A p \in Points : fld[p] * BitmapOf(b)[p] = fld[p]
        BY <1>7, <4>1
      <4> QED BY <1>7, <4>2 DEF want
    <3> QED BY <3>1, <3>2, <3>3
  <2>2. CASE ibmap # 255
    <3>1. /\ ibmap \in {0, 254} /\ b \in [Points -> {0, 1}] /\ b # <<>> /\ BitmapOf(b) = b
          /\ ibmap = 254 => /\ sec[9] \in 1..L /\ secs[sec[9]].ibmap = 0
                            /\ secs[sec[9]].bmap = b
      BY <2>2, BitmapGiven DEF sec, L, secs
    <3>2. bmap = b
      <4>1. CASE ibmap = 0
        BY <1>1, <1>2, <1>5, <3>1, <4>1
      <4>2. CASE ibmap = 254
        <5>1. new[now[6]] = secs[sec[9]]
          BY <1>1, <1>2, <3>1, <4>2 DEF Grows, L
        <5> QED BY <3>1, <4>2, <5>1
      <4> QED BY <3>1, <4>1, <4>2
    <3>3. new[now[7]].values = PackedValues(b, fld)
      BY <1>1, <1>2, <1>6, <3>1
    <3>4. Expand(b, PackedValues(b, fld)) = want
      BY <1>7, <3>1, ExpandsPacked DEF want
    <3> HIDE DEF bmap
    <3> QED BY <3>1, <3>2, <3>3, <3>4
  <2> QED BY <2>1, <2>2
<1>15. ReadAt(new, now) = [local |-> asked.local, grid |-> asked.grid,
                           product |-> [pds |-> f.pds, list |-> f.list],
                           bitmap |-> b, values |-> want]
  BY <1>11, <1>12, <1>13, <1>14, Zenon DEF ReadAt
<1>16. now[3] # Null /\ now[4] # Null /\ now[6] # Null /\ now[7] # Null
  <2>1. ibmap = 254 => sec[9] \in 1..L
    BY BitmapGiven DEF sec, L, secs
  <2> QED BY <1>1, <1>2, <1>10, <2>1 DEF Null
<1> QED BY <1>15, <1>16 DEF FieldAt, Asked, now, want, new

LEMMA FieldReads ==
  ASSUME ReadInv, NEW f \in FieldInputs, NEW fld \in FieldValues, NEW ibmap \in {0, 254, 255},
         NEW b \in BitmapInputs \cup {None}, FieldAdded(f, fld, ibmap, b)
  PROVE  BitmapsOK(cgrib'.secs) /\ InForce' /\ FieldsAt(cgrib'.secs, asked'.fields)
<1> DEFINE secs == cgrib.secs
           new == cgrib'.secs
           L == Len(secs)
           sec == Pointers(secs, L)
           now == Pointers(new, Len(new))
           four == FieldSections(f, fld, ibmap, BitmapOf(b))
<1>1. /\ Grows(new, secs) /\ L \in Nat /\ Len(new) = L + 4 /\ new[L + 3] = four[3]
      /\ new[L + 1].n = 4 /\ new[L + 2].n = 5 /\ new[L + 3].n = 6 /\ new[L + 4].n = 7
  BY FieldSectionsAdded
<1>2. /\ now[2] = sec[2] /\ now[3] = sec[3]
      /\ now[9] = IF ibmap = 0 THEN L + 3 ELSE sec[9]
  BY FieldPointers
<1>3. sec \in [0..9 -> 0..L]
  BY <1>1, PointersType
<1>4. BitmapsOK(new)
  BY FieldBitmaps
<1>5. FieldAt(new, Len(new), Asked(f, fld, b))
  BY FieldReadsBack
<1>6. /\ asked'.local = asked.local /\ asked'.grid = asked.grid
      /\ asked'.bitmap = IF ibmap = 0 THEN b ELSE asked.bitmap
      /\ asked'.fields = Append(asked.fields, Asked(f, fld, b))
  BY DEF FieldAdded
<1>7. InForce /\ FieldsAt(secs, asked.fields) /\ TypeInv
  BY DEF ReadInv, OrderInv
<1>8. asked.fields \in Seq(FieldRecord) /\ Asked(f, fld, b) \in FieldRecord
  BY <1>7 DEF TypeInv, AskedOK, Asked, FieldRecord, BitmapOf
<1>9. ibmap = 0 => four[3].bmap = b /\ b \in BitmapInputs
  BY BitmapGiven DEF FieldSections
<1> HIDE DEF secs, new, L, sec, now, four
<1>10. FieldsAt(new, asked'.fields)
  <2>1. \A i \in L + 1..Len(new) - 1 : new[i].n # 7
    <3>1. \A i \in L + 1..Len(new) - 1 : i = L + 1 \/ i = L + 2 \/ i = L + 3
      BY <1>1
    <3> QED BY <1>1, <3>1
  <2>2. L < Len(new) /\ new[Len(new)].n = 7
    BY <1>1
  <2> DEFINE field == Asked(f, fld, b)
             fields == asked.fields
  <2> HIDE DEF field, fields
  <2>3. /\ Grows(new, secs) /\ fields \in Seq(FieldRecord) /\ FieldsAt(secs, fields)
        /\ Len(secs) < Len(new) /\ new[Len(new)].n = 7
        /\ \A i \in Len(secs) + 1..Len(new) - 1 : new[i].n # 7
        /\ field \in FieldRecord /\ FieldAt(new, Len(new), field)
    BY <1>1, <1>5, <1>7, <1>8, <2>1, <2>2 DEF L, field, fields
  <2>4. FieldsAt(new, Append(fields, field))
    BY ONLY <2>3, FieldsAdded
  <2> QED BY <1>6, <2>4 DEF field, fields
<1>11. \A n \in {2, 3, 9} : sec[n] # Null => new[sec[n]] = secs[sec[n]]
  <2> SUFFICES ASSUME NEW n \in {2, 3, 9}, sec[n] # Null PROVE new[sec[n]] = secs[sec[n]]
    OBVIOUS
  <2>1. sec[n] \in 1..L
    <3>1. n \in 0..9
      OBVIOUS
    <3>2. sec[n] \in 0..L
      BY <1>3, <3>1
    <3> QED BY <1>1, <3>2 DEF Null
  <2> QED BY <1>1, <2>1 DEF Grows, L
<1>12. ReadLocal(new, now[2]) = asked'.local
  BY <1>2, <1>6, <1>7, <1>11 DEF ReadLocal, InForce, secs, sec, L
<1>13. now[3] # Null => asked'.grid = [num |-> new[now[3]].num, list |-> GridOf(new[now[3]])]
  <2>1. sec[3] # Null => asked.grid = [num |-> secs[sec[3]].num, list |-> GridOf(secs[sec[3]])]
    BY <1>7 DEF InForce, secs, sec, L
  <2> QED BY <1>2, <1>6, <1>11, <2>1
<1>14. now[9] # Null => asked'.bitmap \in BitmapInputs /\ new[now[9]].bmap = asked'.bitmap
  <2>1. CASE ibmap = 0
    BY <1>1, <1>2, <1>6, <1>9, <2>1
  <2>2. CASE ibmap # 0
    <3>1. sec[9] # Null => asked.bitmap \in BitmapInputs /\ secs[sec[9]].bmap = asked.bitmap
      BY <1>7 DEF InForce, secs, sec, L
    <3> QED BY <1>2, <1>6, <1>11, <2>2, <3>1
  <2> QED BY <2>1, <2>2
<1>15. InForce'
  BY <1>12, <1>13, <1>14 DEF InForce, new, now
<1> QED BY <1>4, <1>10, <1>15 DEF new

LEMMA ReadStep ==
  ASSUME ReadInv, [Next]_vars
  PROVE  ReadInv'
<1>1. OrderInv' /\ TypeInv
  BY TypeStep, OrderStep DEF ReadInv, OrderInv
<1>2. CASE UNCHANGED vars \/ Refused
  <2>1. cgrib' = cgrib /\ asked' = asked
    BY <1>2 DEF vars, Refused
  <2> QED BY <1>1, <2>1 DEF ReadInv, InForce
<1>3. ASSUME NEW id \in Ids, Created(id) PROVE ReadInv'
  BY <1>1, <1>3, CreatedReads DEF ReadInv
<1>4. ASSUME NEW l \in Locals, LocalAdded(l) PROVE ReadInv'
  BY <1>1, <1>4, LocalReads DEF ReadInv
<1>5. ASSUME NEW g \in GridInputs, GridAdded(g) PROVE ReadInv'
  BY <1>1, <1>5, GridReads DEF ReadInv
<1>6. ASSUME NEW f \in FieldInputs, NEW fld \in FieldValues, NEW ibmap \in {0, 254, 255},
             NEW b \in BitmapInputs \cup {None}, FieldAdded(f, fld, ibmap, b)
      PROVE  ReadInv'
  BY <1>1, <1>6, FieldReads DEF ReadInv
<1>7. ASSUME Closed PROVE ReadInv'
  <2>1. cgrib'.secs = cgrib.secs /\ asked' = asked
    BY <1>7 DEF Closed
  <2> QED BY <1>1, <2>1 DEF ReadInv, InForce
<1> QED BY <1>1, <1>2, <1>3, <1>4, <1>5, <1>6, <1>7, NextSteps

LEMMA ReadInvariant == Spec => []ReadInv
BY ReadInit, ReadStep, PTL DEF Spec

-----------------------------------------------------------------------------
(* In a complete message the first submessage has its own bitmap, if any:  *)
(* a section 6 that gives a bitmap is followed by the data of its field.   *)
LEMMA FirstOwnBitmap ==
  ASSUME OrderInv, BitmapsOK(cgrib.secs), NEW n, NEW ends, EndsOK(cgrib.secs, n, ends)
  PROVE  WellFormed(cgrib.secs, n, ends)
<1> DEFINE secs == cgrib.secs
<1>1. Len(secs) \in Nat /\ \A i \in 1..Len(secs) : secs[i].n \in 1..7
  BY DEF OrderInv, TypeInv, TypeOK, BufferOK
<1>2. \A i \in 2..Len(secs) : secs[i].n = 7 => secs[i - 1].n = 6
  <2> SUFFICES ASSUME NEW i \in 2..Len(secs), secs[i].n = 7 PROVE secs[i - 1].n = 6
    OBVIOUS
  <2>1. i \in 1..Len(secs) /\ 7 \in 5..7 /\ 7 - 1 = 6
    BY <1>1
  <2> QED BY <2>1 DEF OrderInv, SectionOrder
<1>3. ASSUME NEW i \in 1..Len(secs), secs[i].n = 6
      PROVE  i + 1 \in 1..Len(secs) /\ secs[i + 1].n = 7
  <2>1. i < Len(secs)
    BY <1>3 DEF OrderInv, SectionOrder
  <2>2. i + 1 \in 1..Len(secs) /\ i + 1 # 1 /\ (i + 1) - 1 = i
    BY <1>1, <2>1
  <2>3. PICK j : j = i + 1
    OBVIOUS
  <2>4. /\ j \in 1..Len(secs) /\ j # 1 /\ secs[j - 1].n = 6 /\ secs[j].n \in 1..7
        /\ (secs[j].n = 1) <=> (j = 1)
        /\ secs[j].n = 2 => secs[j - 1].n \in {1, 7}
        /\ secs[j].n = 3 => secs[j - 1].n \in {1, 2, 7}
        /\ secs[j].n = 4 => secs[j - 1].n \in {3, 7}
        /\ secs[j].n \in 5..7 => secs[j - 1].n = secs[j].n - 1
    BY <1>1, <1>3, <2>2, <2>3 DEF OrderInv, SectionOrder
  <2>5. secs[j].n = 7
    BY <2>4
  <2> QED BY <2>2, <2>3, <2>5
<1> HIDE DEF secs
<1>4. FirstOK(secs, n, ends)
  <2> SUFFICES ASSUME n >= 1, NEW i \in 1..ends[1], secs[i].n = 6, secs[i].ibmap = 254
               PROVE  FALSE
    BY DEF FirstOK
  <2>1. n \in Nat /\ 1 \in 1..n /\ ends[1] \in 1..Len(secs) /\ i \in 1..Len(secs)
    BY <1>1 DEF EndsOK, secs
  <2>2. GivenBitmaps(secs, i - 1) # {}
    BY <2>1 DEF BitmapsOK, secs
  <2>3. PICK j \in 1..i - 1 : secs[j].n = 6
    BY <2>2 DEF GivenBitmaps
  <2>4. j \in 1..Len(secs) /\ j + 1 < ends[1] + 1 /\ j < i
    BY <1>1, <2>1
  <2>5. j + 1 \in 1..Len(secs) /\ secs[j + 1].n = 7
    BY <1>3, <2>3, <2>4
  <2>6. j + 1 \in Submessages(secs)
    BY <2>5 DEF Submessages
  <2>7. PICK k \in 1..n : ends[k] = j + 1
    BY <2>6 DEF EndsOK, secs
  <2>8. ends[1] <= ends[k]
    BY <2>1, <2>7 DEF EndsOK, secs
  <2>9. j + 1 = i
    BY <1>1, <2>1, <2>3, <2>4, <2>7, <2>8
  <2> QED BY <2>5, <2>9
<1> QED BY <1>1, <1>4 DEF WellFormed, secs

(* Whatever calls were made, and whichever of them were refused, wgrib2    *)
(* finds in a complete message as many submessages as the caller added     *)
(* fields, and each is the field that was added, with the grid, the local  *)
(* section and the bitmap in force (parse_1st_msg, parse_next_msg).        *)
THEOREM WgribReads == Spec => []WgribReadsBack
<1>1. ASSUME ReadInv PROVE WgribReadsBack
  <2> DEFINE secs == cgrib.secs
             fields == asked.fields
  <2>1. PICK ends : /\ EndsOK(secs, Len(fields), ends)
                    /\ \A k \in 1..Len(fields) : FieldAt(secs, ends[k], fields[k])
    BY <1>1 DEF ReadInv, FieldsAt
  <2>2. WellFormed(secs, Len(fields), ends)
    BY <1>1, <2>1, FirstOwnBitmap DEF ReadInv
  <2>3. num_submsgs(secs) = Len(fields)
    BY <2>1, <2>2, CountEnds DEF WellFormed
  <2>4. ASSUME NEW k \in 1..Len(fields) PROVE WgribField(secs, k) = fields[k]
    <3>1. Submessage(secs, k) = Pointers(secs, ends[k])
      BY <2>2, <2>4, SubmessagePointers
    <3>2. ReadAt(secs, Pointers(secs, ends[k])) = fields[k]
      BY <2>1 DEF FieldAt
    <3>3. WgribField(secs, k) = ReadAt(secs, Submessage(secs, k))
      BY DEF WgribField, ReadAt
    <3> QED BY <3>1, <3>2, <3>3
  <2> QED BY <2>3, <2>4 DEF WgribReadsBack
<1> QED BY <1>1, ReadInvariant, PTL

-----------------------------------------------------------------------------
(* The sections a reader has to understand: the templates are known, and a *)
(* bitmap that is given is one of the caller's.                            *)
Readable(s) ==
  /\ s.n = 3 => s.num \in gridRows
  /\ s.n = 4 => s.pds \in pdsRows
  /\ s.n = 5 => s.drs \in drsRows
  /\ (s.n = 6 /\ s.ibmap = 0) => s.bmap \in BitmapInputs

ReadableInv == ReadInv /\ \A i \in 1..Len(cgrib.secs) : Readable(cgrib.secs[i])

LEMMA ReadableExtended ==
  ASSUME ReadableInv, NEW ext \in Seq(Section), Extend(ext),
         \A i \in 1..Len(ext) : Readable(ext[i])
  PROVE  \A i \in 1..Len(cgrib'.secs) : Readable(cgrib'.secs[i])
<1> DEFINE secs == cgrib.secs
           new == cgrib'.secs
           L == Len(secs)
<1>1. /\ Len(new) = L + Len(ext) /\ L \in Nat /\ Len(ext) \in Nat
      /\ \A i \in 1..L : new[i] = secs[i]
      /\ \A i \in 1..Len(ext) : new[L + i] = ext[i]
  BY Extended DEF ReadableInv, ReadInv, OrderInv, TypeInv, BufferOK
<1>2. \A i \in 1..L : Readable(secs[i])
  BY DEF ReadableInv
<1> HIDE DEF secs, new, L
<1>3. ASSUME NEW i \in 1..Len(new), i > L PROVE Readable(new[i])
  <2>1. i - L \in 1..Len(ext) /\ L + (i - L) = i
    BY <1>1, <1>3
  <2> QED BY <1>1, <2>1
<1>4. ASSUME NEW i \in 1..Len(new), i <= L PROVE Readable(new[i])
  <2>1. i \in 1..L
    BY <1>1, <1>4
  <2> QED BY <1>1, <1>2, <2>1
<1>5. \A i \in 1..Len(new) : i <= L \/ i > L
  BY <1>1
<1> QED BY <1>3, <1>4, <1>5 DEF new

LEMMA ReadableStep ==
  ASSUME ReadableInv, [Next]_vars
  PROVE  ReadableInv'
<1>1. ReadInv' /\ TypeInv
  BY ReadStep DEF ReadableInv, ReadInv, OrderInv
<1>2. CASE UNCHANGED vars \/ Refused \/ Closed
  <2>1. cgrib'.secs = cgrib.secs
    BY <1>2 DEF vars, Refused, Closed
  <2> QED BY <1>1, <2>1 DEF ReadableInv
<1>3. ASSUME NEW id \in Ids, Created(id) PROVE ReadableInv'
  <2>1. cgrib'.secs = <<[n |-> 1, id |-> id]>>
    BY <1>3 DEF Created
  <2>2. Len(cgrib'.secs) = 1 /\ cgrib'.secs[1].n = 1
    BY <2>1
  <2>3. \A i \in 1..Len(cgrib'.secs) : Readable(cgrib'.secs[i])
    BY <2>2 DEF Readable
  <2> QED BY <1>1, <2>3 DEF ReadableInv
<1>4. ASSUME NEW l \in Locals, LocalAdded(l) PROVE ReadableInv'
  <2> DEFINE ext == <<[n |-> 2, local |-> l]>>
  <2>1. ext \in Seq(Section) /\ Extend(ext)
    BY <1>4, AddsLocal DEF LocalAdded
  <2>2. \A i \in 1..Len(ext) : Readable(ext[i])
    BY DEF Readable
  <2> HIDE DEF ext
  <2> QED BY <1>1, <2>1, <2>2, ReadableExtended DEF ReadableInv
<1>5. ASSUME NEW g \in GridInputs, GridAdded(g) PROVE ReadableInv'
  <2> DEFINE ext == <<[n |-> 3, num |-> g.num, tmpl |-> Put(GridMap(g.num, g.list), g.list)]>>
  <2>1. ext \in Seq(Section) /\ Extend(ext) /\ g.num \in gridRows
    BY <1>5, AddsGrid DEF GridAdded
  <2>2. \A i \in 1..Len(ext) : Readable(ext[i])
    BY <2>1 DEF Readable
  <2> HIDE DEF ext
  <2> QED BY <1>1, <2>1, <2>2, ReadableExtended DEF ReadableInv
<1>6. ASSUME NEW f \in FieldInputs, NEW fld \in FieldValues, NEW ibmap \in {0, 254, 255},
             NEW b \in BitmapInputs \cup {None}, FieldAdded(f, fld, ibmap, b)
      PROVE  ReadableInv'
  <2> DEFINE ext == FieldSections(f, fld, ibmap, BitmapOf(b))
  <2>1. BitmapOf(b) \in BitmapArguments
    BY DEF BitmapOf, BitmapArguments
  <2>2. ext \in Seq(Section) /\ Len(ext) = 4
    BY <2>1, FourSections
  <2>3. Extend(ext)
    BY <1>6 DEF FieldAdded
  <2>4. ibmap = 0 => BitmapOf(b) \in BitmapInputs
    BY <1>6, BitmapGiven DEF ReadableInv
  <2>5. Readable(ext[1]) /\ Readable(ext[2])
    BY <1>6 DEF FieldSections, Readable, FieldAdded
  <2>6. Readable(ext[3]) /\ Readable(ext[4])
    BY <2>4 DEF FieldSections, Readable
  <2> HIDE DEF ext
  <2>7. \A i \in 1..Len(ext) : Readable(ext[i])
    BY <2>2, <2>5, <2>6
  <2> QED BY <1>1, <2>2, <2>3, <2>7, ReadableExtended DEF ReadableInv
<1> QED BY <1>1, <1>2, <1>3, <1>4, <1>5, <1>6, NextSteps

LEMMA ReadableInvariant == Spec => []ReadableInv
<1>1. Init => ReadableInv
  BY ReadInit DEF Init, ReadableInv
<1> QED BY <1>1, ReadableStep, PTL DEF Spec

-----------------------------------------------------------------------------
(* A message g2_getfld can be called for: n fields that end at the         *)
(* positions ends.                                                         *)
Message(secs, n, ends) ==
  /\ WellFormed(secs, n, ends)
  /\ \A i \in 1..Len(secs) : Readable(secs[i])
  /\ \A i \in 1..Len(secs) :
       /\ i = 1 => secs[i].n = 1
       /\ i # 1 => MayFollow(secs[i - 1].n, secs[i].n)

(* The sections that begin and end fields, up to a position.               *)
Begun(secs, i) == Cardinality(Positions(secs, i, 4))

LEMMA CountStep ==
  ASSUME NEW secs, NEW i \in Nat \ {0}, NEW m
  PROVE  /\ Cardinality(Positions(secs, i - 1, m)) \in Nat
         /\ Cardinality(Positions(secs, i, m)) =
              Cardinality(Positions(secs, i - 1, m)) + (IF secs[i].n = m THEN 1 ELSE 0)
<1> DEFINE P == Positions(secs, i - 1, m)
<1>1. IsFiniteSet(P) /\ i \notin P
  <2>1. IsFiniteSet(1..i - 1)
    <3>1. 1 \in Int /\ i - 1 \in Int
      OBVIOUS
    <3> QED BY <3>1, FS_Interval
  <2>2. P \subseteq 1..i - 1
    BY DEF Positions
  <2>3. i \notin 1..i - 1
    OBVIOUS
  <2> QED BY <2>1, <2>2, <2>3, FS_Subset
<1>2. Positions(secs, i, m) = IF secs[i].n = m THEN P \cup {i} ELSE P
  BY DEF Positions
<1>3. Cardinality(P) \in Nat
  BY <1>1, FS_CardinalityType
<1> HIDE DEF P
<1>4. Cardinality(P \cup {i}) = Cardinality(P) + 1
  BY <1>1, FS_AddElement
<1> QED BY <1>2, <1>3, <1>4 DEF P

(* As many fields have begun as have ended, but for the one being passed.  *)
LEMMA BegunEnded ==
  ASSUME NEW secs, NEW n, NEW ends, Message(secs, n, ends)
  PROVE  \A i \in 1..Len(secs) :
           Begun(secs, i) = Cardinality(Positions(secs, i, 7))
                              + (IF secs[i].n \in 4..6 THEN 1 ELSE 0)
<1> DEFINE Count(i, m) == Cardinality(Positions(secs, i, m))
           Good(i) == Count(i, 4) = Count(i, 7) + (IF secs[i].n \in 4..6 THEN 1 ELSE 0)
           S == {i \in Nat : i + 1 <= Len(secs) => Good(i + 1)}
<1>1. Len(secs) \in Nat /\ \A i \in 1..Len(secs) : secs[i].n \in 1..7
  BY DEF Message, WellFormed
<1>2. ASSUME NEW i \in 1..Len(secs)
      PROVE  /\ Count(i - 1, 4) \in Nat /\ Count(i - 1, 7) \in Nat
             /\ Count(i, 4) = Count(i - 1, 4) + (IF secs[i].n = 4 THEN 1 ELSE 0)
             /\ Count(i, 7) = Count(i - 1, 7) + (IF secs[i].n = 7 THEN 1 ELSE 0)
  <2>1. i \in Nat \ {0}
    BY <1>1
  <2> QED BY <2>1, CountStep
<1>3. Count(0, 4) = 0 /\ Count(0, 7) = 0
  <2>1. Positions(secs, 0, 4) = {} /\ Positions(secs, 0, 7) = {}
    BY DEF Positions
  <2> QED BY <2>1, FS_EmptySet
<1> HIDE DEF Count
<1>4. 0 \in S
  <2>1. ASSUME 1 <= Len(secs) PROVE Good(1)
    <3>1. 1 \in 1..Len(secs) /\ secs[1].n = 1
      BY <1>1, <2>1 DEF Message
    <3>2. Count(1 - 1, 4) = 0 /\ Count(1 - 1, 7) = 0
      BY <1>3
    <3> QED BY <1>2, <3>1, <3>2
  <2> QED BY <2>1
<1>5. ASSUME NEW i \in Nat, i \in S PROVE i + 1 \in S
  <2> SUFFICES ASSUME i + 2 <= Len(secs) PROVE Good(i + 2)
    BY <1>1
  <2>1. Good(i + 1)
    BY <1>1, <1>5
  <2>2. PICK j \in 2..Len(secs) : j = i + 2 /\ j - 1 = i + 1
    BY <1>1
  <2>3. j \in 1..Len(secs) /\ j - 1 \in 1..Len(secs) /\ j # 1
    BY <1>1, <2>2
  <2>4. /\ secs[j].n \in 1..7 /\ secs[j - 1].n \in 1..7
        /\ secs[j].n # 1
        /\ secs[j].n = 2 => secs[j - 1].n \in {1, 7}
        /\ secs[j].n = 3 => secs[j - 1].n \in {1, 2, 7}
        /\ secs[j].n = 4 => secs[j - 1].n \in {3, 7}
        /\ secs[j].n \in 5..7 => secs[j - 1].n = secs[j].n - 1
    BY <1>1, <2>3 DEF Message, MayFollow
  <2>5. Count(j - 1, 4) = Count(j - 1, 7) + (IF secs[j - 1].n \in 4..6 THEN 1 ELSE 0)
    BY <2>1, <2>2
  <2>6. /\ Count(j - 1, 4) \in Nat /\ Count(j - 1, 7) \in Nat
        /\ Count(j, 4) = Count(j - 1, 4) + (IF secs[j].n = 4 THEN 1 ELSE 0)
        /\ Count(j, 7) = Count(j - 1, 7) + (IF secs[j].n = 7 THEN 1 ELSE 0)
    BY <1>2, <2>3
  <2>7. Good(j)
    BY <2>4, <2>5, <2>6
  <2> QED BY <2>2, <2>7
<1>6. \A i \in Nat : i \in S
  <2> HIDE DEF S
  <2> QED BY <1>4, <1>5, SetInduction
<1>7. ASSUME NEW i \in 1..Len(secs) PROVE Good(i)
  <2>1. i - 1 \in S /\ (i - 1) + 1 = i
    BY <1>1, <1>6
  <2> QED BY <1>1, <2>1
<1> QED BY <1>7 DEF Begun, Count

LEMMA CountGrows ==
  ASSUME NEW secs, NEW i \in Nat, NEW j \in Nat, i <= j, NEW m
  PROVE  /\ Cardinality(Positions(secs, i, m)) \in Nat
         /\ Cardinality(Positions(secs, i, m)) <= Cardinality(Positions(secs, j, m))
<1>1. Positions(secs, i, m) \subseteq Positions(secs, j, m)
  BY DEF Positions
<1>2. IsFiniteSet(Positions(secs, j, m))
  <2>1. IsFiniteSet(1..j) /\ Positions(secs, j, m) \subseteq 1..j
    BY FS_Interval DEF Positions
  <2> QED BY <2>1, FS_Subset
<1> QED BY <1>1, <1>2, FS_Subset, FS_CardinalityType

(* The sections of field k.                                                *)
LEMMA FieldPlaces ==
  ASSUME NEW secs, NEW n, NEW ends, Message(secs, n, ends), NEW k \in 1..n
  PROVE  LET e == ends[k]
         IN  /\ e \in 4..Len(secs)
             /\ secs[e].n = 7 /\ secs[e - 1].n = 6 /\ secs[e - 2].n = 5 /\ secs[e - 3].n = 4
             /\ Begun(secs, e) = k /\ Begun(secs, e - 1) = k
<1> DEFINE e == ends[k]
<1>1. /\ Len(secs) \in Nat /\ n \in Nat /\ k \in Nat /\ ends \in [1..n -> 1..Len(secs)]
      /\ \A i, j \in 1..n : i < j => ends[i] < ends[j]
      /\ {ends[j] : j \in 1..n} = Submessages(secs)
  BY DEF Message, WellFormed, EndsOK
<1>2. e \in 1..Len(secs) /\ e \in Nat /\ secs[e].n = 7
  BY <1>1 DEF Submessages
<1>3. ASSUME NEW i \in 1..Len(secs), secs[i].n \in 5..7
      PROVE  i - 1 \in 1..Len(secs) /\ secs[i - 1].n = secs[i].n - 1
  <2>1. i # 1
    BY <1>3 DEF Message
  <2> QED BY <1>1, <1>3, <2>1 DEF Message, MayFollow
<1> HIDE DEF e
<1>4. e - 1 \in 1..Len(secs) /\ secs[e - 1].n = 6
  BY <1>2, <1>3
<1>5. e - 2 \in 1..Len(secs) /\ secs[e - 2].n = 5
  <2>1. e - 2 = (e - 1) - 1 /\ 6 \in 5..7 /\ 6 - 1 = 5
    BY <1>2
  <2> QED BY <1>3, <1>4, <2>1
<1>6. e - 3 \in 1..Len(secs) /\ secs[e - 3].n = 4
  <2>1. e - 3 = (e - 2) - 1 /\ 5 \in 5..7 /\ 5 - 1 = 4
    BY <1>2
  <2> QED BY <1>3, <1>5, <2>1
<1>7. Cardinality(Positions(secs, e, 7)) = k
  <2> DEFINE E == [j \in 1..k |-> ends[j]]
  <2>1. Positions(secs, e, 7) = {ends[j] : j \in 1..k}
    <3>1. ASSUME NEW i \in Positions(secs, e, 7) PROVE \E j \in 1..k : i = ends[j]
      <4>1. i \in 1..e /\ i \in Submessages(secs)
        BY <1>1, <1>2 DEF Positions, Submessages
      <4>2. PICK j \in 1..n : i = ends[j]
        BY <1>1, <4>1
      <4>3. j <= k
        BY <1>1, <4>1, <4>2 DEF e
      <4> QED BY <1>1, <4>2, <4>3
    <3>2. ASSUME NEW j \in 1..k PROVE ends[j] \in Positions(secs, e, 7)
      <4>1. j \in 1..n /\ ends[j] \in Submessages(secs) /\ ends[j] <= e
        BY <1>1, <1>2 DEF e
      <4> QED BY <1>1, <1>2, <4>1 DEF Positions, Submessages
    <3> QED BY <3>1, <3>2
  <2>2. E \in Bijection(1..k, Positions(secs, e, 7))
    <3>1. ASSUME NEW i \in 1..k, NEW j \in 1..k, E[i] = E[j] PROVE i = j
      <4>1. i \in 1..n /\ j \in 1..n /\ ends[i] = ends[j] /\ ends[i] \in Nat /\ ends[j] \in Nat
        BY <1>1, <3>1
      <4> QED BY <1>1, <4>1
    <3>2. E \in [1..k -> Positions(secs, e, 7)]
      BY <2>1
    <3>3. \A i \in Positions(secs, e, 7) : \E j \in 1..k : E[j] = i
      BY <2>1
    <3> HIDE DEF E
    <3>4. E \in Injection(1..k, Positions(secs, e, 7))
      BY <3>1, <3>2 DEF Injection, IsInjective
    <3>5. E \in Surjection(1..k, Positions(secs, e, 7))
      BY <3>2, <3>3 DEF Surjection
    <3> QED BY <3>4, <3>5 DEF Bijection
  <2> HIDE DEF E
  <2>3. IsFiniteSet(1..k) /\ Cardinality(1..k) = k
    <3>1. 1 \in Int /\ k \in Int /\ k >= 1
      BY <1>1
    <3>2. Cardinality(1..k) = k - 1 + 1
      BY <3>1, FS_Interval
    <3> QED BY <3>1, <3>2, FS_Interval
  <2> QED BY <2>2, <2>3, FS_Bijection DEF ExistsBijection
<1>8. Begun(secs, e) = k
  BY <1>2, <1>7, BegunEnded
<1>9. Begun(secs, e - 1) = k
  <2>1. e \in Nat \ {0}
    BY <1>2
  <2>2. Begun(secs, e) = Begun(secs, e - 1) + 0 /\ Begun(secs, e - 1) \in Nat
    BY <1>2, <2>1, CountStep DEF Begun
  <2> QED BY <1>8, <2>2
<1> QED BY <1>1, <1>2, <1>4, <1>5, <1>6, <1>8, <1>9 DEF e

(* In a complete message all fields that have begun have ended.            *)
LEMMA AllBegun ==
  ASSUME NEW secs, NEW n, NEW ends, Message(secs, n, ends), Len(secs) # 0,
         secs[Len(secs)].n = 7
  PROVE  Begun(secs, Len(secs)) = n
<1>1. Len(secs) \in Nat /\ Len(secs) \in 1..Len(secs) /\ n \in Nat
  BY DEF Message, WellFormed, EndsOK
<1>2. Positions(secs, Len(secs), 7) = Submessages(secs)
  BY DEF Positions, Submessages
<1>3. Cardinality(Submessages(secs)) = n
  <2>1. EndsOK(secs, n, ends)
    BY DEF Message, WellFormed
  <2> QED BY <1>1, <2>1, CountEnds, SubmessageCount
<1> QED BY <1>1, <1>2, <1>3, BegunEnded

-----------------------------------------------------------------------------
(* The bitmap g2_getfld keeps.  At a position, the bitmap to reuse has been*)
(* forgotten when a field without one came after the last that was given.  *)
Forgotten(secs, i) ==
  \E j \in 1..i : /\ secs[j].n = 6 /\ secs[j].ibmap = 255
                  /\ \A m \in j + 1..i : secs[m].n = 6 => secs[m].ibmap # 0

ReusesForgotten(secs, i) == secs[i].n = 6 /\ secs[i].ibmap = 254 /\ Forgotten(secs, i)

LEMMA NoneSinceIsForgotten ==
  ASSUME NEW S, NEW secs \in Seq(S), NEW i \in 1..Len(secs)
  PROVE  /\ NoneSinceBitmap(SubSeq(secs, 1, i)) <=> Forgotten(secs, i)
         /\ numfields(SubSeq(secs, 1, i)) = Positions(secs, i, 4)
<1> DEFINE sub == SubSeq(secs, 1, i)
<1>1. Len(sub) = i /\ i \in Nat /\ \A j \in 1..i : sub[j] = secs[j]
  <2>1. 1..i \subseteq 1..Len(secs) /\ i \in Nat /\ 1 \in Int /\ i \in Int
    OBVIOUS
  <2>2. Len(sub) = i
    OBVIOUS
  <2>3. \A j \in 1..i : sub[j] = secs[j]
    OBVIOUS
  <2> QED BY <2>1, <2>2, <2>3
<1> HIDE DEF sub
<1>2. \A j \in 1..i : \A m \in j + 1..i : sub[m] = secs[m]
  BY <1>1
<1> QED BY <1>1, <1>2 DEF NoneSinceBitmap, Forgotten, numfields, Positions, sub

(* The last bitmap section before one that reuses a bitmap.                *)
LastBitmap(secs, i) == LastIn(Positions(secs, i, 6))

LEMMA BitmapBefore ==
  ASSUME NEW secs, NEW n, NEW ends, Message(secs, n, ends),
         NEW i \in 1..Len(secs), secs[i].n = 6, secs[i].ibmap = 254,
         \A m \in 1..i - 1 : ~ReusesForgotten(secs, m)
  PROVE  LET q == LastBitmap(secs, i - 1)
         IN  /\ q \in 1..i - 1 /\ secs[q].n = 6
             /\ (secs[q].ibmap = 255) <=> Forgotten(secs, i)
<1> DEFINE q == LastBitmap(secs, i - 1)
<1>1. /\ Len(secs) \in Nat /\ i \in Nat /\ i - 1 \in Nat
      /\ \A j \in 1..Len(secs) : secs[j].n = 6 => secs[j].ibmap \in {0, 254, 255}
  BY DEF Message, WellFormed, BitmapsOK
<1>2. Positions(secs, i - 1, 6) \in SUBSET (1..i - 1) /\ Positions(secs, i - 1, 6) # {}
  <2>1. GivenBitmaps(secs, i - 1) # {}
    BY DEF Message, WellFormed, BitmapsOK
  <2> QED BY <2>1 DEF GivenBitmaps, Positions
<1>3. q \in Positions(secs, i - 1, 6) /\ \A j \in Positions(secs, i - 1, 6) : j <= q
  BY <1>1, <1>2, LastInProperties DEF LastBitmap
<1> HIDE DEF q
<1>4. q \in 1..i - 1 /\ secs[q].n = 6 /\ \A j \in 1..i - 1 : secs[j].n = 6 => j <= q
  BY <1>3 DEF Positions
<1>5. ASSUME secs[q].ibmap = 255 PROVE Forgotten(secs, i)
  <2>1. q \in 1..i
    BY <1>1, <1>4
  <2>2. ASSUME NEW m \in q + 1..i, secs[m].n = 6 PROVE secs[m].ibmap # 0
    <3>1. m \in Nat /\ (m \in 1..i - 1 \/ m = i) /\ m > q
      BY <1>1, <1>4
    <3>2. m = i
      BY <1>1, <1>4, <2>2, <3>1
    <3> QED BY <3>2
  <2> QED BY <1>4, <1>5, <2>1, <2>2 DEF Forgotten
<1>6. ASSUME Forgotten(secs, i) PROVE secs[q].ibmap = 255
  <2>1. PICK j \in 1..i : /\ secs[j].n = 6 /\ secs[j].ibmap = 255
                          /\ \A m \in j + 1..i : secs[m].n = 6 => secs[m].ibmap # 0
    BY <1>6 DEF Forgotten
  <2>2. j \in 1..i - 1
    <3>1. j # i
      BY <2>1
    <3> QED BY <1>1, <3>1
  <2>3. j <= q /\ q \in Nat /\ j \in Nat /\ q < i
    BY <1>1, <1>4, <2>1, <2>2
  <2>4. CASE secs[q].ibmap = 0
    <3>1. q \in j + 1..i
      BY <1>1, <2>1, <2>3, <2>4
    <3> QED BY <1>4, <2>1, <2>4, <3>1
  <2>5. CASE secs[q].ibmap = 254
    <3>1. j \in 1..q /\ \A m \in j + 1..q : m \in j + 1..i
      BY <1>1, <2>3
    <3>2. Forgotten(secs, q)
      BY <2>1, <3>1 DEF Forgotten
    <3> QED BY <1>4, <2>5, <3>2 DEF ReusesForgotten
  <2>6. secs[q].ibmap \in {0, 254, 255}
    <3>1. q \in 1..Len(secs)
      BY <1>1, <1>4
    <3> QED BY <1>1, <1>4, <3>1
  <2> QED BY <2>4, <2>5, <2>6
<1> QED BY <1>4, <1>5, <1>6 DEF q

-----------------------------------------------------------------------------
(* What g2_getfld has found after the first i sections, when it is called  *)
(* for field k and has not come to the data of that field.                 *)
IsState(st) ==
  st = [have |-> st.have, ierr |-> st.ierr, done |-> st.done, numfld |-> st.numfld,
        id |-> st.id, local |-> st.local, grid |-> st.grid, pds |-> st.pds,
        list |-> st.list, ndpts |-> st.ndpts, drs |-> st.drs, ibmap |-> st.ibmap,
        bmap |-> st.bmap, fld |-> st.fld]

GridFound(st, secs, g) ==
  g # Null => 3 \in st.have /\ st.grid = [num |-> secs[g].num, list |-> GridOf(secs[g])]

BitmapFound(st, secs, q, given) ==
  /\ q # Null => 6 \in st.have
  /\ st.ibmap = IF q = Null THEN 255 ELSE secs[q].ibmap
  /\ st.bmap = IF q = Null THEN <<>>
               ELSE IF secs[q].ibmap = 255 THEN <<>> ELSE secs[given].bmap

ProductFound(st, secs, p, n) ==
  /\ 4 \in st.have /\ st.pds = secs[p].pds /\ st.list = GetPds(secs[p].pds, secs[p].tmpl)
  /\ n \in 5..6 => 5 \in st.have

Reading(st, secs, i, k) ==
  /\ IsState(st)
  /\ st.ierr = 0 /\ st.done = FALSE /\ 7 \notin st.have
  /\ st.numfld = Begun(secs, i)
  /\ st.local = ReadLocal(secs, LastIn(Positions(secs, i, 2)))
  /\ GridFound(st, secs, LastIn(Positions(secs, i, 3)))
  /\ BitmapFound(st, secs, LastBitmap(secs, i), LastIn(GivenBitmaps(secs, i)))
  /\ Begun(secs, i) = k => ProductFound(st, secs, LastIn(Positions(secs, i, 4)), secs[i].n)

(* One section.                                                            *)
Passed(st, s) == IF s.n = 4 THEN [st EXCEPT !.numfld = @ + 1] ELSE st

Unpacked(st, s, k, unpack) ==
  LET now == Passed(st, s)
      mine == now.numfld = k
  IN  CASE s.n = 1                     -> g2_unpack1(now, s)
        [] s.n = 2                     -> g2_unpack2(now, s)
        [] s.n = 3                     -> g2_unpack3(now, s)
        [] s.n = 4 /\ mine             -> g2_unpack4(now, s)
        [] s.n = 5 /\ mine             -> g2_unpack5(now, s)
        [] s.n = 6                     -> g2_unpack6(now, s, unpack)
        [] s.n = 7 /\ mine /\ unpack   -> g2_unpack7(now, s)
        [] OTHER                       -> now

Needed(unpack) == IF unpack THEN {3, 4, 5, 6, 7} ELSE {3, 4, 5, 6}

LEMMA GetSectionIs ==
  ASSUME NEW st, NEW s, NEW k, NEW unpack
  PROVE  GetSection(st, s, k, unpack) =
           IF st.done THEN st
           ELSE IF Unpacked(st, s, k, unpack).done THEN Unpacked(st, s, k, unpack)
           ELSE [Unpacked(st, s, k, unpack) EXCEPT
                   !.done = Needed(unpack) \subseteq Unpacked(st, s, k, unpack).have]
BY DEF GetSection, Unpacked, Passed, Needed

(* A section that is read and does not complete the field.                 *)
LEMMA GoesOn ==
  ASSUME NEW st, NEW s, NEW k, st.done = FALSE,
         IsState(Unpacked(st, s, k, TRUE)), Unpacked(st, s, k, TRUE).done = FALSE,
         7 \notin Unpacked(st, s, k, TRUE).have
  PROVE  GetSection(st, s, k, TRUE) = Unpacked(st, s, k, TRUE)
<1> DEFINE next == Unpacked(st, s, k, TRUE)
<1>1. GetSection(st, s, k, TRUE) = [next EXCEPT !.done = {3, 4, 5, 6, 7} \subseteq next.have]
  BY GetSectionIs DEF Needed
<1>2. ({3, 4, 5, 6, 7} \subseteq next.have) = FALSE
  OBVIOUS
<1>3. IsState(next) /\ next.done = FALSE
  OBVIOUS
<1> HIDE DEF next
<1>4. [next EXCEPT !.done = FALSE] = next
  BY <1>3 DEF IsState
<1> QED BY <1>1, <1>2, <1>4 DEF next

(* The last sections after one more.                                       *)
LEMMA LastAfter ==
  ASSUME NEW secs, NEW i \in Nat \ {0}
  PROVE  \A m \in 1..7 : LastIn(Positions(secs, i, m)) =
                IF secs[i].n = m THEN i ELSE LastIn(Positions(secs, i - 1, m))
BY PositionsStep

LEMMA ReadingStart ==
  ASSUME NEW secs, NEW k \in Nat \ {0}
  PROVE  Reading(NewField, secs, 0, k)
<1>1. \A m \in 1..7 : Positions(secs, 0, m) = {}
  BY DEF Positions
<1>2. Begun(secs, 0) = 0
  BY <1>1, FS_EmptySet DEF Begun
<1>3. \A m \in 1..7 : LastIn(Positions(secs, 0, m)) = Null
  BY <1>1 DEF LastIn
<1>4. IsState(NewField)
  BY DEF IsState, NewField
<1> QED BY <1>2, <1>3, <1>4 DEF Reading, NewField, GridFound, BitmapFound, LastBitmap, ReadLocal

(* What the sections before leave, and the section itself.                 *)
Before(st, secs, i, k) ==
  /\ i \in Nat \ {0} /\ k \in Nat \ {0}
  /\ Readable(secs[i]) /\ secs[i].n \in 1..7
  /\ secs[i].n \in 5..6 => secs[i - 1].n = secs[i].n - 1
  /\ secs[i].n = 6 => secs[i].ibmap \in {0, 254, 255}
  /\ Reading(st, secs, i - 1, k)
  /\ Begun(secs, i - 1) \in Nat
  /\ Begun(secs, i) = Begun(secs, i - 1) + (IF secs[i].n = 4 THEN 1 ELSE 0)
  /\ \A m \in 1..7 : LastIn(Positions(secs, i, m)) =
                       IF secs[i].n = m THEN i ELSE LastIn(Positions(secs, i - 1, m))
  /\ LastIn(GivenBitmaps(secs, i)) =
       IF secs[i].n = 6 /\ secs[i].ibmap = 0 THEN i ELSE LastIn(GivenBitmaps(secs, i - 1))

LEMMA BeforeHolds ==
  ASSUME NEW secs, NEW n, NEW ends, Message(secs, n, ends), NEW i \in 1..Len(secs),
         NEW k \in Nat \ {0}, NEW st, Reading(st, secs, i - 1, k)
  PROVE  Before(st, secs, i, k)
<1>1. /\ Len(secs) \in Nat /\ secs[i].n \in 1..7 /\ Readable(secs[i])
      /\ secs[i].n = 6 => secs[i].ibmap \in {0, 254, 255}
      /\ i \in Nat \ {0}
  BY DEF Message, WellFormed, BitmapsOK
<1>2. secs[i].n \in 5..6 => secs[i - 1].n = secs[i].n - 1
  <2>1. i = 1 => secs[i].n = 1
    BY DEF Message
  <2>2. i # 1 => MayFollow(secs[i - 1].n, secs[i].n)
    BY DEF Message
  <2> QED BY <2>1, <2>2 DEF MayFollow
<1>3. /\ Begun(secs, i - 1) \in Nat
      /\ Begun(secs, i) = Begun(secs, i - 1) + (IF secs[i].n = 4 THEN 1 ELSE 0)
  BY <1>1, CountStep DEF Begun
<1> QED BY <1>1, <1>2, <1>3, LastAfter, GivenStep DEF Before

(* The number of the field a section is in.                                *)
LEMMA PassedIs ==
  ASSUME NEW st, NEW s, IsState(st)
  PROVE  /\ IsState(Passed(st, s))
         /\ Passed(st, s).numfld = IF s.n = 4 THEN st.numfld + 1 ELSE st.numfld
         /\ Passed(st, s).have = st.have /\ Passed(st, s).ierr = st.ierr
         /\ Passed(st, s).done = st.done /\ Passed(st, s).local = st.local
         /\ Passed(st, s).grid = st.grid /\ Passed(st, s).pds = st.pds
         /\ Passed(st, s).list = st.list /\ Passed(st, s).ibmap = st.ibmap
         /\ Passed(st, s).bmap = st.bmap
<1>1. CASE s.n = 4
  <2>1. Passed(st, s) = [st EXCEPT !.numfld = st.numfld + 1]
    BY <1>1 DEF Passed
  <2> QED BY <1>1, <2>1 DEF IsState
<1>2. CASE s.n # 4
  BY <1>2 DEF Passed
<1> QED BY <1>1, <1>2

(* What a section does not concern stays as it was found.                  *)
LEMMA KeepsLocal ==
  ASSUME NEW st, NEW secs, NEW i, NEW k, Before(st, secs, i, k), NEW next,
         secs[i].n # 2, next.local = st.local
  PROVE  next.local = ReadLocal(secs, LastIn(Positions(secs, i, 2)))
<1>1. LastIn(Positions(secs, i, 2)) = LastIn(Positions(secs, i - 1, 2))
  BY DEF Before
<1> QED BY <1>1 DEF Before, Reading

LEMMA KeepsGrid ==
  ASSUME NEW st, NEW secs, NEW i, NEW k, Before(st, secs, i, k), NEW next,
         secs[i].n # 3, next.grid = st.grid, st.have \subseteq next.have
  PROVE  GridFound(next, secs, LastIn(Positions(secs, i, 3)))
<1>1. LastIn(Positions(secs, i, 3)) = LastIn(Positions(secs, i - 1, 3))
  BY DEF Before
<1>2. GridFound(st, secs, LastIn(Positions(secs, i - 1, 3)))
  BY DEF Before, Reading
<1> QED BY <1>1, <1>2 DEF GridFound

LEMMA KeepsBitmap ==
  ASSUME NEW st, NEW secs, NEW i, NEW k, Before(st, secs, i, k), NEW next,
         secs[i].n # 6, next.ibmap = st.ibmap, next.bmap = st.bmap, st.have \subseteq next.have
  PROVE  BitmapFound(next, secs, LastBitmap(secs, i), LastIn(GivenBitmaps(secs, i)))
<1>1. /\ LastBitmap(secs, i) = LastBitmap(secs, i - 1)
      /\ LastIn(GivenBitmaps(secs, i)) = LastIn(GivenBitmaps(secs, i - 1))
  BY DEF Before, LastBitmap
<1>2. BitmapFound(st, secs, LastBitmap(secs, i - 1), LastIn(GivenBitmaps(secs, i - 1)))
  BY DEF Before, Reading
<1> QED BY <1>1, <1>2 DEF BitmapFound

LEMMA KeepsProduct ==
  ASSUME NEW st, NEW secs, NEW i, NEW k, Before(st, secs, i, k), NEW next,
         secs[i].n # 4, secs[i].n = 5 => 5 \in next.have,
         next.pds = st.pds, next.list = st.list, st.have \subseteq next.have,
         Begun(secs, i) = k
  PROVE  ProductFound(next, secs, LastIn(Positions(secs, i, 4)), secs[i].n)
<1>1. LastIn(Positions(secs, i, 4)) = LastIn(Positions(secs, i - 1, 4))
  BY DEF Before
<1>2. Begun(secs, i - 1) = k
  BY DEF Before
<1>3. ProductFound(st, secs, LastIn(Positions(secs, i - 1, 4)), secs[i - 1].n)
  BY <1>2 DEF Before, Reading
<1>4. secs[i].n = 6 => 5 \in st.have
  BY <1>3 DEF Before, ProductFound
<1>5. secs[i].n \in 5..6 => 5 \in next.have
  BY <1>4
<1> QED BY <1>1, <1>3, <1>5 DEF ProductFound

(* A section without a number of its own in the search is passed over.     *)
LEMMA PassesOver ==
  ASSUME NEW st, NEW secs, NEW i, NEW k, Before(st, secs, i, k),
         secs[i].n \in {4, 5, 7}, Begun(secs, i) # k
  PROVE  Reading(Unpacked(st, secs[i], k, TRUE), secs, i, k)
<1> DEFINE s == secs[i]
           next == Unpacked(st, s, k, TRUE)
<1>1. /\ IsState(st) /\ st.ierr = 0 /\ st.done = FALSE /\ 7 \notin st.have
      /\ st.numfld = Begun(secs, i - 1)
  BY DEF Before, Reading
<1>2. /\ s.n \in {4, 5, 7}
      /\ Begun(secs, i) = Begun(secs, i - 1) + (IF s.n = 4 THEN 1 ELSE 0)
  BY DEF Before
<1> HIDE DEF s
<1>3. Passed(st, s).numfld = Begun(secs, i)
  BY <1>1, <1>2, PassedIs DEF Before
<1>4. next = Passed(st, s)
  <2>1. CASE s.n = 4
    BY <1>3, <2>1 DEF Unpacked
  <2>2. CASE s.n = 5
    BY <1>3, <2>2 DEF Unpacked
  <2>3. CASE s.n = 7
    BY <1>3, <2>3 DEF Unpacked
  <2> QED BY <1>2, <2>1, <2>2, <2>3
<1> HIDE DEF next
<1>5. /\ IsState(next)
      /\ next.ierr = st.ierr /\ next.done = st.done /\ next.have = st.have
      /\ next.local = st.local /\ next.grid = st.grid
      /\ next.ibmap = st.ibmap /\ next.bmap = st.bmap
  BY <1>1, <1>4, PassedIs
<1>6. /\ next.local = ReadLocal(secs, LastIn(Positions(secs, i, 2)))
      /\ GridFound(next, secs, LastIn(Positions(secs, i, 3)))
      /\ BitmapFound(next, secs, LastBitmap(secs, i), LastIn(GivenBitmaps(secs, i)))
  BY <1>2, <1>5, KeepsLocal, KeepsGrid, KeepsBitmap DEF s
<1>7. Reading(next, secs, i, k)
  BY <1>1, <1>3, <1>4, <1>5, <1>6 DEF Reading
<1> QED BY <1>7 DEF next, s

LEMMA ReadsIdLocalGrid ==
  ASSUME NEW st, NEW secs, NEW i, NEW k, Before(st, secs, i, k), secs[i].n \in 1..3
  PROVE  Reading(Unpacked(st, secs[i], k, TRUE), secs, i, k)
<1> DEFINE s == secs[i]
           next == Unpacked(st, s, k, TRUE)
<1>1. /\ IsState(st) /\ st.ierr = 0 /\ st.done = FALSE /\ 7 \notin st.have
      /\ st.numfld = Begun(secs, i - 1)
  BY DEF Before, Reading
<1>2. /\ s.n \in 1..3 /\ Readable(s) /\ i # 0
      /\ Begun(secs, i) = Begun(secs, i - 1)
      /\ \A m \in 2..3 : s.n = m => LastIn(Positions(secs, i, m)) = i
  BY DEF Before
<1> HIDE DEF s
<1>3. Passed(st, s) = st
  BY <1>2 DEF Passed
<1>4. /\ s.n = 1 => next = [st EXCEPT !.id = s.id]
      /\ s.n = 2 => next = [st EXCEPT !.local = s.local]
      /\ s.n = 3 => next = [st EXCEPT !.have = @ \cup {3}, !.grid = [num |-> s.num, list |-> GridOf(s)]]
  <2>1. CASE s.n = 1
    BY <1>3, <2>1 DEF Unpacked, g2_unpack1
  <2>2. CASE s.n = 2
    BY <1>3, <2>2 DEF Unpacked, g2_unpack2
  <2>3. CASE s.n = 3
    <3>1. s.num \in gridRows
      BY <1>2, <2>3 DEF Readable
    <3> QED BY <1>3, <2>3, <3>1 DEF Unpacked, g2_unpack3
  <2> QED BY <1>2, <2>1, <2>2, <2>3
<1> HIDE DEF next
<1>5. /\ IsState(next)
      /\ next.ierr = 0 /\ next.done = FALSE /\ next.numfld = Begun(secs, i)
      /\ next.pds = st.pds /\ next.list = st.list
      /\ next.ibmap = st.ibmap /\ next.bmap = st.bmap
      /\ next.have = IF s.n = 3 THEN st.have \cup {3} ELSE st.have
      /\ next.local = IF s.n = 2 THEN s.local ELSE st.local
      /\ next.grid = IF s.n = 3 THEN [num |-> s.num, list |-> GridOf(s)] ELSE st.grid
  <2>1. CASE s.n = 1
    BY <1>1, <1>2, <1>4, <2>1 DEF IsState
  <2>2. CASE s.n = 2
    BY <1>1, <1>2, <1>4, <2>2 DEF IsState
  <2>3. CASE s.n = 3
    BY <1>1, <1>2, <1>4, <2>3 DEF IsState
  <2>4. s.n = 1 \/ s.n = 2 \/ s.n = 3
    BY <1>2
  <2> QED BY ONLY <2>1, <2>2, <2>3, <2>4
<1>6. st.have \subseteq next.have /\ 7 \notin next.have
  BY <1>1, <1>5
<1>7. next.local = ReadLocal(secs, LastIn(Positions(secs, i, 2)))
  <2>1. CASE s.n = 2
    BY <1>2, <1>5, <2>1 DEF ReadLocal, Null, s
  <2>2. CASE s.n # 2
    BY <1>5, <2>2, KeepsLocal DEF s
  <2> QED BY <2>1, <2>2
<1>8. GridFound(next, secs, LastIn(Positions(secs, i, 3)))
  <2>1. CASE s.n = 3
    BY <1>2, <1>5, <2>1 DEF GridFound, s
  <2>2. CASE s.n # 3
    BY <1>5, <1>6, <2>2, KeepsGrid DEF s
  <2> QED BY <2>1, <2>2
<1>9. BitmapFound(next, secs, LastBitmap(secs, i), LastIn(GivenBitmaps(secs, i)))
  BY <1>2, <1>5, <1>6, KeepsBitmap DEF s
<1>10. Begun(secs, i) = k => ProductFound(next, secs, LastIn(Positions(secs, i, 4)), secs[i].n)
  BY <1>2, <1>5, <1>6, KeepsProduct DEF s
<1>11. Reading(next, secs, i, k)
  BY <1>5, <1>6, <1>7, <1>8, <1>9, <1>10 DEF Reading
<1> QED BY <1>11 DEF next, s

LEMMA ReadsProduct ==
  ASSUME NEW st, NEW secs, NEW i, NEW k, Before(st, secs, i, k),
         secs[i].n \in {4, 5}, Begun(secs, i) = k
  PROVE  Reading(Unpacked(st, secs[i], k, TRUE), secs, i, k)
<1> DEFINE s == secs[i]
           next == Unpacked(st, s, k, TRUE)
<1>1. /\ IsState(st) /\ st.ierr = 0 /\ st.done = FALSE /\ 7 \notin st.have
      /\ st.numfld = Begun(secs, i - 1)
  BY DEF Before, Reading
<1>2. /\ s.n \in {4, 5} /\ Readable(s) /\ i # 0
      /\ Begun(secs, i) = Begun(secs, i - 1) + (IF s.n = 4 THEN 1 ELSE 0)
      /\ s.n = 4 => LastIn(Positions(secs, i, 4)) = i
  BY DEF Before
<1> HIDE DEF s
<1> DEFINE now == Passed(st, s)
<1>3. now.numfld = k
  BY <1>1, <1>2, PassedIs DEF Before
<1>4. /\ s.n = 4 => next = g2_unpack4(now, s)
      /\ s.n = 5 => next = g2_unpack5(now, s)
  <2>1. CASE s.n = 4
    BY <1>3, <2>1 DEF Unpacked
  <2>2. CASE s.n = 5
    BY <1>3, <2>2 DEF Unpacked
  <2> QED BY <1>2, <2>1, <2>2
<1>5. /\ IsState(now)
      /\ now.have = st.have /\ now.ierr = 0 /\ now.done = FALSE /\ now.local = st.local
      /\ now.grid = st.grid /\ now.pds = st.pds /\ now.list = st.list
      /\ now.ibmap = st.ibmap /\ now.bmap = st.bmap
  BY <1>1, PassedIs
<1> HIDE DEF next, now
<1>6. /\ s.n = 4 => next = [now EXCEPT !.have = @ \cup {4}, !.pds = s.pds,
                                       !.list = GetPds(s.pds, s.tmpl)]
      /\ s.n = 5 => next = [now EXCEPT !.have = @ \cup {5}, !.ndpts = s.ndpts, !.drs = s.drs]
  <2>1. /\ s.n = 4 => s.pds \in pdsRows
        /\ s.n = 5 => s.drs \in drsRows
    BY <1>2 DEF Readable
  <2> QED BY <1>4, <2>1 DEF g2_unpack4, g2_unpack5
<1>7. /\ IsState(next)
      /\ next.ierr = 0 /\ next.done = FALSE /\ next.numfld = Begun(secs, i)
      /\ next.pds = (IF s.n = 4 THEN s.pds ELSE st.pds)
      /\ next.list = (IF s.n = 4 THEN GetPds(s.pds, s.tmpl) ELSE st.list)
      /\ next.ibmap = st.ibmap /\ next.bmap = st.bmap
      /\ next.have = st.have \cup {s.n}
      /\ next.local = st.local /\ next.grid = st.grid
  <2>1. CASE s.n = 4
    BY <1>3, <1>5, <1>6, <2>1 DEF IsState
  <2>2. CASE s.n = 5
    <3>1. next = [now EXCEPT !.have = now.have \cup {5}, !.ndpts = s.ndpts, !.drs = s.drs]
      BY <1>6, <2>2
    <3>2. /\ IsState(next) /\ next.ierr = now.ierr /\ next.done = now.done
          /\ next.numfld = now.numfld /\ next.pds = now.pds /\ next.list = now.list
          /\ next.ibmap = now.ibmap /\ next.bmap = now.bmap
          /\ next.have = now.have \cup {5}
          /\ next.local = now.local /\ next.grid = now.grid
      BY ONLY <1>5, <3>1 DEF IsState
    <3> QED BY <1>3, <1>5, <2>2, <3>2
  <2>3. s.n = 4 \/ s.n = 5
    BY <1>2
  <2> QED BY ONLY <2>1, <2>2, <2>3
<1>8. st.have \subseteq next.have /\ 7 \notin next.have /\ s.n \in next.have
  BY <1>1, <1>2, <1>7
<1>9. /\ next.local = ReadLocal(secs, LastIn(Positions(secs, i, 2)))
      /\ GridFound(next, secs, LastIn(Positions(secs, i, 3)))
      /\ BitmapFound(next, secs, LastBitmap(secs, i), LastIn(GivenBitmaps(secs, i)))
  BY <1>2, <1>7, <1>8, KeepsLocal, KeepsGrid, KeepsBitmap DEF s
<1>10. ProductFound(next, secs, LastIn(Positions(secs, i, 4)), secs[i].n)
  <2>1. CASE s.n = 4
    BY <1>2, <1>7, <1>8, <2>1 DEF ProductFound, s
  <2>2. CASE s.n = 5
    BY <1>7, <1>8, <2>2, KeepsProduct DEF s
  <2> QED BY <1>2, <2>1, <2>2
<1>11. Reading(next, secs, i, k)
  BY <1>7, <1>8, <1>9, <1>10 DEF Reading
<1> QED BY <1>11 DEF next, s

(* A bitmap of the caller's is not the empty one.                          *)
LEMMA NotEmptyBitmap == <<>> \notin BitmapInputs
<1> SUFFICES ASSUME NEW b \in BitmapInputs PROVE b # <<>>
  OBVIOUS
<1>1. PICK n \in Nat \ {0} : Points = 1..n
  BY Numbered
<1>2. b \in Seq({0, 1}) /\ Len(b) = n
  BY <1>1, PointsAssumption
<1>3. Len(<<>>) = 0
  OBVIOUS
<1> QED BY <1>2, <1>3

LEMMA ReadsBitmap ==
  ASSUME NEW st, NEW secs, NEW n, NEW ends, Message(secs, n, ends),
         NEW i \in 1..Len(secs), NEW k, Before(st, secs, i, k), secs[i].n = 6,
         \A m \in 1..i : ~ReusesForgotten(secs, m)
  PROVE  Reading(Unpacked(st, secs[i], k, TRUE), secs, i, k)
<1> DEFINE s == secs[i]
           next == Unpacked(st, s, k, TRUE)
           q == LastBitmap(secs, i - 1)
           given == LastIn(GivenBitmaps(secs, i - 1))
           bmap == IF s.ibmap = 0 THEN s.bmap
                   ELSE IF s.ibmap = 254 THEN st.bmap ELSE <<>>
<1>1. /\ IsState(st) /\ st.ierr = 0 /\ st.done = FALSE /\ 7 \notin st.have
      /\ st.numfld = Begun(secs, i - 1)
      /\ BitmapFound(st, secs, q, given)
  BY DEF Before, Reading
<1>2. /\ s.n = 6 /\ s.ibmap \in {0, 254, 255} /\ Readable(s) /\ i # 0
      /\ Begun(secs, i) = Begun(secs, i - 1)
      /\ LastBitmap(secs, i) = i
      /\ LastIn(GivenBitmaps(secs, i)) = IF s.ibmap = 0 THEN i ELSE given
  BY DEF Before, LastBitmap
<1>3. s.ibmap = 254 => st.bmap = secs[given].bmap /\ st.bmap # <<>>
  <2> SUFFICES ASSUME s.ibmap = 254 PROVE st.bmap = secs[given].bmap /\ st.bmap # <<>>
    OBVIOUS
  <2>1. \A m \in 1..i - 1 : ~ReusesForgotten(secs, m)
    OBVIOUS
  <2>2. ~Forgotten(secs, i)
    BY <1>2 DEF ReusesForgotten
  <2>3. q \in 1..i - 1 /\ secs[q].ibmap # 255
    BY <1>2, <2>1, <2>2, BitmapBefore
  <2>4. q # Null
    BY <2>3 DEF Null
  <2>5. st.bmap = secs[given].bmap
    BY <1>1, <2>3, <2>4 DEF BitmapFound
  <2>6. GivenBitmaps(secs, i - 1) # {} /\ GivenBitmaps(secs, i - 1) \in SUBSET (1..i - 1)
    BY <1>2 DEF Message, WellFormed, BitmapsOK, GivenBitmaps
  <2>7. given \in GivenBitmaps(secs, i - 1)
    <3>1. i - 1 \in Nat
      BY DEF Message, WellFormed
    <3> QED BY <2>6, <3>1, LastInProperties
  <2>8. secs[given].bmap \in BitmapInputs
    <3>1. given \in 1..Len(secs) /\ secs[given].n = 6 /\ secs[given].ibmap = 0
      <4>1. Len(secs) \in Nat
        BY DEF Message, WellFormed
      <4> HIDE DEF given
      <4> QED BY <2>7, <4>1 DEF GivenBitmaps
    <3>2. Readable(secs[given])
      BY <3>1 DEF Message
    <3> QED BY <3>1, <3>2 DEF Readable
  <2>9. <<>> \notin BitmapInputs
    BY NotEmptyBitmap
  <2> QED BY <2>5, <2>8, <2>9
<1> HIDE DEF s, q, given
<1>4. Passed(st, s) = st
  BY <1>2 DEF Passed
<1>5. next = g2_unpack6(st, s, TRUE)
  BY <1>2, <1>4 DEF Unpacked
<1> HIDE DEF next
<1>6. /\ IsState(next)
      /\ next.ierr = 0 /\ next.done = FALSE /\ next.numfld = Begun(secs, i)
      /\ next.pds = st.pds /\ next.list = st.list
      /\ next.ibmap = s.ibmap /\ next.bmap = bmap
      /\ next.have = st.have \cup {6}
      /\ next.local = st.local /\ next.grid = st.grid
  <2> DEFINE read == [st EXCEPT !.have = st.have \cup {6}, !.ibmap = s.ibmap]
  <2>1. /\ IsState(read) /\ read.ierr = 0 /\ read.done = FALSE /\ read.numfld = Begun(secs, i)
        /\ read.pds = st.pds /\ read.list = st.list
        /\ read.ibmap = s.ibmap /\ read.bmap = st.bmap
        /\ read.have = st.have \cup {6}
        /\ read.local = st.local /\ read.grid = st.grid
    <3>1. /\ IsState(read) /\ read.ierr = st.ierr /\ read.done = st.done
          /\ read.numfld = st.numfld
          /\ read.pds = st.pds /\ read.list = st.list
          /\ read.ibmap = s.ibmap /\ read.bmap = st.bmap
          /\ read.have = st.have \cup {6}
          /\ read.local = st.local /\ read.grid = st.grid
      <4>0. PICK have : have = st.have \cup {6}
        OBVIOUS
      <4> DEFINE first == [st EXCEPT !.have = have]
      <4>1. /\ IsState(first) /\ first.ierr = st.ierr /\ first.done = st.done
            /\ first.numfld = st.numfld
            /\ first.pds = st.pds /\ first.list = st.list
            /\ first.bmap = st.bmap /\ first.have = have
            /\ first.local = st.local /\ first.grid = st.grid
        BY ONLY <1>1 DEF IsState
      <4>2. read = [first EXCEPT !.ibmap = s.ibmap]
        BY <4>0
      <4> HIDE DEF first, read
      <4> QED BY ONLY <4>0, <4>1, <4>2 DEF IsState
    <3> QED BY <1>1, <1>2, <3>1
  <2> HIDE DEF read
  <2>2. CASE s.ibmap = 0
    <3>1. next = [read EXCEPT !.bmap = s.bmap]
      BY <1>5, <2>2 DEF g2_unpack6, read
    <3> QED BY <2>1, <2>2, <3>1 DEF IsState
  <2>3. CASE s.ibmap = 254
    <3>1. next = read
      BY <1>3, <1>5, <2>3 DEF g2_unpack6, read
    <3> QED BY <2>1, <2>3, <3>1
  <2>4. CASE s.ibmap = 255
    <3>1. next = [read EXCEPT !.bmap = <<>>]
      BY <1>5, <2>4 DEF g2_unpack6, read
    <3> QED BY <2>1, <2>4, <3>1 DEF IsState
  <2> QED BY <1>2, <2>2, <2>3, <2>4
<1>7. st.have \subseteq next.have /\ 7 \notin next.have /\ 6 \in next.have
  BY <1>1, <1>6
<1>8. /\ next.local = ReadLocal(secs, LastIn(Positions(secs, i, 2)))
      /\ GridFound(next, secs, LastIn(Positions(secs, i, 3)))
  BY <1>2, <1>6, <1>7, KeepsLocal, KeepsGrid DEF s
<1>9. BitmapFound(next, secs, LastBitmap(secs, i), LastIn(GivenBitmaps(secs, i)))
  <2>1. next.ibmap = secs[i].ibmap
    BY <1>6 DEF s
  <2>2. next.bmap = IF secs[i].ibmap = 255 THEN <<>>
                    ELSE secs[LastIn(GivenBitmaps(secs, i))].bmap
    BY <1>2, <1>3, <1>6 DEF s
  <2> QED BY <1>2, <1>7, <2>1, <2>2 DEF BitmapFound, Null
<1>10. Begun(secs, i) = k => ProductFound(next, secs, LastIn(Positions(secs, i, 4)), secs[i].n)
  BY <1>2, <1>6, <1>7, KeepsProduct DEF s
<1>11. Reading(next, secs, i, k)
  BY <1>6, <1>7, <1>8, <1>9, <1>10 DEF Reading
<1> QED BY <1>11 DEF next, s

(* Every section but the data of the field that is asked for is read and   *)
(* the search goes on.                                                     *)
LEMMA GetStep ==
  ASSUME NEW st, NEW secs, NEW n, NEW ends, Message(secs, n, ends),
         NEW i \in 1..Len(secs), NEW k \in Nat \ {0}, Reading(st, secs, i - 1, k),
         \A m \in 1..i : ~ReusesForgotten(secs, m),
         ~(secs[i].n = 7 /\ Begun(secs, i) = k)
  PROVE  Reading(GetSection(st, secs[i], k, TRUE), secs, i, k)
<1> DEFINE next == Unpacked(st, secs[i], k, TRUE)
<1>1. Before(st, secs, i, k)
  BY BeforeHolds
<1>2. Reading(next, secs, i, k)
  <2>1. CASE secs[i].n \in 1..3
    BY <1>1, <2>1, ReadsIdLocalGrid
  <2>2. CASE secs[i].n \in {4, 5} /\ Begun(secs, i) = k
    BY <1>1, <2>2, ReadsProduct
  <2>3. CASE secs[i].n \in {4, 5, 7} /\ Begun(secs, i) # k
    BY <1>1, <2>3, PassesOver
  <2>4. CASE secs[i].n = 6
    BY <1>1, <2>4, ReadsBitmap
  <2>5. secs[i].n \in 1..7
    BY DEF Message, WellFormed
  <2> HIDE DEF next
  <2> QED BY <2>1, <2>2, <2>3, <2>4, <2>5
<1>3. st.done = FALSE /\ IsState(next) /\ next.done = FALSE /\ 7 \notin next.have
  BY <1>2 DEF Reading
<1> HIDE DEF next
<1>4. GetSection(st, secs[i], k, TRUE) = next
  BY <1>3, GoesOn DEF next
<1> QED BY <1>2, <1>4

(* What g2_getfld returns for the field that ends at position e, and what  *)
(* for a bitmap that has been forgotten.                                   *)
Found(got, secs, e) ==
  got.done = TRUE /\ got.ierr = 0 /\ G2Field(got) = ReadAt(secs, Pointers(secs, e))

NoBitmap(got) == got.done = TRUE /\ got.ierr = 17

HasGridAt(secs, e) == Pointers(secs, e)[3] # Null

(* The data of the field that is asked for complete it, and what has been  *)
(* found is what the pointers of wgrib2 lead to.                           *)
LEMMA GetsField ==
  ASSUME NEW st, NEW secs, NEW n, NEW ends, Message(secs, n, ends),
         NEW k \in 1..n, Reading(st, secs, ends[k] - 1, k),
         HasGridAt(secs, ends[k]),
         NEW got, got = GetSection(st, secs[ends[k]], k, TRUE)
  PROVE  Found(got, secs, ends[k])
<1> DEFINE e == ends[k]
           s == secs[e]
           sec == Pointers(secs, e)
           q == e - 1
           given == LastIn(GivenBitmaps(secs, e - 1))
           next == Unpacked(st, s, k, TRUE)
           bmap == IF secs[q].ibmap = 255 THEN <<>> ELSE secs[given].bmap
           local == ReadLocal(secs, sec[2])
           grid == [num |-> secs[sec[3]].num, list |-> GridOf(secs[sec[3]])]
           fld == IF secs[q].ibmap # 255 /\ bmap # <<>> THEN Expand(bmap, s.values) ELSE s.values
<1>1. /\ e \in 4..Len(secs) /\ s.n = 7 /\ secs[q].n = 6
      /\ Begun(secs, e) = k /\ Begun(secs, q) = k
  BY FieldPlaces
<1>2. /\ IsState(st) /\ st.ierr = 0 /\ st.done = FALSE /\ st.numfld = k
      /\ st.local = ReadLocal(secs, LastIn(Positions(secs, q, 2)))
      /\ GridFound(st, secs, LastIn(Positions(secs, q, 3)))
      /\ BitmapFound(st, secs, LastIn(Positions(secs, q, 6)), given)
      /\ ProductFound(st, secs, LastIn(Positions(secs, q, 4)), secs[q].n)
  BY <1>1 DEF Reading, LastBitmap
<1>3. /\ Len(secs) \in Nat /\ e \in Nat \ {0} /\ q \in Nat \ {0} /\ e \in 1..Len(secs)
  BY <1>1 DEF Message, WellFormed
<1>4. /\ LastIn(Positions(secs, e, 7)) = e
      /\ \A m \in {2, 3, 4, 6} : LastIn(Positions(secs, e, m)) = LastIn(Positions(secs, q, m))
  BY <1>1, <1>3, LastAfter
<1>5. LastIn(Positions(secs, q, 6)) = q
  BY <1>1, <1>3, LastAfter
<1>6. LastIn(GivenBitmaps(secs, e)) = given
  BY <1>1, <1>3, GivenStep
<1>7. LastIn(GivenBitmaps(secs, q)) = given /\ (secs[q].ibmap = 0 => given = q)
  BY <1>1, <1>3, GivenStep
<1>8. /\ sec[2] = LastIn(Positions(secs, q, 2)) /\ sec[3] = LastIn(Positions(secs, q, 3))
      /\ sec[4] = LastIn(Positions(secs, q, 4)) /\ sec[7] = e
      /\ sec[6] = IF secs[q].ibmap = 254 THEN given ELSE q
  <2>1. q # Null
    BY <1>3 DEF Null
  <2>2. LastIn(Positions(secs, e, 6)) = q
    BY <1>4, <1>5
  <2> HIDE DEF q, given
  <2>3. /\ sec[2] = LastIn(Positions(secs, e, 2)) /\ sec[3] = LastIn(Positions(secs, e, 3))
        /\ sec[4] = LastIn(Positions(secs, e, 4)) /\ sec[7] = LastIn(Positions(secs, e, 7))
        /\ sec[6] = IF q # Null /\ secs[q].ibmap = 254 THEN LastIn(GivenBitmaps(secs, e)) ELSE q
    BY <2>2 DEF Pointers
  <2> QED BY <1>4, <1>6, <2>1, <2>3
<1>9. /\ secs[q].ibmap \in {0, 254, 255}
      /\ secs[q].ibmap = 254 => secs[given].ibmap = 0
  <2>1. q \in 1..Len(secs) /\ q - 1 \in Nat
    BY <1>1, <1>3
  <2>2. /\ secs[q].ibmap \in {0, 254, 255}
        /\ secs[q].ibmap = 254 => GivenBitmaps(secs, q - 1) # {}
    BY <1>1, <2>1 DEF Message, WellFormed, BitmapsOK
  <2>3. ASSUME secs[q].ibmap = 254 PROVE secs[given].ibmap = 0
    <3>1. GivenBitmaps(secs, q) \in SUBSET (1..q) /\ GivenBitmaps(secs, q) # {}
      <4>1. PICK j \in GivenBitmaps(secs, q - 1) : TRUE
        BY <2>2, <2>3
      <4>2. j \in GivenBitmaps(secs, q)
        BY <1>3, <2>1, <4>1 DEF GivenBitmaps
      <4> QED BY <4>2 DEF GivenBitmaps
    <3>2. given \in GivenBitmaps(secs, q)
      BY <1>3, <3>1, LastInProperties
    <3> HIDE DEF given
    <3> QED BY <3>2 DEF GivenBitmaps
  <2> QED BY <2>2, <2>3
<1>10. /\ st.grid = grid /\ st.local = local
       /\ st.pds = secs[sec[4]].pds /\ st.list = GetPds(secs[sec[4]].pds, secs[sec[4]].tmpl)
       /\ st.ibmap = secs[q].ibmap /\ st.bmap = bmap
       /\ {3, 4, 5, 6} \subseteq st.have
  <2>1. q # Null
    BY <1>3 DEF Null
  <2>2. st.grid = grid /\ 3 \in st.have
    <3> HIDE DEF sec
    <3> QED BY <1>2, <1>8 DEF GridFound, HasGridAt, sec
  <2>3. /\ st.ibmap = secs[q].ibmap /\ st.bmap = bmap /\ 6 \in st.have
    BY <1>2, <1>5, <2>1 DEF BitmapFound
  <2>4. /\ st.pds = secs[sec[4]].pds /\ st.list = GetPds(secs[sec[4]].pds, secs[sec[4]].tmpl)
        /\ 4 \in st.have /\ 5 \in st.have
    <3> HIDE DEF sec
    <3> QED BY <1>1, <1>2, <1>8 DEF ProductFound
  <2>5. st.local = local
    <3> HIDE DEF sec
    <3> QED BY <1>2, <1>8
  <2> QED BY <2>2, <2>3, <2>4, <2>5
<1>11. secs[sec[7]] = s
       /\ bmap = (IF secs[sec[6]].ibmap = 255 THEN <<>> ELSE secs[sec[6]].bmap)
  <2> HIDE DEF sec, q, given
  <2>1. CASE secs[q].ibmap = 254
    BY <1>8, <1>9, <2>1
  <2>2. CASE secs[q].ibmap = 0
    BY <1>7, <1>8, <2>2
  <2>3. CASE secs[q].ibmap = 255
    BY <1>8, <2>3
  <2> QED BY <1>8, <1>9, <2>1, <2>2, <2>3
<1> HIDE DEF s, sec, q, given, local, grid, bmap
<1>12. next = g2_unpack7(st, s)
  BY <1>1, <1>2 DEF Unpacked, Passed
<1>13. next = [st EXCEPT !.have = @ \cup {7}, !.fld = fld]
  BY <1>10, <1>12 DEF g2_unpack7
<1> HIDE DEF next, fld
<1>14. /\ IsState(next) /\ next.ierr = 0 /\ next.done = FALSE
       /\ next.have = st.have \cup {7}
       /\ next.local = local /\ next.grid = grid /\ next.pds = secs[sec[4]].pds
       /\ next.list = GetPds(secs[sec[4]].pds, secs[sec[4]].tmpl)
       /\ next.bmap = bmap /\ next.fld = fld
  <2>1. PICK have : have = st.have \cup {7}
    OBVIOUS
  <2> DEFINE first == [st EXCEPT !.have = have]
  <2>2. /\ IsState(first) /\ first.ierr = st.ierr /\ first.done = st.done
        /\ first.pds = st.pds /\ first.list = st.list
        /\ first.bmap = st.bmap /\ first.have = have
        /\ first.local = st.local /\ first.grid = st.grid
    BY ONLY <1>2 DEF IsState
  <2>3. next = [first EXCEPT !.fld = fld]
    BY <1>13, <2>1
  <2> HIDE DEF first
  <2>4. /\ IsState(next) /\ next.ierr = first.ierr /\ next.done = first.done
        /\ next.pds = first.pds /\ next.list = first.list
        /\ next.bmap = first.bmap /\ next.have = first.have
        /\ next.local = first.local /\ next.grid = first.grid /\ next.fld = fld
    BY ONLY <2>2, <2>3 DEF IsState
  <2> QED BY <1>2, <1>10, <2>1, <2>2, <2>4
<1>15. got = [next EXCEPT !.done = TRUE]
  <2>1. ({3, 4, 5, 6, 7} \subseteq next.have) = TRUE
    BY <1>10, <1>14
  <2>2. got = [next EXCEPT !.done = {3, 4, 5, 6, 7} \subseteq next.have]
    BY <1>2, <1>14, GetSectionIs DEF Needed, next, s
  <2> QED BY <2>1, <2>2
<1>16. /\ got.done = TRUE /\ got.ierr = 0
       /\ got.local = local /\ got.grid = grid /\ got.pds = secs[sec[4]].pds
       /\ got.list = GetPds(secs[sec[4]].pds, secs[sec[4]].tmpl)
       /\ got.bmap = bmap /\ got.fld = fld
  BY <1>14, <1>15 DEF IsState
<1>17. G2Field(got) = [local |-> local, grid |-> grid,
                       product |-> [pds |-> secs[sec[4]].pds,
                                    list |-> GetPds(secs[sec[4]].pds, secs[sec[4]].tmpl)],
                       bitmap |-> IF bmap = <<>> THEN None ELSE bmap,
                       values |-> fld]
  BY <1>16 DEF G2Field
<1>18. fld = IF bmap = <<>> THEN s.values ELSE Expand(bmap, s.values)
  BY DEF fld, bmap
<1>19. ReadAt(secs, sec) = [local |-> local, grid |-> grid,
                            product |-> [pds |-> secs[sec[4]].pds,
                                         list |-> GetPds(secs[sec[4]].pds, secs[sec[4]].tmpl)],
                            bitmap |-> IF bmap = <<>> THEN None ELSE bmap,
                            values |-> IF bmap = <<>> THEN s.values ELSE Expand(bmap, s.values)]
  BY <1>11 DEF ReadAt, local, grid
<1> QED BY <1>16, <1>17, <1>18, <1>19 DEF Found, sec

(* A bitmap that has been forgotten is refused.                            *)
LEMMA RefusesBitmap ==
  ASSUME NEW st, NEW secs, NEW n, NEW ends, Message(secs, n, ends),
         NEW i \in 1..Len(secs), NEW k \in Nat \ {0}, Reading(st, secs, i - 1, k),
         ReusesForgotten(secs, i), \A m \in 1..i - 1 : ~ReusesForgotten(secs, m),
         NEW got, got = GetSection(st, secs[i], k, TRUE)
  PROVE  NoBitmap(got)
<1> DEFINE s == secs[i]
           q == LastBitmap(secs, i - 1)
           next == Unpacked(st, s, k, TRUE)
<1>1. s.n = 6 /\ s.ibmap = 254 /\ Forgotten(secs, i)
  BY DEF ReusesForgotten
<1>2. q \in 1..i - 1 /\ secs[q].ibmap = 255
  BY <1>1, BitmapBefore
<1>3. IsState(st) /\ st.done = FALSE /\ st.bmap = <<>>
  BY <1>2 DEF Reading, BitmapFound, Null
<1> HIDE DEF s
<1>4. next = g2_unpack6(st, s, TRUE)
  BY <1>1 DEF Unpacked, Passed
<1> HIDE DEF next
<1>5. PICK have : have = st.have \cup {6}
  OBVIOUS
<1> DEFINE first == [st EXCEPT !.have = have]
           read == [first EXCEPT !.ibmap = 254]
<1>6. IsState(first)
  BY ONLY <1>3 DEF IsState
<1>7. read = [st EXCEPT !.have = st.have \cup {6}, !.ibmap = 254]
  BY <1>5
<1>8. next = Fail(read, 17)
  BY <1>1, <1>3, <1>4, <1>7 DEF g2_unpack6
<1> HIDE DEF first
<1>9. IsState(read)
  BY ONLY <1>6 DEF IsState
<1> HIDE DEF read
<1>10. next.done = TRUE /\ next.ierr = 17
  BY ONLY <1>8, <1>9 DEF IsState, Fail
<1>11. GetSection(st, s, k, TRUE) = next
  BY <1>3, <1>10, GetSectionIs DEF next
<1> QED BY <1>10, <1>11 DEF NoBitmap, s

-----------------------------------------------------------------------------
(* The loop of g2_getfld.                                                  *)
GetEquation(w, secs, k, unpack) ==
  w = [i \in 0..Len(secs) |->
         IF i = 0 THEN NewField ELSE GetSection(w[i - 1], secs[i], k, unpack)]

LEMMA GetExists ==
  ASSUME NEW secs, Len(secs) \in Nat, NEW k, NEW unpack
  PROVE  \E w : GetEquation(w, secs, k, unpack)
<1> DEFINE Step(st, i) == GetSection(st, secs[i], k, unpack)
           Solves(w, m) == w = [i \in 0..m |-> IF i = 0 THEN NewField ELSE Step(w[i - 1], i)]
           S == {m \in Nat : \E w : Solves(w, m)}
<1> HIDE DEF Step
<1>1. 0 \in S
  <2>1. Solves([i \in 0..0 |-> NewField], 0)
    OBVIOUS
  <2> QED BY <2>1
<1>2. ASSUME NEW m \in Nat, m \in S PROVE m + 1 \in S
  <2>1. PICK w : Solves(w, m)
    BY <1>2
  <2> DEFINE next == [i \in 0..m + 1 |-> IF i <= m THEN w[i] ELSE Step(w[m], m + 1)]
  <2>2. ASSUME NEW i \in 0..m + 1
        PROVE  next[i] = IF i = 0 THEN NewField ELSE Step(next[i - 1], i)
    <3>1. CASE i <= m
      <4>1. i \in 0..m /\ next[i] = w[i] /\ (i # 0 => i - 1 \in 0..m + 1 /\ i - 1 <= m)
        BY <3>1
      <4>2. i # 0 => next[i - 1] = w[i - 1]
        BY <4>1
      <4> HIDE DEF next
      <4> QED BY <2>1, <4>1, <4>2
    <3>2. CASE i = m + 1
      <4>1. i - 1 = m /\ m \in 0..m + 1 /\ i # 0 /\ next[m] = w[m]
        BY <3>2
      <4> QED BY <3>2, <4>1
    <3> QED BY <3>1, <3>2
  <2>3. Solves(next, m + 1)
    BY <2>2
  <2> HIDE DEF next
  <2> QED BY <2>3
<1>3. Len(secs) \in S
  <2>1. \A m \in Nat : m \in S
    <3> HIDE DEF S
    <3> QED BY <1>1, <1>2, SetInduction
  <2> QED BY <2>1
<1>4. PICK w : Solves(w, Len(secs))
  BY <1>3
<1> QED BY <1>4 DEF GetEquation, Step

LEMMA GetIs ==
  ASSUME NEW secs, Len(secs) \in Nat, NEW k \in Nat \ {0}, NEW unpack
  PROVE  \E w : /\ GetEquation(w, secs, k, unpack)
                /\ g2_getfld(secs, k, unpack) =
                     IF w[Len(secs)].done THEN w[Len(secs)] ELSE Fail(w[Len(secs)], 6)
<1> DEFINE w == CHOOSE x : GetEquation(x, secs, k, unpack)
<1>1. GetEquation(w, secs, k, unpack)
  BY GetExists
<1>2. g2_getfld(secs, k, unpack) =
        IF w[Len(secs)].done THEN w[Len(secs)] ELSE Fail(w[Len(secs)], 6)
  <2>1. ~(k <= 0)
    OBVIOUS
  <2> QED BY <2>1 DEF g2_getfld, GetEquation
<1> QED BY <1>1, <1>2

(* Before the data of the field, and before a bitmap that was forgotten.   *)
LEMMA ReadsUpTo ==
  ASSUME NEW secs, NEW n, NEW ends, Message(secs, n, ends), NEW k \in Nat \ {0},
         NEW w, GetEquation(w, secs, k, TRUE), NEW stop \in 0..Len(secs),
         \A i \in 1..stop : /\ ~ReusesForgotten(secs, i)
                            /\ ~(secs[i].n = 7 /\ Begun(secs, i) = k)
  PROVE  Reading(w[stop], secs, stop, k)
<1> DEFINE S == {i \in Nat : i <= stop => Reading(w[i], secs, i, k)}
<1>1. Len(secs) \in Nat /\ stop \in Nat
  BY DEF Message, WellFormed
<1>2. 0 \in S
  <2>1. w[0] = NewField
    BY <1>1 DEF GetEquation
  <2> QED BY <2>1, ReadingStart
<1>3. ASSUME NEW i \in Nat, i \in S PROVE i + 1 \in S
  <2> SUFFICES ASSUME i + 1 <= stop PROVE Reading(w[i + 1], secs, i + 1, k)
    OBVIOUS
  <2>1. PICK j : j = i + 1
    OBVIOUS
  <2>2. j \in 1..Len(secs) /\ j \in 1..stop /\ j - 1 = i /\ j # 0 /\ j \in 0..Len(secs)
    BY <1>1, <2>1
  <2>3. Reading(w[j - 1], secs, j - 1, k)
    BY <1>1, <1>3, <2>2
  <2>4. w[j] = GetSection(w[j - 1], secs[j], k, TRUE)
    BY <2>2 DEF GetEquation
  <2>5. \A m \in 1..j : ~ReusesForgotten(secs, m)
    BY <1>1, <2>2
  <2>6. Reading(w[j], secs, j, k)
    BY <2>2, <2>3, <2>4, <2>5, GetStep
  <2> QED BY <2>1, <2>6
<1>4. stop \in S
  <2>1. \A i \in Nat : i \in S
    <3> HIDE DEF S
    <3> QED BY <1>2, <1>3, SetInduction
  <2> QED BY <1>1, <2>1
<1> QED BY <1>1, <1>4

(* The loop leaves what it was done with alone.                            *)
LEMMA StaysDone ==
  ASSUME NEW secs, Len(secs) \in Nat, NEW k, NEW w, GetEquation(w, secs, k, TRUE),
         NEW i \in 0..Len(secs), w[i].done
  PROVE  w[Len(secs)] = w[i]
<1> DEFINE last == [j \in 0..Len(secs) |-> w[i]]
<1>1. PICK lo \in Int, hi \in Int : lo = i /\ hi = Len(secs)
  OBVIOUS
<1>2. w[lo] = last[lo]
  BY <1>1
<1>3. ASSUME NEW j \in lo + 1..hi, w[j - 1] = last[j - 1] PROVE w[j] = last[j]
  <2>1. j \in 0..Len(secs) /\ j - 1 \in 0..Len(secs) /\ j # 0
    BY <1>1
  <2>2. w[j] = GetSection(w[j - 1], secs[j], k, TRUE) /\ w[j - 1] = w[i]
    BY <1>3, <2>1 DEF GetEquation
  <2>3. w[j] = w[i]
    BY <2>2, GetSectionIs
  <2> QED BY <2>1, <2>3
<1>4. lo \in Int /\ hi \in Int
  OBVIOUS
<1>5. \A j \in lo..hi : w[j] = last[j]
  <2> HIDE DEF last
  <2> QED BY ONLY <1>2, <1>3, <1>4, SameSteps
<1> QED BY <1>1, <1>5

(* The data of field k end it only.                                        *)
LEMMA EndOf ==
  ASSUME NEW secs, NEW n, NEW ends, Message(secs, n, ends), NEW i \in 1..Len(secs),
         secs[i].n = 7
  PROVE  Begun(secs, i) \in 1..n /\ ends[Begun(secs, i)] = i
<1>1. i \in Submessages(secs)
  BY DEF Submessages
<1>2. PICK j \in 1..n : ends[j] = i
  BY <1>1 DEF Message, WellFormed, EndsOK
<1>3. Begun(secs, ends[j]) = j
  BY FieldPlaces
<1> QED BY <1>2, <1>3

(* The first field that cannot be read.                                    *)
LEMMA UnreadableIs ==
  ASSUME NEW S, NEW secs \in Seq(S)
  PROVE  \/ /\ Unreadable(secs) = 0
            /\ \A i \in 1..Len(secs) : ~ReusesForgotten(secs, i)
         \/ \E first \in 1..Len(secs) :
              /\ ReusesForgotten(secs, first)
              /\ \A i \in 1..first - 1 : ~ReusesForgotten(secs, i)
              /\ Unreadable(secs) = Begun(secs, first)
<1> DEFINE bad == {i \in 1..Len(secs) : /\ secs[i].n = 6 /\ secs[i].ibmap = 254
                                        /\ NoneSinceBitmap(SubSeq(secs, 1, i))}
           first == CHOOSE i \in bad : \A j \in bad : i <= j
<1>1. bad = {i \in 1..Len(secs) : ReusesForgotten(secs, i)}
  BY NoneSinceIsForgotten DEF ReusesForgotten
<1>2. Unreadable(secs) = IF bad = {} THEN 0 ELSE Cardinality(numfields(SubSeq(secs, 1, first)))
  BY DEF Unreadable
<1>3. bad \in SUBSET Nat
  OBVIOUS
<1> HIDE DEF bad
<1>4. CASE bad = {}
  <2>1. \A i \in 1..Len(secs) : ~ReusesForgotten(secs, i)
    BY <1>1, <1>4
  <2> QED BY <1>2, <1>4, <2>1
<1>5. CASE bad # {}
  <2>1. PICK m \in bad : \A j \in bad : m <= j
    BY <1>3, <1>5, LeastNatural
  <2>2. first \in bad /\ \A j \in bad : first <= j
    BY <2>1
  <2> HIDE DEF first
  <2>3. first \in 1..Len(secs) /\ ReusesForgotten(secs, first)
    BY <1>1, <2>2
  <2>4. \A i \in 1..first - 1 : ~ReusesForgotten(secs, i)
    <3> SUFFICES ASSUME NEW i \in 1..first - 1, ReusesForgotten(secs, i) PROVE FALSE
      OBVIOUS
    <3>1. i \in bad /\ i < first
      BY <1>1, <2>3
    <3>2. first <= i
      BY <2>2, <3>1
    <3> QED BY <2>3, <3>1, <3>2
  <2>5. Unreadable(secs) = Begun(secs, first)
    <3>1. numfields(SubSeq(secs, 1, first)) = Positions(secs, first, 4)
      BY <2>3, NoneSinceIsForgotten
    <3> QED BY <1>2, <1>5, <3>1 DEF Begun, first
  <2> QED BY <2>3, <2>4, <2>5
<1> QED BY <1>4, <1>5

LEMMA GetsReadable ==
  ASSUME NEW secs, NEW n, NEW ends, Message(secs, n, ends), NEW k \in 1..n,
         Pointers(secs, ends[k])[3] # Null,
         \A i \in 1..ends[k] : ~ReusesForgotten(secs, i)
  PROVE  LET got == g2_getfld(secs, k, TRUE)
         IN  got.ierr = 0 /\ G2Field(got) = ReadAt(secs, Pointers(secs, ends[k]))
<1> DEFINE e == ends[k]
<1>1. /\ Len(secs) \in Nat /\ e \in 1..Len(secs) /\ e \in Nat /\ k \in Nat \ {0}
      /\ e - 1 \in 0..Len(secs) /\ e \in 0..Len(secs) /\ e # 0
  <2>1. Len(secs) \in Nat /\ n \in Nat /\ ends \in [1..n -> 1..Len(secs)]
    BY DEF Message, WellFormed, EndsOK
  <2> QED BY <2>1
<1>2. PICK w : /\ GetEquation(w, secs, k, TRUE)
               /\ g2_getfld(secs, k, TRUE) =
                    IF w[Len(secs)].done THEN w[Len(secs)] ELSE Fail(w[Len(secs)], 6)
  BY <1>1, GetIs
<1>3. \A i \in 1..e - 1 : /\ ~ReusesForgotten(secs, i)
                          /\ ~(secs[i].n = 7 /\ Begun(secs, i) = k)
  <2> TAKE i \in 1..e - 1
  <2>1. i \in 1..e /\ i \in 1..Len(secs) /\ i # e
    BY <1>1
  <2> QED BY <2>1, EndOf
<1>4. Reading(w[e - 1], secs, e - 1, k)
  <2> HIDE DEF e
  <2> QED BY <1>1, <1>2, <1>3, ReadsUpTo
<1>5. w[e] = GetSection(w[e - 1], secs[e], k, TRUE)
  <2> HIDE DEF e
  <2> QED BY <1>1, <1>2 DEF GetEquation
<1>6. w[e].done = TRUE /\ w[e].ierr = 0 /\ G2Field(w[e]) = ReadAt(secs, Pointers(secs, e))
  <2>1. PICK st : st = w[e - 1]
    OBVIOUS
  <2>2. Reading(st, secs, e - 1, k)
    BY <1>4, <2>1
  <2>3. PICK got : got = w[e]
    OBVIOUS
  <2>4. got = GetSection(st, secs[e], k, TRUE)
    BY <1>5, <2>1, <2>3
  <2>5. Found(got, secs, e)
    <3>1. /\ Message(secs, n, ends) /\ k \in 1..n
          /\ HasGridAt(secs, ends[k])
      BY DEF HasGridAt
    <3> QED BY ONLY <2>2, <2>4, <3>1, GetsField, Zenon
  <2> HIDE DEF e
  <2> QED BY <2>3, <2>5 DEF Found
<1> HIDE DEF e
<1>7. w[Len(secs)] = w[e]
  <2>1. w[e].done
    BY <1>6
  <2>2. GetEquation(w, secs, k, TRUE)
    BY <1>2
  <2> QED BY ONLY <1>1, <2>1, <2>2, StaysDone
<1> QED BY <1>2, <1>6, <1>7 DEF e

LEMMA RefusesFrom ==
  ASSUME NEW secs, NEW n, NEW ends, Message(secs, n, ends), NEW k \in 1..n,
         NEW first \in 1..Len(secs), ReusesForgotten(secs, first),
         \A i \in 1..first - 1 : ~ReusesForgotten(secs, i), Begun(secs, first) <= k
  PROVE  g2_getfld(secs, k, TRUE).ierr = 17
<1>1. /\ Len(secs) \in Nat /\ first \in Nat /\ k \in Nat \ {0} /\ first # 0
      /\ first - 1 \in 0..Len(secs) /\ first \in 0..Len(secs)
  <2>1. Len(secs) \in Nat /\ n \in Nat
    BY DEF Message, WellFormed, EndsOK
  <2> QED BY <2>1
<1>2. PICK w : /\ GetEquation(w, secs, k, TRUE)
               /\ g2_getfld(secs, k, TRUE) =
                    IF w[Len(secs)].done THEN w[Len(secs)] ELSE Fail(w[Len(secs)], 6)
  BY <1>1, GetIs
<1>3. Begun(secs, first) = Cardinality(Positions(secs, first, 7)) + 1
  BY BegunEnded DEF ReusesForgotten
<1>4. ASSUME NEW i \in 1..first - 1, secs[i].n = 7, Begun(secs, i) = k PROVE FALSE
  <2>1. i \in 1..Len(secs) /\ i \in Nat /\ i <= first
    BY <1>1
  <2>2. Begun(secs, i) = Cardinality(Positions(secs, i, 7)) + 0
    BY <1>4, <2>1, BegunEnded
  <2>3. /\ Cardinality(Positions(secs, i, 7)) \in Nat
        /\ Cardinality(Positions(secs, first, 7)) \in Nat
        /\ Cardinality(Positions(secs, i, 7)) <= Cardinality(Positions(secs, first, 7))
    <3>1. first <= first
      BY <1>1
    <3> QED BY <1>1, <2>1, <3>1, CountGrows
  <2> QED BY <1>1, <1>3, <1>4, <2>2, <2>3
<1>5. Reading(w[first - 1], secs, first - 1, k)
  <2>1. \A i \in 1..first - 1 : /\ ~ReusesForgotten(secs, i)
                                /\ ~(secs[i].n = 7 /\ Begun(secs, i) = k)
    BY <1>4
  <2> QED BY <1>1, <1>2, <2>1, ReadsUpTo
<1>6. w[first] = GetSection(w[first - 1], secs[first], k, TRUE)
  BY <1>1, <1>2 DEF GetEquation
<1>7. w[first].done = TRUE /\ w[first].ierr = 17
  <2>1. PICK st : st = w[first - 1]
    OBVIOUS
  <2>2. Reading(st, secs, first - 1, k)
    BY <1>5, <2>1
  <2>3. PICK got : got = w[first]
    OBVIOUS
  <2>4. got = GetSection(st, secs[first], k, TRUE)
    BY <1>6, <2>1, <2>3
  <2>5. NoBitmap(got)
    <3>1. /\ Message(secs, n, ends) /\ first \in 1..Len(secs) /\ k \in Nat \ {0}
          /\ ReusesForgotten(secs, first) /\ \A m \in 1..first - 1 : ~ReusesForgotten(secs, m)
      BY <1>1
    <3> QED BY ONLY <2>2, <2>4, <3>1, RefusesBitmap, Zenon
  <2> QED BY <2>3, <2>5 DEF NoBitmap
<1>8. w[Len(secs)] = w[first]
  <2>1. w[first].done
    BY <1>7
  <2>2. GetEquation(w, secs, k, TRUE)
    BY <1>2
  <2> QED BY ONLY <1>1, <2>1, <2>2, StaysDone
<1> QED BY <1>2, <1>7, <1>8

LEMMA NoSuchField ==
  ASSUME NEW secs, NEW n, NEW ends, Message(secs, n, ends),
         \A i \in 1..Len(secs) : ~ReusesForgotten(secs, i)
  PROVE  g2_getfld(secs, n + 1, TRUE).ierr = 6
<1> DEFINE k == n + 1
<1>1. Len(secs) \in Nat /\ n \in Nat /\ k \in Nat \ {0} /\ Len(secs) \in 0..Len(secs)
  BY DEF Message, WellFormed, EndsOK
<1>2. PICK w : /\ GetEquation(w, secs, k, TRUE)
               /\ g2_getfld(secs, k, TRUE) =
                    IF w[Len(secs)].done THEN w[Len(secs)] ELSE Fail(w[Len(secs)], 6)
  <2> HIDE DEF k
  <2> QED BY <1>1, GetIs
<1>3. \A i \in 1..Len(secs) : ~(secs[i].n = 7 /\ Begun(secs, i) = k)
  BY <1>1, EndOf
<1>4. Reading(w[Len(secs)], secs, Len(secs), k)
  <2> HIDE DEF k
  <2> QED BY <1>1, <1>2, <1>3, ReadsUpTo
<1>5. IsState(w[Len(secs)]) /\ w[Len(secs)].done = FALSE
  BY <1>4 DEF Reading
<1>6. g2_getfld(secs, k, TRUE) = Fail(w[Len(secs)], 6)
  BY <1>2, <1>5
<1>7. Fail(w[Len(secs)], 6).ierr = 6
  <2>1. PICK st : st = w[Len(secs)]
    OBVIOUS
  <2>2. Fail(st, 6).ierr = 6
    BY <1>5, <2>1 DEF IsState, Fail
  <2> QED BY <2>1, <2>2
<1> QED BY <1>6, <1>7

(* A complete message can be read.                                         *)
LEMMA MessageMade ==
  ASSUME ReadableInv
  PROVE  \E ends : /\ Message(cgrib.secs, Len(asked.fields), ends)
                   /\ \A k \in 1..Len(asked.fields) :
                        FieldAt(cgrib.secs, ends[k], asked.fields[k])
<1> DEFINE secs == cgrib.secs
           fields == asked.fields
<1>1. PICK ends : /\ EndsOK(secs, Len(fields), ends)
                  /\ \A k \in 1..Len(fields) : FieldAt(secs, ends[k], fields[k])
  BY DEF ReadableInv, ReadInv, FieldsAt
<1>2. WellFormed(secs, Len(fields), ends)
  BY <1>1, FirstOwnBitmap DEF ReadableInv, ReadInv
<1>3. ASSUME NEW i \in 1..Len(secs)
      PROVE  /\ i = 1 => secs[i].n = 1
             /\ i # 1 => MayFollow(secs[i - 1].n, secs[i].n)
  BY DEF ReadableInv, ReadInv, OrderInv, SectionOrder, MayFollow
<1> QED BY <1>1, <1>2, <1>3 DEF Message, ReadableInv

(* g2_getfld finds the fields that were added, with the grid, the local    *)
(* section and the bitmap in force, up to the first field that reuses a    *)
(* bitmap after a field without one: that one and all after it are refused.*)
THEOREM GetfldReads == Spec => []GetfldReadsBack
<1>1. ASSUME ReadableInv PROVE GetfldReadsBack
  <2> DEFINE secs == cgrib.secs
             fields == asked.fields
             bad == Unreadable(secs)
  <2>1. PICK ends : /\ Message(secs, Len(fields), ends)
                    /\ \A k \in 1..Len(fields) : FieldAt(secs, ends[k], fields[k])
    BY <1>1, MessageMade
  <2>2. secs \in Seq(Section) /\ Len(secs) \in Nat
    BY <1>1 DEF ReadableInv, ReadInv, OrderInv, TypeInv, BufferOK
  <2> SUFFICES ASSUME NEW k \in 1..Len(fields)
               PROVE  LET got == g2_getfld(secs, k, TRUE)
                      IN  IF bad = 0 \/ k < bad THEN got.ierr = 0 /\ G2Field(got) = fields[k]
                          ELSE got.ierr = 17
    BY DEF GetfldReadsBack
  <2>3. /\ Pointers(secs, ends[k])[3] # Null
        /\ ReadAt(secs, Pointers(secs, ends[k])) = fields[k]
    BY <2>1 DEF FieldAt
  <2>4. /\ ends[k] \in 1..Len(secs) /\ Begun(secs, ends[k]) = k /\ k \in Nat
        /\ \A i \in 1..ends[k] : i \in 1..Len(secs)
    <3>1. ends[k] \in 4..Len(secs) /\ Begun(secs, ends[k]) = k
      BY <2>1, FieldPlaces
    <3> QED BY <2>2, <3>1
  <2> HIDE DEF secs, fields, bad
  <2>5. CASE bad = 0 /\ \A i \in 1..Len(secs) : ~ReusesForgotten(secs, i)
    <3>1. \A i \in 1..ends[k] : ~ReusesForgotten(secs, i)
      BY <2>4, <2>5
    <3> QED BY <2>1, <2>3, <2>5, <3>1, GetsReadable
  <2>6. ASSUME NEW first \in 1..Len(secs), ReusesForgotten(secs, first),
               \A i \in 1..first - 1 : ~ReusesForgotten(secs, i), bad = Begun(secs, first)
        PROVE  LET got == g2_getfld(secs, k, TRUE)
               IN  IF bad = 0 \/ k < bad THEN got.ierr = 0 /\ G2Field(got) = fields[k]
                   ELSE got.ierr = 17
    <3>1. /\ first \in Nat /\ first <= first /\ bad \in Nat
          /\ \A j \in Nat : first <= j => bad <= Begun(secs, j)
      BY <2>2, <2>6, CountGrows DEF Begun
    <3>2. bad # 0
      <4>1. bad = Cardinality(Positions(secs, first, 7)) + 1
        BY <2>1, <2>6, BegunEnded DEF ReusesForgotten
      <4>2. Cardinality(Positions(secs, first, 7)) \in Nat
        BY <3>1, CountGrows
      <4> QED BY <4>1, <4>2
    <3>3. CASE k < bad
      <4>1. ends[k] < first
        BY <2>2, <2>4, <3>1, <3>3
      <4>2. \A i \in 1..ends[k] : ~ReusesForgotten(secs, i)
        BY <2>2, <2>4, <2>6, <4>1
      <4> QED BY <2>1, <2>3, <3>3, <4>2, GetsReadable
    <3>4. CASE ~(k < bad)
      <4>1. Begun(secs, first) <= k
        BY <2>4, <2>6, <3>1, <3>4
      <4> QED BY <2>1, <2>6, <3>2, <3>4, <4>1, RefusesFrom
    <3> QED BY <3>3, <3>4
  <2> QED BY <2>2, <2>5, <2>6, UnreadableIs DEF bad
<1> QED BY <1>1, ReadableInvariant, PTL

(* g2_info counts the fields that can be asked for: the next is refused.   *)
THEOREM InfoCountsFields == Spec => []InfoCounts
<1>1. ASSUME ReadableInv PROVE InfoCounts
  <2> DEFINE secs == cgrib.secs
             n == Len(asked.fields)
  <2> SUFFICES ASSUME cgrib.state = "ended"
               PROVE  /\ Cardinality(numfields(secs)) = n
                      /\ Unreadable(secs) = 0 => g2_getfld(secs, n + 1, TRUE).ierr = 6
    BY DEF InfoCounts
  <2>1. PICK ends : Message(secs, n, ends)
    BY <1>1, MessageMade
  <2>2. secs \in Seq(Section) /\ Len(secs) \in Nat
    BY <1>1 DEF ReadableInv, ReadInv, OrderInv, TypeInv, BufferOK
  <2>3. Len(secs) # 0 /\ secs[Len(secs)].n = 7
    <3>1. cgrib.state # "empty"
      OBVIOUS
    <3>2. Len(secs) \in Nat \ {0}
      BY <1>1, <3>1, NotEmpty DEF ReadableInv, ReadInv
    <3> QED BY <1>1, <3>2 DEF ReadableInv, ReadInv, OrderInv, SectionOrder
  <2> HIDE DEF secs, n
  <2>4. Cardinality(numfields(secs)) = n
    <3>1. Begun(secs, Len(secs)) = n
      BY <2>1, <2>3, AllBegun
    <3>2. numfields(secs) = Positions(secs, Len(secs), 4)
      BY DEF numfields, Positions
    <3> QED BY <3>1, <3>2 DEF Begun
  <2>5. ASSUME Unreadable(secs) = 0 PROVE g2_getfld(secs, n + 1, TRUE).ierr = 6
    <3>1. ASSUME NEW first \in 1..Len(secs), ReusesForgotten(secs, first),
                 Unreadable(secs) = Begun(secs, first)
          PROVE  FALSE
      <4>1. Begun(secs, first) = Cardinality(Positions(secs, first, 7)) + 1
        BY <2>1, <3>1, BegunEnded DEF ReusesForgotten
      <4>2. Cardinality(Positions(secs, first, 7)) \in Nat
        <5>1. first \in Nat /\ first <= first
          BY <2>2
        <5> QED BY <5>1, CountGrows
      <4> QED BY <2>5, <3>1, <4>1, <4>2
    <3>2. \A i \in 1..Len(secs) : ~ReusesForgotten(secs, i)
      BY <2>2, <3>1, UnreadableIs
    <3> QED BY <2>1, <3>2, NoSuchField
  <2> QED BY <2>4, <2>5
<1> QED BY <1>1, ReadableInvariant, PTL
=============================================================================

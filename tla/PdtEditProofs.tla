--------------------------- MODULE PdtEditProofs ---------------------------
(***************************************************************************)
(* For every set of templates, numbers of ranges and times: the octets of  *)
(* a product definition section stay a section, and the end of its time    *)
(* ranges is the reference time, the forecast time and the lengths of the  *)
(* ranges, added up, after every option of wgrib2 that rewrites it; and    *)
(* wgrib2 and g2clib count the same octets in it.                          *)
(***************************************************************************)
EXTENDS PdtEdit, DataInduction

(* Templates with time ranges, and where their forecast time and ranges    *)
(* are.                                                                    *)
Ranging == {8, 9, 10, 11, 12, 13, 14, 42, 43, 46, 47, 61}
ForecastAt(p) == IF p \in {42, 43} THEN 19 ELSE IF p \in {46, 47} THEN 30 ELSE 17
EndAt(p) ==
  CASE p = 8 -> 34 [] p = 9 -> 47 [] p = 10 -> 35 [] p = 11 -> 37 [] p = 12 -> 36
    [] p = 13 -> 68 [] p = 14 -> 64 [] p = 42 -> 36 [] p = 43 -> 39 [] p = 46 -> 47
    [] p = 47 -> 50 [] p = 61 -> 44

(* Templates that count what they hold, other than time ranges, and the    *)
(* octet of the count.                                                     *)
Counting == {3, 4, 30, 31, 34}
CountAt(p) == IF p = 3 THEN 57 ELSE IF p = 4 THEN 53 ELSE IF p = 34 THEN 22 ELSE 13

(* How long a section is, as far as wgrib2 relies on it.                   *)
Suits(p, n) ==
  /\ p \in {33, 34} => n >= 22
  /\ p = 57 => n >= 14
  /\ p \in {0, 1, 8, 11} => n >= 33
  /\ p \in {0, 8} => n <= 140
  /\ p \in Counting => n >= CountAt(p)
  /\ p \in Ranging => n >= EndAt(p) + 7

Shape(n) ==
  [status : {"run", "fatal", "overrun"}, ref : Nat, code12 : 0..1, code14 : 0..1, pdt : Nat,
   jma : {FALSE}, oct : [9..n -> Int]]

Section(s) == \E n \in 8..150 : s \in Shape(n) /\ Suits(s.pdt, n)

LEMMA SectionIs ==
  ASSUME NEW s, Section(s)
  PROVE  /\ s.status \in {"run", "fatal", "overrun"} /\ s.ref \in Nat
         /\ s.code12 \in 0..1 /\ s.code14 \in 0..1 /\ s.pdt \in Nat /\ s.jma = FALSE
         /\ \E n \in 8..150 : s.oct \in [9..n -> Int] /\ Suits(s.pdt, n)
         /\ s = [status |-> s.status, ref |-> s.ref, code12 |-> s.code12, code14 |-> s.code14,
                 pdt |-> s.pdt, jma |-> s.jma, oct |-> s.oct]
<1>1. PICK n \in 8..150 : s \in Shape(n) /\ Suits(s.pdt, n)
  BY DEF Section
<1>2. /\ s.status \in {"run", "fatal", "overrun"} /\ s.ref \in Nat
      /\ s.code12 \in 0..1 /\ s.code14 \in 0..1 /\ s.pdt \in Nat /\ s.jma = FALSE
      /\ s.oct \in [9..n -> Int]
      /\ s = [status |-> s.status, ref |-> s.ref, code12 |-> s.code12, code14 |-> s.code14,
              pdt |-> s.pdt, jma |-> s.jma, oct |-> s.oct]
  BY <1>1 DEF Shape
<1> QED BY <1>1, <1>2

LEMMA SectionMade ==
  ASSUME NEW st \in {"run", "fatal", "overrun"}, NEW ref \in Nat, NEW c12 \in 0..1,
         NEW c14 \in 0..1, NEW p \in Nat, NEW n \in 8..150, NEW o \in [9..n -> Int], Suits(p, n)
  PROVE  /\ [status |-> st, ref |-> ref, code12 |-> c12, code14 |-> c14, pdt |-> p,
             jma |-> FALSE, oct |-> o] \in Shape(n)
         /\ Section([status |-> st, ref |-> ref, code12 |-> c12, code14 |-> c14, pdt |-> p,
                  jma |-> FALSE, oct |-> o])
<1>1. PICK s : s = [status |-> st, ref |-> ref, code12 |-> c12, code14 |-> c14, pdt |-> p,
                    jma |-> FALSE, oct |-> o]
  OBVIOUS
<1>2. s \in Shape(n) /\ s.pdt = p
  BY <1>1 DEF Shape
<1> QED BY <1>1, <1>2 DEF Section

-----------------------------------------------------------------------------
(* Tables.                                                                 *)

LEMMA PlaceIs ==
  ASSUME NEW rows, NEW p
  PROVE  /\ (\E r \in rows : p \in r[1]) => \E r \in rows : p \in r[1] /\ Place(rows, p) = r[2]
         /\ ~(\E r \in rows : p \in r[1]) => Place(rows, p) = NULL
BY DEF Place

LEMMA PlaceInt ==
  ASSUME NEW rows, NEW p, \A r \in rows : r[2] \in Int
  PROVE  Place(rows, p) \in Int
BY PlaceIs DEF NULL

LEMMA EndPlace ==
  ASSUME NEW s, Section(s), s.pdt # 34
  PROVE  /\ s.pdt \in Ranging => stat_proc_verf_time_location(s) = EndAt(s.pdt)
         /\ s.pdt \notin Ranging => stat_proc_verf_time_location(s) = NULL
<1>1. PICK p \in Nat : p = s.pdt /\ p # 34 /\ s.jma = FALSE
  BY SectionIs
<1> DEFINE rows == {<<{8}, 34>>, <<{9}, 47>>, <<{10}, 35>>, <<{11}, 37>>, <<{12}, 36>>,
                <<{13}, 68>>, <<{14}, 64>>, <<{42}, 36>>, <<{43}, 39>>, <<{46}, 47>>,
                <<{47}, 50>>, <<{61}, 44>>}
<1>2. stat_proc_verf_time_location(s) = Place(rows, p)
  BY <1>1 DEF stat_proc_verf_time_location, PlaceOr
<1>3. p \in Ranging => Place(rows, p) = EndAt(p)
  <2>1. p \in Ranging => \E r \in rows : p \in r[1]
    BY DEF Ranging
  <2>2. p \in Ranging => \E r \in rows : p \in r[1] /\ Place(rows, p) = r[2]
    <3> HIDE DEF rows
    <3> QED BY <2>1, PlaceIs
  <2> QED BY <2>2 DEF Ranging, EndAt
<1>4. p \notin Ranging => Place(rows, p) = NULL
  <2>1. p \notin Ranging => ~(\E r \in rows : p \in r[1])
    BY DEF Ranging
  <2> HIDE DEF rows
  <2> QED BY <2>1, PlaceIs
<1> QED BY <1>1, <1>2, <1>3, <1>4

LEMMA ForecastPlace ==
  ASSUME NEW s, Section(s), s.pdt \in Ranging
  PROVE  code_table_4_4_location(s) = ForecastAt(s.pdt)
<1>0. s.pdt \in Nat /\ s.jma = FALSE
  BY SectionIs
<1>1. PICK p \in Nat : p = s.pdt /\ p # 57 /\ s.jma = FALSE /\ p \in Ranging
  BY <1>0 DEF Ranging
<1> DEFINE rows == {<<Horizontal \cup {32, 51, 60, 61, 91, 1000, 1001, 1002}, 17>>,
                <<40 .. 43, 19>>, <<44 .. 47, 30>>, <<{48}, 41>>, <<{52}, 20>>}
<1>2. code_table_4_4_location(s) = Place(rows, p)
  BY <1>1 DEF code_table_4_4_location, PlaceOr
<1>3. \E r \in rows : p \in r[1]
  BY <1>1 DEF Ranging, Horizontal
<1>4. PICK r \in rows : p \in r[1] /\ Place(rows, p) = r[2]
  <2> HIDE DEF rows
  <2> QED BY <1>3, PlaceIs
<1> QED BY <1>1, <1>2, <1>4 DEF Ranging, ForecastAt, Horizontal

LEMMA ThirtyFour ==
  ASSUME NEW s, Section(s), s.pdt = 34
  PROVE  /\ code_table_4_4_location(s) = NULL
         /\ s.oct[22] \in Int /\ stat_proc_verf_time_location(s) = 26 + 11 * s.oct[22]
<1> DEFINE rows == {<<Horizontal \cup {32, 51, 60, 61, 91, 1000, 1001, 1002}, 17>>,
                <<40 .. 43, 19>>, <<44 .. 47, 30>>, <<{48}, 41>>, <<{52}, 20>>}
<1>1. code_table_4_4_location(s) = Place(rows, 34)
  BY SectionIs DEF code_table_4_4_location, PlaceOr
<1>2. ~(\E r \in rows : 34 \in r[1])
  BY DEF Horizontal
<1>3. Place(rows, 34) = NULL
  <2> HIDE DEF rows
  <2> QED BY <1>2, PlaceIs
<1>4. s.oct[22] \in Int
  <2>1. PICK n \in 8..150 : s.oct \in [9..n -> Int] /\ Suits(s.pdt, n)
    BY SectionIs
  <2>2. 22 \in 9..n
    BY <2>1 DEF Suits
  <2> QED BY <2>1, <2>2
<1> QED BY <1>1, <1>3, <1>4 DEF stat_proc_verf_time_location, Ensemble33

-----------------------------------------------------------------------------
(* Octets.                                                                 *)

LEMMA Len4Is ==
  ASSUME NEW s, NEW n \in 8..150, s.oct \in [9..n -> Int]
  PROVE  Len4(s) = n + 1
<1>1. DOMAIN s.oct = 9..n
  OBVIOUS
<1>2. CASE n = 8
  BY <1>1, <1>2 DEF Len4
<1>3. CASE n # 8
  <2>0. n \in 9..n /\ \A j \in 9..n : j <= n
    BY ONLY <1>3, n \in 8..150
  <2>1. 9..n # {} /\ n \in 9..n /\ \A j \in 9..n : j <= n
    BY <2>0
  <2>2. \A i \in 9..n : (\A j \in 9..n : j <= i) => i = n
    BY <2>1
  <2>3. (CHOOSE i \in 9..n : \A j \in 9..n : j <= i) = n
    BY <2>1, <2>2
  <2>4. PICK D : D = DOMAIN s.oct
    OBVIOUS
  <2>5. Len4(s) = IF D = {} THEN 9 ELSE 1 + CHOOSE i \in D : \A j \in D : j <= i
    BY <2>4 DEF Len4
  <2>6. D = 9..n
    BY <1>1, <2>4
  <2>7. Len4(s) = 1 + n
    BY ONLY <2>1, <2>3, <2>5, <2>6
  <2> QED BY ONLY <2>7, n \in 8..150
<1> QED BY <1>2, <1>3

LEMMA OctetIs ==
  ASSUME NEW s, Section(s)
  PROVE  /\ Len4(s) \in 9..151 /\ DOMAIN s.oct = 9..(Len4(s) - 1)
         /\ s.oct \in [9..(Len4(s) - 1) -> Int]
         /\ Suits(s.pdt, Len4(s) - 1)
         /\ \A i \in Int : /\ Octet(s, i) \in Int
                           /\ i \in 9..(Len4(s) - 1) => Octet(s, i) = s.oct[i]
                           /\ i \notin 9..(Len4(s) - 1) => Octet(s, i) = Missing
<1>1. PICK n \in 8..150 : s.oct \in [9..n -> Int] /\ Suits(s.pdt, n)
  BY SectionIs
<1>2. Len4(s) = n + 1
  BY <1>1, Len4Is
<1>3. DOMAIN s.oct = 9..n /\ 9..n = 9..(Len4(s) - 1)
  BY <1>1, <1>2
<1>4. Missing \in Int
  BY DEF Missing
<1>5. \A i \in Int : /\ Octet(s, i) \in Int
                     /\ i \in 9..n => Octet(s, i) = s.oct[i]
                     /\ i \notin 9..n => Octet(s, i) = Missing
  BY <1>1, <1>3, <1>4 DEF Octet
<1>6. Len4(s) \in 9..151
  BY <1>2
<1>7. Len4(s) - 1 = n
  BY <1>2
<1> QED BY ONLY <1>1, <1>3, <1>5, <1>6, <1>7

IsStored(r, o, at, v, n) ==
  /\ r \in [9..n -> Int]
  /\ \A i \in 9..n : r[i] = IF i \in at..(at + Len(v) - 1) THEN v[i - at + 1] ELSE o[i]

LEMMA StoreIs ==
  ASSUME NEW n \in Int, NEW o \in [9..n -> Int], NEW at \in Int, NEW v \in Seq(Int)
  PROVE  IsStored(Store(o, at, v), o, at, v, n)
<1>1. PICK k \in Nat : k = Len(v)
  OBVIOUS
<1>2. \A j \in 1..k : v[j] \in Int
  BY <1>1
<1>3. \A i \in 9..n : i \in at..(at + k - 1) => i - at + 1 \in 1..k
  OBVIOUS
<1>4. Store(o, at, v) = [i \in 9..n |-> IF i \in at..(at + k - 1) THEN v[i - at + 1] ELSE o[i]]
  BY <1>1 DEF Store
<1>5. \A i \in 9..n : (IF i \in at..(at + k - 1) THEN v[i - at + 1] ELSE o[i]) \in Int
  BY <1>2, <1>3
<1>6. PICK r : r = Store(o, at, v)
  OBVIOUS
<1>7. r \in [9..n -> Int]
  BY <1>4, <1>5, <1>6
<1>8. \A i \in 9..n : r[i] = IF i \in at..(at + Len(v) - 1) THEN v[i - at + 1] ELSE o[i]
  BY <1>1, <1>4, <1>6
<1> QED BY <1>6, <1>7, <1>8 DEF IsStored

(* A section with octets written to it.                                    *)
Stored(t, s, at, v) ==
  /\ Section(t) /\ t.pdt = s.pdt /\ t.ref = s.ref /\ t.status = s.status
  /\ Len4(t) = Len4(s)
  /\ \A i \in Int : Octet(t, i) = IF i \in at..(at + Len(v) - 1) /\ i \in 9..(Len4(s) - 1)
                                  THEN v[i - at + 1] ELSE Octet(s, i)

LEMMA StoredSection ==
  ASSUME NEW s, Section(s), NEW at \in Int, NEW v \in Seq(Int)
  PROVE  Stored([s EXCEPT !.oct = Store(@, at, v)], s, at, v)
<1>1. PICK n \in 8..150 : s.oct \in [9..n -> Int] /\ Suits(s.pdt, n)
  BY SectionIs
<1>2. PICK o : o = Store(s.oct, at, v)
  OBVIOUS
<1>3. /\ o \in [9..n -> Int]
      /\ \A i \in 9..n : o[i] = IF i \in at..(at + Len(v) - 1) THEN v[i - at + 1] ELSE s.oct[i]
  <2>1. PICK q \in [9..n -> Int] : q = s.oct
    BY <1>1
  <2>2. n \in Int
    OBVIOUS
  <2>3. IsStored(Store(q, at, v), q, at, v, n)
    BY <2>2, StoreIs
  <2>4. IsStored(o, s.oct, at, v, n)
    BY ONLY <1>2, <2>1, <2>3
  <2> QED BY <2>4 DEF IsStored
<1>4. PICK t : t = [s EXCEPT !.oct = Store(@, at, v)]
  OBVIOUS
<1>5. t = [status |-> s.status, ref |-> s.ref, code12 |-> s.code12, code14 |-> s.code14,
           pdt |-> s.pdt, jma |-> FALSE, oct |-> o]
  <2>1. PICK a1, a2, a3, a4, a5, a6, a7 :
          /\ s = [status |-> a1, ref |-> a2, code12 |-> a3, code14 |-> a4, pdt |-> a5,
                  jma |-> a6, oct |-> a7]
          /\ a6 = FALSE
    <3>1. s = [status |-> s.status, ref |-> s.ref, code12 |-> s.code12, code14 |-> s.code14,
               pdt |-> s.pdt, jma |-> s.jma, oct |-> s.oct] /\ s.jma = FALSE
      BY SectionIs
    <3> QED BY <3>1, Zenon
  <2> QED BY <1>2, <1>4, <2>1
<1>7. Section(t)
  <2>1. /\ s.status \in {"run", "fatal", "overrun"} /\ s.ref \in Nat
        /\ s.code12 \in 0..1 /\ s.code14 \in 0..1 /\ s.pdt \in Nat
    BY SectionIs
  <2> QED BY <1>1, <1>3, <1>5, <2>1, SectionMade
<1>8. t.pdt = s.pdt /\ t.ref = s.ref /\ t.status = s.status /\ t.oct = o
  BY <1>5
<1>9. Len4(t) = n + 1 /\ Len4(s) = n + 1
  BY <1>1, <1>3, <1>8, Len4Is
<1>10. ASSUME NEW i \in Int
       PROVE  Octet(t, i) = IF i \in at..(at + Len(v) - 1) /\ i \in 9..(Len4(s) - 1)
                            THEN v[i - at + 1] ELSE Octet(s, i)
  <2>1. DOMAIN t.oct = 9..n /\ DOMAIN s.oct = 9..n /\ 9..(Len4(s) - 1) = 9..n
    <3>1. DOMAIN t.oct = 9..n /\ DOMAIN s.oct = 9..n
      BY <1>1, <1>3, <1>8
    <3>2. Len4(s) - 1 = n
      BY ONLY <1>9, n \in 8..150
    <3> QED BY <3>1, <3>2
  <2>2. Octet(t, i) = (IF i \in 9..n THEN o[i] ELSE Missing)
        /\ Octet(s, i) = (IF i \in 9..n THEN s.oct[i] ELSE Missing)
    BY <1>8, <2>1 DEF Octet
  <2> QED BY <1>3, <2>1, <2>2
<1> QED BY <1>4, <1>7, <1>8, <1>9, <1>10 DEF Stored

LEMMA OctetsIs ==
  ASSUME NEW s, Section(s), NEW at \in Int, NEW n \in Nat
  PROVE  /\ Octets(s, at, n) \in Seq(Int) /\ Len(Octets(s, at, n)) = n
         /\ \A i \in 1..n : Octets(s, at, n)[i] = Octet(s, at + i - 1)
<1>1. \A i \in 1..n : Octet(s, at + i - 1) \in Int
  BY OctetIs
<1>2. Octets(s, at, n) = [i \in 1..n |-> Octet(s, at + i - 1)]
  BY DEF Octets
<1> QED BY <1>1, <1>2

(* The same octets.                                                        *)
LEMMA SameOctets ==
  ASSUME NEW s, NEW t, NEW at \in Int, NEW to \in Int, NEW n \in Nat,
         \A k \in 0..(n - 1) : Octet(t, to + k) = Octet(s, at + k)
  PROVE  Octets(t, to, n) = Octets(s, at, n)
<1>1. ASSUME NEW i \in 1..n PROVE Octet(t, to + i - 1) = Octet(s, at + i - 1)
  <2>1. i - 1 \in 0..(n - 1) /\ to + i - 1 = to + (i - 1) /\ at + i - 1 = at + (i - 1)
    OBVIOUS
  <2> QED BY <2>1
<1> QED BY <1>1 DEF Octets

(* Numbers.                                                                *)
LEMMA NumberIs ==
  ASSUME NEW v, Len(v) = 4, v[1] = 0, v[2] = 0, v[3] = 0
  PROVE  Number(v) = v[4]
<1>1. \A i \in 1..(Len(v) - 1) : v[i] = 0
  <2>1. \A i \in 1..(4 - 1) : i = 1 \/ i = 2 \/ i = 3
    OBVIOUS
  <2> QED BY <2>1
<1> QED BY <1>1 DEF Number

(* Times.                                                                  *)
LEMMA TimeIs ==
  ASSUME NEW t \in Nat
  PROVE  /\ save_time(t) \in Seq(Int) /\ Len(save_time(t)) = 7
         /\ \A v : v = save_time(t) => get_time(v) = t
<1>1. t # Unknown
  BY DEF Unknown
<1>2. save_time(t) = [i \in 1..7 |-> 1000 + 10 * t + i]
  BY <1>1 DEF save_time
<1>3. save_time(t) \in Seq(Int) /\ Len(save_time(t)) = 7
  <2>1. [i \in 1..7 |-> 1000 + 10 * t + i] \in [1..7 -> Int]
    OBVIOUS
  <2> QED BY <1>2, <2>1
<1>4. ASSUME NEW v, v = save_time(t) PROVE get_time(v) = t
  <2>1. v[1] = 1000 + 10 * t + 1
    BY <1>2, <1>4
  <2>2. (v[1] - 1001) \div 10 = t /\ v[1] >= 1000
    BY <2>1
  <2> QED BY <1>4, <2>2 DEF get_time
<1> QED BY <1>3, <1>4

LEMMA AddTime ==
  ASSUME NEW t \in Nat, NEW n \in Nat
  PROVE  add_time(t, n) = t + n
BY DEF add_time, Unknown

-----------------------------------------------------------------------------
(* Sections with ranges.                                                   *)

LEMMA RangedIs ==
  ASSUME NEW s, Section(s), NEW p \in Ranging, s.pdt = p
  PROVE  /\ p \in Nat /\ p \notin {33, 34, 44, 57}
         /\ ForecastAt(p) \in 17..30 /\ EndAt(p) \in 34..68 /\ ForecastAt(p) + 17 <= EndAt(p)
         /\ stat_proc_verf_time_location(s) = EndAt(p)
         /\ code_table_4_4_location(s) = ForecastAt(p)
         /\ Ranges(s) = Octet(s, EndAt(p) + 7)
         /\ HasRanges(s) <=> Octet(s, EndAt(p) + 7) # Missing
         /\ forecast_time_in_units(s) = Number(Octets(s, ForecastAt(p) + 1, 4))
         /\ EndTime(s) = get_time(Octets(s, EndAt(p), 7))
         /\ \A i \in Int : RangeAt(s, i) = EndAt(p) + 12 * i
         /\ ~BadModes(s)
<1>1. p \in Nat /\ p \notin {33, 34, 44, 57}
  BY DEF Ranging
<1>2. ForecastAt(p) \in 17..30 /\ EndAt(p) \in 34..68 /\ ForecastAt(p) + 17 <= EndAt(p)
  BY DEF Ranging, ForecastAt, EndAt
<1>3. stat_proc_verf_time_location(s) = EndAt(p) /\ code_table_4_4_location(s) = ForecastAt(p)
  BY <1>1, EndPlace, ForecastPlace
<1>4. EndAt(p) # NULL /\ ForecastAt(p) # NULL /\ EndAt(p) + 7 # NULL
  BY <1>2 DEF NULL
<1>5. stat_proc_n_time_ranges_index(s) = EndAt(p) + 7
  BY <1>3, <1>4 DEF stat_proc_n_time_ranges_index
<1>6. Ranges(s) = Octet(s, EndAt(p) + 7)
  BY <1>4, <1>5 DEF Ranges
<1>7. HasRanges(s) <=> Octet(s, EndAt(p) + 7) # Missing
  BY <1>3, <1>4, <1>6 DEF HasRanges
<1>8. forecast_time_in_units(s) = Number(Octets(s, ForecastAt(p) + 1, 4))
  BY <1>1, <1>3, <1>4 DEF forecast_time_in_units
<1>9. EndTime(s) = get_time(Octets(s, EndAt(p), 7))
  BY <1>3 DEF EndTime
<1>10. \A i \in Int : RangeAt(s, i) = EndAt(p) + 12 * i
  <2>1. PICK e \in Int : e = EndAt(p)
    BY <1>2
  <2>2. \A i : RangeAt(s, i) = e + 12 + 12 * (i - 1)
    BY <1>3, <2>1 DEF RangeAt
  <2> QED BY <2>1, <2>2
<1>11. ~BadModes(s)
  BY <1>1 DEF BadModes
<1> QED BY <1>1, <1>2, <1>3, <1>6, <1>7, <1>8, <1>9, <1>10, <1>11

(* The lengths of the ranges passed one after the other.                   *)
Passed(s, p, i, x) ==
  IF Octet(s, EndAt(p) + 12 * i + 1) \in {3, 4} THEN x
  ELSE add_time(x, Number(Octets(s, EndAt(p) + 12 * i + 3, 4)))

LEMMA ElapsedIs ==
  ASSUME NEW s, Section(s), NEW p \in Ranging, s.pdt = p
  PROVE  /\ Ranges(s) = 1 => Elapsed(s) = Passed(s, p, 1, 0)
         /\ Ranges(s) = 2 => Elapsed(s) = Passed(s, p, 2, Passed(s, p, 1, 0))
<1>1. EndAt(p) \in Int /\ \A i \in Int : RangeAt(s, i) = EndAt(p) + 12 * i
  BY RangedIs
<1>2. PICK n : n = Ranges(s)
  OBVIOUS
<1> SUFFICES ASSUME n \in 1..2
             PROVE  /\ n = 1 => Elapsed(s) = Passed(s, p, 1, 0)
                    /\ n = 2 => Elapsed(s) = Passed(s, p, 2, Passed(s, p, 1, 0))
  BY <1>2
<1> DEFINE Next1(i, x) == IF Octet(s, RangeAt(s, i) + 1) \in {3, 4} THEN x
                          ELSE add_time(x, RangeLen(s, i))
           Solves(u) == u = [i \in 0..n |-> IF i = 0 THEN 0 ELSE Next1(i, u[i - 1])]
           g == [i \in 0..n |-> IF i = 0 THEN 0 ELSE IF i = 1 THEN Next1(1, 0)
                                ELSE Next1(2, Next1(1, 0))]
<1>3. PICK w : w = CHOOSE u : Solves(u)
  OBVIOUS
<1>4. Elapsed(s) = w[n]
  BY <1>2, <1>3 DEF Elapsed
<1> HIDE DEF Next1
<1>5. Solves(g)
  <2>1. g[0] = 0 /\ g[1] = Next1(1, 0) /\ (n = 2 => g[2] = Next1(2, g[1]))
    OBVIOUS
  <2>2. \A i \in 0..n : i = 0 \/ i = 1 \/ (i = 2 /\ n = 2)
    OBVIOUS
  <2>3. \A i \in 0..n : g[i] = IF i = 0 THEN 0 ELSE Next1(i, g[i - 1])
    <3> HIDE DEF g
    <3> QED BY <2>1, <2>2
  <2>4. g = [i \in 0..n |-> g[i]]
    OBVIOUS
  <2> HIDE DEF g
  <2> QED BY <2>3, <2>4
<1>6. Solves(w)
  <2> HIDE DEF Solves
  <2> QED BY <1>3, <1>5
<1>7. \A i \in 0..n : w[i] = IF i = 0 THEN 0 ELSE Next1(i, w[i - 1])
  BY <1>6
<1>8. w[0] = 0 /\ w[1] = Next1(1, 0) /\ (n = 2 => w[2] = Next1(2, Next1(1, 0)))
  <2>1. 0 \in 0..n /\ 1 \in 0..n /\ (n = 2 => 2 \in 0..n)
    OBVIOUS
  <2> QED BY <1>7, <2>1
<1>9. \A x : \A i \in {1, 2} : Next1(i, x) = Passed(s, p, i, x)
  <2> SUFFICES ASSUME NEW x, NEW i \in {1, 2} PROVE Next1(i, x) = Passed(s, p, i, x)
    OBVIOUS
  <2>1. RangeAt(s, i) = EndAt(p) + 12 * i
    BY <1>1
  <2>2. PICK k : k = EndAt(p) + 12 * i
    OBVIOUS
  <2> QED BY <2>1, <2>2 DEF Next1, Passed, RangeLen
<1> QED BY <1>4, <1>8, <1>9

(* The ranges end where they should.                                       *)
Right(s) ==
  /\ s.pdt \in Ranging /\ Ranges(s) \in 1..2
  /\ forecast_time_in_units(s) \in Nat /\ Elapsed(s) \in Nat
  /\ EndTime(s) = s.ref + forecast_time_in_units(s) + Elapsed(s)

LEMMA RightIs ==
  ASSUME NEW s, Section(s), Right(s)
  PROVE  EndIsRight(s)
<1>1. s.ref \in Nat
  BY SectionIs
<1>2. PICK r \in Nat, f \in Nat, e \in Nat :
        r = s.ref /\ f = forecast_time_in_units(s) /\ e = Elapsed(s)
  BY <1>1 DEF Right
<1>3. add_time(r, f) = r + f /\ add_time(r + f, e) = r + f + e
  <2>1. add_time(r, f) = r + f
    BY AddTime
  <2>2. r + f \in Nat
    OBVIOUS
  <2>3. add_time(r + f, e) = (r + f) + e
    BY ONLY <2>2, e \in Nat, AddTime
  <2> QED BY <2>1, <2>3
<1> QED BY <1>2, <1>3 DEF Right, EndIsRight

(* A section with the same ranges and forecast time at its own places.     *)
SameBlock(t, q, s, p) ==
  /\ \A k \in 1..4 : Octet(t, ForecastAt(q) + k) = Octet(s, ForecastAt(p) + k)
  /\ \A k \in 0..(11 + 12 * Ranges(s)) : Octet(t, EndAt(q) + k) = Octet(s, EndAt(p) + k)

LEMMA SameRight ==
  ASSUME NEW s, Section(s), NEW p \in Ranging, s.pdt = p, Right(s),
         NEW t, Section(t), NEW q \in Ranging, t.pdt = q, t.ref = s.ref, SameBlock(t, q, s, p)
  PROVE  Right(t)
<1>1. EndAt(p) \in Int /\ EndAt(q) \in Int /\ ForecastAt(p) \in Int /\ ForecastAt(q) \in Int
  BY DEF Ranging, EndAt, ForecastAt
<1>2. PICK n \in 1..2 : n = Ranges(s)
  BY DEF Right
<1>3. \A k \in 0..(11 + 12 * n) : Octet(t, EndAt(q) + k) = Octet(s, EndAt(p) + k)
  BY <1>2 DEF SameBlock
<1>4. Ranges(t) = n
  <2>1. 7 \in 0..(11 + 12 * n)
    OBVIOUS
  <2> QED BY <1>2, <1>3, <2>1, RangedIs
<1>5. forecast_time_in_units(t) = forecast_time_in_units(s)
  <2>1. PICK a \in Int, b \in Int : a = ForecastAt(p) /\ b = ForecastAt(q)
    BY <1>1
  <2>2. \A k \in 0..(4 - 1) : Octet(t, (b + 1) + k) = Octet(s, (a + 1) + k)
    <3> SUFFICES ASSUME NEW k \in 0..3 PROVE Octet(t, (b + 1) + k) = Octet(s, (a + 1) + k)
      OBVIOUS
    <3>1. k + 1 \in 1..4 /\ (b + 1) + k = b + (k + 1) /\ (a + 1) + k = a + (k + 1)
      OBVIOUS
    <3> QED BY <2>1, <3>1 DEF SameBlock
  <2>3. Octets(t, b + 1, 4) = Octets(s, a + 1, 4)
    BY <2>2, SameOctets
  <2> QED BY <2>1, <2>3, RangedIs
<1>6. EndTime(t) = EndTime(s)
  <2>1. \A k \in 0..(7 - 1) : Octet(t, EndAt(q) + k) = Octet(s, EndAt(p) + k)
    BY <1>3
  <2>2. Octets(t, EndAt(q), 7) = Octets(s, EndAt(p), 7)
    BY <1>1, <2>1, SameOctets
  <2> QED BY <2>2, RangedIs
<1>7. ASSUME NEW i \in 1..n, NEW x PROVE Passed(t, q, i, x) = Passed(s, p, i, x)
  <2>1. PICK a \in Int, b \in Int : a = EndAt(p) /\ b = EndAt(q)
    BY <1>1
  <2>2. Octet(t, b + 12 * i + 1) = Octet(s, a + 12 * i + 1)
    <3>1. 12 * i + 1 \in 0..(11 + 12 * n) /\ b + 12 * i + 1 = b + (12 * i + 1)
          /\ a + 12 * i + 1 = a + (12 * i + 1)
      OBVIOUS
    <3> QED BY <1>3, <2>1, <3>1
  <2>3. \A k \in 0..(4 - 1) : Octet(t, (b + 12 * i + 3) + k) = Octet(s, (a + 12 * i + 3) + k)
    <3> SUFFICES ASSUME NEW k \in 0..3
                 PROVE  Octet(t, (b + 12 * i + 3) + k) = Octet(s, (a + 12 * i + 3) + k)
      OBVIOUS
    <3>1. 12 * i + 3 + k \in 0..(11 + 12 * n)
          /\ (b + 12 * i + 3) + k = b + (12 * i + 3 + k)
          /\ (a + 12 * i + 3) + k = a + (12 * i + 3 + k)
      OBVIOUS
    <3> QED BY <1>3, <2>1, <3>1
  <2>4. b + 12 * i + 3 \in Int /\ a + 12 * i + 3 \in Int
    OBVIOUS
  <2>5. Octets(t, b + 12 * i + 3, 4) = Octets(s, a + 12 * i + 3, 4)
    BY <2>3, <2>4, SameOctets
  <2> QED BY <2>1, <2>2, <2>5 DEF Passed
<1>8. Elapsed(t) = Elapsed(s)
  <2>1. n = 1 => Passed(t, q, 1, 0) = Passed(s, p, 1, 0)
    BY <1>7
  <2>2. n = 2 => Passed(t, q, 2, Passed(t, q, 1, 0)) = Passed(s, p, 2, Passed(s, p, 1, 0))
    <3>1. n = 2 => 1 \in 1..n /\ 2 \in 1..n
      OBVIOUS
    <3> QED BY <1>7, <3>1
  <2>3. n = 1 \/ n = 2
    OBVIOUS
  <2> QED BY <1>2, <1>4, <2>1, <2>2, <2>3, ElapsedIs
<1> QED BY <1>2, <1>4, <1>5, <1>6, <1>8 DEF Right

-----------------------------------------------------------------------------
(* Ranges written to a section.                                            *)

IsConcat(c, a, m, b, n) ==
  /\ c \in Seq(Int) /\ Len(c) = m + n
  /\ \A i \in 1..m : c[i] = a[i]
  /\ \A i \in 1..n : c[m + i] = b[i]

LEMMA ConcatIs ==
  ASSUME NEW a \in Seq(Int), NEW b \in Seq(Int), NEW m, NEW n, m = Len(a), n = Len(b)
  PROVE  IsConcat(a \o b, a, m, b, n)
<1>1. /\ a \o b \in Seq(Int) /\ Len(a \o b) = Len(a) + Len(b)
      /\ \A i \in 1..Len(a) : (a \o b)[i] = a[i]
      /\ \A i \in 1..Len(b) : (a \o b)[Len(a) + i] = b[i]
  OBVIOUS
<1> QED BY <1>1 DEF IsConcat

(* What one range has in its octets: whether it is passed, and its length. *)
IsRange(v, at, r) ==
  /\ v[at + 2] = r.code11
  /\ v[at + 4] = 0 /\ v[at + 5] = 0 /\ v[at + 6] = 0 /\ v[at + 7] = r.len

RangeRecord == [code10 : Int, code11 : Int, len : Nat, unit2 : Int, step : Int]

LEMMA RangeIs ==
  ASSUME NEW r \in RangeRecord
  PROVE  RangeOctets(r) \in Seq(Int) /\ Len(RangeOctets(r)) = 12 /\ IsRange(RangeOctets(r), 0, r)
<1>1. PICK c10 \in Int, c11 \in Int, n \in Int, u \in Int, p \in Int :
        r.code10 = c10 /\ r.code11 = c11 /\ r.len = n /\ r.unit2 = u /\ r.step = p
  BY DEF RangeRecord
<1> DEFINE a == <<c10, c11, 1>>
           b == <<0, 0, 0, n>>
           c == <<u>>
           d == <<0, 0, 0, p>>
<1>2. RangeOctets(r) = ((a \o b) \o c) \o d
  BY <1>1 DEF RangeOctets, int_char, Hour
<1>3. /\ a \in Seq(Int) /\ b \in Seq(Int) /\ c \in Seq(Int) /\ d \in Seq(Int)
      /\ Len(a) = 3 /\ Len(b) = 4 /\ Len(c) = 1 /\ Len(d) = 4
      /\ a[2] = c11 /\ b[1] = 0 /\ b[2] = 0 /\ b[3] = 0 /\ b[4] = n
  OBVIOUS
<1> HIDE DEF a, b, c, d
<1>4. PICK e : e = a \o b
  OBVIOUS
<1>5. IsConcat(e, a, 3, b, 4)
  BY ONLY <1>3, <1>4, ConcatIs
<1>6. PICK f : f = e \o c
  OBVIOUS
<1>61. /\ e \in Seq(Int) /\ Len(e) = 7 /\ e[2] = c11
       /\ e[4] = 0 /\ e[5] = 0 /\ e[6] = 0 /\ e[7] = n
  <2>1. e[3 + 1] = b[1] /\ e[3 + 2] = b[2] /\ e[3 + 3] = b[3] /\ e[3 + 4] = b[4] /\ e[2] = a[2]
    BY ONLY <1>5 DEF IsConcat
  <2>2. e \in Seq(Int) /\ Len(e) = 7
    BY ONLY <1>5 DEF IsConcat
  <2> QED BY ONLY <1>3, <2>1, <2>2
<1>62. IsConcat(f, e, 7, c, 1)
  BY ONLY <1>3, <1>6, <1>61, ConcatIs
<1>7. PICK g : g = f \o d
  OBVIOUS
<1>71. /\ f \in Seq(Int) /\ Len(f) = 8 /\ f[2] = c11
       /\ f[4] = 0 /\ f[5] = 0 /\ f[6] = 0 /\ f[7] = n
  BY ONLY <1>61, <1>62 DEF IsConcat
<1>72. IsConcat(g, f, 8, d, 4)
  BY ONLY <1>3, <1>7, <1>71, ConcatIs
<1>73. /\ g \in Seq(Int) /\ Len(g) = 12 /\ g[2] = c11
       /\ g[4] = 0 /\ g[5] = 0 /\ g[6] = 0 /\ g[7] = n
  BY ONLY <1>71, <1>72 DEF IsConcat
<1>8. RangeOctets(r) = g
  BY <1>2, <1>4, <1>6, <1>7
<1>9. IsRange(g, 0, r)
  <2>1. 0 + 2 = 2 /\ 0 + 4 = 4 /\ 0 + 5 = 5 /\ 0 + 6 = 6 /\ 0 + 7 = 7
    OBVIOUS
  <2> QED BY ONLY <1>1, <1>73, <2>1 DEF IsRange
<1> QED BY ONLY <1>73, <1>8, <1>9

(* One range, or one within another.                                       *)
RangeLists == {<<r>> : r \in RangeRecord} \cup {<<q, r>> : q \in RangeRecord, r \in RangeRecord}

(* Which code says that a range is passed: not 3 and 4.                    *)
Passing(ranges) == \A i \in 1..Len(ranges) : ranges[i].code11 \notin {3, 4}

LEMMA TotalIs ==
  ASSUME NEW q \in RangeRecord, NEW r \in RangeRecord
  PROVE  TotalLen(<<r>>) = r.len /\ TotalLen(<<q, r>>) = q.len + r.len
<1>1. q.len \in Nat /\ r.len \in Nat
  BY DEF RangeRecord
<1>2. ASSUME NEW s, s = <<r>> PROVE TotalLen(s) = r.len
  <2> DEFINE Solves(u) == u = [i \in 0..Len(s) |-> IF i = 0 THEN 0 ELSE u[i - 1] + s[i].len]
             g == [i \in 0..1 |-> IF i = 0 THEN 0 ELSE r.len]
  <2>0. Len(s) = 1 /\ s[1] = r
    BY <1>2
  <2>1. Solves(g)
    BY <2>0, <1>1
  <2>2. PICK w : w = CHOOSE u : Solves(u)
    OBVIOUS
  <2>3. Solves(w)
    <3> HIDE DEF Solves, g
    <3> QED BY <2>1, <2>2
  <2>4. TotalLen(s) = w[Len(s)]
    BY <2>2 DEF TotalLen
  <2>5. w = [i \in 0..1 |-> IF i = 0 THEN 0 ELSE w[i - 1] + s[i].len]
    BY <2>3, <2>0
  <2>6. w[0] = 0 /\ w[1] = w[0] + r.len
    BY <2>5, <2>0
  <2> QED BY <2>4, <2>6, <2>0, <1>1
<1>3. ASSUME NEW s, s = <<q, r>> PROVE TotalLen(s) = q.len + r.len
  <2> DEFINE Solves(u) == u = [i \in 0..Len(s) |-> IF i = 0 THEN 0 ELSE u[i - 1] + s[i].len]
             g == [i \in 0..2 |-> IF i = 0 THEN 0 ELSE IF i = 1 THEN q.len ELSE q.len + r.len]
  <2>0. Len(s) = 2 /\ s[1] = q /\ s[2] = r
    BY <1>3
  <2>1. Solves(g)
    BY <2>0, <1>1
  <2>2. PICK w : w = CHOOSE u : Solves(u)
    OBVIOUS
  <2>3. Solves(w)
    <3> HIDE DEF Solves, g
    <3> QED BY <2>1, <2>2
  <2>4. TotalLen(s) = w[Len(s)]
    BY <2>2 DEF TotalLen
  <2>5. w = [i \in 0..2 |-> IF i = 0 THEN 0 ELSE w[i - 1] + s[i].len]
    BY <2>3, <2>0
  <2>6. w[0] = 0 /\ w[1] = w[0] + q.len /\ w[2] = w[1] + r.len
    BY <2>5, <2>0
  <2> QED BY <2>4, <2>6, <2>0, <1>1
<1> QED BY <1>2, <1>3

LEMMA AllAre ==
  ASSUME NEW q, NEW r
  PROVE  /\ AllRanges(<<r>>) = <<>> \o RangeOctets(r)
         /\ AllRanges(<<q, r>>) = (<<>> \o RangeOctets(q)) \o RangeOctets(r)
<1>2. ASSUME NEW s, s = <<r>> PROVE AllRanges(s) = <<>> \o RangeOctets(r)
  <2> DEFINE Solves(u) == u = [i \in 0..Len(s) |-> IF i = 0 THEN <<>>
                                                   ELSE u[i - 1] \o RangeOctets(s[i])]
             g == [i \in 0..1 |-> IF i = 0 THEN <<>> ELSE <<>> \o RangeOctets(r)]
  <2>0. Len(s) = 1 /\ s[1] = r
    BY <1>2
  <2>1. Solves(g)
    BY <2>0
  <2>2. PICK w : w = CHOOSE u : Solves(u)
    OBVIOUS
  <2>3. Solves(w)
    <3> HIDE DEF Solves, g
    <3> QED BY <2>1, <2>2
  <2>4. AllRanges(s) = w[Len(s)]
    BY <2>2 DEF AllRanges
  <2>5. w = [i \in 0..1 |-> IF i = 0 THEN <<>> ELSE w[i - 1] \o RangeOctets(s[i])]
    BY <2>3, <2>0
  <2>6. w[0] = <<>> /\ w[1] = w[0] \o RangeOctets(r)
    BY <2>5, <2>0
  <2> QED BY <2>4, <2>6, <2>0
<1>3. ASSUME NEW s, s = <<q, r>> PROVE AllRanges(s) = (<<>> \o RangeOctets(q)) \o RangeOctets(r)
  <2> DEFINE Solves(u) == u = [i \in 0..Len(s) |-> IF i = 0 THEN <<>>
                                                   ELSE u[i - 1] \o RangeOctets(s[i])]
             g == [i \in 0..2 |-> IF i = 0 THEN <<>>
                                  ELSE IF i = 1 THEN <<>> \o RangeOctets(q)
                                  ELSE (<<>> \o RangeOctets(q)) \o RangeOctets(r)]
  <2>0. Len(s) = 2 /\ s[1] = q /\ s[2] = r
    BY <1>3
  <2>1. Solves(g)
    <3>1. g = [i \in 0..2 |-> IF i = 0 THEN <<>> ELSE g[i - 1] \o RangeOctets(s[i])]
      <4>1. g[0] = <<>> /\ g[1] = g[0] \o RangeOctets(s[1]) /\ g[2] = g[1] \o RangeOctets(s[2])
        <5>1. g[0] = <<>> /\ g[1] = <<>> \o RangeOctets(q)
              /\ g[2] = (<<>> \o RangeOctets(q)) \o RangeOctets(r)
          OBVIOUS
        <5> HIDE DEF g
        <5> QED BY <5>1, <2>0
      <4>2. \A i \in 0..2 : i = 0 \/ i = 1 \/ i = 2
        OBVIOUS
      <4>3. \A i \in 0..2 : g[i] = IF i = 0 THEN <<>> ELSE g[i - 1] \o RangeOctets(s[i])
        <5> HIDE DEF g
        <5> SUFFICES ASSUME NEW i \in 0..2
                     PROVE  g[i] = IF i = 0 THEN <<>> ELSE g[i - 1] \o RangeOctets(s[i])
          OBVIOUS
        <5>1. CASE i = 0
          BY <4>1, <5>1
        <5>2. CASE i = 1
          <6>1. i - 1 = 0
            BY <5>2
          <6> QED BY <4>1, <5>2, <6>1
        <5>3. CASE i = 2
          <6>1. i - 1 = 1
            BY <5>3
          <6> QED BY <4>1, <5>3, <6>1
        <5> QED BY <4>2, <5>1, <5>2, <5>3
      <4>4. g = [i \in 0..2 |-> g[i]]
        OBVIOUS
      <4> HIDE DEF g
      <4> QED BY <4>3, <4>4
    <3> QED BY <3>1, <2>0
  <2>2. PICK w : w = CHOOSE u : Solves(u)
    OBVIOUS
  <2>3. Solves(w)
    <3> HIDE DEF Solves, g
    <3> QED BY <2>1, <2>2
  <2>4. AllRanges(s) = w[Len(s)]
    BY <2>2 DEF AllRanges
  <2>5. w = [i \in 0..2 |-> IF i = 0 THEN <<>> ELSE w[i - 1] \o RangeOctets(s[i])]
    BY <2>3, <2>0
  <2>6. w[0] = <<>> /\ w[1] = w[0] \o RangeOctets(q) /\ w[2] = w[1] \o RangeOctets(r)
    <3>1. \A i \in 0..2 : w[i] = IF i = 0 THEN <<>> ELSE w[i - 1] \o RangeOctets(s[i])
      BY <2>5
    <3> QED BY <3>1, <2>0
  <2> QED BY <2>4, <2>6, <2>0
<1> QED BY <1>2, <1>3

LEMMA RangesAre ==
  ASSUME NEW ranges \in RangeLists
  PROVE  /\ Len(ranges) \in 1..2 /\ \A i \in 1..Len(ranges) : ranges[i] \in RangeRecord
         /\ AllRanges(ranges) \in Seq(Int) /\ Len(AllRanges(ranges)) = 12 * Len(ranges)
         /\ \A i \in 1..Len(ranges) : IsRange(AllRanges(ranges), 12 * (i - 1), ranges[i])
         /\ TotalLen(ranges) \in Nat
         /\ Len(ranges) = 1 => TotalLen(ranges) = ranges[1].len
         /\ Len(ranges) = 2 => TotalLen(ranges) = ranges[1].len + ranges[2].len
<1>1. CASE \E r \in RangeRecord : ranges = <<r>>
  <2>1. PICK r \in RangeRecord : ranges = <<r>>
    BY <1>1
  <2>2. PICK a \in Seq(Int) : a = RangeOctets(r) /\ Len(a) = 12 /\ IsRange(a, 0, r)
    BY RangeIs
  <2>3. <<>> \o a = a
    OBVIOUS
  <2>4. AllRanges(ranges) = a
    BY <2>1, <2>2, <2>3, AllAre
  <2>5. TotalLen(ranges) = r.len /\ r.len \in Nat
    BY <2>1, TotalIs DEF RangeRecord
  <2>6. Len(ranges) = 1 /\ ranges[1] = r /\ \A i \in 1..1 : i = 1 /\ 12 * (i - 1) = 0
    BY <2>1
  <2> QED BY <2>2, <2>4, <2>5, <2>6
<1>2. CASE \E q \in RangeRecord, r \in RangeRecord : ranges = <<q, r>>
  <2>1. PICK q \in RangeRecord, r \in RangeRecord : ranges = <<q, r>>
    BY <1>2
  <2>2. PICK a \in Seq(Int) : a = RangeOctets(q) /\ Len(a) = 12 /\ IsRange(a, 0, q)
    BY RangeIs
  <2>3. PICK b \in Seq(Int) : b = RangeOctets(r) /\ Len(b) = 12 /\ IsRange(b, 0, r)
    BY RangeIs
  <2>4. <<>> \o a = a
    OBVIOUS
  <2>5. AllRanges(ranges) = a \o b
    BY <2>1, <2>2, <2>3, <2>4, AllAre
  <2>6. PICK c : c = a \o b
    OBVIOUS
  <2>7. /\ c \in Seq(Int) /\ Len(c) = 24
        /\ \A i \in 1..12 : c[i] = a[i]
        /\ \A i \in 1..12 : c[12 + i] = b[i]
    <3>1. IsConcat(c, a, 12, b, 12)
      BY ONLY <2>2, <2>3, <2>6, ConcatIs
    <3> QED BY ONLY <3>1 DEF IsConcat
  <2>8. IsRange(c, 0, q) /\ IsRange(c, 12, r)
    BY <2>2, <2>3, <2>7 DEF IsRange
  <2>9. TotalLen(ranges) = q.len + r.len /\ q.len \in Nat /\ r.len \in Nat
    BY <2>1, TotalIs DEF RangeRecord
  <2>10. /\ Len(ranges) = 2 /\ ranges[1] = q /\ ranges[2] = r
         /\ \A i \in 1..2 : (i = 1 /\ 12 * (i - 1) = 0) \/ (i = 2 /\ 12 * (i - 1) = 12)
    BY <2>1
  <2>11. AllRanges(ranges) = c
    BY <2>5, <2>6
  <2>12. \A i \in 1..Len(ranges) : IsRange(AllRanges(ranges), 12 * (i - 1), ranges[i])
    BY <2>8, <2>10, <2>11
  <2>13. TotalLen(ranges) \in Nat
    BY <2>9
  <2>14. Len(ranges) \in 1..2 /\ \A i \in 1..Len(ranges) : ranges[i] \in RangeRecord
    BY ONLY <2>1, <2>10
  <2>15. Len(AllRanges(ranges)) = 12 * Len(ranges) /\ AllRanges(ranges) \in Seq(Int)
    BY ONLY <2>7, <2>10, <2>11
  <2>16. Len(ranges) # 1 /\ (Len(ranges) = 2 => TotalLen(ranges) = ranges[1].len + ranges[2].len)
    BY ONLY <2>9, <2>10
  <2> QED BY ONLY <2>12, <2>13, <2>14, <2>15, <2>16
<1> QED BY <1>1, <1>2 DEF RangeLists

-----------------------------------------------------------------------------
(* The block of ranges as it is written: the end, how many, none missing,  *)
(* the ranges.                                                             *)
Block(t, ranges) == save_time(t) \o <<Len(ranges)>> \o int_char(0) \o AllRanges(ranges)

IsBlock(v, t, n, ranges) ==
  /\ v \in Seq(Int) /\ Len(v) = 12 + 12 * n
  /\ \A k \in 1..7 : v[k] = save_time(t)[k]
  /\ v[8] = n
  /\ \A i \in 1..n : IsRange(v, 12 * i, ranges[i])

LEMMA BlockIs ==
  ASSUME NEW t \in Nat, NEW ranges \in RangeLists, NEW n, n = Len(ranges)
  PROVE  IsBlock(Block(t, ranges), t, n, ranges)
<1>1. /\ n \in 1..2 /\ AllRanges(ranges) \in Seq(Int) /\ Len(AllRanges(ranges)) = 12 * n
      /\ \A i \in 1..n : IsRange(AllRanges(ranges), 12 * (i - 1), ranges[i])
  BY RangesAre
<1>2. PICK a, b, c, d : a = save_time(t) /\ b = <<n>> /\ c = int_char(0) /\ d = AllRanges(ranges)
  OBVIOUS
<1>3. /\ a \in Seq(Int) /\ Len(a) = 7 /\ b \in Seq(Int) /\ Len(b) = 1 /\ b[1] = n
      /\ c \in Seq(Int) /\ Len(c) = 4 /\ d \in Seq(Int) /\ Len(d) = 12 * n
  <2>1. a \in Seq(Int) /\ Len(a) = 7
    BY <1>2, TimeIs
  <2>2. b \in Seq(Int) /\ Len(b) = 1 /\ b[1] = n
    BY <1>1, <1>2
  <2>3. c \in Seq(Int) /\ Len(c) = 4
    BY <1>2 DEF int_char
  <2> QED BY <1>1, <1>2, <2>1, <2>2, <2>3
<1>4. PICK e : e = a \o b
  OBVIOUS
<1>5. IsConcat(e, a, 7, b, 1)
  BY ONLY <1>3, <1>4, ConcatIs
<1>6. e \in Seq(Int) /\ Len(e) = 8 /\ e[8] = n /\ \A k \in 1..7 : e[k] = a[k]
  <2>1. e[7 + 1] = b[1]
    BY <1>5 DEF IsConcat
  <2> QED BY ONLY <1>3, <1>5, <2>1 DEF IsConcat
<1>7. PICK f : f = e \o c
  OBVIOUS
<1>8. IsConcat(f, e, 8, c, 4)
  BY ONLY <1>3, <1>6, <1>7, ConcatIs
<1>9. f \in Seq(Int) /\ Len(f) = 12 /\ f[8] = n /\ \A k \in 1..7 : f[k] = a[k]
  BY ONLY <1>6, <1>8 DEF IsConcat
<1>10. PICK v : v = f \o d
  OBVIOUS
<1>11. PICK m \in Nat : m = 12 * n /\ m >= 12
  BY <1>1
<1>12. IsConcat(v, f, 12, d, m)
  BY ONLY <1>3, <1>9, <1>10, <1>11, ConcatIs
<1>13. v \in Seq(Int) /\ Len(v) = 12 + 12 * n /\ v[8] = n /\ \A k \in 1..7 : v[k] = a[k]
  <2>1. v \in Seq(Int) /\ Len(v) = 12 + m /\ \A k \in 1..12 : v[k] = f[k]
    BY ONLY <1>12 DEF IsConcat
  <2>2. 8 \in 1..12 /\ \A k \in 1..7 : k \in 1..12
    OBVIOUS
  <2> QED BY ONLY <1>9, <1>11, <2>1, <2>2
<1>14. ASSUME NEW i \in 1..n PROVE IsRange(v, 12 * i, ranges[i])
  <2>1. IsRange(d, 12 * (i - 1), ranges[i])
    BY <1>1, <1>2
  <2>2. \A k \in 1..12 : v[12 * i + k] = d[12 * (i - 1) + k]
    <3> SUFFICES ASSUME NEW k \in 1..12 PROVE v[12 * i + k] = d[12 * (i - 1) + k]
      OBVIOUS
    <3>1. 12 * (i - 1) + k \in 1..m /\ 12 + (12 * (i - 1) + k) = 12 * i + k
      BY <1>1, <1>11
    <3>2. v[12 + (12 * (i - 1) + k)] = d[12 * (i - 1) + k]
      BY <1>12, <3>1 DEF IsConcat
    <3> QED BY <3>1, <3>2
  <2>3. /\ v[12 * i + 2] = d[12 * (i - 1) + 2] /\ v[12 * i + 4] = d[12 * (i - 1) + 4]
        /\ v[12 * i + 5] = d[12 * (i - 1) + 5] /\ v[12 * i + 6] = d[12 * (i - 1) + 6]
        /\ v[12 * i + 7] = d[12 * (i - 1) + 7]
    BY ONLY <2>2
  <2> QED BY ONLY <2>1, <2>3 DEF IsRange
<1>15. Block(t, ranges) = v
  BY <1>2, <1>4, <1>7, <1>10 DEF Block
<1> QED BY ONLY <1>2, <1>13, <1>14, <1>15 DEF IsBlock

(* A section to which a forecast time and ranges have been written.        *)
HasForecast(t, q, time) ==
  /\ Octet(t, ForecastAt(q) + 1) = 0 /\ Octet(t, ForecastAt(q) + 2) = 0
  /\ Octet(t, ForecastAt(q) + 3) = 0 /\ Octet(t, ForecastAt(q) + 4) = time

HasBlock(t, q, n, v) == \A k \in 0..(11 + 12 * n) : Octet(t, EndAt(q) + k) = v[k + 1]

LEMMA ForecastIs ==
  ASSUME NEW t, Section(t), NEW q \in Ranging, t.pdt = q, NEW time \in Nat, HasForecast(t, q, time)
  PROVE  forecast_time_in_units(t) = time
<1>1. forecast_time_in_units(t) = Number(Octets(t, ForecastAt(q) + 1, 4))
  BY RangedIs
<1>2. PICK a \in Int : a = ForecastAt(q)
  BY DEF ForecastAt
<1>3. PICK v : v = Octets(t, a + 1, 4)
  OBVIOUS
<1>4. Len(v) = 4 /\ \A i \in 1..4 : v[i] = Octet(t, (a + 1) + i - 1)
  <2>1. a + 1 \in Int /\ 4 \in Nat
    OBVIOUS
  <2> QED BY <1>3, <2>1, OctetsIs
<1>5. v[1] = 0 /\ v[2] = 0 /\ v[3] = 0 /\ v[4] = time
  <2>1. (a + 1) + 1 - 1 = a + 1 /\ (a + 1) + 2 - 1 = a + 2 /\ (a + 1) + 3 - 1 = a + 3
        /\ (a + 1) + 4 - 1 = a + 4
    OBVIOUS
  <2> QED BY <1>2, <1>4, <2>1 DEF HasForecast
<1> QED BY <1>1, <1>2, <1>3, <1>4, <1>5, NumberIs

LEMMA WrittenRight ==
  ASSUME NEW t, Section(t), NEW q \in Ranging, t.pdt = q, NEW ranges \in RangeLists,
         Passing(ranges), NEW time \in Nat, HasForecast(t, q, time), NEW v, NEW n, n = Len(ranges),
         IsBlock(v, t.ref + time + TotalLen(ranges), n, ranges), HasBlock(t, q, n, v)
  PROVE  Right(t)
<1>1. /\ n \in 1..2 /\ \A i \in 1..n : ranges[i] \in RangeRecord /\ ranges[i].code11 \notin {3, 4}
      /\ TotalLen(ranges) \in Nat
      /\ n = 1 => TotalLen(ranges) = ranges[1].len
      /\ n = 2 => TotalLen(ranges) = ranges[1].len + ranges[2].len
  BY RangesAre DEF Passing
<1>2. PICK e \in Int : e = EndAt(q)
  BY DEF EndAt, Ranging
<1>3. t.ref \in Nat
  BY SectionIs
<1>4. PICK x \in Nat : x = t.ref + time + TotalLen(ranges)
  BY <1>1, <1>3
<1>5. Ranges(t) = n
  <2>1. 7 \in 0..(11 + 12 * n) /\ 7 + 1 = 8
    BY <1>1
  <2>2. Octet(t, e + 7) = v[8]
    BY <1>2, <2>1 DEF HasBlock
  <2> QED BY <1>2, <2>2, RangedIs DEF IsBlock
<1>6. forecast_time_in_units(t) = time
  BY ForecastIs
<1>7. EndTime(t) = x
  <2>1. PICK u : u = Octets(t, e, 7)
    OBVIOUS
  <2>2. PICK w : w = save_time(x)
    OBVIOUS
  <2>3. w \in Seq(Int) /\ Len(w) = 7 /\ \A z : z = w => get_time(z) = x
    BY <2>2, TimeIs
  <2>4. u \in Seq(Int) /\ Len(u) = 7 /\ \A i \in 1..7 : u[i] = Octet(t, e + i - 1)
    <3>1. e \in Int /\ 7 \in Nat
      OBVIOUS
    <3> QED BY <2>1, <3>1, OctetsIs
  <2>5. \A i \in 1..7 : u[i] = w[i]
    <3> SUFFICES ASSUME NEW i \in 1..7 PROVE u[i] = w[i]
      OBVIOUS
    <3>1. i - 1 \in 0..(11 + 12 * n) /\ (i - 1) + 1 = i /\ e + i - 1 = e + (i - 1)
      BY <1>1
    <3>2. Octet(t, e + (i - 1)) = v[(i - 1) + 1]
      BY <1>2, <3>1 DEF HasBlock
    <3>3. v[i] = w[i]
      BY <1>4, <2>2 DEF IsBlock
    <3> QED BY <2>4, <3>1, <3>2, <3>3
  <2>6. u = w
    <3>1. u = [i \in 1..7 |-> Octet(t, e + i - 1)]
      BY <2>1 DEF Octets
    <3>2. w = [i \in 1..7 |-> 1000 + 10 * x + i]
      BY <2>2 DEF save_time, Unknown
    <3>3. u = [i \in 1..7 |-> u[i]] /\ w = [i \in 1..7 |-> w[i]]
      BY ONLY <3>1, <3>2
    <3> QED BY ONLY <2>5, <3>3
  <2> QED BY <1>2, <2>1, <2>3, <2>6, RangedIs
<1>8. ASSUME NEW i \in 1..n, NEW y \in Nat
      PROVE  Passed(t, q, i, y) = y + ranges[i].len
  <2>1. IsRange(v, 12 * i, ranges[i])
    BY DEF IsBlock
  <2>2. \A k \in 1..7 : Octet(t, e + 12 * i + k - 1) = v[12 * i + k]
    <3> SUFFICES ASSUME NEW k \in 1..7 PROVE Octet(t, e + 12 * i + k - 1) = v[12 * i + k]
      OBVIOUS
    <3>1. /\ 12 * i + k - 1 \in 0..(11 + 12 * n) /\ (12 * i + k - 1) + 1 = 12 * i + k
          /\ e + 12 * i + k - 1 = e + (12 * i + k - 1)
      BY <1>1
    <3> QED BY <1>2, <3>1 DEF HasBlock
  <2>3. PICK a \in Int : a = e + 12 * i
    BY <1>1
  <2>4. Octet(t, a + 1) = ranges[i].code11
    <3>1. e + 12 * i + 2 - 1 = a + 1
      BY <2>3
    <3> QED BY <2>1, <2>2, <3>1 DEF IsRange
  <2>5. PICK u : u = Octets(t, a + 3, 4)
    OBVIOUS
  <2>6. Len(u) = 4 /\ u[1] = 0 /\ u[2] = 0 /\ u[3] = 0 /\ u[4] = ranges[i].len
    <3>1. a + 3 \in Int /\ 4 \in Nat
      OBVIOUS
    <3>2. Len(u) = 4 /\ \A j \in 1..4 : u[j] = Octet(t, (a + 3) + j - 1)
      BY <2>5, <3>1, OctetsIs
    <3>3. /\ (a + 3) + 1 - 1 = e + 12 * i + 4 - 1 /\ (a + 3) + 2 - 1 = e + 12 * i + 5 - 1
          /\ (a + 3) + 3 - 1 = e + 12 * i + 6 - 1 /\ (a + 3) + 4 - 1 = e + 12 * i + 7 - 1
      BY <2>3, <1>1
    <3>4. /\ u[1] = v[12 * i + 4] /\ u[2] = v[12 * i + 5] /\ u[3] = v[12 * i + 6]
          /\ u[4] = v[12 * i + 7]
      <4>1. /\ u[1] = Octet(t, (a + 3) + 1 - 1) /\ u[2] = Octet(t, (a + 3) + 2 - 1)
            /\ u[3] = Octet(t, (a + 3) + 3 - 1) /\ u[4] = Octet(t, (a + 3) + 4 - 1)
        BY ONLY <3>2
      <4>2. /\ Octet(t, e + 12 * i + 4 - 1) = v[12 * i + 4]
            /\ Octet(t, e + 12 * i + 5 - 1) = v[12 * i + 5]
            /\ Octet(t, e + 12 * i + 6 - 1) = v[12 * i + 6]
            /\ Octet(t, e + 12 * i + 7 - 1) = v[12 * i + 7]
        BY ONLY <2>2
      <4> QED BY ONLY <3>3, <4>1, <4>2
    <3> QED BY ONLY <2>1, <3>2, <3>4 DEF IsRange
  <2>7. Number(u) = ranges[i].len
    BY <2>6, NumberIs
  <2>8. ranges[i].len \in Nat /\ ranges[i].code11 \notin {3, 4}
    BY <1>1 DEF RangeRecord
  <2>9. Passed(t, q, i, y) = add_time(y, ranges[i].len)
    BY <1>2, <2>3, <2>4, <2>5, <2>7, <2>8 DEF Passed
  <2>10. PICK z \in Nat : z = ranges[i].len
    BY <2>8
  <2> QED BY <2>9, <2>10, AddTime
<1>9. Elapsed(t) = TotalLen(ranges)
  <2>1. CASE n = 1
    <3>1. Passed(t, q, 1, 0) = 0 + ranges[1].len /\ ranges[1].len \in Nat
      BY <1>1, <1>8, <2>1 DEF RangeRecord
    <3> QED BY <1>1, <1>5, <2>1, <3>1, ElapsedIs
  <2>2. CASE n = 2
    <3>1. Passed(t, q, 1, 0) = 0 + ranges[1].len /\ ranges[1].len \in Nat
      BY <1>1, <1>8, <2>2 DEF RangeRecord
    <3>2. PICK y \in Nat : y = ranges[1].len
      BY <3>1
    <3>3. Passed(t, q, 2, y) = y + ranges[2].len
      BY <1>1, <1>8, <2>2
    <3>4. 0 + y = y
      OBVIOUS
    <3> QED BY <1>1, <1>5, <2>2, <3>1, <3>2, <3>3, <3>4, ElapsedIs
  <2> QED BY <1>1, <2>1, <2>2
<1> QED BY <1>1, <1>4, <1>5, <1>6, <1>7, <1>9 DEF Right

-----------------------------------------------------------------------------
(* The places of the items that new_pdt copies.                            *)

(* A place, from lo to hi octets around it: clear of the forecast time, if *)
(* it is not that, and of the ranges, where there are some; clear of the   *)
(* count of a template that has one.                                       *)
Clear(at, lo, hi, p, fc) ==
  /\ at \in Int
  /\ p \in Ranging =>
       at = NULL \/ (at + hi < EndAt(p)
                     /\ (fc \/ at + hi <= ForecastAt(p) \/ at + lo > ForecastAt(p) + 4))
  /\ p \in Counting => at = NULL \/ at + hi < CountAt(p) \/ at + lo > CountAt(p)

LEMMA PlaceClear ==
  ASSUME NEW rows, NEW p, NEW lo, NEW hi, NEW fc,
         \A r \in rows : r[2] \in Int /\ (p \in r[1] => Clear(r[2], lo, hi, p, fc))
  PROVE  Clear(Place(rows, p), lo, hi, p, fc)
<1>1. CASE \E r \in rows : p \in r[1]
  BY <1>1, PlaceIs
<1>2. CASE ~(\E r \in rows : p \in r[1])
  BY <1>2, PlaceIs DEF Clear, NULL
<1> QED BY <1>1, <1>2

(* The counts that places and lengths are computed from.                   *)
KnownCounts(s) ==
  /\ s.pdt \in Counting => s.oct[CountAt(s.pdt)] \in Nat
  /\ s.pdt = 34 => s.oct[22] = Missing

LEMMA CountsInt ==
  ASSUME NEW s, Section(s)
  PROVE  /\ s.pdt \in {33, 34} => Ensemble33(s) \in Int
         /\ s.pdt = 57 => number_of_mode(s) \in Int
         /\ s.pdt = 34 /\ KnownCounts(s) => Ensemble33(s) = 2805
<1>1. PICK n \in 8..150 : s.oct \in [9..n -> Int] /\ Suits(s.pdt, n)
  BY SectionIs
<1>2. s.pdt \in {33, 34} => s.oct[22] \in Int
  <2>1. ASSUME s.pdt \in {33, 34} PROVE n >= 22
    BY <1>1, <2>1 DEF Suits
  <2>2. n >= 22 => 22 \in 9..n
    OBVIOUS
  <2> QED BY <1>1, <2>1, <2>2
<1>3. s.pdt = 57 => s.oct[13] \in Int /\ s.oct[14] \in Int
  <2>1. ASSUME s.pdt = 57 PROVE n >= 14
    BY <1>1, <2>1 DEF Suits
  <2>2. n >= 14 => 13 \in 9..n /\ 14 \in 9..n
    OBVIOUS
  <2> QED BY <1>1, <2>1, <2>2
<1> QED BY <1>2, <1>3 DEF Ensemble33, number_of_mode, KnownCounts, Missing

LEMMA Clear1 ==
  ASSUME NEW s, Section(s), KnownCounts(s)
  PROVE  Clear(code_table_4_3_location(s), 0, 0, s.pdt, FALSE)
<1> DEFINE rows ==
                    {<<Horizontal \cup {20, 60, 61, 1000, 1001, 1002, 1100, 1101} \cup 30 .. 34 \cup {47}, 11>>,
                    <<40 .. 43, 13>>, <<44 .. 46, 24>>, <<{48}, 35>>, <<{52}, 13>>}
<1>0. s.pdt \in Nat /\ s.jma = FALSE
  BY SectionIs
<1>1. Clear(Place(rows, s.pdt), 0, 0, s.pdt, FALSE)
  <2>1. \A r \in rows : r[2] \in Int /\ (s.pdt \in r[1] => Clear(r[2], 0, 0, s.pdt, FALSE))
    <3>1. ASSUME NEW r \in rows
          PROVE  r[2] \in Int /\ (s.pdt \in r[1] => Clear(r[2], 0, 0, s.pdt, FALSE))
      BY <1>0 DEF Clear, Ranging, EndAt, ForecastAt, Counting, CountAt, NULL, Horizontal
    <3> HIDE DEF rows
    <3> QED BY <3>1
  <2> HIDE DEF rows
  <2> QED BY <2>1, PlaceClear
<1>2. CASE s.pdt # 57
  <2> DEFINE jma == JmaProducts
  <2>1. code_table_4_3_location(s) = PlaceOr(rows, s, jma, 11)
    BY <1>2 DEF code_table_4_3_location
  <2>2. PlaceOr(rows, s, jma, 11) = Place(rows, s.pdt)
    <3> HIDE DEF rows, jma
    <3> QED BY <1>0 DEF PlaceOr
  <2> HIDE DEF rows, jma
  <2> QED BY <1>1, <2>1, <2>2
<1>3. CASE s.pdt = 57
  BY <1>3, CountsInt DEF code_table_4_3_location, Clear, Ranging, Counting, CountAt
<1> QED BY <1>2, <1>3

LEMMA Clear2 ==
  ASSUME NEW s, Section(s), KnownCounts(s)
  PROVE  Clear(code_table_4_4_location(s), 0, 4, s.pdt, TRUE)
<1> DEFINE rows == {<<Horizontal \cup {32, 51, 60, 61, 91, 1000, 1001, 1002}, 17>>,
                    <<40 .. 43, 19>>, <<44 .. 47, 30>>, <<{48}, 41>>, <<{52}, 20>>}
<1>0. s.pdt \in Nat /\ s.jma = FALSE
  BY SectionIs
<1>1. Clear(Place(rows, s.pdt), 0, 4, s.pdt, TRUE)
  <2>1. \A r \in rows : r[2] \in Int /\ (s.pdt \in r[1] => Clear(r[2], 0, 4, s.pdt, TRUE))
    <3>1. ASSUME NEW r \in rows
          PROVE  r[2] \in Int /\ (s.pdt \in r[1] => Clear(r[2], 0, 4, s.pdt, TRUE))
      BY <1>0 DEF Clear, Ranging, EndAt, ForecastAt, Counting, CountAt, NULL, Horizontal
    <3> HIDE DEF rows
    <3> QED BY <3>1
  <2> HIDE DEF rows
  <2> QED BY <2>1, PlaceClear
<1>2. CASE s.pdt # 57
  <2> DEFINE jma == {50008, 50009, 50011}
  <2>1. code_table_4_4_location(s) = PlaceOr(rows, s, jma, 17)
    BY <1>2 DEF code_table_4_4_location
  <2>2. PlaceOr(rows, s, jma, 17) = Place(rows, s.pdt)
    <3> HIDE DEF rows, jma
    <3> QED BY <1>0 DEF PlaceOr
  <2> HIDE DEF rows, jma
  <2> QED BY <1>1, <2>1, <2>2
<1>3. CASE s.pdt = 57
  BY <1>3, CountsInt DEF code_table_4_4_location, Clear, Ranging, Counting, CountAt
<1> QED BY <1>2, <1>3

LEMMA Clear3 ==
  ASSUME NEW s, Section(s), KnownCounts(s)
  PROVE  Clear(code_table_4_5a_location(s), 0, 5, s.pdt, FALSE)
<1> DEFINE rows == {<<Horizontal \cup {51, 60, 61, 91, 1100, 1101}, 22>>,
                    <<40 .. 43, 24>>, <<{44}, 33>>, <<45 .. 47, 35>>, <<{48}, 46>>,
                    <<{52}, 25>>}
<1>0. s.pdt \in Nat /\ s.jma = FALSE
  BY SectionIs
<1>1. Clear(Place(rows, s.pdt), 0, 5, s.pdt, FALSE)
  <2>1. \A r \in rows : r[2] \in Int /\ (s.pdt \in r[1] => Clear(r[2], 0, 5, s.pdt, FALSE))
    <3>1. ASSUME NEW r \in rows
          PROVE  r[2] \in Int /\ (s.pdt \in r[1] => Clear(r[2], 0, 5, s.pdt, FALSE))
      BY <1>0 DEF Clear, Ranging, EndAt, ForecastAt, Counting, CountAt, NULL, Horizontal
    <3> HIDE DEF rows
    <3> QED BY <3>1
  <2> HIDE DEF rows
  <2> QED BY <2>1, PlaceClear
<1>2. CASE s.pdt # 57
  <2> DEFINE jma == 50008 .. 50011
  <2>1. code_table_4_5a_location(s) = PlaceOr(rows, s, jma, 22)
    BY <1>2 DEF code_table_4_5a_location
  <2>2. PlaceOr(rows, s, jma, 22) = Place(rows, s.pdt)
    <3> HIDE DEF rows, jma
    <3> QED BY <1>0 DEF PlaceOr
  <2> HIDE DEF rows, jma
  <2> QED BY <1>1, <2>1, <2>2
<1>3. CASE s.pdt = 57
  BY <1>3, CountsInt DEF code_table_4_5a_location, Clear, Ranging, Counting, CountAt
<1> QED BY <1>2, <1>3

LEMMA Clear4 ==
  ASSUME NEW s, Section(s), KnownCounts(s)
  PROVE  Clear(code_table_4_5b_location(s), 0, 5, s.pdt, FALSE)
<1> DEFINE rows == {<<Horizontal \cup {51, 60, 61, 91, 1100, 1101}, 28>>,
                    <<40 .. 43, 30>>, <<{44}, 39>>, <<45 .. 47, 41>>, <<{48}, 52>>}
<1>0. s.pdt \in Nat /\ s.jma = FALSE
  BY SectionIs
<1>1. Clear(Place(rows, s.pdt), 0, 5, s.pdt, FALSE)
  <2>1. \A r \in rows : r[2] \in Int /\ (s.pdt \in r[1] => Clear(r[2], 0, 5, s.pdt, FALSE))
    <3>1. ASSUME NEW r \in rows
          PROVE  r[2] \in Int /\ (s.pdt \in r[1] => Clear(r[2], 0, 5, s.pdt, FALSE))
      BY <1>0 DEF Clear, Ranging, EndAt, ForecastAt, Counting, CountAt, NULL, Horizontal
    <3> HIDE DEF rows
    <3> QED BY <3>1
  <2> HIDE DEF rows
  <2> QED BY <2>1, PlaceClear
<1>2. CASE s.pdt # 57
  <2> DEFINE jma == 50008 .. 50011
  <2>1. code_table_4_5b_location(s) = PlaceOr(rows, s, jma, 28)
    BY <1>2 DEF code_table_4_5b_location
  <2>2. PlaceOr(rows, s, jma, 28) = Place(rows, s.pdt)
    <3> HIDE DEF rows, jma
    <3> QED BY <1>0 DEF PlaceOr
  <2> HIDE DEF rows, jma
  <2> QED BY <1>1, <2>1, <2>2
<1>3. CASE s.pdt = 57
  BY <1>3, CountsInt DEF code_table_4_5b_location, Clear, Ranging, Counting, CountAt
<1> QED BY <1>2, <1>3

LEMMA Clear5 ==
  ASSUME NEW s, Section(s), KnownCounts(s)
  PROVE  Clear(code_table_4_6_location(s), 0, 0, s.pdt, FALSE)
<1> DEFINE rows == {<<{1, 11, 60, 61}, 34>>, <<{41, 43}, 36>>}
<1>0. s.pdt \in Nat /\ s.jma = FALSE
  BY SectionIs
<1>1. Clear(Place(rows, s.pdt), 0, 0, s.pdt, FALSE)
  <2>1. \A r \in rows : r[2] \in Int /\ (s.pdt \in r[1] => Clear(r[2], 0, 0, s.pdt, FALSE))
    <3>1. ASSUME NEW r \in rows
          PROVE  r[2] \in Int /\ (s.pdt \in r[1] => Clear(r[2], 0, 0, s.pdt, FALSE))
      BY <1>0 DEF Clear, Ranging, EndAt, ForecastAt, Counting, CountAt, NULL
    <3> HIDE DEF rows
    <3> QED BY <3>1
  <2> HIDE DEF rows
  <2> QED BY <2>1, PlaceClear
<1>2. CASE s.pdt \notin {33, 34}
  BY <1>1, <1>2 DEF code_table_4_6_location
<1>3. CASE s.pdt \in {33, 34}
  BY <1>3, CountsInt DEF code_table_4_6_location, Clear, Ranging, Counting, CountAt
<1> QED BY <1>2, <1>3

LEMMA Clear6 ==
  ASSUME NEW s, Section(s), KnownCounts(s)
  PROVE  Clear(perturbation_number_location(s), 0, 0, s.pdt, FALSE)
<1> DEFINE rows == {<<{1, 11, 60, 61}, 35>>, <<{41, 43}, 37>>}
<1>0. s.pdt \in Nat /\ s.jma = FALSE
  BY SectionIs
<1>1. Clear(Place(rows, s.pdt), 0, 0, s.pdt, FALSE)
  <2>1. \A r \in rows : r[2] \in Int /\ (s.pdt \in r[1] => Clear(r[2], 0, 0, s.pdt, FALSE))
    <3>1. ASSUME NEW r \in rows
          PROVE  r[2] \in Int /\ (s.pdt \in r[1] => Clear(r[2], 0, 0, s.pdt, FALSE))
      BY <1>0 DEF Clear, Ranging, EndAt, ForecastAt, Counting, CountAt, NULL
    <3> HIDE DEF rows
    <3> QED BY <3>1
  <2> HIDE DEF rows
  <2> QED BY <2>1, PlaceClear
<1>2. CASE s.pdt \notin {33, 34}
  BY <1>1, <1>2 DEF perturbation_number_location
<1>3. CASE s.pdt \in {33, 34}
  BY <1>3, CountsInt DEF perturbation_number_location, Clear, Ranging, Counting, CountAt
<1> QED BY <1>2, <1>3

LEMMA Clear7 ==
  ASSUME NEW s, Section(s), KnownCounts(s)
  PROVE  Clear(number_of_forecasts_in_the_ensemble_location(s), 0, 0, s.pdt, FALSE)
<1> DEFINE rows == {<<{1, 11, 60, 61}, 36>>, <<{2, 3, 4, 12, 13}, 35>>,
                    <<{41, 43}, 38>>}
<1>0. s.pdt \in Nat /\ s.jma = FALSE
  BY SectionIs
<1>1. Clear(Place(rows, s.pdt), 0, 0, s.pdt, FALSE)
  <2>1. \A r \in rows : r[2] \in Int /\ (s.pdt \in r[1] => Clear(r[2], 0, 0, s.pdt, FALSE))
    <3>1. ASSUME NEW r \in rows
          PROVE  r[2] \in Int /\ (s.pdt \in r[1] => Clear(r[2], 0, 0, s.pdt, FALSE))
      BY <1>0 DEF Clear, Ranging, EndAt, ForecastAt, Counting, CountAt, NULL
    <3> HIDE DEF rows
    <3> QED BY <3>1
  <2> HIDE DEF rows
  <2> QED BY <2>1, PlaceClear
<1>2. CASE s.pdt \notin {33, 34}
  BY <1>1, <1>2 DEF number_of_forecasts_in_the_ensemble_location
<1>3. CASE s.pdt \in {33, 34}
  BY <1>3, CountsInt DEF number_of_forecasts_in_the_ensemble_location, Clear, Ranging, Counting, CountAt
<1> QED BY <1>2, <1>3

LEMMA Clear8 ==
  ASSUME NEW s, Section(s), KnownCounts(s)
  PROVE  Clear(code_table_4_7_location(s), 0, 0, s.pdt, FALSE)
<1> DEFINE rows == {<<{2, 3, 4, 12}, 34>>}
<1>0. s.pdt \in Nat /\ s.jma = FALSE
  BY SectionIs
<1>1. Clear(Place(rows, s.pdt), 0, 0, s.pdt, FALSE)
  <2>1. \A r \in rows : r[2] \in Int /\ (s.pdt \in r[1] => Clear(r[2], 0, 0, s.pdt, FALSE))
    <3>1. ASSUME NEW r \in rows
          PROVE  r[2] \in Int /\ (s.pdt \in r[1] => Clear(r[2], 0, 0, s.pdt, FALSE))
      BY <1>0 DEF Clear, Ranging, EndAt, ForecastAt, Counting, CountAt, NULL
    <3> HIDE DEF rows
    <3> QED BY <3>1
  <2> HIDE DEF rows
  <2> QED BY <2>1, PlaceClear
<1> QED BY <1>0, <1>1 DEF code_table_4_7_location

LEMMA Clear9 ==
  ASSUME NEW s, Section(s), KnownCounts(s)
  PROVE  Clear(code_table_4_9_location(s), -2, 10, s.pdt, FALSE)
<1> DEFINE rows == {<<{5, 9}, 36>>}
<1>0. s.pdt \in Nat /\ s.jma = FALSE
  BY SectionIs
<1>1. Clear(Place(rows, s.pdt), -2, 10, s.pdt, FALSE)
  <2>1. \A r \in rows : r[2] \in Int /\ (s.pdt \in r[1] => Clear(r[2], -2, 10, s.pdt, FALSE))
    <3>1. ASSUME NEW r \in rows
          PROVE  r[2] \in Int /\ (s.pdt \in r[1] => Clear(r[2], -2, 10, s.pdt, FALSE))
      BY <1>0 DEF Clear, Ranging, EndAt, ForecastAt, Counting, CountAt, NULL
    <3> HIDE DEF rows
    <3> QED BY <3>1
  <2> HIDE DEF rows
  <2> QED BY <2>1, PlaceClear
<1> QED BY <1>0, <1>1 DEF code_table_4_9_location

LEMMA Clear10 ==
  ASSUME NEW s, Section(s), KnownCounts(s)
  PROVE  Clear(background_generating_process_identifier_location(s), 0, 0, s.pdt, FALSE)
<1> DEFINE rows == {<<Forecasts, 12>>, <<40 .. 43, 14>>, <<44 .. 47, 25>>,
                    <<{48}, 36>>, <<{52}, 15>>}
<1>0. s.pdt \in Nat /\ s.jma = FALSE
  BY SectionIs
<1>1. Clear(Place(rows, s.pdt), 0, 0, s.pdt, FALSE)
  <2>1. \A r \in rows : r[2] \in Int /\ (s.pdt \in r[1] => Clear(r[2], 0, 0, s.pdt, FALSE))
    <3>1. ASSUME NEW r \in rows
          PROVE  r[2] \in Int /\ (s.pdt \in r[1] => Clear(r[2], 0, 0, s.pdt, FALSE))
      <4>1. /\ s.pdt \in Counting => s.pdt = 3 \/ s.pdt = 4 \/ s.pdt = 34 \/ s.pdt = 30 \/ s.pdt = 31
            /\ CountAt(3) = 57 /\ CountAt(4) = 53 /\ CountAt(34) = 22
            /\ 30 \notin Forecasts /\ 31 \notin Forecasts
        BY DEF Counting, CountAt, Forecasts, Horizontal
      <4>2. s.pdt \in r[1] => s.pdt # 30 /\ s.pdt # 31
        BY <4>1
      <4> QED BY <1>0, <4>1, <4>2 DEF Clear, Ranging, EndAt, ForecastAt, NULL, Forecasts
    <3> HIDE DEF rows
    <3> QED BY <3>1
  <2> HIDE DEF rows
  <2> QED BY <2>1, PlaceClear
<1> QED BY <1>0, <1>1 DEF background_generating_process_identifier_location, PlaceOr

LEMMA Clear11 ==
  ASSUME NEW s, Section(s), KnownCounts(s)
  PROVE  Clear(analysis_or_forecast_generating_process_identifier_location(s), 0, 0, s.pdt, FALSE)
<1> DEFINE rows == {<<Forecasts, 13>>, <<40 .. 43, 15>>, <<44 .. 47, 26>>,
                    <<{48}, 37>>, <<{52}, 16>>}
<1>0. s.pdt \in Nat /\ s.jma = FALSE
  BY SectionIs
<1>1. Clear(Place(rows, s.pdt), 0, 0, s.pdt, FALSE)
  <2>1. \A r \in rows : r[2] \in Int /\ (s.pdt \in r[1] => Clear(r[2], 0, 0, s.pdt, FALSE))
    <3>1. ASSUME NEW r \in rows
          PROVE  r[2] \in Int /\ (s.pdt \in r[1] => Clear(r[2], 0, 0, s.pdt, FALSE))
      <4>1. /\ s.pdt \in Counting => s.pdt = 3 \/ s.pdt = 4 \/ s.pdt = 34 \/ s.pdt = 30 \/ s.pdt = 31
            /\ CountAt(3) = 57 /\ CountAt(4) = 53 /\ CountAt(34) = 22
            /\ 30 \notin Forecasts /\ 31 \notin Forecasts
        BY DEF Counting, CountAt, Forecasts, Horizontal
      <4>2. s.pdt \in r[1] => s.pdt # 30 /\ s.pdt # 31
        BY <4>1
      <4> QED BY <1>0, <4>1, <4>2 DEF Clear, Ranging, EndAt, ForecastAt, NULL, Forecasts
    <3> HIDE DEF rows
    <3> QED BY <3>1
  <2> HIDE DEF rows
  <2> QED BY <2>1, PlaceClear
<1> QED BY <1>0, <1>1 DEF analysis_or_forecast_generating_process_identifier_location, PlaceOr

LEMMA Clear12 ==
  ASSUME NEW s, Section(s), KnownCounts(s)
  PROVE  Clear(hours_of_observational_data_cutoff_after_reference_time_location(s), 0, 1, s.pdt, FALSE)
<1> DEFINE rows == {<<Forecasts, 14>>, <<44 .. 47, 27>>, <<{48}, 38>>}
<1>0. s.pdt \in Nat /\ s.jma = FALSE
  BY SectionIs
<1>1. Clear(Place(rows, s.pdt), 0, 1, s.pdt, FALSE)
  <2>1. \A r \in rows : r[2] \in Int /\ (s.pdt \in r[1] => Clear(r[2], 0, 1, s.pdt, FALSE))
    <3>1. ASSUME NEW r \in rows
          PROVE  r[2] \in Int /\ (s.pdt \in r[1] => Clear(r[2], 0, 1, s.pdt, FALSE))
      <4>1. /\ s.pdt \in Counting => s.pdt = 3 \/ s.pdt = 4 \/ s.pdt = 34 \/ s.pdt = 30 \/ s.pdt = 31
            /\ CountAt(3) = 57 /\ CountAt(4) = 53 /\ CountAt(34) = 22
            /\ 30 \notin Forecasts /\ 31 \notin Forecasts
        BY DEF Counting, CountAt, Forecasts, Horizontal
      <4>2. s.pdt \in r[1] => s.pdt # 30 /\ s.pdt # 31
        BY <4>1
      <4> QED BY <1>0, <4>1, <4>2 DEF Clear, Ranging, EndAt, ForecastAt, NULL, Forecasts
    <3> HIDE DEF rows
    <3> QED BY <3>1
  <2> HIDE DEF rows
  <2> QED BY <2>1, PlaceClear
<1> QED BY <1>0, <1>1 DEF hours_of_observational_data_cutoff_after_reference_time_location

LEMMA Clear13 ==
  ASSUME NEW s, Section(s), KnownCounts(s)
  PROVE  Clear(minutes_of_observational_data_cutoff_after_reference_time_location(s), 0, 0, s.pdt, FALSE)
<1> DEFINE rows == {<<Forecasts, 16>>, <<44 .. 47, 29>>, <<{48}, 40>>}
<1>0. s.pdt \in Nat /\ s.jma = FALSE
  BY SectionIs
<1>1. Clear(Place(rows, s.pdt), 0, 0, s.pdt, FALSE)
  <2>1. \A r \in rows : r[2] \in Int /\ (s.pdt \in r[1] => Clear(r[2], 0, 0, s.pdt, FALSE))
    <3>1. ASSUME NEW r \in rows
          PROVE  r[2] \in Int /\ (s.pdt \in r[1] => Clear(r[2], 0, 0, s.pdt, FALSE))
      <4>1. /\ s.pdt \in Counting => s.pdt = 3 \/ s.pdt = 4 \/ s.pdt = 34 \/ s.pdt = 30 \/ s.pdt = 31
            /\ CountAt(3) = 57 /\ CountAt(4) = 53 /\ CountAt(34) = 22
            /\ 30 \notin Forecasts /\ 31 \notin Forecasts
        BY DEF Counting, CountAt, Forecasts, Horizontal
      <4>2. s.pdt \in r[1] => s.pdt # 30 /\ s.pdt # 31
        BY <4>1
      <4> QED BY <1>0, <4>1, <4>2 DEF Clear, Ranging, EndAt, ForecastAt, NULL, Forecasts
    <3> HIDE DEF rows
    <3> QED BY <3>1
  <2> HIDE DEF rows
  <2> QED BY <2>1, PlaceClear
<1> QED BY <1>0, <1>1 DEF minutes_of_observational_data_cutoff_after_reference_time_location

LEMMA Clear14 ==
  ASSUME NEW s, Section(s), KnownCounts(s)
  PROVE  Clear(observation_generating_process_identifier_location(s), 0, 0, s.pdt, FALSE)
<1> DEFINE rows == {<<{30, 31}, 12>>}
<1>0. s.pdt \in Nat /\ s.jma = FALSE
  BY SectionIs
<1>1. Clear(Place(rows, s.pdt), 0, 0, s.pdt, FALSE)
  <2>1. \A r \in rows : r[2] \in Int /\ (s.pdt \in r[1] => Clear(r[2], 0, 0, s.pdt, FALSE))
    <3>1. ASSUME NEW r \in rows
          PROVE  r[2] \in Int /\ (s.pdt \in r[1] => Clear(r[2], 0, 0, s.pdt, FALSE))
      BY <1>0 DEF Clear, Ranging, EndAt, ForecastAt, Counting, CountAt, NULL
    <3> HIDE DEF rows
    <3> QED BY <3>1
  <2> HIDE DEF rows
  <2> QED BY <2>1, PlaceClear
<1> QED BY <1>0, <1>1 DEF observation_generating_process_identifier_location

LEMMA Clear15 ==
  ASSUME NEW s, Section(s), KnownCounts(s)
  PROVE  Clear(year_of_model_version_date_location(s), 0, 6, s.pdt, FALSE)
<1> DEFINE rows == {<<{60, 61}, 37>>}
<1>0. s.pdt \in Nat /\ s.jma = FALSE
  BY SectionIs
<1>1. Clear(Place(rows, s.pdt), 0, 6, s.pdt, FALSE)
  <2>1. \A r \in rows : r[2] \in Int /\ (s.pdt \in r[1] => Clear(r[2], 0, 6, s.pdt, FALSE))
    <3>1. ASSUME NEW r \in rows
          PROVE  r[2] \in Int /\ (s.pdt \in r[1] => Clear(r[2], 0, 6, s.pdt, FALSE))
      BY <1>0 DEF Clear, Ranging, EndAt, ForecastAt, Counting, CountAt, NULL
    <3> HIDE DEF rows
    <3> QED BY <3>1
  <2> HIDE DEF rows
  <2> QED BY <2>1, PlaceClear
<1> QED BY <1>0, <1>1 DEF year_of_model_version_date_location

LEMMA Clear16 ==
  ASSUME NEW s, Section(s), KnownCounts(s)
  PROVE  Clear(percentile_value_location(s), 0, 0, s.pdt, FALSE)
<1> DEFINE rows == {<<{6, 10}, 34>>}
<1>0. s.pdt \in Nat /\ s.jma = FALSE
  BY SectionIs
<1>1. Clear(Place(rows, s.pdt), 0, 0, s.pdt, FALSE)
  <2>1. \A r \in rows : r[2] \in Int /\ (s.pdt \in r[1] => Clear(r[2], 0, 0, s.pdt, FALSE))
    <3>1. ASSUME NEW r \in rows
          PROVE  r[2] \in Int /\ (s.pdt \in r[1] => Clear(r[2], 0, 0, s.pdt, FALSE))
      BY <1>0 DEF Clear, Ranging, EndAt, ForecastAt, Counting, CountAt, NULL
    <3> HIDE DEF rows
    <3> QED BY <3>1
  <2> HIDE DEF rows
  <2> QED BY <2>1, PlaceClear
<1> QED BY <1>0, <1>1 DEF percentile_value_location

LEMMA Clear17 ==
  ASSUME NEW s, Section(s), KnownCounts(s)
  PROVE  Clear(code_table_4_230_location(s), 0, 1, s.pdt, FALSE)
<1> DEFINE rows == {<<40 .. 43 \cup {57}, 11>>}
<1>0. s.pdt \in Nat /\ s.jma = FALSE
  BY SectionIs
<1>1. Clear(Place(rows, s.pdt), 0, 1, s.pdt, FALSE)
  <2>1. \A r \in rows : r[2] \in Int /\ (s.pdt \in r[1] => Clear(r[2], 0, 1, s.pdt, FALSE))
    <3>1. ASSUME NEW r \in rows
          PROVE  r[2] \in Int /\ (s.pdt \in r[1] => Clear(r[2], 0, 1, s.pdt, FALSE))
      BY <1>0 DEF Clear, Ranging, EndAt, ForecastAt, Counting, CountAt, NULL
    <3> HIDE DEF rows
    <3> QED BY <3>1
  <2> HIDE DEF rows
  <2> QED BY <2>1, PlaceClear
<1> QED BY <1>0, <1>1 DEF code_table_4_230_location

LEMMA Clear18 ==
  ASSUME NEW s, Section(s), KnownCounts(s)
  PROVE  Clear(code_table_4_233_location(s), 0, 1, s.pdt, FALSE)
<1> DEFINE rows == {<<{47}, 12>>, <<{44, 45, 46, 48}, 11>>}
<1>0. s.pdt \in Nat /\ s.jma = FALSE
  BY SectionIs
<1>1. Clear(Place(rows, s.pdt), 0, 1, s.pdt, FALSE)
  <2>1. \A r \in rows : r[2] \in Int /\ (s.pdt \in r[1] => Clear(r[2], 0, 1, s.pdt, FALSE))
    <3>1. ASSUME NEW r \in rows
          PROVE  r[2] \in Int /\ (s.pdt \in r[1] => Clear(r[2], 0, 1, s.pdt, FALSE))
      BY <1>0 DEF Clear, Ranging, EndAt, ForecastAt, Counting, CountAt, NULL
    <3> HIDE DEF rows
    <3> QED BY <3>1
  <2> HIDE DEF rows
  <2> QED BY <2>1, PlaceClear
<1> QED BY <1>0, <1>1 DEF code_table_4_233_location

LEMMA Clear19 ==
  ASSUME NEW s, Section(s), KnownCounts(s)
  PROVE  Clear(code_table_4_91_location(s), 0, 10, s.pdt, FALSE)
<1> DEFINE rows == {<<{44, 45, 46, 48}, 13>>, <<{47}, 14>>}
<1>0. s.pdt \in Nat /\ s.jma = FALSE
  BY SectionIs
<1>1. Clear(Place(rows, s.pdt), 0, 10, s.pdt, FALSE)
  <2>1. \A r \in rows : r[2] \in Int /\ (s.pdt \in r[1] => Clear(r[2], 0, 10, s.pdt, FALSE))
    <3>1. ASSUME NEW r \in rows
          PROVE  r[2] \in Int /\ (s.pdt \in r[1] => Clear(r[2], 0, 10, s.pdt, FALSE))
      BY <1>0 DEF Clear, Ranging, EndAt, ForecastAt, Counting, CountAt, NULL
    <3> HIDE DEF rows
    <3> QED BY <3>1
  <2> HIDE DEF rows
  <2> QED BY <2>1, PlaceClear
<1> QED BY <1>0, <1>1 DEF code_table_4_91_location

LEMMA CopiedClear ==
  ASSUME NEW s, Section(s), KnownCounts(s), NEW i \in 1..19, NEW c, c = Copied[i]
  PROVE  c[2] \in -2..0 /\ c[3] \in 0..10 /\ Clear(Location(c[1], s), c[2], c[3], s.pdt, i = 2)
<1>1. CASE i = 1
  <2>1. c[1] = "4.3" /\ c[2] = 0 /\ c[3] = 0
    BY <1>1 DEF Copied
  <2>2. Location(c[1], s) = code_table_4_3_location(s)
    BY <2>1 DEF Location
  <2>3. Clear(code_table_4_3_location(s), 0, 0, s.pdt, i = 2)
    BY <1>1, Clear1 DEF Clear
  <2> QED BY <2>1, <2>2, <2>3
<1>2. CASE i = 2
  <2>1. c[1] = "4.4" /\ c[2] = 0 /\ c[3] = 4
    BY <1>2 DEF Copied
  <2>2. Location(c[1], s) = code_table_4_4_location(s)
    BY <2>1 DEF Location
  <2>3. Clear(code_table_4_4_location(s), 0, 4, s.pdt, i = 2)
    BY <1>2, Clear2 DEF Clear
  <2> QED BY <2>1, <2>2, <2>3
<1>3. CASE i = 3
  <2>1. c[1] = "4.5a" /\ c[2] = 0 /\ c[3] = 5
    BY <1>3 DEF Copied
  <2>2. Location(c[1], s) = code_table_4_5a_location(s)
    BY <2>1 DEF Location
  <2>3. Clear(code_table_4_5a_location(s), 0, 5, s.pdt, i = 2)
    BY <1>3, Clear3 DEF Clear
  <2> QED BY <2>1, <2>2, <2>3
<1>4. CASE i = 4
  <2>1. c[1] = "4.5b" /\ c[2] = 0 /\ c[3] = 5
    BY <1>4 DEF Copied
  <2>2. Location(c[1], s) = code_table_4_5b_location(s)
    BY <2>1 DEF Location
  <2>3. Clear(code_table_4_5b_location(s), 0, 5, s.pdt, i = 2)
    BY <1>4, Clear4 DEF Clear
  <2> QED BY <2>1, <2>2, <2>3
<1>5. CASE i = 5
  <2>1. c[1] = "4.6" /\ c[2] = 0 /\ c[3] = 0
    BY <1>5 DEF Copied
  <2>2. Location(c[1], s) = code_table_4_6_location(s)
    BY <2>1 DEF Location
  <2>3. Clear(code_table_4_6_location(s), 0, 0, s.pdt, i = 2)
    BY <1>5, Clear5 DEF Clear
  <2> QED BY <2>1, <2>2, <2>3
<1>6. CASE i = 6
  <2>1. c[1] = "perturbation" /\ c[2] = 0 /\ c[3] = 0
    BY <1>6 DEF Copied
  <2>2. Location(c[1], s) = perturbation_number_location(s)
    BY <2>1 DEF Location
  <2>3. Clear(perturbation_number_location(s), 0, 0, s.pdt, i = 2)
    BY <1>6, Clear6 DEF Clear
  <2> QED BY <2>1, <2>2, <2>3
<1>7. CASE i = 7
  <2>1. c[1] = "members" /\ c[2] = 0 /\ c[3] = 0
    BY <1>7 DEF Copied
  <2>2. Location(c[1], s) = number_of_forecasts_in_the_ensemble_location(s)
    BY <2>1 DEF Location
  <2>3. Clear(number_of_forecasts_in_the_ensemble_location(s), 0, 0, s.pdt, i = 2)
    BY <1>7, Clear7 DEF Clear
  <2> QED BY <2>1, <2>2, <2>3
<1>8. CASE i = 8
  <2>1. c[1] = "4.7" /\ c[2] = 0 /\ c[3] = 0
    BY <1>8 DEF Copied
  <2>2. Location(c[1], s) = code_table_4_7_location(s)
    BY <2>1 DEF Location
  <2>3. Clear(code_table_4_7_location(s), 0, 0, s.pdt, i = 2)
    BY <1>8, Clear8 DEF Clear
  <2> QED BY <2>1, <2>2, <2>3
<1>9. CASE i = 9
  <2>1. c[1] = "4.9" /\ c[2] = -2 /\ c[3] = 10
    BY <1>9 DEF Copied
  <2>2. Location(c[1], s) = code_table_4_9_location(s)
    BY <2>1 DEF Location
  <2>3. Clear(code_table_4_9_location(s), -2, 10, s.pdt, i = 2)
    BY <1>9, Clear9 DEF Clear
  <2> QED BY <2>1, <2>2, <2>3
<1>10. CASE i = 10
  <2>1. c[1] = "background" /\ c[2] = 0 /\ c[3] = 0
    BY <1>10 DEF Copied
  <2>2. Location(c[1], s) = background_generating_process_identifier_location(s)
    BY <2>1 DEF Location
  <2>3. Clear(background_generating_process_identifier_location(s), 0, 0, s.pdt, i = 2)
    BY <1>10, Clear10 DEF Clear
  <2> QED BY <2>1, <2>2, <2>3
<1>11. CASE i = 11
  <2>1. c[1] = "analysis" /\ c[2] = 0 /\ c[3] = 0
    BY <1>11 DEF Copied
  <2>2. Location(c[1], s) = analysis_or_forecast_generating_process_identifier_location(s)
    BY <2>1 DEF Location
  <2>3. Clear(analysis_or_forecast_generating_process_identifier_location(s), 0, 0, s.pdt, i = 2)
    BY <1>11, Clear11 DEF Clear
  <2> QED BY <2>1, <2>2, <2>3
<1>12. CASE i = 12
  <2>1. c[1] = "hours" /\ c[2] = 0 /\ c[3] = 1
    BY <1>12 DEF Copied
  <2>2. Location(c[1], s) = hours_of_observational_data_cutoff_after_reference_time_location(s)
    BY <2>1 DEF Location
  <2>3. Clear(hours_of_observational_data_cutoff_after_reference_time_location(s), 0, 1, s.pdt, i = 2)
    BY <1>12, Clear12 DEF Clear
  <2> QED BY <2>1, <2>2, <2>3
<1>13. CASE i = 13
  <2>1. c[1] = "minutes" /\ c[2] = 0 /\ c[3] = 0
    BY <1>13 DEF Copied
  <2>2. Location(c[1], s) = minutes_of_observational_data_cutoff_after_reference_time_location(s)
    BY <2>1 DEF Location
  <2>3. Clear(minutes_of_observational_data_cutoff_after_reference_time_location(s), 0, 0, s.pdt, i = 2)
    BY <1>13, Clear13 DEF Clear
  <2> QED BY <2>1, <2>2, <2>3
<1>14. CASE i = 14
  <2>1. c[1] = "observation" /\ c[2] = 0 /\ c[3] = 0
    BY <1>14 DEF Copied
  <2>2. Location(c[1], s) = observation_generating_process_identifier_location(s)
    BY <2>1 DEF Location
  <2>3. Clear(observation_generating_process_identifier_location(s), 0, 0, s.pdt, i = 2)
    BY <1>14, Clear14 DEF Clear
  <2> QED BY <2>1, <2>2, <2>3
<1>15. CASE i = 15
  <2>1. c[1] = "version" /\ c[2] = 0 /\ c[3] = 6
    BY <1>15 DEF Copied
  <2>2. Location(c[1], s) = year_of_model_version_date_location(s)
    BY <2>1 DEF Location
  <2>3. Clear(year_of_model_version_date_location(s), 0, 6, s.pdt, i = 2)
    BY <1>15, Clear15 DEF Clear
  <2> QED BY <2>1, <2>2, <2>3
<1>16. CASE i = 16
  <2>1. c[1] = "percentile" /\ c[2] = 0 /\ c[3] = 0
    BY <1>16 DEF Copied
  <2>2. Location(c[1], s) = percentile_value_location(s)
    BY <2>1 DEF Location
  <2>3. Clear(percentile_value_location(s), 0, 0, s.pdt, i = 2)
    BY <1>16, Clear16 DEF Clear
  <2> QED BY <2>1, <2>2, <2>3
<1>17. CASE i = 17
  <2>1. c[1] = "4.230" /\ c[2] = 0 /\ c[3] = 1
    BY <1>17 DEF Copied
  <2>2. Location(c[1], s) = code_table_4_230_location(s)
    BY <2>1 DEF Location
  <2>3. Clear(code_table_4_230_location(s), 0, 1, s.pdt, i = 2)
    BY <1>17, Clear17 DEF Clear
  <2> QED BY <2>1, <2>2, <2>3
<1>18. CASE i = 18
  <2>1. c[1] = "4.233" /\ c[2] = 0 /\ c[3] = 1
    BY <1>18 DEF Copied
  <2>2. Location(c[1], s) = code_table_4_233_location(s)
    BY <2>1 DEF Location
  <2>3. Clear(code_table_4_233_location(s), 0, 1, s.pdt, i = 2)
    BY <1>18, Clear18 DEF Clear
  <2> QED BY <2>1, <2>2, <2>3
<1>19. CASE i = 19
  <2>1. c[1] = "4.91" /\ c[2] = 0 /\ c[3] = 10
    BY <1>19 DEF Copied
  <2>2. Location(c[1], s) = code_table_4_91_location(s)
    BY <2>1 DEF Location
  <2>3. Clear(code_table_4_91_location(s), 0, 10, s.pdt, i = 2)
    BY <1>19, Clear19 DEF Clear
  <2> QED BY <2>1, <2>2, <2>3
<1>20. \/ i = 1 \/ i = 2 \/ i = 3 \/ i = 4 \/ i = 5 \/ i = 6 \/ i = 7 \/ i = 8 \/ i = 9 \/ i = 10
       \/ i = 11 \/ i = 12 \/ i = 13 \/ i = 14 \/ i = 15 \/ i = 16 \/ i = 17 \/ i = 18 \/ i = 19
  OBVIOUS
<1> QED BY ONLY <1>1, <1>2, <1>3, <1>4, <1>5, <1>6, <1>7, <1>8, <1>9, <1>10, <1>11, <1>12, <1>13, <1>14, <1>15, <1>16, <1>17, <1>18, <1>19, <1>20

-----------------------------------------------------------------------------
(* Items copied one after the other.                                       *)

ForecastCopied(t, s) ==
  \A k \in 1..4 : Octet(t, ForecastAt(t.pdt) + k) = Octet(s, ForecastAt(s.pdt) + k)

Kept(t, x) ==
  /\ Section(t) /\ KnownCounts(t) /\ t.pdt = x.pdt /\ t.ref = x.ref /\ Len4(t) = Len4(x)
  /\ t.status = "run" => x.status = "run"
  /\ x.pdt \in Ranging => \A k \in Int : k >= EndAt(x.pdt) => Octet(t, k) = Octet(x, k)

LEMMA KeptSelf == ASSUME NEW x, Section(x), KnownCounts(x) PROVE Kept(x, x)
BY DEF Kept

LEMMA KeptThen ==
  ASSUME NEW x, NEW y, NEW z, Kept(y, x), Kept(z, y)
  PROVE  Kept(z, x)
<1>1. /\ Section(z) /\ KnownCounts(z) /\ z.pdt = x.pdt /\ z.ref = x.ref /\ Len4(z) = Len4(x)
      /\ z.status = "run" => x.status = "run" /\ y.pdt = x.pdt
  BY DEF Kept
<1>2. ASSUME x.pdt \in Ranging, NEW k \in Int, k >= EndAt(x.pdt)
      PROVE  Octet(z, k) = Octet(x, k)
  <2>1. Octet(z, k) = Octet(y, k) /\ Octet(y, k) = Octet(x, k)
    BY <1>2 DEF Kept
  <2> QED BY <2>1
<1> QED BY <1>1, <1>2 DEF Kept

(* The octet of the count is not among those written.                      *)
LEMMA StillCounted ==
  ASSUME NEW s, Section(s), KnownCounts(s), NEW at, NEW v, NEW t, Stored(t, s, at, v),
         s.pdt \in Counting => CountAt(s.pdt) \notin at..(at + Len(v) - 1)
  PROVE  KnownCounts(t)
<1>1. /\ t.pdt = s.pdt /\ Section(t) /\ Len4(t) = Len4(s)
      /\ \A i \in Int : Octet(t, i) = IF i \in at..(at + Len(v) - 1) /\ i \in 9..(Len4(s) - 1)
                                       THEN v[i - at + 1] ELSE Octet(s, i)
  BY DEF Stored
<1>2. ASSUME s.pdt \in Counting PROVE t.oct[CountAt(s.pdt)] = s.oct[CountAt(s.pdt)]
  <2>1. PICK c \in 13..57 : c = CountAt(s.pdt)
    BY DEF CountAt
  <2>2. PICK l \in 9..151 : l = Len4(s) /\ Suits(s.pdt, l - 1)
    BY OctetIs
  <2>3. c \in 9..(l - 1)
    <3>1. s.pdt \in Counting => l - 1 >= CountAt(s.pdt)
      BY ONLY <2>2 DEF Suits
    <3>2. l - 1 >= c
      BY ONLY <1>2, <2>1, <3>1
    <3> QED BY ONLY <3>2, c \in 13..57, l \in 9..151
  <2>4. Octet(s, c) = s.oct[c] /\ Octet(t, c) = t.oct[c]
    <3>1. DOMAIN t.oct = 9..(Len4(t) - 1) /\ DOMAIN s.oct = 9..(Len4(s) - 1)
      BY <1>1, OctetIs
    <3> QED BY <1>1, <2>2, <2>3, <3>1 DEF Octet
  <2>5. Octet(t, c) = Octet(s, c)
    <3>1. c \in Int /\ c \notin at..(at + Len(v) - 1)
      BY <1>2, <2>1
    <3> QED BY <1>1, <3>1
  <2> QED BY <2>1, <2>4, <2>5
<1>3. 34 \in Counting /\ CountAt(34) = 22
  BY DEF Counting, CountAt
<1> QED BY <1>1, <1>2, <1>3 DEF KnownCounts

LEMMA OverrunIs ==
  ASSUME NEW x, Section(x), NEW t, t = Overrun(x) \/ t = Fatal(x)
  PROVE  /\ Section(t) /\ t.pdt = x.pdt /\ t.ref = x.ref /\ t.oct = x.oct /\ t.status # "run"
         /\ Len4(t) = Len4(x) /\ \A k : Octet(t, k) = Octet(x, k)
<1>1. PICK n \in 8..150 : x.oct \in [9..n -> Int] /\ Suits(x.pdt, n)
  BY SectionIs
<1>2. PICK a1, a2, a3, a4, a5, a6, a7 :
        /\ x = [status |-> a1, ref |-> a2, code12 |-> a3, code14 |-> a4, pdt |-> a5,
                jma |-> a6, oct |-> a7]
        /\ a6 = FALSE
  <2>1. x = [status |-> x.status, ref |-> x.ref, code12 |-> x.code12, code14 |-> x.code14,
             pdt |-> x.pdt, jma |-> x.jma, oct |-> x.oct] /\ x.jma = FALSE
    BY SectionIs
  <2> QED BY <2>1, Zenon
<1>3. PICK st \in {"fatal", "overrun"} :
        t = [status |-> st, ref |-> a2, code12 |-> a3, code14 |-> a4, pdt |-> a5,
             jma |-> FALSE, oct |-> a7]
  BY <1>2 DEF Overrun, Fatal
<1>4. x.ref = a2 /\ x.code12 = a3 /\ x.code14 = a4 /\ x.pdt = a5 /\ x.oct = a7
  BY <1>2
<1>5. a2 \in Nat /\ a3 \in 0..1 /\ a4 \in 0..1 /\ a5 \in Nat /\ a7 \in [9..n -> Int] /\ Suits(a5, n)
  BY <1>1, <1>4, SectionIs
<1>6. Section(t)
  BY <1>3, <1>5, SectionMade
<1>7. t.pdt = x.pdt /\ t.ref = x.ref /\ t.oct = x.oct /\ t.status # "run"
  BY <1>3, <1>4
<1>8. Len4(t) = Len4(x) /\ \A k : Octet(t, k) = Octet(x, k)
  BY <1>7 DEF Len4, Octet
<1> QED BY <1>6, <1>7, <1>8

(* One item.                                                               *)
LEMMA CopyStep ==
  ASSUME NEW old, Section(old), KnownCounts(old), NEW x, Section(x), KnownCounts(x),
         NEW i \in 1..19, NEW t, t = Copy(x, old, Copied[i])
  PROVE  /\ Kept(t, x)
         /\ x.pdt \in Ranging /\ old.pdt \in Ranging /\ t.status = "run" =>
              /\ i = 2 => ForecastCopied(t, old)
              /\ i > 2 /\ ForecastCopied(x, old) => ForecastCopied(t, old)
<1>1. PICK c : c = Copied[i]
  OBVIOUS
<1>2. PICK from, to : from = Location(c[1], old) /\ to = Location(c[1], x)
  OBVIOUS
<1>3. PICK lo \in -2..0, hi \in 0..10 : lo = c[2] /\ hi = c[3]
  BY <1>1, CopiedClear
<1>4. Clear(from, lo, hi, old.pdt, i = 2) /\ Clear(to, lo, hi, x.pdt, i = 2)
  BY <1>1, <1>2, <1>3, CopiedClear
<1>5. t = IF from = NULL \/ to = NULL THEN x
          ELSE IF to + hi >= Len4(x) THEN Overrun(x)
          ELSE [x EXCEPT !.oct = Store(@, to + lo, Octets(old, from + lo, hi - lo + 1))]
  BY <1>1, <1>2, <1>3 DEF Copy, CopyAt
<1>6. i = 2 /\ old.pdt \in Ranging => from = ForecastAt(old.pdt)
  <2>1. i = 2 => from = code_table_4_4_location(old)
    BY <1>1, <1>2 DEF Copied, Location
  <2> QED BY <2>1, ForecastPlace
<1>7. i = 2 /\ x.pdt \in Ranging => to = ForecastAt(x.pdt) /\ lo = 0 /\ hi = 4
  <2>1. i = 2 => to = code_table_4_4_location(x) /\ lo = 0 /\ hi = 4
    BY <1>1, <1>2, <1>3 DEF Copied, Location
  <2> QED BY <2>1, ForecastPlace
<1>8. \A p \in Ranging : ForecastAt(p) \in 17..30 /\ EndAt(p) \in 34..68
  BY DEF Ranging, ForecastAt, EndAt
<1>9. CASE from = NULL \/ to = NULL
  <2>1. t = x
    BY <1>5, <1>9
  <2>2. x.pdt \in Ranging /\ old.pdt \in Ranging => i # 2
    BY <1>6, <1>7, <1>8, <1>9 DEF NULL
  <2> QED BY <2>1, <2>2, KeptSelf
<1>10. CASE ~(from = NULL \/ to = NULL) /\ to + hi >= Len4(x)
  <2>1. t = Overrun(x)
    BY <1>5, <1>10
  <2>2. /\ Section(t) /\ t.pdt = x.pdt /\ t.ref = x.ref /\ t.oct = x.oct /\ t.status # "run"
        /\ Len4(t) = Len4(x) /\ \A k : Octet(t, k) = Octet(x, k)
    BY <2>1, OverrunIs
  <2>3. KnownCounts(t)
    BY <2>2 DEF KnownCounts
  <2> QED BY <2>2, <2>3 DEF Kept
<1>11. CASE ~(from = NULL \/ to = NULL) /\ ~(to + hi >= Len4(x))
  <2>0. from \in Int /\ to \in Int
    BY <1>4 DEF Clear
  <2>1. PICK v : v = Octets(old, from + lo, hi - lo + 1)
    OBVIOUS
  <2>2. /\ v \in Seq(Int) /\ Len(v) = hi - lo + 1
        /\ \A j \in 1..(hi - lo + 1) : v[j] = Octet(old, from + lo + j - 1)
    <3>1. from + lo \in Int /\ hi - lo + 1 \in Nat
      BY <2>0
    <3> QED BY <2>1, <3>1, OctetsIs
  <2>3. Stored(t, x, to + lo, v)
    <3>1. t = [x EXCEPT !.oct = Store(@, to + lo, v)]
      BY <1>5, <1>11, <2>1
    <3>2. to + lo \in Int
      BY <2>0
    <3> QED BY <2>2, <3>1, <3>2, StoredSection
  <2>4. /\ Section(t) /\ t.pdt = x.pdt /\ t.ref = x.ref /\ t.status = x.status
        /\ Len4(t) = Len4(x) /\ Len4(x) \in Int
    <3>1. Len4(x) \in 9..151
      BY OctetIs
    <3> QED BY <2>3, <3>1 DEF Stored
  <2>5. \A k \in Int : Octet(t, k) = IF k \in (to + lo)..(to + hi) /\ k \in 9..(Len4(x) - 1)
                                     THEN v[k - (to + lo) + 1] ELSE Octet(x, k)
    <3>1. (to + lo) + Len(v) - 1 = to + hi
      BY <2>0, <2>2
    <3> QED BY <2>3, <3>1 DEF Stored
  <2>6. KnownCounts(t)
    <3>1. x.pdt \in Counting => CountAt(x.pdt) \notin (to + lo)..((to + lo) + Len(v) - 1)
      <4>1. PICK o \in 13..57 : o = CountAt(x.pdt)
        BY DEF CountAt
      <4>2. x.pdt \in Counting => to + hi < o \/ to + lo > o
        BY <1>4, <1>11, <4>1 DEF Clear
      <4>3. to + hi < o \/ to + lo > o => o \notin (to + lo)..((to + lo) + Len(v) - 1)
        BY <2>0, <2>2
      <4> QED BY <4>1, <4>2, <4>3
    <3> QED BY <2>3, <3>1, StillCounted
  <2>7. ASSUME x.pdt \in Ranging, NEW k \in Int, k >= EndAt(x.pdt)
        PROVE  Octet(t, k) = Octet(x, k)
    <3>1. to + hi < EndAt(x.pdt) /\ EndAt(x.pdt) \in Int
      BY <1>4, <1>8, <1>11, <2>7 DEF Clear
    <3>2. ~(k <= to + hi)
      BY <2>0, <2>7, <3>1
    <3> QED BY <2>0, <2>5, <3>2
  <2>8. Kept(t, x)
    BY <2>4, <2>6, <2>7 DEF Kept
  <2>9. ASSUME x.pdt \in Ranging, old.pdt \in Ranging, i = 2, NEW k \in 1..4
        PROVE  Octet(t, ForecastAt(t.pdt) + k) = Octet(old, ForecastAt(old.pdt) + k)
    <3>1. to = ForecastAt(t.pdt) /\ from = ForecastAt(old.pdt) /\ lo = 0 /\ hi = 4 /\ to >= 17
      BY <1>6, <1>7, <1>8, <2>4, <2>9
    <3>2. to + k \in (to + lo)..(to + hi) /\ to + k \in 9..(Len4(x) - 1)
      BY <1>11, <2>0, <2>4, <3>1
    <3>3. Octet(t, to + k) = v[(to + k) - (to + lo) + 1]
      BY <2>0, <2>5, <3>2
    <3>4. (to + k) - (to + lo) + 1 = k + 1 /\ from + lo + (k + 1) - 1 = from + k
          /\ k + 1 \in 1..(hi - lo + 1)
      BY <2>0, <3>1
    <3>5. v[k + 1] = Octet(old, from + lo + (k + 1) - 1)
      BY ONLY <2>2, <3>4
    <3> QED BY <3>1, <3>3, <3>4, <3>5
  <2>10. ASSUME x.pdt \in Ranging, old.pdt \in Ranging, i > 2, ForecastCopied(x, old), NEW k \in 1..4
         PROVE  Octet(t, ForecastAt(t.pdt) + k) = Octet(old, ForecastAt(old.pdt) + k)
    <3>1. PICK f \in Int : f = ForecastAt(x.pdt)
      BY <1>8, <2>10
    <3>2. to + hi <= f \/ to + lo > f + 4
      BY <1>4, <1>11, <2>10, <3>1 DEF Clear
    <3>3. f + k \notin (to + lo)..(to + hi)
      BY <2>0, <3>2
    <3>4. Octet(t, f + k) = Octet(x, f + k)
      BY <2>5, <3>3
    <3>5. Octet(x, f + k) = Octet(old, ForecastAt(old.pdt) + k)
      BY <2>10, <3>1 DEF ForecastCopied
    <3> QED BY <2>4, <3>1, <3>4, <3>5
  <2> QED BY <2>8, <2>9, <2>10 DEF ForecastCopied
<1> QED BY <1>9, <1>10, <1>11

-----------------------------------------------------------------------------
(* All items.                                                              *)

Sections == {x \in UNION {Shape(n) : n \in 8..150} : Section(x) /\ KnownCounts(x)}

LEMMA InSections == ASSUME NEW x PROVE x \in Sections <=> Section(x) /\ KnownCounts(x)
BY DEF Sections, Section

(* What is left of the blank section x after i items.                      *)
After(t, x, old, i) ==
  /\ Kept(t, x)
  /\ x.pdt \in Ranging /\ old.pdt \in Ranging /\ t.status = "run" /\ i >= 2 => ForecastCopied(t, old)

LEMMA CopyAllIs ==
  ASSUME NEW old, Section(old), KnownCounts(old), NEW x, Section(x), KnownCounts(x)
  PROVE  After(CopyAll(x, old), x, old, 19)
<1> DEFINE Solves(u) == u = [i \in 0..Len(Copied) |->
                               IF i = 0 THEN x ELSE Copy(u[i - 1], old, Copied[i])]
           step == [i \in Nat |-> [y \in Sections |-> IF i \in 1..19 THEN Copy(y, old, Copied[i])
                                                      ELSE y]]
<1>0. Len(Copied) = 19
  BY DEF Copied
<1>1. PICK w : w = CHOOSE u : Solves(u)
  OBVIOUS
<1>2. CopyAll(x, old) = w[19]
  BY <1>0, <1>1 DEF CopyAll
<1>3. ASSUME NEW i \in 1..19, NEW y \in Sections PROVE Copy(y, old, Copied[i]) \in Sections
  BY CopyStep, InSections DEF Kept
<1>4. step \in [Nat -> [Sections -> Sections]]
  <2>1. \A i \in Nat, y \in Sections : (IF i \in 1..19 THEN Copy(y, old, Copied[i]) ELSE y) \in Sections
    BY <1>3
  <2> QED BY <2>1
<1>5. PICK g : Takes(g, Sections, x, step, 19)
  <2>1. Steps(Sections, x, step, 19)
    <3>1. x \in Sections
      BY InSections
    <3> HIDE DEF step
    <3> QED BY <1>4, <3>1 DEF Steps
  <2> HIDE DEF step
  <2> QED BY <2>1, StepFunction
<1>6. Solves(g)
  <2>1. g \in [0..19 -> Sections] /\ g[0] = x /\ \A i \in 1..19 : g[i] = step[i][g[i - 1]]
    <3> HIDE DEF step
    <3> QED BY <1>5 DEF Takes
  <2>2. \A i \in 1..19 : g[i] = Copy(g[i - 1], old, Copied[i])
    <3> SUFFICES ASSUME NEW i \in 1..19 PROVE g[i] = Copy(g[i - 1], old, Copied[i])
      OBVIOUS
    <3>1. i - 1 \in 0..19 /\ i \in Nat
      OBVIOUS
    <3>2. g[i - 1] \in Sections
      BY <2>1, <3>1
    <3>3. g[i] = step[i][g[i - 1]]
      <4> HIDE DEF step
      <4> QED BY <2>1
    <3> QED BY <3>1, <3>2, <3>3
  <2>3. \A i \in 0..19 : g[i] = IF i = 0 THEN x ELSE Copy(g[i - 1], old, Copied[i])
    <3>1. \A i \in 0..19 : i = 0 \/ i \in 1..19
      OBVIOUS
    <3> QED BY <2>1, <2>2, <3>1
  <2>4. g = [i \in 0..19 |-> g[i]]
    BY <2>1
  <2>5. g = [i \in 0..19 |-> IF i = 0 THEN x ELSE Copy(g[i - 1], old, Copied[i])]
    BY ONLY <2>3, <2>4
  <2> QED BY <1>0, <2>5
<1>7. Solves(w)
  <2> HIDE DEF Solves
  <2> QED BY <1>1, <1>6
<1>8. \A i \in 0..19 : w[i] = IF i = 0 THEN x ELSE Copy(w[i - 1], old, Copied[i])
  BY <1>0, <1>7
<1> DEFINE S == {i \in Nat : i <= 19 => After(w[i], x, old, i)}
<1>9. 0 \in S
  <2>1. w[0] = x
    BY <1>8
  <2> QED BY <2>1, KeptSelf DEF After
<1>10. ASSUME NEW j \in Nat, j \in S PROVE j + 1 \in S
  <2> SUFFICES ASSUME j + 1 <= 19 PROVE After(w[j + 1], x, old, j + 1)
    OBVIOUS
  <2>1. PICK i \in 1..19 : i = j + 1 /\ i - 1 = j
    OBVIOUS
  <2>2. PICK y, t : y = w[j] /\ t = w[i]
    OBVIOUS
  <2>3. t = Copy(y, old, Copied[i])
    <3>1. i \in 0..19 /\ i # 0
      OBVIOUS
    <3> QED BY <1>8, <2>1, <2>2, <3>1
  <2>4. After(y, x, old, j)
    BY <1>10, <2>2
  <2>5. Section(y) /\ KnownCounts(y) /\ y.pdt = x.pdt
    BY <2>4 DEF After, Kept
  <2>6. /\ Kept(t, y)
        /\ y.pdt \in Ranging /\ old.pdt \in Ranging /\ t.status = "run" =>
              /\ i = 2 => ForecastCopied(t, old)
              /\ i > 2 /\ ForecastCopied(y, old) => ForecastCopied(t, old)
    BY <2>3, <2>5, CopyStep
  <2>7. Kept(t, x)
    BY <2>4, <2>6, KeptThen DEF After
  <2>8. ASSUME x.pdt \in Ranging, old.pdt \in Ranging, t.status = "run", i >= 2
        PROVE  ForecastCopied(t, old)
    <3>1. CASE i = 2
      BY <2>5, <2>6, <2>8, <3>1
    <3>2. CASE i # 2
      <4>1. i > 2 /\ j >= 2
        BY <2>1, <2>8, <3>2
      <4>2. y.status = "run"
        BY <2>6, <2>8 DEF Kept
      <4>3. ForecastCopied(y, old)
        BY <2>4, <2>8, <4>1, <4>2 DEF After
      <4> QED BY <2>5, <2>6, <2>8, <4>1, <4>3
    <3> QED BY <3>1, <3>2
  <2> QED BY <2>1, <2>2, <2>7, <2>8 DEF After
<1>11. \A i \in Nat : i \in S
  <2> HIDE DEF S
  <2> QED BY <1>9, <1>10, SetInduction
<1>12. 19 \in S
  BY <1>11
<1> QED BY <1>2, <1>12

-----------------------------------------------------------------------------
(* A message is good when it is a section and, as long as it is not given  *)
(* up, ends its ranges where they should end.                              *)
Good(s) ==
  /\ Section(s)
  /\ s.status = "run" => KnownCounts(s) /\ (HasRanges(s) => Right(s))

LEMMA NoRanges ==
  ASSUME NEW s, Section(s), KnownCounts(s), s.pdt \notin Ranging
  PROVE  ~HasRanges(s) /\ (s.pdt # 34 => stat_proc_verf_time_location(s) = NULL)
<1>1. CASE s.pdt # 34
  BY <1>1, EndPlace DEF HasRanges
<1>2. CASE s.pdt = 34
  <2>1. stat_proc_verf_time_location(s) = 26 + 11 * s.oct[22] /\ s.oct[22] = 255
    BY <1>2, ThirtyFour DEF KnownCounts, Missing
  <2>2. stat_proc_verf_time_location(s) = 2831
    BY <2>1
  <2>3. Ranges(s) = Octet(s, 2838)
    BY <2>2 DEF Ranges, stat_proc_n_time_ranges_index, NULL
  <2>4. Octet(s, 2838) = Missing
    <3>1. Len4(s) \in 9..151 /\ \A i \in Int : i \notin 9..(Len4(s) - 1) => Octet(s, i) = Missing
      BY OctetIs
    <3>2. 2838 \in Int /\ 2838 \notin 9..(Len4(s) - 1)
      BY <3>1
    <3> QED BY <3>1, <3>2
  <2> QED BY <1>2, <2>3, <2>4 DEF HasRanges
<1> QED BY <1>1, <1>2

(* A section made anew.                                                    *)
IsBlank(x, s, pdt, size) ==
  /\ Section(x) /\ KnownCounts(x) /\ x.pdt = pdt /\ x.ref = s.ref /\ x.status = s.status
  /\ Len4(x) = size /\ \A k : Octet(x, k) = Missing

LEMMA BlankIs ==
  ASSUME NEW s, Section(s), NEW pdt \in Nat, NEW size \in 9..151, Suits(pdt, size - 1),
         NEW x, x = Blank(s, pdt, size)
  PROVE  IsBlank(x, s, pdt, size)
<1>1. PICK n \in 8..150 : n = size - 1
  OBVIOUS
<1>2. PICK o : o = [i \in 9..n |-> Missing]
  OBVIOUS
<1>3. o \in [9..n -> Int] /\ DOMAIN o = 9..n /\ \A i \in 9..n : o[i] = Missing
  BY <1>2 DEF Missing
<1>4. PICK a1, a2, a3, a4, a5, a6, a7 :
        /\ s = [status |-> a1, ref |-> a2, code12 |-> a3, code14 |-> a4, pdt |-> a5,
                jma |-> a6, oct |-> a7]
        /\ a6 = FALSE
  <2>1. s = [status |-> s.status, ref |-> s.ref, code12 |-> s.code12, code14 |-> s.code14,
             pdt |-> s.pdt, jma |-> s.jma, oct |-> s.oct] /\ s.jma = FALSE
    BY SectionIs
  <2> QED BY <2>1, Zenon
<1>5. x = [status |-> a1, ref |-> a2, code12 |-> a3, code14 |-> a4, pdt |-> pdt,
           jma |-> FALSE, oct |-> o]
  <2>1. x = [s EXCEPT !.pdt = pdt, !.oct = o]
    BY <1>1, <1>2 DEF Blank
  <2> QED BY <1>4, <2>1
<1>6. s.status = a1 /\ s.ref = a2 /\ s.code12 = a3 /\ s.code14 = a4
  BY <1>4
<1>7. Section(x)
  <2>1. a1 \in {"run", "fatal", "overrun"} /\ a2 \in Nat /\ a3 \in 0..1 /\ a4 \in 0..1
    BY <1>6, SectionIs
  <2>2. Suits(pdt, n)
    BY <1>1
  <2>3. Section([status |-> a1, ref |-> a2, code12 |-> a3, code14 |-> a4, pdt |-> pdt,
                 jma |-> FALSE, oct |-> o])
    BY ONLY <1>3, <2>1, <2>2, n \in 8..150, pdt \in Nat, SectionMade
  <2> QED BY <1>5, <2>3
<1>8. x.pdt = pdt /\ x.ref = s.ref /\ x.status = s.status /\ x.oct = o
  BY <1>5, <1>6
<1>9. Len4(x) = size
  <2>1. Len4(x) = n + 1
    BY <1>3, <1>8, Len4Is
  <2> QED BY <1>1, <2>1
<1>10. \A k : Octet(x, k) = Missing
  BY <1>3, <1>8 DEF Octet
<1>11. KnownCounts(x)
  <2>1. x.pdt \in Counting => x.oct[CountAt(x.pdt)] = Missing
    <3>1. PICK c \in 13..57 : c = CountAt(x.pdt)
      BY DEF CountAt
    <3>2. x.pdt \in Counting => c \in 9..n
      BY <1>1, <1>8, <3>1 DEF Suits
    <3> QED BY <1>3, <1>8, <3>1, <3>2
  <2>2. 34 \in Counting /\ CountAt(34) = 22 /\ Missing \in Nat
    BY DEF Counting, CountAt, Missing
  <2> QED BY <2>1, <2>2 DEF KnownCounts
<1> QED BY <1>7, <1>8, <1>9, <1>10, <1>11 DEF IsBlank

(* How short a section may be.                                             *)
LEMMA SmallestIs ==
  ASSUME NEW p \in Nat
  PROVE  /\ smallest_pdt_len(p) \in -1..92
         /\ \A n \in Int : n >= smallest_pdt_len(p) - 1 /\ n <= 140 => Suits(p, n)
<1> DEFINE rows ==
        {<<{0, 7, 32, 1100}, 34>>, <<{1, 15, 33}, 37>>, <<{2, 40}, 36>>, <<{3, 61}, 68>>,
         <<{4}, 64>>, <<{5, 51}, 47>>, <<{6, 91}, 35>>, <<{8, 48}, 58>>, <<{9, 46}, 71>>,
         <<{10}, 59>>, <<{11, 34}, 61>>, <<{12, 42}, 60>>, <<{13}, 92>>, <<{14}, 88>>,
         <<{20, 54, 57}, 43>>, <<{30}, 14>>, <<{31}, 25>>, <<{41}, 39>>, <<{43}, 63>>,
         <<{44}, 45>>, <<{45, 1101}, 50>>, <<{47}, 74>>, <<{52}, 31>>, <<{53}, 40>>,
         <<{60}, 44>>, <<{254}, 15>>, <<{1000}, 22>>, <<{1001}, 38>>}
<1>1. smallest_pdt_len(p) = Place(rows, p)
  BY DEF smallest_pdt_len
<1>2. ASSUME NEW r \in rows
      PROVE  /\ r[2] \in -1..92
             /\ p \in r[1] => /\ p \in {0, 1, 8, 11} => r[2] >= 34
                              /\ p \in {33, 34, 57} => r[2] >= 37
                              /\ p \in Counting => r[2] >= CountAt(p) + 1
                              /\ p \in Ranging => r[2] >= EndAt(p) + 8
  BY DEF Counting, CountAt, Ranging, EndAt
<1>3. p \in {0, 1, 8, 11, 33, 34, 57} \cup Counting \cup Ranging => \E r \in rows : p \in r[1]
  BY DEF Counting, Ranging
<1>6. CountAt(p) \in Int /\ (p \in Ranging => EndAt(p) \in Int)
  BY DEF CountAt, Ranging, EndAt
<1> HIDE DEF rows
<1>4. CASE \E r \in rows : p \in r[1]
  <2>1. PICK r \in rows : p \in r[1] /\ Place(rows, p) = r[2]
    BY <1>4, PlaceIs
  <2>2. smallest_pdt_len(p) = r[2]
    BY <1>1, <2>1
  <2> QED BY <1>2, <1>6, <2>1, <2>2 DEF Suits
<1>5. CASE ~(\E r \in rows : p \in r[1])
  <2>1. smallest_pdt_len(p) = -1
    BY <1>1, <1>5, PlaceIs DEF NULL
  <2> QED BY <1>3, <1>5, <2>1 DEF Suits
<1> QED BY <1>4, <1>5

(* What a good message says of its ranges.                                 *)
LEMMA RangesOf ==
  ASSUME NEW s, Good(s), s.status = "run"
  PROVE  /\ Ranges(s) \in {0, 1, 2, Missing}
         /\ stat_proc_verf_time_location(s) = NULL => Ranges(s) = 0
         /\ HasRanges(s) => Ranges(s) \in 1..2
<1>1. CASE stat_proc_verf_time_location(s) = NULL
  <2>1. Ranges(s) = 0
    BY <1>1 DEF Ranges, stat_proc_n_time_ranges_index
  <2> QED BY <1>1, <2>1 DEF HasRanges
<1>2. CASE stat_proc_verf_time_location(s) # NULL
  BY <1>2 DEF HasRanges, Good, Right
<1> QED BY <1>1, <1>2

-----------------------------------------------------------------------------
(* -set_pdt.                                                               *)

(* The ranges of a section: the block of s, or nothing.                    *)
FromOld(y, s) ==
  /\ s.pdt \in Ranging /\ Right(s)
  /\ y.pdt \in Ranging =>
       \A k \in 0..(11 + 12 * Ranges(s)) : Octet(y, EndAt(y.pdt) + k) = Octet(s, EndAt(s.pdt) + k)

LEMMA CopyRangesIs ==
  ASSUME NEW s, Good(s), s.status = "run",
         NEW x, Section(x), KnownCounts(x), x.ref = s.ref, \A k : Octet(x, k) = Missing,
         NEW y, y = CopyRanges(x, s)
  PROVE  /\ Section(y) /\ KnownCounts(y) /\ y.pdt = x.pdt /\ y.ref = x.ref
         /\ y.status = "run" => FromOld(y, s) \/ \A k : Octet(y, k) = Missing
<1> DEFINE room == IF stat_proc_verf_time_location(x) = NULL THEN 0
                   ELSE (Len4(x) - smallest_pdt_len(x.pdt)) \div 12 + 1
           c == <<"ranges", 0, 23 + 12 * (Ranges(s) - 1)>>
<1>1. y = IF stat_proc_verf_time_location(s) # NULL /\ Ranges(s) <= room THEN Copy(x, s, c) ELSE x
  BY DEF CopyRanges
<1>2. CASE ~(stat_proc_verf_time_location(s) # NULL /\ Ranges(s) <= room)
  <2>1. y = x
    BY <1>1, <1>2
  <2> QED BY <2>1
<1>3. CASE stat_proc_verf_time_location(s) # NULL /\ Ranges(s) <= room
  <2>0. Len4(x) \in 9..151 /\ Len4(s) \in 9..151 /\ Section(s) /\ KnownCounts(s)
    BY OctetIs DEF Good
  <2>1. room \in Int /\ room <= 14
    <3>1. PICK a \in 9..151, b \in -1..92 : a = Len4(x) /\ b = smallest_pdt_len(x.pdt)
      BY <2>0, SmallestIs, SectionIs
    <3>2. (a - b) \div 12 + 1 \in Int /\ (a - b) \div 12 + 1 <= 14
      OBVIOUS
    <3> QED BY <3>1, <3>2
  <2>2. HasRanges(s)
    <3>1. Ranges(s) # Missing
      <4> HIDE DEF room
      <4> QED BY <1>3, <2>1 DEF Missing
    <3> QED BY <1>3, <3>1 DEF HasRanges
  <2>3. Right(s) /\ s.pdt \in Ranging /\ Ranges(s) \in 1..2
    BY <2>2 DEF Good, Right
  <2>4. stat_proc_verf_time_location(x) # NULL
    BY <1>3, <2>3
  <2>5. x.pdt \in Ranging \/ x.pdt = 34
    BY <2>4, NoRanges
  <2>6. PICK n \in 1..2 : n = Ranges(s)
    BY <2>3
  <2>7. PICK from \in Int : from = stat_proc_verf_time_location(s) /\ from = EndAt(s.pdt) /\ from >= 34
    <3>1. stat_proc_verf_time_location(s) = EndAt(s.pdt) /\ EndAt(s.pdt) \in 34..68
      BY <2>0, <2>3, RangedIs
    <3> QED BY <3>1
  <2>8. PICK to \in Int : /\ to = stat_proc_verf_time_location(x) /\ to >= 34
                          /\ x.pdt \in Ranging => to = EndAt(x.pdt)
    <3>1. CASE x.pdt \in Ranging
      <4>1. stat_proc_verf_time_location(x) = EndAt(x.pdt) /\ EndAt(x.pdt) \in 34..68
        BY <3>1, RangedIs
      <4> QED BY <4>1
    <3>2. CASE x.pdt = 34
      <4>1. stat_proc_verf_time_location(x) = 26 + 11 * x.oct[22] /\ x.oct[22] = 255
        BY <3>2, ThirtyFour DEF KnownCounts, Missing
      <4>2. stat_proc_verf_time_location(x) = 2831 /\ x.pdt \notin Ranging
        BY <3>2, <4>1 DEF Ranging
      <4> QED BY <4>2
    <3> QED BY <2>5, <3>1, <3>2
  <2>9. PICK hi \in Int : hi = 11 + 12 * n
    OBVIOUS
  <2>10. y = IF to + hi >= Len4(x) THEN Overrun(x)
             ELSE [x EXCEPT !.oct = Store(@, to + 0, Octets(s, from + 0, hi - 0 + 1))]
    <3>1. c[1] = "ranges" /\ c[2] = 0 /\ c[3] = hi
      BY <2>6, <2>9
    <3>2. Location(c[1], s) = from /\ Location(c[1], x) = to
      BY <2>7, <2>8, <3>1 DEF Location
    <3>3. from # NULL /\ to # NULL
      BY <2>7, <2>8 DEF NULL
    <3>4. y = CopyAt(x, s, c, from, to)
      BY <1>1, <1>3, <3>2 DEF Copy
    <3> HIDE DEF c
    <3> QED BY <3>1, <3>3, <3>4 DEF CopyAt
  <2>11. CASE to + hi >= Len4(x)
    <3>1. /\ Section(y) /\ y.pdt = x.pdt /\ y.ref = x.ref /\ y.oct = x.oct /\ y.status # "run"
      BY <2>10, <2>11, OverrunIs
    <3> QED BY <3>1 DEF KnownCounts
  <2>12. CASE ~(to + hi >= Len4(x))
    <3>1. PICK v : v = Octets(s, from + 0, hi - 0 + 1)
      OBVIOUS
    <3>2. v \in Seq(Int) /\ Len(v) = hi + 1 /\ \A j \in 1..(hi + 1) : v[j] = Octet(s, from + j - 1)
      <4>1. from + 0 = from /\ hi - 0 + 1 = hi + 1 /\ hi + 1 \in Nat
        BY <2>9
      <4> QED BY <2>0, <3>1, <4>1, OctetsIs
    <3>3. Stored(y, x, to, v)
      <4>1. y = [x EXCEPT !.oct = Store(@, to, v)]
        BY <2>10, <2>12, <3>1
      <4> QED BY <3>2, <4>1, StoredSection
    <3>4. Section(y) /\ y.pdt = x.pdt /\ y.ref = x.ref
      BY <3>3 DEF Stored
    <3>5. KnownCounts(y)
      <4>1. x.pdt \in Counting => CountAt(x.pdt) = 22
        BY <2>5 DEF Counting, CountAt, Ranging
      <4>2. 22 \notin to..(to + Len(v) - 1)
        BY <2>8
      <4> QED BY <3>3, <4>1, <4>2, StillCounted
    <3>6. ASSUME y.pdt \in Ranging, NEW k \in 0..(11 + 12 * Ranges(s))
          PROVE  Octet(y, EndAt(y.pdt) + k) = Octet(s, EndAt(s.pdt) + k)
      <4>1. k \in 0..hi /\ k \in Int
        BY <2>6, <2>9
      <4>2. to + k \in to..(to + Len(v) - 1) /\ to + k \in 9..(Len4(x) - 1) /\ (to + k) - to + 1 = k + 1
            /\ k + 1 \in 1..(hi + 1) /\ from + (k + 1) - 1 = from + k
        <5>1. PICK l \in Int, m \in Int : l = Len4(x) /\ m = Len(v) /\ m = hi + 1
          <6>1. Len4(x) \in Int /\ hi + 1 \in Int /\ Len(v) = hi + 1
            <7>1. Len4(x) \in Int
              BY ONLY <2>0
            <7>2. Len(v) = hi + 1
              BY ONLY <3>2
            <7> QED BY ONLY <7>1, <7>2, hi \in Int
          <6> QED BY ONLY <6>1
        <5>2. to + k <= l - 1 /\ to + k >= 9 /\ to + k <= to + m - 1
          BY ONLY <2>8, <2>12, <4>1, <5>1, hi \in Int, to \in Int
        <5>3. (to + k) - to + 1 = k + 1 /\ k + 1 \in 1..(hi + 1) /\ from + (k + 1) - 1 = from + k
          BY ONLY <4>1, hi \in Int, to \in Int, from \in Int
        <5> QED BY ONLY <4>1, <5>1, <5>2, <5>3, to \in Int
      <4>3. Octet(y, to + k) = v[(to + k) - to + 1]
        BY <3>3, <4>2 DEF Stored
      <4>4. v[k + 1] = Octet(s, from + (k + 1) - 1)
        BY ONLY <3>2, <4>2
      <4> QED BY <2>7, <2>8, <3>4, <3>6, <4>2, <4>3, <4>4
    <3> QED BY <2>3, <3>4, <3>5, <3>6 DEF FromOld
  <2> QED BY <2>11, <2>12
<1> QED BY <1>2, <1>3

-----------------------------------------------------------------------------
LEMMA GivenUp ==
  ASSUME NEW s, Section(s), NEW t, t = Fatal(s) \/ t = Overrun(s)
  PROVE  Good(t)
BY OverrunIs DEF Good

(* A section whose ranges are those of a good one, with its forecast time. *)
LEMMA CarriedGood ==
  ASSUME NEW s, Good(s), NEW t, Section(t), KnownCounts(t), t.ref = s.ref,
         HasRanges(t) => FromOld(t, s) /\ (s.pdt \in Ranging => ForecastCopied(t, s))
  PROVE  Good(t)
<1> SUFFICES ASSUME HasRanges(t) PROVE Right(t)
  BY DEF Good
<1>1. t.pdt \in Ranging
  BY NoRanges
<1>2. s.pdt \in Ranging /\ Right(s) /\ FromOld(t, s) /\ ForecastCopied(t, s)
  BY DEF FromOld
<1>3. SameBlock(t, t.pdt, s, s.pdt)
  BY <1>1, <1>2 DEF SameBlock, FromOld, ForecastCopied
<1>4. PICK p \in Ranging, q \in Ranging : p = s.pdt /\ q = t.pdt
  BY <1>1, <1>2
<1>5. Section(s) /\ Right(s) /\ SameBlock(t, q, s, p)
  BY <1>2, <1>3, <1>4 DEF Good
<1> QED BY <1>4, <1>5, SameRight

LEMMA CopyItemsGood ==
  ASSUME NEW s, Good(s), s.status = "run",
         NEW n, Section(n), KnownCounts(n), n.ref = s.ref,
         n.status = "run" => FromOld(n, s) \/ (n.pdt \in Ranging => Octet(n, EndAt(n.pdt) + 7) = Missing)
  PROVE  Good(CopyItems(n, s))
<1>0. Section(s) /\ KnownCounts(s)
  BY DEF Good
<1>1. CASE BadModes(s) \/ BadModes(n)
  <2>1. CopyItems(n, s) = Fatal(s)
    BY <1>1 DEF CopyItems
  <2> QED BY <1>0, <2>1, GivenUp
<1>2. CASE ~(BadModes(s) \/ BadModes(n)) /\ Beyond(n, s)
  <2>1. CopyItems(n, s) = Overrun(s)
    BY <1>2 DEF CopyItems
  <2> QED BY <1>0, <2>1, GivenUp
<1>3. CASE ~(BadModes(s) \/ BadModes(n)) /\ ~Beyond(n, s)
  <2>1. PICK t : t = CopyAll(n, s)
    OBVIOUS
  <2>2. CopyItems(n, s) = t
    BY <1>3, <2>1 DEF CopyItems
  <2>3. After(t, n, s, 19)
    BY <1>0, <2>1, CopyAllIs
  <2>4. Section(t) /\ KnownCounts(t) /\ t.pdt = n.pdt /\ t.ref = s.ref
    BY <2>3 DEF After, Kept
  <2>5. CASE t.status # "run"
    BY <2>2, <2>4, <2>5 DEF Good
  <2>6. CASE t.status = "run"
    <3>1. n.status = "run"
      BY <2>3, <2>6 DEF After, Kept
    <3>2. t.pdt \in Ranging /\ s.pdt \in Ranging => ForecastCopied(t, s)
      BY <2>3, <2>4, <2>6 DEF After
    <3>3. ASSUME t.pdt \in Ranging, NEW k \in Nat
          PROVE  Octet(t, EndAt(t.pdt) + k) = Octet(n, EndAt(n.pdt) + k)
      <4>1. EndAt(n.pdt) \in Int /\ n.pdt \in Ranging
        BY <2>4, <3>3 DEF EndAt, Ranging
      <4>2. EndAt(n.pdt) + k \in Int /\ EndAt(n.pdt) + k >= EndAt(n.pdt)
        BY <4>1
      <4> QED BY <2>3, <2>4, <4>1, <4>2 DEF After, Kept
    <3>4. ASSUME HasRanges(t) PROVE FromOld(t, s) /\ (s.pdt \in Ranging => ForecastCopied(t, s))
      <4>1. t.pdt \in Ranging
        BY <2>4, <3>4, NoRanges
      <4>2. PICK q \in Ranging : q = t.pdt
        BY <4>1
      <4>3. Octet(t, EndAt(q) + 7) # Missing
        BY <2>4, <3>4, <4>2, RangedIs
      <4>4. Octet(t, EndAt(t.pdt) + 7) = Octet(n, EndAt(n.pdt) + 7)
        BY <3>3, <4>1
      <4>5. FromOld(n, s)
        BY <2>4, <3>1, <4>1, <4>2, <4>3, <4>4
      <4>6. Ranges(s) \in 1..2 /\ s.pdt \in Ranging
        BY <4>5 DEF FromOld, Right
      <4>7. \A k \in 0..(11 + 12 * Ranges(s)) : k \in Nat
        BY <4>6
      <4>8. \A k \in 0..(11 + 12 * Ranges(s)) :
              Octet(t, EndAt(t.pdt) + k) = Octet(s, EndAt(s.pdt) + k)
        BY <2>4, <3>3, <4>1, <4>5, <4>7 DEF FromOld
      <4> QED BY <3>2, <4>1, <4>5, <4>8 DEF FromOld
    <3>5. Good(t)
      BY <2>4, <3>4, CarriedGood
    <3> QED BY <2>2, <3>5
  <2> QED BY <2>2, <2>5, <2>6
<1> QED BY <1>1, <1>2, <1>3

LEMMA FilledGood ==
  ASSUME NEW s, Good(s), s.status = "run", NEW x, Section(x), KnownCounts(x), x.ref = s.ref,
         \A k : Octet(x, k) = Missing, NEW copy \in BOOLEAN
  PROVE  Good(FilledPdt(s, x, copy))
<1>1. CASE ~copy
  <2>1. FilledPdt(s, x, copy) = x
    BY <1>1 DEF FilledPdt
  <2>2. ~HasRanges(x)
    <3>1. CASE x.pdt \in Ranging
      <4>1. PICK q \in Ranging : q = x.pdt
        BY <3>1
      <4> QED BY <4>1, RangedIs
    <3> QED BY <3>1, NoRanges
  <2> QED BY <2>1, <2>2 DEF Good
<1>2. CASE copy
  <2>1. PICK y : y = CopyRanges(x, s)
    OBVIOUS
  <2>2. /\ Section(y) /\ KnownCounts(y) /\ y.pdt = x.pdt /\ y.ref = x.ref
        /\ y.status = "run" => FromOld(y, s) \/ \A k : Octet(y, k) = Missing
    BY <2>1, CopyRangesIs
  <2>3. PICK v : v = Octets(s, 9, 2)
    OBVIOUS
  <2>4. v \in Seq(Int) /\ Len(v) = 2
    <3>1. Section(s) /\ 9 \in Int /\ 2 \in Nat
      BY DEF Good
    <3> QED BY <2>3, <3>1, OctetsIs
  <2>5. PICK n : n = [y EXCEPT !.oct = Store(@, 9, v)]
    OBVIOUS
  <2>6. Stored(n, y, 9, v)
    <3>1. 9 \in Int
      OBVIOUS
    <3>2. Section(y) /\ v \in Seq(Int)
      BY <2>2, <2>4
    <3> QED BY ONLY <2>5, <3>1, <3>2, StoredSection
  <2>7. Section(n) /\ n.pdt = y.pdt /\ n.ref = y.ref /\ n.status = y.status
    BY <2>6 DEF Stored
  <2>8. KnownCounts(n)
    <3>1. CountAt(y.pdt) \notin 9..(9 + Len(v) - 1)
      BY <2>4 DEF CountAt
    <3> QED BY <2>2, <2>6, <3>1, StillCounted
  <2>9. ASSUME n.pdt \in Ranging, NEW k \in Nat
        PROVE  Octet(n, EndAt(n.pdt) + k) = Octet(y, EndAt(y.pdt) + k)
    <3>1. EndAt(n.pdt) \in 34..68
      BY <2>9 DEF Ranging, EndAt
    <3>2. EndAt(n.pdt) + k \in Int /\ EndAt(n.pdt) + k \notin 9..(9 + Len(v) - 1)
      <4>1. PICK e \in Int : e = EndAt(n.pdt) /\ e >= 34
        BY <3>1
      <4>2. e + k \in Int /\ e + k \notin 9..(9 + 2 - 1)
        BY ONLY <4>1, k \in Nat
      <4> QED BY <2>4, <4>1, <4>2
    <3> QED BY <2>6, <2>7, <3>2 DEF Stored
  <2>10. ASSUME n.status = "run"
         PROVE  FromOld(n, s) \/ (n.pdt \in Ranging => Octet(n, EndAt(n.pdt) + 7) = Missing)
    <3>1. CASE FromOld(y, s)
      <4>1. \A k \in 0..(11 + 12 * Ranges(s)) : k \in Nat
        BY <3>1 DEF FromOld, Right
      <4> QED BY <2>7, <2>9, <3>1, <4>1 DEF FromOld
    <3>2. CASE \A k : Octet(y, k) = Missing
      BY <2>9, <3>2
    <3> QED BY <2>2, <2>7, <2>10, <3>1, <3>2
  <2>11. FilledPdt(s, x, copy) = CopyItems(n, s)
    BY <1>2, <2>1, <2>3, <2>5 DEF FilledPdt
  <2>12. n.ref = s.ref
    BY <2>2, <2>7
  <2> QED BY <2>7, <2>8, <2>10, <2>11, <2>12, CopyItemsGood
<1> QED BY <1>1, <1>2

LEMMA NewPdtGood ==
  ASSUME NEW s, Good(s), s.status = "run", NEW pdt \in Nat, NEW copy \in BOOLEAN,
         NEW len \in Int, len > 0 => len <= 141 /\ Suits(pdt, len - 1)
  PROVE  Good(f_set_pdt(s, pdt, len, copy))
<1>0. Section(s)
  BY DEF Good
<1>1. PICK size : size = PdtSize(s, pdt, len, copy)
  OBVIOUS
<1>2. f_set_pdt(s, pdt, len, copy)
      = IF Room(size) THEN FilledPdt(s, Blank(s, pdt, size), copy) ELSE Fatal(s)
  BY <1>1 DEF f_set_pdt, new_pdt
<1>3. CASE ~Room(size)
  BY <1>0, <1>2, <1>3, GivenUp
<1>4. CASE Room(size)
  <2>1. size \in 9..141 /\ Suits(pdt, size - 1)
    <3>1. CASE len > 0
      BY <1>1, <1>4, <3>1 DEF PdtSize, Room
    <3>2. CASE ~(len > 0)
      <4>1. PICK m \in -1..92 : m = smallest_pdt_len(pdt)
        BY SmallestIs
      <4>2. PICK r \in {0, 1, 2, Missing} : r = Ranges(s)
        BY RangesOf
      <4>3. size = m + (IF copy /\ r > 0 THEN 12 * (r - 1) ELSE 0)
        BY <1>1, <3>2, <4>1, <4>2 DEF PdtSize
      <4>4. size \in {m, m + 12}
        BY <1>4, <4>3 DEF Room, BufferSize, Missing
      <4>5. size \in 9..141 /\ size - 1 >= m - 1 /\ size - 1 <= 140 /\ size - 1 \in Int
        BY <1>4, <4>4 DEF Room
      <4> QED BY <4>1, <4>5, SmallestIs
    <3> QED BY <3>1, <3>2
  <2>2. PICK x : x = Blank(s, pdt, size)
    OBVIOUS
  <2>3. /\ Section(x) /\ KnownCounts(x) /\ x.pdt = pdt /\ x.ref = s.ref
        /\ \A k : Octet(x, k) = Missing
    <3>1. size \in 9..151
      BY <2>1
    <3>2. Suits(pdt, size - 1)
      BY <2>1
    <3>3. IsBlank(x, s, pdt, size)
      BY ONLY <1>0, <2>2, <3>1, <3>2, pdt \in Nat, BlankIs
    <3> QED BY <3>3 DEF IsBlank
  <2> QED BY <1>2, <1>4, <2>2, <2>3, FilledGood
<1> QED BY <1>3, <1>4

-----------------------------------------------------------------------------
(* A section with other fields.                                            *)
IsRecord(s, a1, a2, a3, a4, a5, a7) ==
  s = [status |-> a1, ref |-> a2, code12 |-> a3, code14 |-> a4, pdt |-> a5, jma |-> FALSE,
       oct |-> a7]

HasFields(t, a1, a2, a5, n, a7) ==
  Section(t) /\ t.status = a1 /\ t.ref = a2 /\ t.pdt = a5 /\ t.oct = a7 /\ Len4(t) = n + 1

LEMMA RecordOf ==
  ASSUME NEW s, Section(s)
  PROVE  IsRecord(s, s.status, s.ref, s.code12, s.code14, s.pdt, s.oct)
BY SectionIs DEF IsRecord

LEMMA FieldsAre ==
  ASSUME NEW a1 \in {"run", "fatal", "overrun"}, NEW a2 \in Nat, NEW a3 \in 0..1, NEW a4 \in 0..1,
         NEW a5 \in Nat, NEW n \in 8..150, Suits(a5, n), NEW a7 \in [9..n -> Int],
         NEW t, IsRecord(t, a1, a2, a3, a4, a5, a7)
  PROVE  HasFields(t, a1, a2, a5, n, a7)
<1>1. Section([status |-> a1, ref |-> a2, code12 |-> a3, code14 |-> a4, pdt |-> a5,
               jma |-> FALSE, oct |-> a7])
  BY SectionMade
<1>2. Section(t) /\ t.status = a1 /\ t.ref = a2 /\ t.pdt = a5 /\ t.oct = a7
  BY <1>1 DEF IsRecord
<1>3. Len4(t) = n + 1
  BY <1>2, Len4Is
<1> QED BY <1>2, <1>3 DEF HasFields

(* Another template and other octets.                                      *)
LEMMA ChangedIs ==
  ASSUME NEW s, Section(s), NEW p \in Nat, NEW n \in 8..150, Suits(p, n), NEW o \in [9..n -> Int],
         NEW t, t = [s EXCEPT !.pdt = p, !.oct = o]
  PROVE  HasFields(t, s.status, s.ref, p, n, o)
<1>1. PICK a1, a2, a3, a4, a5, a7 :
        /\ IsRecord(s, a1, a2, a3, a4, a5, a7)
        /\ a1 = s.status /\ a2 = s.ref /\ a3 = s.code12 /\ a4 = s.code14
  BY RecordOf
<1>2. IsRecord(t, a1, a2, a3, a4, p, o)
  BY <1>1 DEF IsRecord
<1>3. a1 \in {"run", "fatal", "overrun"} /\ a2 \in Nat /\ a3 \in 0..1 /\ a4 \in 0..1
  BY <1>1, SectionIs
<1>4. HasFields(t, a1, a2, p, n, o)
  BY <1>2, <1>3, FieldsAre
<1> QED BY <1>1, <1>4

(* The octets of a section that are not said otherwise.                    *)
LEMMA OctetOf ==
  ASSUME NEW s, NEW n \in Int, s.oct \in [9..n -> Int], NEW i
  PROVE  Octet(s, i) = IF i \in 9..n THEN s.oct[i] ELSE Missing
BY DEF Octet

(* Sections that differ where it does not matter.                          *)
LEMMA SameGood ==
  ASSUME NEW s, Good(s), s.status = "run", NEW t, Section(t), KnownCounts(t), t.ref = s.ref,
         t.pdt \in Ranging =>
           /\ s.pdt \in Ranging /\ ForecastCopied(t, s)
           /\ \A k \in Nat : Octet(t, EndAt(t.pdt) + k) = Octet(s, EndAt(s.pdt) + k)
  PROVE  Good(t)
<1>0. Section(s)
  BY DEF Good
<1>1. ASSUME HasRanges(t) PROVE FromOld(t, s) /\ (s.pdt \in Ranging => ForecastCopied(t, s))
  <2>1. t.pdt \in Ranging
    BY <1>1, NoRanges
  <2>2. /\ s.pdt \in Ranging /\ ForecastCopied(t, s)
        /\ \A k \in Nat : Octet(t, EndAt(t.pdt) + k) = Octet(s, EndAt(s.pdt) + k)
    BY <2>1
  <2>3. PICK p \in Ranging, q \in Ranging : p = s.pdt /\ q = t.pdt
    BY <2>1, <2>2
  <2>4. Octet(t, EndAt(q) + 7) # Missing
    BY <1>1, <2>3, RangedIs
  <2>5. Octet(s, EndAt(p) + 7) # Missing
    BY <2>2, <2>3, <2>4
  <2>6. HasRanges(s)
    BY <1>0, <2>3, <2>5, RangedIs
  <2>7. Right(s) /\ Ranges(s) \in 1..2
    BY <2>6 DEF Good, Right
  <2>8. \A k \in 0..(11 + 12 * Ranges(s)) : k \in Nat
    BY <2>7
  <2> QED BY <2>2, <2>7, <2>8 DEF FromOld
<1> QED BY <1>1, CarriedGood

(* Octets put where neither the forecast time nor the ranges are.          *)
LEMMA PutGood ==
  ASSUME NEW s, Good(s), s.status = "run", NEW at, NEW lo \in Int, NEW hi \in Int,
         Clear(at, lo, hi, s.pdt, FALSE), at # NULL,
         NEW v \in Seq(Int), Len(v) = hi - lo + 1, NEW t, t = [s EXCEPT !.oct = Store(@, at + lo, v)]
  PROVE  Good(t)
<1>0. Section(s) /\ KnownCounts(s) /\ at \in Int
  BY DEF Good, Clear
<1>1. Stored(t, s, at + lo, v)
  <2>1. at + lo \in Int
    BY <1>0
  <2> QED BY <1>0, <2>1, StoredSection
<1>2. Section(t) /\ t.pdt = s.pdt /\ t.ref = s.ref /\ t.status = s.status
  BY <1>1 DEF Stored
<1>3. (at + lo) + Len(v) - 1 = at + hi
  BY <1>0
<1>4. KnownCounts(t)
  <2>1. s.pdt \in Counting => CountAt(s.pdt) \notin (at + lo)..((at + lo) + Len(v) - 1)
    <3>1. PICK c \in 13..57 : c = CountAt(s.pdt)
      BY DEF CountAt
    <3>2. s.pdt \in Counting => at + hi < c \/ at + lo > c
      BY <3>1 DEF Clear
    <3>3. (at + hi < c \/ at + lo > c) => c \notin (at + lo)..(at + hi)
      BY <1>0
    <3> QED BY <1>3, <3>1, <3>2, <3>3
  <2> QED BY <1>0, <1>1, <2>1, StillCounted
<1>5. ASSUME s.pdt \in Ranging
      PROVE  /\ ForecastCopied(t, s)
             /\ \A k \in Nat : Octet(t, EndAt(t.pdt) + k) = Octet(s, EndAt(s.pdt) + k)
  <2>1. PICK e \in Int, f \in Int : e = EndAt(s.pdt) /\ f = ForecastAt(s.pdt)
    <3>1. EndAt(s.pdt) \in Int
      BY <1>5 DEF Ranging, EndAt
    <3>2. ForecastAt(s.pdt) \in Int
      BY DEF ForecastAt
    <3> QED BY <3>1, <3>2
  <2>2. at + hi < e /\ (at + hi <= f \/ at + lo > f + 4)
    BY <1>5, <2>1 DEF Clear
  <2>3. \A i \in Int : i \notin (at + lo)..(at + hi) => Octet(t, i) = Octet(s, i)
    BY <1>1, <1>3 DEF Stored
  <2>4. \A k \in 1..4 : f + k \in Int /\ f + k \notin (at + lo)..(at + hi)
    BY <1>0, <2>2
  <2>5. \A k \in Nat : e + k \in Int /\ e + k \notin (at + lo)..(at + hi)
    BY <1>0, <2>2
  <2> QED BY <1>2, <2>1, <2>3, <2>4, <2>5 DEF ForecastCopied
<1> QED BY <1>2, <1>4, <1>5, SameGood

(* Octets added and taken away at 34.                                      *)
IsInserted(t, s, p, m, d) ==
  /\ Section(t) /\ t.pdt = p /\ t.ref = s.ref /\ t.status = s.status
  /\ \A i \in 9..32 : Octet(t, i) = Octet(s, i)
  /\ \A i \in Int : i >= 34 + m => Octet(t, i) = Octet(s, i - m + d)

LEMMA InsertedIs ==
  ASSUME NEW s, Section(s), s.pdt \in {0, 1, 8, 11}, NEW p \in {1, 11, 12}, NEW v \in Seq(Int),
         NEW m \in 2..3, m = Len(v), NEW d \in {0, 3}, d = 0 => s.pdt \in {0, 8},
         p \in {1, 11} => d = 0,
         p # 1 => s.pdt \in {8, 11} /\ EndAt(p) = 34 + m /\ EndAt(s.pdt) = 34 + d,
         NEW t, t = Inserted(s, p, 34, v, d)
  PROVE  IsInserted(t, s, p, m, d)
<1>1. PICK n \in 8..150 : s.oct \in [9..n -> Int] /\ Suits(s.pdt, n)
  BY SectionIs
<1>2. n >= 33 /\ (d = 0 => n <= 140)
  BY <1>1 DEF Suits
<1>3. PICK h \in 32..150 : h = n + m - d
  <2>1. CASE d = 0
    <3>1. n + m - 0 \in 32..150
      BY ONLY <1>2, <2>1, n \in 8..150, m \in 2..3
    <3> QED BY <2>1, <3>1
  <2>2. CASE d = 3
    <3>1. n + m - 3 \in 32..150
      BY ONLY <1>2, n \in 8..150, m \in 2..3
    <3> QED BY <2>2, <3>1
  <2> QED BY <2>1, <2>2
<1>4. Len4(s) - 1 + m - d = h
  <2>1. Len4(s) = n + 1
    BY <1>1, Len4Is
  <2> QED BY <1>3, <2>1
<1>5. PICK o : o = [i \in 9..h |-> IF i < 34 THEN s.oct[i]
                                   ELSE IF i < 34 + m THEN v[i - 34 + 1] ELSE s.oct[i - m + d]]
  OBVIOUS
<1>6. t = [s EXCEPT !.pdt = p, !.oct = o]
  BY <1>4, <1>5 DEF Inserted
<1>7. /\ \A i \in 9..h : i < 34 => s.oct[i] \in Int
      /\ \A i \in 9..h : i >= 34 /\ i < 34 + m => v[i - 34 + 1] \in Int
      /\ \A i \in 9..h : i >= 34 + m => i - m + d \in 9..n /\ s.oct[i - m + d] \in Int
  <2>1. \A i \in 9..h : i < 34 => i \in 9..n
    BY <1>2
  <2>2. \A i \in 9..h : i >= 34 /\ i < 34 + m => i - 34 + 1 \in 1..m
    OBVIOUS
  <2>3. \A i \in 9..h : i >= 34 + m => i - m + d \in 9..n
    BY <1>3
  <2>4. \A i \in 1..m : v[i] \in Int
    OBVIOUS
  <2> QED BY <1>1, <2>1, <2>2, <2>3, <2>4
<1>8. o \in [9..h -> Int]
  BY <1>5, <1>7
<1>9. Suits(p, h)
  <2>1. p \notin Counting \cup {0, 8, 33, 34, 57} /\ (p = 1 => p \notin Ranging)
    BY DEF Counting, Ranging
  <2>2. p = 1 => h >= 33
    BY <1>2, <1>3
  <2>3. p # 1 => h >= EndAt(p) + 7 /\ h >= 33
    <3> SUFFICES ASSUME p # 1 PROVE h >= EndAt(p) + 7 /\ h >= 33
      OBVIOUS
    <3>1. s.pdt \in Ranging
      BY DEF Ranging
    <3>2. n >= 34 + d + 7
      BY <1>1, <3>1 DEF Suits
    <3> QED BY <1>3, <3>2
  <2> QED BY <2>1, <2>2, <2>3 DEF Suits
<1>10. HasFields(t, s.status, s.ref, p, h, o)
  <2>1. p \in Nat /\ h \in 8..150
    OBVIOUS
  <2> QED BY <1>6, <1>8, <1>9, <2>1, ChangedIs
<1>11. t.oct = o /\ t.oct \in [9..h -> Int]
  BY <1>8, <1>10 DEF HasFields
<1>12. ASSUME NEW i \in 9..32 PROVE Octet(t, i) = Octet(s, i)
  <2>1. i \in 9..h /\ i \in 9..n /\ i < 34
    BY <1>2
  <2> QED BY <1>1, <1>5, <1>11, <2>1 DEF Octet
<1>13. ASSUME NEW i \in Int, i >= 34 + m PROVE Octet(t, i) = Octet(s, i - m + d)
  <2>1. i \in 9..h <=> i - m + d \in 9..n
    BY <1>2, <1>3, <1>13
  <2>2. i \in 9..h => o[i] = s.oct[i - m + d]
    BY <1>5, <1>13
  <2>3. DOMAIN t.oct = 9..h /\ DOMAIN s.oct = 9..n
    BY <1>1, <1>11
  <2> QED BY <1>11, <2>1, <2>2, <2>3 DEF Octet
<1> QED BY <1>10, <1>12, <1>13 DEF HasFields, IsInserted

LEMMA InsertedGood ==
  ASSUME NEW s, Good(s), s.status = "run", NEW p, NEW v \in Seq(Int), NEW d, NEW m, m = Len(v),
         <<s.pdt, p, m, d>> \in {<<0, 1, 3, 0>>, <<8, 11, 3, 0>>, <<8, 12, 2, 0>>, <<11, 12, 2, 3>>}
  PROVE  Good(Inserted(s, p, 34, v, d))
<1>0. Section(s)
  BY DEF Good
<1>1. PICK t : t = Inserted(s, p, 34, v, d)
  OBVIOUS
<1>2. PICK q : q = s.pdt
  OBVIOUS
<1>21. \/ q = 0 /\ p = 1 /\ m = 3 /\ d = 0
       \/ q = 8 /\ p = 11 /\ m = 3 /\ d = 0
       \/ q = 8 /\ p = 12 /\ m = 2 /\ d = 0
       \/ q = 11 /\ p = 12 /\ m = 2 /\ d = 3
  BY <1>2
<1>22. /\ q \in {0, 1, 8, 11} /\ p \in {1, 11, 12} /\ d \in {0, 3} /\ m \in 2..3
       /\ (d = 0 => q \in {0, 8}) /\ (p \in {1, 11} => d = 0)
  BY ONLY <1>21
<1>3. /\ Section(t) /\ t.pdt = p /\ t.ref = s.ref /\ t.status = s.status
      /\ \A i \in 9..32 : Octet(t, i) = Octet(s, i)
      /\ \A i \in Int : i >= 34 + m => Octet(t, i) = Octet(s, i - m + d)
  <2>1. s.pdt \in {0, 1, 8, 11} /\ (d = 0 => s.pdt \in {0, 8})
    BY ONLY <1>2, <1>22
  <2>2. p \in {1, 11, 12} /\ d \in {0, 3} /\ m \in 2..3 /\ (p \in {1, 11} => d = 0)
    BY ONLY <1>22
  <2>4. p # 1 => s.pdt \in {8, 11} /\ EndAt(p) = 34 + m /\ EndAt(s.pdt) = 34 + d
    BY ONLY <1>2, <1>21 DEF EndAt
  <2>3. IsInserted(t, s, p, m, d)
    BY ONLY <1>0, <1>1, <2>1, <2>2, <2>4, v \in Seq(Int), m = Len(v), InsertedIs
  <2> QED BY ONLY <2>3 DEF IsInserted
<1>4. KnownCounts(t)
  <2>1. p \notin Counting /\ p # 34
    BY ONLY <1>22 DEF Counting
  <2>2. t.pdt = p
    BY ONLY <1>3
  <2> QED BY ONLY <2>1, <2>2 DEF KnownCounts
<1>5. ASSUME t.pdt \in Ranging
      PROVE  /\ s.pdt \in Ranging /\ ForecastCopied(t, s)
             /\ \A k \in Nat : Octet(t, EndAt(t.pdt) + k) = Octet(s, EndAt(s.pdt) + k)
  <2>1. p \in Ranging
    BY <1>3, <1>5
  <2>2. \/ q = 8 /\ p = 11 /\ m = 3 /\ d = 0
        \/ q = 8 /\ p = 12 /\ m = 2 /\ d = 0
        \/ q = 11 /\ p = 12 /\ m = 2 /\ d = 3
    BY ONLY <2>1, <1>21 DEF Ranging
  <2>3. q \in Ranging /\ ForecastAt(p) = 17 /\ ForecastAt(q) = 17
    BY ONLY <2>2 DEF Ranging, ForecastAt
  <2>4. EndAt(p) = 34 + m /\ EndAt(q) = 34 + d
    BY ONLY <2>2 DEF EndAt
  <2>5. \A k \in 1..4 : Octet(t, ForecastAt(t.pdt) + k) = Octet(s, ForecastAt(s.pdt) + k)
    <3>1. \A k \in 1..4 : 17 + k \in 9..32
      OBVIOUS
    <3> QED BY <1>2, <1>3, <2>3, <3>1
  <2>6. ASSUME NEW k \in Nat PROVE Octet(t, (34 + m) + k) = Octet(s, (34 + d) + k)
    <3>1. (34 + m) + k \in Int /\ (34 + m) + k >= 34 + m /\ (34 + m) + k - m + d = (34 + d) + k
      BY ONLY <1>22, k \in Nat
    <3> QED BY <1>3, <3>1
  <2> QED BY <1>2, <1>3, <2>3, <2>4, <2>5, <2>6 DEF ForecastCopied
<1>6. Good(t)
  BY <1>3, <1>4, <1>5, SameGood
<1> QED BY <1>1, <1>6

-----------------------------------------------------------------------------
(* Ensembles, percentiles and probabilities.                               *)
LEMMA EnsClear ==
  ASSUME NEW s, Section(s), KnownCounts(s)
  PROVE  Clear(code_table_4_6_location(s), 0, 2, s.pdt, FALSE)
<1> DEFINE rows == {<<{1, 11, 60, 61}, 34>>, <<{41, 43}, 36>>}
<1>0. s.pdt \in Nat /\ s.jma = FALSE
  BY SectionIs
<1>1. CASE s.pdt \notin {33, 34}
  <2>1. \A r \in rows : r[2] \in Int /\ (s.pdt \in r[1] => Clear(r[2], 0, 2, s.pdt, FALSE))
    <3>1. ASSUME NEW r \in rows
          PROVE  r[2] \in Int /\ (s.pdt \in r[1] => Clear(r[2], 0, 2, s.pdt, FALSE))
      BY <1>0 DEF Clear, Ranging, EndAt, ForecastAt, Counting, CountAt, NULL
    <3> HIDE DEF rows
    <3> QED BY <3>1
  <2>2. code_table_4_6_location(s) = Place(rows, s.pdt)
    BY <1>1 DEF code_table_4_6_location
  <2> HIDE DEF rows
  <2> QED BY <2>1, <2>2, PlaceClear
<1>2. CASE s.pdt \in {33, 34}
  BY <1>2, CountsInt DEF code_table_4_6_location, Clear, Ranging, Counting, CountAt
<1> QED BY <1>1, <1>2

(* Values stored at the place of an item.                                  *)
LEMMA PlacedGood ==
  ASSUME NEW s, Good(s), NEW at, NEW lo \in Int, NEW hi \in Int, NEW to,
         s.status = "run" => Clear(at, lo, hi, s.pdt, FALSE) /\ at # NULL /\ to = at + lo,
         NEW v \in Seq(Int), Len(v) = hi - lo + 1
  PROVE  Good(Placed(s, to, v))
<1>1. CASE s.status = "run" /\ to # NULL
  <2>1. PICK t : t = [s EXCEPT !.oct = Store(@, at + lo, v)]
    OBVIOUS
  <2>2. Good(t)
    BY <1>1, <2>1, PutGood
  <2>3. Placed(s, to, v) = t
    BY <1>1, <2>1 DEF Placed
  <2> QED BY <2>2, <2>3
<1>2. CASE ~(s.status = "run" /\ to # NULL)
  BY <1>2 DEF Placed
<1> QED BY <1>1, <1>2

LEMMA EnsNumGood ==
  ASSUME NEW s, Good(s), s.status = "run", NEW a \in Int, NEW b \in Int, NEW c \in Int
  PROVE  Good(f_set_ens_num(s, a, b, c))
<1>0. Section(s) /\ KnownCounts(s)
  BY DEF Good
<1>1. PICK v : v = <<unsigned_char(a), unsigned_char(b), unsigned_char(c)>>
  OBVIOUS
<1>2. v \in Seq(Int) /\ Len(v) = 3
  <2>1. unsigned_char(a) \in Int /\ unsigned_char(b) \in Int /\ unsigned_char(c) \in Int
    BY DEF unsigned_char
  <2> QED BY <1>1, <2>1
<1>3. PICK at : at = code_table_4_6_location(s)
  OBVIOUS
<1>4. CASE at # NULL
  <2>1. Clear(at, 0, 2, s.pdt, FALSE)
    BY <1>0, <1>3, EnsClear
  <2>2. at + 0 = at
    BY <2>1 DEF Clear
  <2>3. 0 \in Int /\ 2 \in Int /\ Len(v) = 2 - 0 + 1
    BY <1>2
  <2>4. PICK t : t = [s EXCEPT !.oct = Store(@, at + 0, v)]
    OBVIOUS
  <2>5. Good(t)
    BY <1>2, <1>4, <2>1, <2>3, <2>4, PutGood
  <2>6. f_set_ens_num(s, a, b, c) = t
    BY <1>1, <1>3, <1>4, <2>2, <2>4 DEF f_set_ens_num
  <2> QED BY <2>5, <2>6
<1>5. CASE at = NULL /\ s.pdt = 0
  <2>1. Good(Inserted(s, 1, 34, v, 0))
    <3>1. <<s.pdt, 1, 3, 0>> \in {<<0, 1, 3, 0>>, <<8, 11, 3, 0>>, <<8, 12, 2, 0>>, <<11, 12, 2, 3>>}
      BY <1>5
    <3> QED BY <1>2, <3>1, InsertedGood
  <2>2. f_set_ens_num(s, a, b, c) = Inserted(s, 1, 34, v, 0)
    BY <1>1, <1>3, <1>5 DEF f_set_ens_num
  <2> QED BY <2>1, <2>2
<1>6. CASE at = NULL /\ s.pdt = 8
  <2>1. Good(Inserted(s, 11, 34, v, 0))
    <3>1. <<s.pdt, 11, 3, 0>> \in {<<0, 1, 3, 0>>, <<8, 11, 3, 0>>, <<8, 12, 2, 0>>, <<11, 12, 2, 3>>}
      BY <1>6
    <3> QED BY <1>2, <3>1, InsertedGood
  <2>2. f_set_ens_num(s, a, b, c) = Inserted(s, 11, 34, v, 0)
    BY <1>1, <1>3, <1>6 DEF f_set_ens_num
  <2> QED BY <2>1, <2>2
<1>7. CASE at = NULL /\ s.pdt \notin {0, 8}
  <2>1. f_set_ens_num(s, a, b, c) = s
    BY <1>1, <1>3, <1>7 DEF f_set_ens_num
  <2> QED BY <2>1
<1> QED BY <1>4, <1>5, <1>6, <1>7

LEMMA DerivedGood ==
  ASSUME NEW s, Good(s), s.status = "run", NEW c \in Int, NEW num \in Int
  PROVE  Good(f_set_ensm_derived_fcst(s, c, num))
<1>0. Section(s) /\ KnownCounts(s) /\ s.pdt \in Nat
  BY SectionIs DEF Good
<1>1. PICK n \in 8..150 : s.oct \in [9..n -> Int] /\ Suits(s.pdt, n)
  BY <1>0, SectionIs
<1>2. PICK v : v = <<c, num>>
  OBVIOUS
<1>3. v \in Seq(Int) /\ Len(v) = 2 /\ v[1] = c /\ v[2] = num
  BY <1>2
<1>4. PICK u : u = f_set_ensm_derived_fcst(s, c, num)
  OBVIOUS
<1>5. CASE s.pdt \in {2, 12}
  <2>1. PICK o : o = [i \in DOMAIN s.oct |->
                        IF i \in {34, 35} /\ v[i - 33] # Missing THEN v[i - 33] ELSE s.oct[i]]
    OBVIOUS
  <2>2. u = [s EXCEPT !.oct = o]
    BY <1>2, <1>4, <1>5, <2>1 DEF f_set_ensm_derived_fcst
  <2>3. PICK x \in Int, y \in Int :
          /\ x = IF c # Missing THEN c ELSE Octet(s, 34)
          /\ y = IF num # Missing THEN num ELSE Octet(s, 35)
    <3>1. Octet(s, 34) \in Int /\ Octet(s, 35) \in Int
      BY <1>0, OctetIs
    <3> QED BY <3>1
  <2>4. PICK w : w = <<x, y>>
    OBVIOUS
  <2>5. w \in Seq(Int) /\ Len(w) = 2 /\ w[1] = x /\ w[2] = y
    BY <2>4
  <2>6. o = Store(s.oct, 34, w)
    <3>1. Store(s.oct, 34, w)
            = [i \in DOMAIN s.oct |-> IF i \in 34..35 THEN w[i - 34 + 1] ELSE s.oct[i]]
      BY <2>5 DEF Store
    <3>2. \A i \in DOMAIN s.oct :
            (IF i \in {34, 35} /\ v[i - 33] # Missing THEN v[i - 33] ELSE s.oct[i])
            = (IF i \in 34..35 THEN w[i - 34 + 1] ELSE s.oct[i])
      <4> SUFFICES ASSUME NEW i \in 9..n
                   PROVE  (IF i \in {34, 35} /\ v[i - 33] # Missing THEN v[i - 33] ELSE s.oct[i])
                          = (IF i \in 34..35 THEN w[i - 34 + 1] ELSE s.oct[i])
        BY <1>1
      <4>1. CASE i = 34
        <5>1. Octet(s, 34) = s.oct[34]
          BY <1>1, <4>1 DEF Octet
        <5>2. i - 33 = 1 /\ i - 34 + 1 = 1 /\ i \in 34..35
          BY <4>1
        <5> QED BY <1>3, <2>3, <2>5, <4>1, <5>1, <5>2
      <4>2. CASE i = 35
        <5>1. Octet(s, 35) = s.oct[35]
          BY <1>1, <4>2 DEF Octet
        <5>2. i - 33 = 2 /\ i - 34 + 1 = 2 /\ i \in 34..35
          BY <4>2
        <5> QED BY <1>3, <2>3, <2>5, <4>2, <5>1, <5>2
      <4>3. CASE i \notin {34, 35}
        <5>1. i \notin 34..35
          BY <4>3
        <5> QED BY <4>3, <5>1
      <4> QED BY <4>1, <4>2, <4>3
    <3> QED BY <2>1, <3>1, <3>2
  <2>7. PICK t : t = [s EXCEPT !.oct = Store(@, 34 + 0, w)]
    OBVIOUS
  <2>8. Clear(34, 0, 1, s.pdt, FALSE)
    BY <1>5 DEF Clear, Ranging, EndAt, ForecastAt, Counting, CountAt
  <2>9. 34 # NULL /\ Len(w) = 1 - 0 + 1
    BY <2>5 DEF NULL
  <2>10. Good(t)
    <3>1. 0 \in Int /\ 1 \in Int
      OBVIOUS
    <3> QED BY <2>5, <2>7, <2>8, <2>9, <3>1, PutGood
  <2>11. u = t
    BY <2>2, <2>6, <2>7
  <2> QED BY <1>4, <2>10, <2>11
<1>6. CASE s.pdt \in {0, 1}
  <2>1. PICK o : o = [i \in 9..35 |-> IF i < 34 THEN s.oct[i] ELSE v[i - 33]]
    OBVIOUS
  <2>2. u = [s EXCEPT !.pdt = 2, !.oct = o]
    BY <1>2, <1>4, <1>6, <2>1 DEF f_set_ensm_derived_fcst
  <2>3. o \in [9..35 -> Int]
    <3>1. ASSUME NEW i \in 9..35, i < 34 PROVE s.oct[i] \in Int
      <4>1. n >= 33
        BY <1>1, <1>6 DEF Suits
      <4>2. i \in 9..n
        BY <3>1, <4>1
      <4> QED BY <1>1, <4>2
    <3>2. ASSUME NEW i \in 9..35, ~(i < 34) PROVE v[i - 33] \in Int
      <4>1. i - 33 \in {1, 2}
        BY <3>2
      <4> QED BY <1>3, <4>1
    <3> QED BY <2>1, <3>1, <3>2
  <2>4. Suits(2, 35)
    BY DEF Suits, Counting, Ranging
  <2>5. HasFields(u, s.status, s.ref, 2, 35, o)
    <3>1. 2 \in Nat /\ 35 \in 8..150
      OBVIOUS
    <3> QED BY <1>0, <2>2, <2>3, <2>4, <3>1, ChangedIs
  <2>6. Section(u) /\ u.pdt = 2 /\ u.ref = s.ref
    BY <2>5 DEF HasFields
  <2>7. KnownCounts(u) /\ u.pdt \notin Ranging
    BY <2>6 DEF KnownCounts, Ranging, Counting
  <2> QED BY <1>4, <2>6, <2>7, SameGood
<1>7. CASE s.pdt = 8
  <2>1. Good(Inserted(s, 12, 34, v, 0))
    <3>1. <<s.pdt, 12, 2, 0>> \in {<<0, 1, 3, 0>>, <<8, 11, 3, 0>>, <<8, 12, 2, 0>>, <<11, 12, 2, 3>>}
      BY <1>7
    <3> QED BY <1>3, <3>1, InsertedGood
  <2>2. u = Inserted(s, 12, 34, v, 0)
    BY <1>2, <1>4, <1>7 DEF f_set_ensm_derived_fcst
  <2> QED BY <1>4, <2>1, <2>2
<1>8. CASE s.pdt = 11
  <2>1. Good(Inserted(s, 12, 34, v, 3))
    <3>1. <<s.pdt, 12, 2, 3>> \in {<<0, 1, 3, 0>>, <<8, 11, 3, 0>>, <<8, 12, 2, 0>>, <<11, 12, 2, 3>>}
      BY <1>8
    <3> QED BY <1>3, <3>1, InsertedGood
  <2>2. u = Inserted(s, 12, 34, v, 3)
    BY <1>2, <1>4, <1>8 DEF f_set_ensm_derived_fcst
  <2> QED BY <1>4, <2>1, <2>2
<1>9. CASE s.pdt \notin {0, 1, 2, 8, 11, 12}
  <2>1. u = s
    BY <1>4, <1>9 DEF f_set_ensm_derived_fcst
  <2> QED BY <1>4, <2>1
<1> QED BY <1>5, <1>6, <1>7, <1>8, <1>9

LEMMA PromotedGood ==
  ASSUME NEW s, Good(s), s.status = "run", NEW A, NEW a \in Nat, NEW B, NEW b \in Nat
  PROVE  Good(Promoted(s, A, a, B, b))
<1>1. PICK x \in Nat : x = IF s.pdt \in A THEN a ELSE b
  OBVIOUS
<1>2. Promoted(s, A, a, B, b) = IF s.pdt \in A \cup B THEN f_set_pdt(s, x, -1, TRUE) ELSE s
  BY <1>1 DEF Promoted, Plus
<1>3. Good(f_set_pdt(s, x, -1, TRUE))
  <2>1. -1 \in Int /\ ~(-1 > 0) /\ TRUE \in BOOLEAN
    OBVIOUS
  <2> QED BY <2>1, NewPdtGood
<1> QED BY <1>2, <1>3

LEMMA PercentileGood ==
  ASSUME NEW s, Good(s), s.status = "run", NEW percent \in Int
  PROVE  Good(f_set_percentile(s, percent))
<1>1. PICK n : n = Promoted(s, {0, 1, 2, 4, 5}, 6, {8, 9, 11, 12, 13, 14, 15}, 10)
  OBVIOUS
<1>2. Good(n)
  <2>1. 6 \in Nat /\ 10 \in Nat
    OBVIOUS
  <2> QED BY <1>1, <2>1, PromotedGood
<1>3. PICK at, v : at = percentile_value_location(n) /\ v = <<percent>>
  OBVIOUS
<1>4. f_set_percentile(s, percent) = Placed(n, at, v)
  BY <1>1, <1>3 DEF f_set_percentile, StorePercentile
<1>5. CASE at = NULL
  BY <1>2, <1>4, <1>5 DEF Placed
<1>6. CASE at # NULL
  <2>1. n.status = "run" => Clear(at, 0, 0, n.pdt, FALSE) /\ at = at + 0
    <3> SUFFICES ASSUME n.status = "run" PROVE Clear(at, 0, 0, n.pdt, FALSE) /\ at = at + 0
      OBVIOUS
    <3>1. Clear(at, 0, 0, n.pdt, FALSE)
      BY <1>2, <1>3, Clear16 DEF Good
    <3> QED BY <3>1 DEF Clear
  <2>2. v \in Seq(Int) /\ Len(v) = 0 - 0 + 1 /\ 0 \in Int
    BY <1>3
  <2> QED BY <1>2, <1>4, <1>6, <2>1, <2>2, PlacedGood
<1> QED BY <1>5, <1>6

LEMMA ProbGood ==
  ASSUME NEW s, Good(s), s.status = "run", NEW forecast \in Int, NEW total \in Int,
         NEW limits \in Seq(Int), Len(limits) = 11
  PROVE  Good(f_set_prob(s, forecast, total, limits))
<1>1. PICK n : n = Promoted(s, {0, 1, 2, 4, 6}, 5, {8, 10, 11, 12, 13, 14, 15}, 9)
  OBVIOUS
<1>2. Good(n)
  <2>1. 5 \in Nat /\ 9 \in Nat
    OBVIOUS
  <2> QED BY <1>1, <2>1, PromotedGood
<1>3. PICK at, v, to : at = code_table_4_9_location(n) /\ v = <<forecast, total>> \o limits /\ to = at - 2
  OBVIOUS
<1>4. f_set_prob(s, forecast, total, limits) = IF at = NULL THEN n ELSE Placed(n, to, v)
  BY <1>1, <1>3 DEF f_set_prob, StoreProb
<1>5. CASE at = NULL
  BY <1>2, <1>4, <1>5
<1>6. CASE at # NULL
  <2>1. n.status = "run" => Clear(at, -2, 10, n.pdt, FALSE) /\ to = at + (-2)
    <3> SUFFICES ASSUME n.status = "run" PROVE Clear(at, -2, 10, n.pdt, FALSE) /\ to = at + (-2)
      OBVIOUS
    <3>1. Clear(at, -2, 10, n.pdt, FALSE)
      BY <1>2, <1>3, Clear9 DEF Good
    <3> QED BY <1>3, <3>1 DEF Clear
  <2>2. v \in Seq(Int) /\ Len(v) = 10 - (-2) + 1 /\ -2 \in Int /\ 10 \in Int
    <3>1. PICK w : w = <<forecast, total>>
      OBVIOUS
    <3>2. w \in Seq(Int) /\ Len(w) = 2
      BY <3>1
    <3>3. v \in Seq(Int) /\ Len(v) = 13
      <4>1. v = w \o limits
        BY <1>3, <3>1
      <4>2. IsConcat(v, w, 2, limits, 11)
        BY <3>2, <4>1, ConcatIs
      <4> QED BY <4>2 DEF IsConcat
    <3> QED BY <3>3
  <2>3. Good(Placed(n, to, v))
    BY <1>2, <1>6, <2>1, <2>2, PlacedGood
  <2> QED BY <1>4, <1>6, <2>3
<1> QED BY <1>5, <1>6

-----------------------------------------------------------------------------
(* A section to which a new end of its ranges is written.                  *)
EndPut(t, q, x) == \A k \in 0..6 : Octet(t, EndAt(q) + k) = save_time(x)[k + 1]

SameTail(t, s, q) ==
  \A k \in 7..(11 + 12 * Ranges(s)) : Octet(t, EndAt(q) + k) = Octet(s, EndAt(q) + k)

LEMMA EndPutIs ==
  ASSUME NEW t, Section(t), NEW q \in Ranging, t.pdt = q, NEW x \in Nat, EndPut(t, q, x)
  PROVE  EndTime(t) = x
<1>1. PICK e \in Int : e = EndAt(q)
  BY DEF EndAt, Ranging
<1>2. PICK u : u = Octets(t, e, 7)
  OBVIOUS
<1>3. PICK w : w = save_time(x)
  OBVIOUS
<1>4. w \in Seq(Int) /\ Len(w) = 7 /\ \A z : z = w => get_time(z) = x
  BY <1>3, TimeIs
<1>5. u \in Seq(Int) /\ Len(u) = 7 /\ \A i \in 1..7 : u[i] = Octet(t, e + i - 1)
  <2>1. e \in Int /\ 7 \in Nat
    OBVIOUS
  <2> QED BY <1>2, <2>1, OctetsIs
<1>6. \A i \in 1..7 : u[i] = w[i]
  <2> SUFFICES ASSUME NEW i \in 1..7 PROVE u[i] = w[i]
    OBVIOUS
  <2>1. i - 1 \in 0..6 /\ (i - 1) + 1 = i /\ e + i - 1 = e + (i - 1)
    OBVIOUS
  <2>2. Octet(t, e + (i - 1)) = w[(i - 1) + 1]
    BY <1>1, <1>3, <2>1 DEF EndPut
  <2> QED BY <1>5, <2>1, <2>2
<1>7. u = w
  <2>1. u = [i \in 1..7 |-> Octet(t, e + i - 1)]
    BY <1>2 DEF Octets
  <2>2. w = [i \in 1..7 |-> 1000 + 10 * x + i]
    BY <1>3 DEF save_time, Unknown
  <2>3. u = [i \in 1..7 |-> u[i]] /\ w = [i \in 1..7 |-> w[i]]
    BY ONLY <2>1, <2>2
  <2> QED BY ONLY <1>6, <2>3
<1> QED BY <1>1, <1>2, <1>4, <1>7, RangedIs

LEMMA EndWritten ==
  ASSUME NEW s, Section(s), NEW q \in Ranging, s.pdt = q, Right(s),
         NEW t, Section(t), t.pdt = q, NEW f \in Nat, f = forecast_time_in_units(t),
         EndPut(t, q, t.ref + f + Elapsed(s)), SameTail(t, s, q)
  PROVE  Right(t)
<1>1. PICK b \in Int : b = EndAt(q)
  BY DEF Ranging, EndAt
<1>2. PICK n \in 1..2 : n = Ranges(s)
  BY DEF Right
<1>3. \A k \in 7..(11 + 12 * n) : Octet(t, b + k) = Octet(s, b + k)
  BY <1>1, <1>2 DEF SameTail
<1>4. Ranges(t) = n
  <2>1. 7 \in 7..(11 + 12 * n)
    OBVIOUS
  <2> QED BY <1>1, <1>2, <1>3, <2>1, RangedIs
<1>5. PICK x \in Nat : x = t.ref + f + Elapsed(s)
  <2>1. PICK r \in Nat, e \in Nat : r = t.ref /\ e = Elapsed(s)
    BY SectionIs DEF Right
  <2> QED BY <2>1
<1>6. EndTime(t) = x
  BY <1>5, EndPutIs
<1>7. ASSUME NEW i \in 1..n, NEW y PROVE Passed(t, q, i, y) = Passed(s, q, i, y)
  <2>2. Octet(t, b + 12 * i + 1) = Octet(s, b + 12 * i + 1)
    <3>1. 12 * i + 1 \in 7..(11 + 12 * n) /\ b + 12 * i + 1 = b + (12 * i + 1)
      OBVIOUS
    <3> QED BY <1>3, <3>1
  <2>3. \A k \in 0..(4 - 1) : Octet(t, (b + 12 * i + 3) + k) = Octet(s, (b + 12 * i + 3) + k)
    <3> SUFFICES ASSUME NEW k \in 0..3
                 PROVE  Octet(t, (b + 12 * i + 3) + k) = Octet(s, (b + 12 * i + 3) + k)
      OBVIOUS
    <3>1. 12 * i + 3 + k \in 7..(11 + 12 * n)
          /\ (b + 12 * i + 3) + k = b + (12 * i + 3 + k)
      OBVIOUS
    <3> QED BY <1>3, <3>1
  <2>4. b + 12 * i + 3 \in Int
    OBVIOUS
  <2>5. Octets(t, b + 12 * i + 3, 4) = Octets(s, b + 12 * i + 3, 4)
    BY <2>3, <2>4, SameOctets
  <2> QED BY <1>1, <2>2, <2>5 DEF Passed
<1>8. Elapsed(t) = Elapsed(s)
  <2>1. n = 1 => Passed(t, q, 1, 0) = Passed(s, q, 1, 0)
    BY <1>7
  <2>2. n = 2 => Passed(t, q, 2, Passed(t, q, 1, 0)) = Passed(s, q, 2, Passed(s, q, 1, 0))
    <3>1. n = 2 => 1 \in 1..n /\ 2 \in 1..n
      OBVIOUS
    <3> QED BY <1>7, <3>1
  <2>3. n = 1 \/ n = 2
    OBVIOUS
  <2> QED BY <1>2, <1>4, <2>1, <2>2, <2>3, ElapsedIs
<1> QED BY <1>2, <1>4, <1>5, <1>6, <1>8 DEF Right

(* The end of the ranges lies within a section that says how many there    *)
(* are.                                                                    *)
LEMMA EndWithin ==
  ASSUME NEW s, Section(s), NEW q \in Ranging, s.pdt = q, HasRanges(s)
  PROVE  EndAt(q) + 7 <= Len4(s) - 1
<1>1. Octet(s, EndAt(q) + 7) # Missing /\ EndAt(q) \in 34..68
  BY RangedIs
<1>2. PICK n \in Int : n = Len4(s) - 1
  <2>1. Len4(s) \in 9..151
    BY OctetIs
  <2> QED BY <2>1
<1>3. \A i \in Int : i \notin 9..n => Octet(s, i) = Missing
  BY <1>2, OctetIs
<1> QED BY <1>1, <1>2, <1>3

(* A section with another reference time.                                  *)
WithRef(t, s, date) ==
  /\ Section(t) /\ t.pdt = s.pdt /\ t.ref = date /\ t.status = s.status
  /\ t.oct = s.oct /\ Len4(t) = Len4(s) /\ \A i : Octet(t, i) = Octet(s, i)

LEMMA RefIs ==
  ASSUME NEW s, Section(s), NEW date \in Nat, NEW t, t = [s EXCEPT !.ref = date]
  PROVE  WithRef(t, s, date)
<1>1. PICK n \in 8..150 : s.oct \in [9..n -> Int] /\ Suits(s.pdt, n)
  BY SectionIs
<1>2. PICK a1, a2, a3, a4, a5, a7 :
        /\ IsRecord(s, a1, a2, a3, a4, a5, a7)
        /\ a1 = s.status /\ a3 = s.code12 /\ a4 = s.code14 /\ a5 = s.pdt /\ a7 = s.oct
  BY RecordOf
<1>3. IsRecord(t, a1, date, a3, a4, a5, a7)
  BY <1>2 DEF IsRecord
<1>4. a1 \in {"run", "fatal", "overrun"} /\ a3 \in 0..1 /\ a4 \in 0..1 /\ a5 \in Nat
  BY <1>2, SectionIs
<1>5. HasFields(t, a1, date, a5, n, a7)
  BY <1>1, <1>2, <1>3, <1>4, FieldsAre
<1>7. Len4(s) = n + 1
  BY <1>1, Len4Is
<1> QED BY <1>2, <1>5, <1>7 DEF HasFields, Octet, WithRef

(* The reference time of a section without ranges does not matter.         *)
LEMMA Rangeless ==
  ASSUME NEW t, Section(t), KnownCounts(t), t.pdt \notin Ranging
  PROVE  Good(t)
BY NoRanges DEF Good

LEMMA SetDateGood ==
  ASSUME NEW s, Good(s), s.status = "run", NEW date \in Nat
  PROVE  Good(f_set_date(s, date))
<1>0. Section(s) /\ KnownCounts(s)
  BY DEF Good
<1>1. PICK x : x = [s EXCEPT !.ref = date]
  OBVIOUS
<1>2. /\ Section(x) /\ x.pdt = s.pdt /\ x.ref = date /\ x.status = s.status
      /\ x.oct = s.oct /\ Len4(x) = Len4(s) /\ \A i : Octet(x, i) = Octet(s, i)
  <2>1. WithRef(x, s, date)
    BY <1>0, <1>1, RefIs
  <2> QED BY <2>1 DEF WithRef
<1>3. KnownCounts(x)
  BY <1>0, <1>2 DEF KnownCounts
<1>4. PICK at : at = stat_proc_verf_time_location(s)
  OBVIOUS
<1>5. CASE at = NULL
  <2>1. f_set_date(s, date) = x
    BY <1>1, <1>4, <1>5 DEF f_set_date
  <2>2. s.pdt \notin Ranging
    <3>1. ASSUME s.pdt \in Ranging PROVE FALSE
      <4>1. PICK q \in Ranging : q = s.pdt
        BY <3>1
      <4>2. at = EndAt(q) /\ EndAt(q) \in 34..68
        BY <1>0, <1>4, <4>1, RangedIs
      <4> QED BY <1>5, <4>2 DEF NULL
    <3> QED BY <3>1
  <2> QED BY <1>2, <1>3, <2>1, <2>2, Rangeless
<1>6. CASE at # NULL /\ ~Supported(s)
  <2>1. f_set_date(s, date) = Fatal(x)
    BY <1>1, <1>4, <1>6 DEF f_set_date
  <2> QED BY <1>2, <2>1, GivenUp
<1>7. CASE at # NULL /\ Supported(s)
  <2>1. Ranges(s) # Missing
    <3> SUFFICES ASSUME Ranges(s) = 255 PROVE FALSE
      BY DEF Missing
    <3>1. \A i \in Int : i > 150 => Octet(s, i) = 255
      <4>1. Len4(s) \in 9..151 /\ \A i \in Int : i \notin 9..(Len4(s) - 1) => Octet(s, i) = 255
        BY <1>0, OctetIs DEF Missing
      <4> QED BY <4>1
    <3>2. PICK a \in Int : a = at /\ a >= 34
      <4>1. CASE s.pdt \in Ranging
        <5>1. PICK q \in Ranging : q = s.pdt
          BY <4>1
        <5> QED BY <1>0, <1>4, <5>1, RangedIs
      <4>2. CASE s.pdt \notin Ranging
        <5>1. s.pdt = 34
          BY <1>0, <1>4, <1>7, <4>2, NoRanges
        <5>2. s.oct[22] = 255 /\ at = 26 + 11 * s.oct[22]
          BY <1>0, <1>4, <5>1, ThirtyFour DEF KnownCounts, Missing
        <5> QED BY <5>2
      <4> QED BY <4>1, <4>2
    <3>3. RangeAt(s, 255) = a + 12 + 12 * 254
      BY <1>4, <3>2 DEF RangeAt
    <3>4. Octet(s, RangeAt(s, 255) + 1) = 255
      BY <3>1, <3>2, <3>3
    <3>5. 255 \in 1..Ranges(s)
      OBVIOUS
    <3> QED BY <1>7, <3>4, <3>5 DEF Supported
  <2>2. HasRanges(s) /\ Right(s)
    BY <1>4, <1>7, <2>1 DEF HasRanges, Good
  <2>3. PICK q \in Ranging : q = s.pdt
    BY <2>2 DEF Right
  <2>4. PICK e \in 34..68, g \in 17..30 : e = EndAt(q) /\ g = ForecastAt(q) /\ g + 17 <= e /\ at = e
    BY <1>0, <1>4, <2>3, RangedIs
  <2>5. PICK f \in Nat, l \in Nat : f = forecast_time_in_units(s) /\ l = Elapsed(s)
    BY <2>2 DEF Right
  <2>6. PICK y \in Nat : y = date + f + l /\ y = add_time(add_time(date, f), l)
    <3>1. add_time(date, f) = date + f /\ add_time(date + f, l) = date + f + l
      <4>1. date + f \in Nat
        OBVIOUS
      <4> QED BY <4>1, AddTime
    <3> QED BY <3>1
  <2>7. PICK w : w = save_time(y)
    OBVIOUS
  <2>8. w \in Seq(Int) /\ Len(w) = 7
    BY <2>7, TimeIs
  <2>9. PICK t : t = [x EXCEPT !.oct = Store(@, e, w)]
    OBVIOUS
  <2>10. f_set_date(s, date) = t
    BY <1>1, <1>4, <1>7, <2>4, <2>5, <2>6, <2>7, <2>9 DEF f_set_date
  <2>11. Stored(t, x, e, w)
    <3>1. e \in Int
      OBVIOUS
    <3> QED BY ONLY <1>2, <2>8, <2>9, <3>1, StoredSection
  <2>12. /\ Section(t) /\ t.pdt = q /\ t.ref = date /\ t.status = "run"
         /\ \A i \in Int : Octet(t, i) = IF i \in e..(e + 6) /\ i \in 9..(Len4(s) - 1)
                                         THEN w[i - e + 1] ELSE Octet(s, i)
    <3>1. e + Len(w) - 1 = e + 6
      BY <2>8
    <3> QED BY <1>2, <2>3, <2>11, <3>1 DEF Stored
  <2>13. forecast_time_in_units(t) = f
    <3>1. \A k \in 0..(4 - 1) : Octet(t, (g + 1) + k) = Octet(s, (g + 1) + k)
      <4> SUFFICES ASSUME NEW k \in 0..3 PROVE Octet(t, (g + 1) + k) = Octet(s, (g + 1) + k)
        OBVIOUS
      <4>1. (g + 1) + k \in Int /\ (g + 1) + k \notin e..(e + 6)
        BY <2>4
      <4> QED BY <2>12, <4>1
    <3>2. Octets(t, g + 1, 4) = Octets(s, g + 1, 4)
      BY <3>1, SameOctets
    <3> QED BY <1>0, <2>3, <2>4, <2>5, <2>12, <3>2, RangedIs
  <2>14. e + 7 <= Len4(s) - 1
    BY <1>0, <2>2, <2>3, <2>4, EndWithin
  <2>15. EndPut(t, q, y)
    <3> SUFFICES ASSUME NEW k \in 0..6 PROVE Octet(t, e + k) = w[k + 1]
      BY <2>4, <2>7 DEF EndPut
    <3>1. PICK n \in Int : n = Len4(s) - 1
      <4>1. Len4(s) \in 9..151
        BY <1>0, OctetIs
      <4> QED BY <4>1
    <3>2. e + k \in Int /\ e + k \in e..(e + 6) /\ e + k \in 9..n /\ (e + k) - e + 1 = k + 1
      BY <2>14, <3>1
    <3> QED BY <2>12, <3>1, <3>2
  <2>16. SameTail(t, s, q)
    <3> SUFFICES ASSUME NEW k \in 7..(11 + 12 * Ranges(s)) PROVE Octet(t, e + k) = Octet(s, e + k)
      BY <2>4 DEF SameTail
    <3>1. Ranges(s) \in 1..2
      BY <2>2 DEF Right
    <3>2. e + k \in Int /\ e + k \notin e..(e + 6)
      BY <3>1
    <3> QED BY <2>12, <3>2
  <2>17. Right(t)
    <3>1. y = t.ref + f + Elapsed(s)
      BY <2>5, <2>6, <2>12
    <3>2. s.pdt = q /\ f = forecast_time_in_units(t)
      BY <2>3, <2>13
    <3> QED BY <1>0, <2>2, <2>12, <2>15, <2>16, <3>1, <3>2, EndWritten
  <2>18. KnownCounts(t)
    BY <2>12 DEF KnownCounts, Ranging, Counting
  <2> QED BY <2>10, <2>12, <2>17, <2>18 DEF Good
<1> QED BY <1>5, <1>6, <1>7

-----------------------------------------------------------------------------
(* The forecast time.                                                      *)
LEMMA SignificanceIs ==
  ASSUME NEW s, Section(s), NEW time, NEW t, t = Significance(s, time)
  PROVE  WithRef(t, s, s.ref)
<1>1. PICK n \in 8..150 : s.oct \in [9..n -> Int] /\ Suits(s.pdt, n)
  BY SectionIs
<1>2. PICK a1, a2, a3, a4, a5, a7 :
        /\ IsRecord(s, a1, a2, a3, a4, a5, a7)
        /\ a1 = s.status /\ a2 = s.ref /\ a3 = s.code12 /\ a4 = s.code14 /\ a5 = s.pdt /\ a7 = s.oct
  BY RecordOf
<1>3. a1 \in {"run", "fatal", "overrun"} /\ a2 \in Nat /\ a3 \in 0..1 /\ a4 \in 0..1 /\ a5 \in Nat
  BY <1>2, SectionIs
<1>4. PICK b3 \in 0..1, b4 \in 0..1 : IsRecord(t, a1, a2, b3, b4, a5, a7)
  <2>1. CASE time = 0
    <3>1. PICK b4 \in 0..1 : b4 = IF a4 = 1 THEN 0 ELSE a4
      BY <1>3
    <3>2. t = [s EXCEPT !.code12 = 0, !.code14 = b4]
      BY <1>2, <2>1, <3>1 DEF Significance
    <3>3. IsRecord(t, a1, a2, 0, b4, a5, a7)
      BY <1>2, <3>2 DEF IsRecord
    <3>4. 0 \in 0..1
      OBVIOUS
    <3> QED BY <3>3, <3>4
  <2>2. CASE time # 0
    <3>1. PICK b4 \in 0..1 : b4 = IF a4 = 0 THEN 1 ELSE a4
      BY <1>3
    <3>2. t = [s EXCEPT !.code12 = 1, !.code14 = b4]
      BY <1>2, <2>2, <3>1 DEF Significance
    <3>3. IsRecord(t, a1, a2, 1, b4, a5, a7)
      BY <1>2, <3>2 DEF IsRecord
    <3>4. 1 \in 0..1
      OBVIOUS
    <3> QED BY <3>3, <3>4
  <2> QED BY <2>1, <2>2
<1>5. HasFields(t, a1, a2, a5, n, a7)
  BY <1>1, <1>2, <1>3, <1>4, FieldsAre
<1>7. Len4(s) = n + 1
  BY <1>1, Len4Is
<1> QED BY <1>2, <1>5, <1>7 DEF HasFields, Octet, WithRef

LEMMA ForecastPut ==
  ASSUME NEW s, Section(s), NEW at \in Int, at = code_table_4_4_location(s), NEW v \in Seq(Int),
         NEW w, w = <<Hour>> \o v
  PROVE  w \in Seq(Int) /\ Len(w) = 1 + Len(v) /\ (\A i \in 1..Len(v) : w[1 + i] = v[i])
         /\ Stored(StoreForecast(s, v), s, at, w)
<1>1. PICK n \in Nat : n = Len(v)
  OBVIOUS
<1>2. PICK u : u = <<Hour>>
  OBVIOUS
<1>3. u \in Seq(Int) /\ Len(u) = 1
  BY <1>2 DEF Hour
<1>4. IsConcat(w, u, 1, v, n)
  <2>1. w = u \o v
    BY <1>2
  <2> QED BY <1>1, <1>3, <2>1, ConcatIs
<1>5. w \in Seq(Int) /\ Len(w) = 1 + n /\ \A i \in 1..n : w[1 + i] = v[i]
  BY <1>4 DEF IsConcat
<1>6. PICK t : t = [s EXCEPT !.oct = Store(@, at, w)]
  OBVIOUS
<1>7. Stored(t, s, at, w)
  BY <1>5, <1>6, StoredSection
<1>8. StoreForecast(s, v) = t
  BY <1>6 DEF StoreForecast
<1> QED BY <1>1, <1>5, <1>7, <1>8

LEMMA TimedIs ==
  ASSUME NEW s, Section(s), NEW at \in Int, at = code_table_4_4_location(s), NEW v \in Seq(Int),
         NEW time, NEW w, w = <<Hour>> \o v, NEW t, t = Significance(StoreForecast(s, v), time)
  PROVE  Stored(t, s, at, w)
<1>1. PICK x : x = StoreForecast(s, v)
  OBVIOUS
<1>2. Stored(x, s, at, w)
  BY <1>1, ForecastPut
<1>3. Section(x)
  BY <1>2 DEF Stored
<1>4. t = Significance(x, time)
  BY <1>1
<1>5. WithRef(t, x, x.ref)
  BY <1>3, <1>4, SignificanceIs
<1> QED BY <1>2, <1>5 DEF Stored, WithRef

LEMMA TimeOctetsIs ==
  ASSUME NEW time \in Nat, NEW p
  PROVE  TimeOctets(time, p) \in Seq(Int) /\ Len(TimeOctets(time, p)) <= 4
BY DEF TimeOctets, int_char, int2_char

(* A section that is told its forecast time has it.                        *)
LEMMA ForecastHas ==
  ASSUME NEW s, NEW q \in Ranging, ForecastAt(q) + 4 <= Len4(s) - 1, Len4(s) \in Int,
         NEW time \in Nat, NEW w, w = <<Hour>> \o int_char(time), NEW t,
         Stored(t, s, ForecastAt(q), w)
  PROVE  HasForecast(t, q, time)
<1>1. PICK g \in 17..30 : g = ForecastAt(q)
  BY DEF ForecastAt
<1>2. PICK n \in Int : n = Len4(s) - 1
  OBVIOUS
<1>3. PICK v : v = int_char(time)
  OBVIOUS
<1>4. v \in Seq(Int) /\ Len(v) = 4 /\ v[1] = 0 /\ v[2] = 0 /\ v[3] = 0 /\ v[4] = time
  BY <1>3 DEF int_char
<1>5. PICK u : u = <<Hour>>
  OBVIOUS
<1>6. u \in Seq(Int) /\ Len(u) = 1
  BY <1>5 DEF Hour
<1>7. IsConcat(w, u, 1, v, 4)
  <2>1. w = u \o v
    BY <1>3, <1>5
  <2> QED BY ONLY <1>4, <1>6, <2>1, ConcatIs
<1>8. Len(w) = 5 /\ w[2] = 0 /\ w[3] = 0 /\ w[4] = 0 /\ w[5] = time
  <2>1. w[1 + 1] = v[1] /\ w[1 + 2] = v[2] /\ w[1 + 3] = v[3] /\ w[1 + 4] = v[4] /\ Len(w) = 1 + 4
    BY ONLY <1>7 DEF IsConcat
  <2> QED BY ONLY <1>4, <2>1
<1>9. ASSUME NEW k \in 1..4 PROVE Octet(t, g + k) = w[k + 1]
  <2>1. g + k \in Int /\ g + k \in g..(g + 5 - 1) /\ g + k \in 9..n /\ (g + k) - g + 1 = k + 1
    <3>1. g + k \in g..(g + 5 - 1) /\ (g + k) - g + 1 = k + 1
      OBVIOUS
    <3>2. g + 4 <= n /\ g + k <= n
      BY <1>1, <1>2
    <3> QED BY <3>1, <3>2
  <2>2. \A i \in Int : Octet(t, i) = IF i \in g..(g + 5 - 1) /\ i \in 9..n
                                     THEN w[i - g + 1] ELSE Octet(s, i)
    BY <1>1, <1>2, <1>8 DEF Stored
  <2> QED BY <2>1, <2>2
<1>10. /\ Octet(t, g + 1) = w[2] /\ Octet(t, g + 2) = w[3] /\ Octet(t, g + 3) = w[4]
       /\ Octet(t, g + 4) = w[5]
  <2>1. /\ Octet(t, g + 1) = w[1 + 1] /\ Octet(t, g + 2) = w[2 + 1] /\ Octet(t, g + 3) = w[3 + 1]
        /\ Octet(t, g + 4) = w[4 + 1]
    BY ONLY <1>9
  <2> QED BY ONLY <2>1
<1> QED BY <1>1, <1>8, <1>10 DEF HasForecast

LEMMA NoEnd ==
  ASSUME NEW s, Section(s), stat_proc_verf_time_location(s) = NULL
  PROVE  s.pdt \notin Ranging
<1> SUFFICES ASSUME s.pdt \in Ranging PROVE FALSE
  OBVIOUS
<1>1. PICK q \in Ranging : q = s.pdt
  OBVIOUS
<1>2. stat_proc_verf_time_location(s) = EndAt(q) /\ EndAt(q) \in 34..68
  BY <1>1, RangedIs
<1> QED BY <1>2 DEF NULL

(* The forecast time is not where a count is.                              *)
LEMMA ForecastCounted ==
  ASSUME NEW s, Section(s), KnownCounts(s), NEW at \in Int, at = code_table_4_4_location(s),
         at # NULL, NEW v \in Seq(Int), Len(v) <= 4, NEW w, w = <<Hour>> \o v,
         NEW t, Stored(t, s, at, w)
  PROVE  KnownCounts(t)
<1>1. Len(w) = 1 + Len(v)
  BY ForecastPut
<1>2. PICK c \in 13..57 : c = CountAt(s.pdt)
  BY DEF CountAt
<1>3. s.pdt \in Counting => at + 4 < c \/ at + 0 > c
  BY <1>2, Clear2 DEF Clear
<1>4. s.pdt \in Counting => c \notin at..(at + Len(w) - 1)
  BY <1>1, <1>3
<1> QED BY <1>2, <1>4, StillCounted

(* A message without ranges is told its forecast time.                     *)
LEMMA PointTimed ==
  ASSUME NEW s, Section(s), KnownCounts(s), code_table_4_4_location(s) # NULL,
         stat_proc_verf_time_location(s) = NULL, NEW v \in Seq(Int), Len(v) <= 4, NEW time,
         NEW t, t = Significance(StoreForecast(s, v), time)
  PROVE  Good(t)
<1>1. PICK at \in Int : at = code_table_4_4_location(s)
  BY Clear2 DEF Clear
<1>2. PICK w : w = <<Hour>> \o v
  OBVIOUS
<1>3. Stored(t, s, at, w)
  BY <1>1, <1>2, TimedIs
<1>6. KnownCounts(t)
  BY <1>1, <1>2, <1>3, ForecastCounted
<1>4. s.pdt \notin Ranging /\ s.pdt # 34
  BY NoEnd, ThirtyFour
<1>5. Section(t) /\ t.pdt = s.pdt
  BY <1>3 DEF Stored
<1> QED BY <1>4, <1>5, <1>6, Rangeless

LEMMA Ftime1Good ==
  ASSUME NEW s, Good(s), s.status = "run", NEW time \in Nat
  PROVE  Good(f_set_ftime1(s, time))
<1>0. Section(s) /\ KnownCounts(s)
  BY DEF Good
<1>1. PICK x : x = Significance(StoreForecast(s, TimeOctets(time, s.pdt)), time)
  OBVIOUS
<1>2. CASE BadModes(s) \/ code_table_4_4_location(s) = NULL
  <2>1. f_set_ftime1(s, time) = Fatal(s)
    BY <1>2 DEF f_set_ftime1
  <2> QED BY <1>0, <2>1, GivenUp
<1>3. CASE ~(BadModes(s) \/ code_table_4_4_location(s) = NULL) /\ stat_proc_verf_time_location(s) = NULL
  <2>1. f_set_ftime1(s, time) = x
    BY <1>1, <1>3 DEF f_set_ftime1
  <2>2. TimeOctets(time, s.pdt) \in Seq(Int) /\ Len(TimeOctets(time, s.pdt)) <= 4
    BY TimeOctetsIs
  <2> QED BY <1>0, <1>1, <1>3, <2>1, <2>2, PointTimed
<1>4. CASE ~(BadModes(s) \/ code_table_4_4_location(s) = NULL) /\ stat_proc_verf_time_location(s) # NULL
  <2>1. s.pdt # 34
    BY <1>0, <1>4, ThirtyFour
  <2>2. PICK q \in Ranging : q = s.pdt
    BY <1>0, <1>4, <2>1, NoRanges
  <2>3. PICK e \in 34..68, g \in 17..30 :
          /\ e = EndAt(q) /\ g = ForecastAt(q) /\ g + 17 <= e
          /\ stat_proc_verf_time_location(s) = e /\ code_table_4_4_location(s) = g
    BY <1>0, <2>2, RangedIs
  <2>4. PICK old : old = Number(Octets(s, g + 1, 4))
    OBVIOUS
  <2>5. PICK dt : dt = IF EndTime(s) = Unknown \/ old = Unknown THEN Unknown
                       ELSE EndTime(s) - (s.ref + old)
    OBVIOUS
  <2>6. PICK y : y = add_time(s.ref + time, dt)
    OBVIOUS
  <2>7. PICK w : w = save_time(y)
    OBVIOUS
  <2>8. PICK t : t = [x EXCEPT !.oct = Store(@, e, w)]
    OBVIOUS
  <2>9. f_set_ftime1(s, time) = t
    BY <1>1, <1>4, <2>3, <2>4, <2>5, <2>6, <2>7, <2>8 DEF f_set_ftime1
  <2>10. old = forecast_time_in_units(s)
    BY <1>0, <2>2, <2>3, <2>4, RangedIs
  <2>11. PICK v, u : v = int_char(time) /\ u = <<Hour>> \o v
    OBVIOUS
  <2>12. TimeOctets(time, s.pdt) = v /\ v \in Seq(Int) /\ Len(v) = 4
    <3>1. s.pdt # 44
      BY <1>0, <2>2, RangedIs
    <3> QED BY <2>11, <3>1 DEF TimeOctets, int_char
  <2>13. Stored(x, s, g, u)
    <3>1. g \in Int
      OBVIOUS
    <3>2. x = Significance(StoreForecast(s, v), time)
      BY <1>1, <2>12
    <3> QED BY <1>0, <2>3, <2>11, <2>12, <3>1, <3>2, TimedIs
  <2>14. Len(u) = 5
    <3>1. g \in Int
      OBVIOUS
    <3>2. Len(u) = 1 + Len(v)
      BY ONLY <1>0, <2>3, <2>11, <2>12, <3>1, ForecastPut
    <3> QED BY <2>12, <3>2
  <2>15. /\ Section(x) /\ x.pdt = q /\ x.ref = s.ref /\ x.status = "run" /\ Len4(x) = Len4(s)
         /\ \A i \in Int : i > g + 4 => Octet(x, i) = Octet(s, i)
    <3>1. Section(x) /\ x.pdt = q /\ x.ref = s.ref /\ x.status = "run" /\ Len4(x) = Len4(s)
      BY <2>2, <2>13 DEF Stored
    <3>2. \A i \in Int : i > g + 4 => i \notin g..(g + 5 - 1)
      OBVIOUS
    <3> QED BY <2>13, <2>14, <3>1, <3>2 DEF Stored
  <2>16. w \in Seq(Int) /\ Len(w) = 7
    <3>0. s.ref \in Nat
      BY <1>0, SectionIs
    <3>1. y = Unknown \/ y \in Int
      <4>1. EndTime(s) \in Int
        <5>1. PICK a : a = Octets(s, e, 7)
          OBVIOUS
        <5>2. a \in Seq(Int) /\ Len(a) = 7
          <6>1. e \in Int /\ 7 \in Nat
            OBVIOUS
          <6> QED BY <1>0, <5>1, <6>1, OctetsIs
        <5>3. EndTime(s) = get_time(a)
          BY <2>3, <5>1 DEF EndTime
        <5>4. a[1] \in Int
          BY <5>2
        <5>5. (a[1] - 1001) \div 10 \in Int
          BY <5>4
        <5> QED BY <5>3, <5>5 DEF get_time, Unknown
      <4>2. old \in Int
        <5>1. PICK a : a = Octets(s, g + 1, 4)
          OBVIOUS
        <5>2. a \in Seq(Int) /\ Len(a) = 4
          <6>1. g + 1 \in Int /\ 4 \in Nat
            OBVIOUS
          <6> QED BY <1>0, <5>1, <6>1, OctetsIs
        <5>3. a[4] \in Int
          BY ONLY <5>2
        <5> QED BY <2>4, <5>1, <5>2, <5>3 DEF Number, Unknown
      <4>3. dt \in Int
        BY <2>5, <3>0, <4>1, <4>2 DEF Unknown
      <4> QED BY <2>6, <3>0, <4>3 DEF add_time
    <3>2. y \in Int
      BY <3>1 DEF Unknown
    <3>3. w = [i \in 1..7 |-> IF y = Unknown THEN Missing ELSE 1000 + 10 * y + i]
      BY <2>7 DEF save_time
    <3>4. \A i \in 1..7 : (IF y = Unknown THEN Missing ELSE 1000 + 10 * y + i) \in Int
      BY <3>2 DEF Missing
    <3> QED BY ONLY <3>3, <3>4
  <2>17. Stored(t, x, e, w)
    <3>1. e \in Int
      OBVIOUS
    <3> QED BY ONLY <2>8, <2>15, <2>16, <3>1, StoredSection
  <2>18. /\ Section(t) /\ t.pdt = q /\ t.ref = s.ref /\ t.status = "run"
         /\ \A i \in Int : Octet(t, i) = IF i \in e..(e + 6) /\ i \in 9..(Len4(s) - 1)
                                         THEN w[i - e + 1] ELSE Octet(x, i)
    <3>1. e + Len(w) - 1 = e + 6
      BY <2>16
    <3> QED BY <2>15, <2>17, <3>1 DEF Stored
  <2>19. KnownCounts(t)
    BY <2>18 DEF KnownCounts, Ranging, Counting
  <2>20. ASSUME HasRanges(t) PROVE Right(t)
    <3>1. Octet(t, e + 7) # Missing
      BY <2>3, <2>18, <2>20, RangedIs
    <3>2. Octet(t, e + 7) = Octet(s, e + 7)
      <4>1. e + 7 \in Int /\ e + 7 \notin e..(e + 6) /\ e + 7 > g + 4
        BY <2>3
      <4> QED BY <2>15, <2>18, <4>1
    <3>3. HasRanges(s)
      BY <1>0, <2>2, <2>3, <3>1, <3>2, RangedIs
    <3>4. Right(s)
      BY <3>3 DEF Good
    <3>5. PICK r \in Nat, f \in Nat, l \in Nat :
            /\ r = s.ref /\ f = forecast_time_in_units(s) /\ l = Elapsed(s)
            /\ EndTime(s) = r + f + l
      <4>1. s.ref \in Nat
        BY <1>0, SectionIs
      <4> QED BY <3>4, <4>1 DEF Right
    <3>6. y = r + time + l
      <4>1. dt = (r + f + l) - (r + f)
        BY <2>5, <2>10, <3>5 DEF Unknown
      <4>2. dt = l
        BY <4>1
      <4>3. r + time \in Nat
        OBVIOUS
      <4> QED BY <2>6, <3>5, <4>2, <4>3, AddTime
    <3>7. PICK n \in Int : n = Len4(s) - 1
      <4>1. Len4(s) \in 9..151
        BY <1>0, OctetIs
      <4> QED BY <4>1
    <3>8. e + 7 <= n
      BY <1>0, <2>2, <2>3, <3>3, <3>7, EndWithin
    <3>9. HasForecast(x, q, time)
      <4>1. g + 4 <= Len4(s) - 1 /\ Len4(s) \in Int
        <5>1. g + 4 <= n
          BY <2>3, <3>8
        <5>2. Len4(s) \in 9..151
          BY <1>0, OctetIs
        <5> QED BY <3>7, <5>1, <5>2
      <4> QED BY <2>3, <2>11, <2>13, <4>1, ForecastHas
    <3>10. HasForecast(t, q, time)
      <4>1. \A k \in 1..4 : Octet(t, g + k) = Octet(x, g + k)
        <5> SUFFICES ASSUME NEW k \in 1..4 PROVE Octet(t, g + k) = Octet(x, g + k)
          OBVIOUS
        <5>1. g + k \in Int /\ g + k \notin e..(e + 6)
          BY <2>3
        <5> QED BY <2>18, <5>1
      <4>2. /\ Octet(t, g + 1) = Octet(x, g + 1) /\ Octet(t, g + 2) = Octet(x, g + 2)
            /\ Octet(t, g + 3) = Octet(x, g + 3) /\ Octet(t, g + 4) = Octet(x, g + 4)
        BY ONLY <4>1
      <4> QED BY <2>3, <3>9, <4>2 DEF HasForecast
    <3>11. forecast_time_in_units(t) = time
      BY <2>18, <3>10, ForecastIs
    <3>12. EndPut(t, q, y)
      <4> SUFFICES ASSUME NEW k \in 0..6 PROVE Octet(t, e + k) = w[k + 1]
        BY <2>3, <2>7 DEF EndPut
      <4>2. e + k \in Int /\ e + k \in e..(e + 6) /\ e + k \in 9..n /\ (e + k) - e + 1 = k + 1
        BY <3>8
      <4> QED BY <2>18, <3>7, <4>2
    <3>13. SameTail(t, s, q)
      <4> SUFFICES ASSUME NEW k \in 7..(11 + 12 * Ranges(s)) PROVE Octet(t, e + k) = Octet(s, e + k)
        BY <2>3 DEF SameTail
      <4>1. Ranges(s) \in 1..2
        BY <3>4 DEF Right
      <4>2. e + k \in Int /\ e + k \notin e..(e + 6) /\ e + k > g + 4
        BY <2>3, <4>1
      <4> QED BY <2>15, <2>18, <4>2
    <3>14. y = t.ref + time + Elapsed(s)
      BY <2>18, <3>5, <3>6
    <3>15. s.pdt = q
      BY <2>2
    <3> QED BY <1>0, <2>18, <3>4, <3>11, <3>12, <3>13, <3>14, <3>15, EndWritten
  <2> QED BY <2>9, <2>18, <2>19, <2>20 DEF Good
<1> QED BY <1>2, <1>3, <1>4

-----------------------------------------------------------------------------
(* -set_ftime2.                                                            *)
LEMMA StorePointGood ==
  ASSUME NEW s, Good(s), NEW time \in Nat, NEW p
  PROVE  Good(StorePoint(s, time, p))
<1>0. Section(s)
  BY DEF Good
<1>1. CASE s.status # "run"
  BY <1>1 DEF StorePoint
<1>2. CASE s.status = "run" /\ (BadModes(s) \/ code_table_4_4_location(s) = NULL
                                \/ stat_proc_verf_time_location(s) # NULL)
  <2>1. StorePoint(s, time, p) = Fatal(s)
    BY <1>2 DEF StorePoint
  <2> QED BY <1>0, <2>1, GivenUp
<1>3. CASE s.status = "run" /\ ~(BadModes(s) \/ code_table_4_4_location(s) = NULL
                                 \/ stat_proc_verf_time_location(s) # NULL)
  <2>1. PICK v : v = TimeOctets(time, p)
    OBVIOUS
  <2>2. v \in Seq(Int) /\ Len(v) <= 4
    BY <2>1, TimeOctetsIs
  <2>3. PICK t : t = Significance(StoreForecast(s, v), time)
    OBVIOUS
  <2>4. StorePoint(s, time, p) = t
    BY <1>3, <2>1, <2>3 DEF StorePoint
  <2>5. KnownCounts(s)
    BY <1>3 DEF Good
  <2> QED BY <1>0, <1>3, <2>2, <2>3, <2>4, <2>5, PointTimed
<1> QED BY <1>1, <1>2, <1>3

LEMMA SetPointGood ==
  ASSUME NEW s, Good(s), s.status = "run", NEW time \in Nat
  PROVE  Good(SetPoint(s, time))
<1>1. PICK p : p = s.pdt
  OBVIOUS
<1>2. CASE p \in DOMAIN PointTemplate
  <2>1. p \in {8, 9, 10, 11, 12, 13, 14, 34, 42, 43, 45, 46, 61}
    BY <1>2 DEF PointTemplate
  <2>2. PointTemplate[p] \in Nat
    BY <2>1 DEF PointTemplate
  <2>3. PICK x \in Nat : x = PointTemplate[p]
    BY <2>2
  <2>4. PICK t : t = f_set_pdt(s, x, -1, TRUE)
    OBVIOUS
  <2>5. Good(t)
    <3>1. -1 \in Int /\ ~(-1 > 0) /\ TRUE \in BOOLEAN
      OBVIOUS
    <3> QED BY <2>4, <3>1, NewPdtGood
  <2>6. SetPoint(s, time) = StorePoint(t, time, p)
    BY <1>1, <1>2, <2>3, <2>4 DEF SetPoint, Plus
  <2> QED BY <2>5, <2>6, StorePointGood
<1>3. CASE p \notin DOMAIN PointTemplate
  <2>1. SetPoint(s, time) = StorePoint(s, time, p)
    BY <1>1, <1>3 DEF SetPoint
  <2> QED BY <2>1, StorePointGood
<1> QED BY <1>2, <1>3

LEMMA ForRangesGood ==
  ASSUME NEW s, Good(s), s.status = "run", NEW n \in 1..2
  PROVE  Good(ForRanges(s, n))
<1>1. CASE \/ Ranges(s) = n /\ stat_proc_verf_time_location(s) # NULL
           \/ Resized(s.pdt) = <<>>
  <2>1. ForRanges(s, n) = s
    BY <1>1 DEF ForRanges
  <2> QED BY <2>1
<1>2. CASE ~(\/ Ranges(s) = n /\ stat_proc_verf_time_location(s) # NULL
             \/ Resized(s.pdt) = <<>>)
  <2>1. PICK p \in {8, 11, 46}, l \in {46, 49, 59} : Resized(s.pdt) = <<p, l>>
    BY <1>2 DEF Resized
  <2>2. Resized(s.pdt)[1] = p /\ Resized(s.pdt)[2] = l
    BY <2>1
  <2>3. PICK len \in 58..83 : len = l + 12 * n
    OBVIOUS
  <2>4. ForRanges(s, n) = f_set_pdt(s, p, len, TRUE)
    BY <1>2, <2>2, <2>3 DEF ForRanges
  <2>5. Suits(p, len - 1) /\ len <= 141 /\ len \in Int /\ p \in Nat /\ TRUE \in BOOLEAN
    <3>1. p \notin Counting \cup {33, 34, 57} /\ EndAt(p) \in Int
          /\ len - 1 >= EndAt(p) + 7 /\ len - 1 >= 33 /\ len - 1 <= 140
      <4>1. (p = 8 /\ l = 46) \/ (p = 11 /\ l = 49) \/ (p = 46 /\ l = 59)
        <5>1. CASE s.pdt \in {0, 8}
          <6>1. Resized(s.pdt) = <<8, 46>>
            BY <5>1 DEF Resized
          <6>2. p = 8 /\ l = 46
            BY ONLY <2>2, <6>1
          <6> QED BY ONLY <6>2
        <5>2. CASE s.pdt \in {1, 11}
          <6>1. Resized(s.pdt) = <<11, 49>>
            BY <5>2 DEF Resized
          <6>2. p = 11 /\ l = 49
            BY ONLY <2>2, <6>1
          <6> QED BY ONLY <6>2
        <5>3. CASE s.pdt \in {46, 48}
          <6>1. Resized(s.pdt) = <<46, 59>>
            BY <5>3 DEF Resized
          <6>2. p = 46 /\ l = 59
            BY ONLY <2>2, <6>1
          <6> QED BY ONLY <6>2
        <5>4. s.pdt \in {0, 8} \cup {1, 11} \cup {46, 48}
          BY <1>2 DEF Resized
        <5> QED BY <5>1, <5>2, <5>3, <5>4
      <4> QED BY <2>3, <4>1 DEF Counting, EndAt
    <3> QED BY <3>1 DEF Suits
  <2> QED BY <2>4, <2>5, NewPdtGood
<1> QED BY <1>1, <1>2

LEMMA StoreRangesGood ==
  ASSUME NEW s, Section(s), s.status = "run" => KnownCounts(s), NEW time \in Nat,
         NEW ranges \in RangeLists, Passing(ranges)
  PROVE  Good(AtRanges(s, time, ranges))
<1>0. Section(s)
  OBVIOUS
<1>1. PICK at : at = stat_proc_verf_time_location(s)
  OBVIOUS
<1>2. AtRanges(s, time, ranges) = StoreRanges(s, at, time, ranges)
  BY <1>1 DEF AtRanges
<1>3. CASE s.status # "run"
  BY <1>2, <1>3 DEF StoreRanges, Good
<1>4. CASE s.status = "run" /\ (BadModes(s) \/ code_table_4_4_location(s) = NULL \/ at = NULL)
  <2>1. AtRanges(s, time, ranges) = Fatal(s)
    BY <1>2, <1>4 DEF StoreRanges
  <2> QED BY <1>0, <2>1, GivenUp
<1>5. CASE /\ s.status = "run" /\ ~(BadModes(s) \/ code_table_4_4_location(s) = NULL \/ at = NULL)
           /\ at + 12 * (Len(ranges) + 1) > Len4(s)
  <2>1. AtRanges(s, time, ranges) = Overrun(s)
    BY <1>2, <1>5 DEF StoreRanges
  <2> QED BY <1>0, <2>1, GivenUp
<1>6. CASE /\ s.status = "run" /\ ~(BadModes(s) \/ code_table_4_4_location(s) = NULL \/ at = NULL)
           /\ ~(at + 12 * (Len(ranges) + 1) > Len4(s))
  <2>1. KnownCounts(s)
    BY <1>6
  <2>2. s.pdt # 34
    BY <1>0, <1>6, ThirtyFour
  <2>3. PICK q \in Ranging : q = s.pdt
    BY <1>0, <1>1, <1>6, <2>1, <2>2, NoRanges
  <2>4. PICK e \in 34..68, g \in 17..30 :
          /\ e = EndAt(q) /\ g = ForecastAt(q) /\ g + 17 <= e
          /\ at = e /\ code_table_4_4_location(s) = g
    BY <1>0, <1>1, <2>3, RangedIs
  <2>5. PICK n \in 1..2, total \in Nat : n = Len(ranges) /\ total = TotalLen(ranges)
    BY RangesAre
  <2>6. PICK last \in Int : last = Len4(s) - 1 /\ e + 11 + 12 * n <= last /\ Len4(s) \in Int
    <3>1. Len4(s) \in 9..151
      BY <1>0, OctetIs
    <3>2. PICK m \in 9..151 : m = Len4(s)
      BY <3>1
    <3>3. ~(e + 12 * (n + 1) > m)
      BY <1>6, <2>4, <2>5, <3>2
    <3>4. m - 1 \in Int /\ e + 11 + 12 * n <= m - 1
      BY ONLY <3>3, e \in 34..68, n \in 1..2, m \in 9..151
    <3> QED BY <3>2, <3>4
  <2>7. PICK v, u : v = int_char(time) /\ u = <<Hour>> \o v
    OBVIOUS
  <2>8. v \in Seq(Int) /\ Len(v) = 4
    BY <2>7 DEF int_char
  <2>9. PICK x : x = StoreForecast(s, v)
    OBVIOUS
  <2>10. Stored(x, s, g, u) /\ Len(u) = 5
    <3>1. g \in Int
      OBVIOUS
    <3>2. Len(u) = 1 + Len(v) /\ Stored(StoreForecast(s, v), s, g, u)
      BY ONLY <1>0, <2>4, <2>7, <2>8, <3>1, ForecastPut
    <3> QED BY <2>8, <2>9, <3>2
  <2>11. Section(x) /\ x.pdt = q /\ x.ref = s.ref /\ x.status = "run" /\ Len4(x) = Len4(s)
    BY <1>6, <2>3, <2>10 DEF Stored
  <2>12. HasForecast(x, q, time)
    <3>1. ForecastAt(q) + 4 <= Len4(s) - 1
      BY <2>4, <2>6
    <3> QED BY <2>4, <2>6, <2>7, <2>10, <3>1, ForecastHas
  <2>13. PICK y \in Nat : y = s.ref + time + total
    <3>1. s.ref \in Nat
      BY <1>0, SectionIs
    <3> QED BY <3>1
  <2>14. PICK w : w = Block(y, ranges)
    OBVIOUS
  <2>15. IsBlock(w, y, n, ranges)
    BY <2>5, <2>14, BlockIs
  <2>16. w \in Seq(Int) /\ Len(w) = 12 + 12 * n
    BY <2>15 DEF IsBlock
  <2>17. PICK t : t = [x EXCEPT !.oct = Store(@, e, w)]
    OBVIOUS
  <2>18. AtRanges(s, time, ranges) = t
    <3>1. w = save_time(s.ref + time + TotalLen(ranges)) \o <<Len(ranges)>> \o int_char(0) \o AllRanges(ranges)
      BY <2>5, <2>13, <2>14 DEF Block
    <3> QED BY <1>2, <1>6, <2>4, <2>7, <2>9, <2>17, <3>1 DEF StoreRanges
  <2>19. Stored(t, x, e, w)
    <3>1. e \in Int
      OBVIOUS
    <3> QED BY ONLY <2>11, <2>16, <2>17, <3>1, StoredSection
  <2>20. /\ Section(t) /\ t.pdt = q /\ t.ref = s.ref /\ t.status = "run"
         /\ \A i \in Int : Octet(t, i) = IF i \in e..(e + 11 + 12 * n) /\ i \in 9..last
                                         THEN w[i - e + 1] ELSE Octet(x, i)
    <3>1. e + Len(w) - 1 = e + 11 + 12 * n
      BY <2>16
    <3>2. Len4(x) - 1 = last
      BY <2>6, <2>11
    <3> QED BY <2>11, <2>19, <3>1, <3>2 DEF Stored
  <2>21. HasForecast(t, q, time)
    <3>1. \A k \in 1..4 : Octet(t, g + k) = Octet(x, g + k)
      <4> SUFFICES ASSUME NEW k \in 1..4 PROVE Octet(t, g + k) = Octet(x, g + k)
        OBVIOUS
      <4>1. g + k \in Int /\ g + k \notin e..(e + 11 + 12 * n)
        BY <2>4
      <4> QED BY <2>20, <4>1
    <3>2. /\ Octet(t, g + 1) = Octet(x, g + 1) /\ Octet(t, g + 2) = Octet(x, g + 2)
          /\ Octet(t, g + 3) = Octet(x, g + 3) /\ Octet(t, g + 4) = Octet(x, g + 4)
      BY ONLY <3>1
    <3> QED BY <2>4, <2>12, <3>2 DEF HasForecast
  <2>22. HasBlock(t, q, n, w)
    <3> SUFFICES ASSUME NEW k \in 0..(11 + 12 * n) PROVE Octet(t, e + k) = w[k + 1]
      BY <2>4 DEF HasBlock
    <3>1. e + k \in Int /\ e + k \in e..(e + 11 + 12 * n) /\ e + k \in 9..last /\ (e + k) - e + 1 = k + 1
      BY <2>6
    <3> QED BY <2>20, <3>1
  <2>23. Right(t)
    <3>1. y = t.ref + time + TotalLen(ranges)
      BY <2>5, <2>13, <2>20
    <3> QED BY <2>5, <2>15, <2>20, <2>21, <2>22, <3>1, WrittenRight
  <2>24. KnownCounts(t)
    BY <2>20 DEF KnownCounts, Ranging, Counting
  <2> QED BY <2>18, <2>20, <2>23, <2>24 DEF Good
<1> QED BY <1>3, <1>4, <1>5, <1>6

(* The ranges a command may ask for.                                       *)
Ask(ranges) == ranges = <<>> \/ (ranges \in RangeLists /\ Passing(ranges))

LEMMA Ftime2Good ==
  ASSUME NEW s, Good(s), s.status = "run", NEW time \in Nat, NEW ranges, Ask(ranges)
  PROVE  Good(f_set_ftime2(s, time, ranges))
<1>1. CASE ranges = <<>>
  <2>1. f_set_ftime2(s, time, ranges) = SetPoint(s, time)
    BY <1>1 DEF f_set_ftime2
  <2> QED BY <2>1, SetPointGood
<1>2. CASE ranges # <<>>
  <2>1. ranges \in RangeLists /\ Passing(ranges)
    BY <1>2 DEF Ask
  <2>2. PICK n \in 1..2 : n = Len(ranges)
    BY <2>1, RangesAre
  <2>3. PICK x : x = ForRanges(s, n)
    OBVIOUS
  <2>4. Good(x)
    BY <2>3, ForRangesGood
  <2>5. f_set_ftime2(s, time, ranges) = AtRanges(x, time, ranges)
    BY <1>2, <2>2, <2>3 DEF f_set_ftime2, SetRanges
  <2>6. Section(x) /\ (x.status = "run" => KnownCounts(x))
    BY <2>4 DEF Good
  <2> QED BY <2>1, <2>5, <2>6, StoreRangesGood
<1> QED BY <1>1, <1>2

-----------------------------------------------------------------------------
(* What the options ask for.                                               *)
LEMMA StartRanges ==
  \E q, r : /\ OneRange(0, 6) = <<r>> /\ <<Outer(3, 12)>> \o OneRange(0, 6) = <<q, r>>
            /\ r \in RangeRecord /\ q \in RangeRecord /\ r.code11 = 2 /\ q.code11 = 1
<1>1. PICK r : r = [code10 |-> 0, code11 |-> 2, len |-> 6, unit2 |-> Missing, step |-> 0]
  OBVIOUS
<1>2. PICK q : q = [code10 |-> 0, code11 |-> 1, len |-> 24, unit2 |-> Hour, step |-> 12]
  OBVIOUS
<1>3. r \in RangeRecord /\ r.code11 = 2
  BY <1>1 DEF RangeRecord, Missing
<1>4. q \in RangeRecord /\ q.code11 = 1
  BY <1>2 DEF RangeRecord, Hour
<1>5. OneRange(0, 6) = <<r>>
  BY <1>1 DEF OneRange
<1>6. Outer(3, 12) = q
  <2>1. (3 - 1) * 12 = 24
    OBVIOUS
  <2> QED BY <1>2, <2>1 DEF Outer
<1>7. <<Outer(3, 12)>> \o OneRange(0, 6) = <<q, r>>
  <2>1. PICK x, y : x = <<q>> \o <<r>> /\ y = <<q, r>>
    OBVIOUS
  <2>2. DOMAIN x = 1..2 /\ x[1] = q /\ x[2] = r /\ x = [i \in 1..2 |-> x[i]]
    BY ONLY <2>1
  <2>3. DOMAIN y = 1..2 /\ y[1] = q /\ y[2] = r /\ y = [i \in 1..2 |-> y[i]]
    BY ONLY <2>1
  <2>4. \A i \in 1..2 : x[i] = y[i]
    BY ONLY <2>2, <2>3
  <2>5. x = y
    BY ONLY <2>2, <2>3, <2>4
  <2> QED BY ONLY <1>5, <1>6, <2>1, <2>5
<1> QED BY <1>3, <1>4, <1>5, <1>7

LEMMA InputsAsk ==
  ASSUME NEW ranges \in RangeInputs
  PROVE  Ask(ranges)
<1>1. PICK q, r :
        /\ OneRange(0, 6) = <<r>> /\ <<Outer(3, 12)>> \o OneRange(0, 6) = <<q, r>>
        /\ r \in RangeRecord /\ q \in RangeRecord /\ r.code11 = 2 /\ q.code11 = 1
  BY StartRanges
<1>8. ranges \in {<<>>, <<r>>, <<q, r>>}
  BY <1>1 DEF RangeInputs
<1>9. Ask(<<r>>)
  BY <1>1 DEF Ask, RangeLists, Passing
<1>10. Ask(<<q, r>>)
  <2>1. <<q, r>> \in RangeLists
    BY <1>1 DEF RangeLists
  <2>2. Passing(<<q, r>>)
    <3>1. \A i \in 1..2 : <<q, r>>[i].code11 \notin {3, 4}
      <4> SUFFICES ASSUME NEW i \in 1..2 PROVE <<q, r>>[i].code11 \notin {3, 4}
        OBVIOUS
      <4>1. CASE i = 1
        <5>1. <<q, r>>[i] = q
          BY <4>1
        <5> QED BY <1>1, <5>1
      <4>2. CASE i = 2
        <5>1. <<q, r>>[i] = r
          BY <4>2
        <5> QED BY <1>1, <5>1
      <4> QED BY <4>1, <4>2
    <3>2. Len(<<q, r>>) = 2
      OBVIOUS
    <3> QED BY <3>1, <3>2 DEF Passing
  <2> QED BY <2>1, <2>2 DEF Ask
<1>11. Ask(<<>>)
  BY DEF Ask
<1> QED BY <1>8, <1>9, <1>10, <1>11

LEMMA LimitsAre == Limits \in Seq(Int) /\ Len(Limits) = 11
BY DEF Limits

(* Fields of the metadata.                                                 *)
IsField(f) ==
  \/ f.field = "level" /\ f.n \in Int
  \/ f.field = "prob" /\ f.limits = Limits
  \/ f.field = "derived" /\ f.n \in Int
  \/ f.field = "ENS=+" /\ f.n \in Int
  \/ f.field = "members" /\ f.n \in Int

LEMMA FieldGood ==
  ASSUME NEW s, Good(s), s.status = "run", NEW f, IsField(f)
  PROVE  Good(Field(s, f))
<1>0. Missing \in Int /\ -1 \in Int /\ 3 \in Int
  BY DEF Missing
<1>1. CASE f.field = "level" /\ f.n \in Int
  <2>1. Field(s, f) = f_set_percentile(s, f.n)
    BY <1>1 DEF Field
  <2> QED BY <1>1, <2>1, PercentileGood
<1>2. CASE f.field = "prob" /\ f.limits = Limits
  <2>1. Field(s, f) = f_set_prob(s, Missing, Missing, Limits)
    BY <1>2 DEF Field
  <2> QED BY <1>0, <2>1, LimitsAre, ProbGood
<1>3. CASE f.field = "derived" /\ f.n \in Int
  <2>1. Field(s, f) = f_set_ensm_derived_fcst(s, f.n, Missing)
    BY <1>3 DEF Field
  <2> QED BY <1>0, <1>3, <2>1, DerivedGood
<1>4. CASE f.field = "ENS=+" /\ f.n \in Int
  <2>1. Field(s, f) = f_set_ens_num(s, 3, f.n, -1)
    BY <1>4 DEF Field
  <2> QED BY <1>0, <1>4, <2>1, EnsNumGood
<1>5. CASE f.field = "members" /\ f.n \in Int
  <2>1. Field(s, f) = f_set_ens_num(s, -1, -1, f.n)
    BY <1>5 DEF Field
  <2> QED BY <1>0, <1>5, <2>1, EnsNumGood
<1> QED BY <1>1, <1>2, <1>3, <1>4, <1>5 DEF IsField

(* One field after another.                                                *)
OneField(s, f) == IF s.status # "run" THEN s ELSE Field(s, f)

LEMMA OneFieldGood ==
  ASSUME NEW s, Good(s), NEW f, IsField(f)
  PROVE  Good(OneField(s, f))
<1>1. CASE s.status = "run"
  BY <1>1, FieldGood DEF OneField
<1>2. CASE s.status # "run"
  BY <1>2 DEF OneField
<1> QED BY <1>1, <1>2

LEMMA FieldsOf ==
  ASSUME NEW s, NEW f, NEW h
  PROVE  /\ AllFields(s, <<>>) = s
         /\ AllFields(s, <<f>>) = OneField(s, f)
         /\ AllFields(s, <<f, h>>) = OneField(OneField(s, f), h)
<1>1. ASSUME NEW l, l = <<>> PROVE AllFields(s, l) = s
  <2> DEFINE Solves(u) == u = [i \in 0..Len(l) |-> IF i = 0 THEN s
                                ELSE IF u[i - 1].status # "run" THEN u[i - 1] ELSE Field(u[i - 1], l[i])]
             g == [i \in 0..0 |-> s]
  <2>0. Len(l) = 0
    BY <1>1
  <2>1. Solves(g)
    <3>1. g = [i \in 0..0 |-> IF i = 0 THEN s
                ELSE IF g[i - 1].status # "run" THEN g[i - 1] ELSE Field(g[i - 1], l[i])]
      OBVIOUS
    <3> QED BY <3>1, <2>0
  <2>2. PICK w : w = CHOOSE u : Solves(u)
    OBVIOUS
  <2>3. Solves(w)
    <3> HIDE DEF Solves, g
    <3> QED BY <2>1, <2>2
  <2>4. AllFields(s, l) = w[Len(l)]
    BY <2>2 DEF AllFields
  <2>5. w[0] = s
    BY <2>3, <2>0
  <2> QED BY <2>4, <2>5, <2>0
<1>2. ASSUME NEW l, l = <<f>> PROVE AllFields(s, l) = OneField(s, f)
  <2> DEFINE Solves(u) == u = [i \in 0..Len(l) |-> IF i = 0 THEN s
                                ELSE IF u[i - 1].status # "run" THEN u[i - 1] ELSE Field(u[i - 1], l[i])]
             g == [i \in 0..1 |-> IF i = 0 THEN s ELSE OneField(s, f)]
  <2>0. Len(l) = 1 /\ l[1] = f
    BY <1>2
  <2>1. Solves(g)
    <3>1. g = [i \in 0..1 |-> IF i = 0 THEN s
                ELSE IF g[i - 1].status # "run" THEN g[i - 1] ELSE Field(g[i - 1], l[i])]
      <4>1. g[0] = s /\ g[1] = OneField(s, f) /\ g = [i \in 0..1 |-> g[i]]
        OBVIOUS
      <4>2. \A i \in 0..1 : g[i] = IF i = 0 THEN s
                ELSE IF g[i - 1].status # "run" THEN g[i - 1] ELSE Field(g[i - 1], l[i])
        <5> HIDE DEF g
        <5> SUFFICES ASSUME NEW i \in 0..1
                     PROVE  g[i] = IF i = 0 THEN s
                              ELSE IF g[i - 1].status # "run" THEN g[i - 1] ELSE Field(g[i - 1], l[i])
          OBVIOUS
        <5>1. CASE i = 0
          BY <4>1, <5>1
        <5>2. CASE i = 1
          <6>1. i - 1 = 0
            BY <5>2
          <6> QED BY <2>0, <4>1, <5>2, <6>1 DEF OneField
        <5> QED BY <5>1, <5>2
      <4> HIDE DEF g
      <4> QED BY <4>1, <4>2
    <3> QED BY <3>1, <2>0
  <2>2. PICK w : w = CHOOSE u : Solves(u)
    OBVIOUS
  <2>3. Solves(w)
    <3> HIDE DEF Solves, g
    <3> QED BY <2>1, <2>2
  <2>4. AllFields(s, l) = w[Len(l)]
    BY <2>2 DEF AllFields
  <2>5. \A i \in 0..1 : w[i] = IF i = 0 THEN s
                ELSE IF w[i - 1].status # "run" THEN w[i - 1] ELSE Field(w[i - 1], l[i])
    BY <2>3, <2>0
  <2>6. w[0] = s
    BY <2>5
  <2>7. w[1] = OneField(s, f)
    BY <2>0, <2>5, <2>6 DEF OneField
  <2> QED BY <2>4, <2>7, <2>0
<1>3. ASSUME NEW l, l = <<f, h>> PROVE AllFields(s, l) = OneField(OneField(s, f), h)
  <2> DEFINE Solves(u) == u = [i \in 0..Len(l) |-> IF i = 0 THEN s
                                ELSE IF u[i - 1].status # "run" THEN u[i - 1] ELSE Field(u[i - 1], l[i])]
             g == [i \in 0..2 |-> IF i = 0 THEN s ELSE IF i = 1 THEN OneField(s, f)
                                  ELSE OneField(OneField(s, f), h)]
  <2>0. Len(l) = 2 /\ l[1] = f /\ l[2] = h
    BY <1>3
  <2>1. Solves(g)
    <3>1. g = [i \in 0..2 |-> IF i = 0 THEN s
                ELSE IF g[i - 1].status # "run" THEN g[i - 1] ELSE Field(g[i - 1], l[i])]
      <4>1. g[0] = s /\ g[1] = OneField(s, f) /\ g[2] = OneField(OneField(s, f), h)
            /\ g = [i \in 0..2 |-> g[i]]
        OBVIOUS
      <4>2. \A i \in 0..2 : g[i] = IF i = 0 THEN s
                ELSE IF g[i - 1].status # "run" THEN g[i - 1] ELSE Field(g[i - 1], l[i])
        <5> HIDE DEF g
        <5> SUFFICES ASSUME NEW i \in 0..2
                     PROVE  g[i] = IF i = 0 THEN s
                              ELSE IF g[i - 1].status # "run" THEN g[i - 1] ELSE Field(g[i - 1], l[i])
          OBVIOUS
        <5>1. CASE i = 0
          BY <4>1, <5>1
        <5>2. CASE i = 1
          <6>1. i - 1 = 0
            BY <5>2
          <6> QED BY <2>0, <4>1, <5>2, <6>1 DEF OneField
        <5>3. CASE i = 2
          <6>1. i - 1 = 1
            BY <5>3
          <6>2. g[2] = OneField(g[1], h)
            BY <4>1
          <6> QED BY <2>0, <5>3, <6>1, <6>2 DEF OneField
        <5> QED BY <5>1, <5>2, <5>3
      <4> HIDE DEF g
      <4> QED BY <4>1, <4>2
    <3> QED BY <3>1, <2>0
  <2>2. PICK w : w = CHOOSE u : Solves(u)
    OBVIOUS
  <2>3. Solves(w)
    <3> HIDE DEF Solves, g
    <3> QED BY <2>1, <2>2
  <2>4. AllFields(s, l) = w[Len(l)]
    BY <2>2 DEF AllFields
  <2>5. \A i \in 0..2 : w[i] = IF i = 0 THEN s
                ELSE IF w[i - 1].status # "run" THEN w[i - 1] ELSE Field(w[i - 1], l[i])
    BY <2>3, <2>0
  <2>6. w[0] = s
    BY <2>5
  <2>7. w[1] = OneField(s, f)
    BY <2>0, <2>5, <2>6 DEF OneField
  <2>8. w[2] = OneField(w[1], h)
    BY <2>0, <2>5 DEF OneField
  <2> QED BY <2>4, <2>7, <2>8, <2>0
<1> QED BY <1>1, <1>2, <1>3

LEMMA AllFieldsGood ==
  ASSUME NEW s, Good(s), NEW fields \in MetadataFields
  PROVE  Good(AllFields(s, fields))
<1>1. PICK a, b, c, d, e :
        /\ a = [field |-> "ENS=+", n |-> 7] /\ b = [field |-> "members", n |-> 20]
        /\ c = [field |-> "derived", n |-> 0] /\ d = [field |-> "level", n |-> 50]
        /\ e = [field |-> "prob", limits |-> Limits]
  OBVIOUS
<1>2. IsField(a) /\ IsField(b) /\ IsField(c) /\ IsField(d) /\ IsField(e)
  BY <1>1 DEF IsField
<1>3. fields \in {<<>>, <<a>>, <<b>>, <<a, b>>, <<c>>, <<d>>, <<e>>}
  BY <1>1 DEF MetadataFields, MemberFields
<1>4. ASSUME NEW f, IsField(f) PROVE Good(AllFields(s, <<f>>))
  <2>1. Good(OneField(s, f))
    BY <1>4, OneFieldGood
  <2>2. AllFields(s, <<f>>) = OneField(s, f)
    BY FieldsOf
  <2> QED BY <2>1, <2>2
<1>5. Good(AllFields(s, <<a, b>>))
  <2>1. Good(OneField(s, a))
    BY <1>2, OneFieldGood
  <2>2. Good(OneField(OneField(s, a), b))
    BY <1>2, <2>1, OneFieldGood
  <2> QED BY <2>2, FieldsOf
<1>6. Good(AllFields(s, <<>>))
  BY FieldsOf
<1> QED BY <1>2, <1>3, <1>4, <1>5, <1>6

LEMMA MetadataGood ==
  ASSUME NEW s, Good(s), s.status = "run", NEW date \in Nat, NEW time \in Nat,
         NEW ranges, Ask(ranges), NEW fields \in MetadataFields
  PROVE  Good(set_metadata_string(s, date, time, ranges, fields))
<1>1. PICK x : x = f_set_date(s, date)
  OBVIOUS
<1>2. Good(x)
  BY <1>1, SetDateGood
<1>3. set_metadata_string(s, date, time, ranges, fields) = Dated(x, time, ranges, fields)
  BY <1>1 DEF set_metadata_string
<1>4. CASE x.status # "run"
  BY <1>2, <1>3, <1>4 DEF Dated
<1>5. CASE x.status = "run"
  <2>1. PICK y : y = f_set_ftime2(x, time, ranges)
    OBVIOUS
  <2>2. Good(y)
    BY <1>2, <1>5, <2>1, Ftime2Good
  <2>3. Dated(x, time, ranges, fields) = AllFields(y, fields)
    BY <1>5, <2>1 DEF Dated
  <2> QED BY <1>3, <2>2, <2>3, AllFieldsGood
<1> QED BY <1>4, <1>5

-----------------------------------------------------------------------------
(* The messages of the beginning.                                          *)
LEMMA SmallestFor ==
  ASSUME NEW q \in Ranging
  PROVE  smallest_pdt_len(q) = EndAt(q) + 24
<1> DEFINE rows ==
        {<<{0, 7, 32, 1100}, 34>>, <<{1, 15, 33}, 37>>, <<{2, 40}, 36>>, <<{3, 61}, 68>>,
         <<{4}, 64>>, <<{5, 51}, 47>>, <<{6, 91}, 35>>, <<{8, 48}, 58>>, <<{9, 46}, 71>>,
         <<{10}, 59>>, <<{11, 34}, 61>>, <<{12, 42}, 60>>, <<{13}, 92>>, <<{14}, 88>>,
         <<{20, 54, 57}, 43>>, <<{30}, 14>>, <<{31}, 25>>, <<{41}, 39>>, <<{43}, 63>>,
         <<{44}, 45>>, <<{45, 1101}, 50>>, <<{47}, 74>>, <<{52}, 31>>, <<{53}, 40>>,
         <<{60}, 44>>, <<{254}, 15>>, <<{1000}, 22>>, <<{1001}, 38>>}
<1>1. smallest_pdt_len(q) = Place(rows, q)
  BY DEF smallest_pdt_len
<1>2. ASSUME NEW r \in rows, q \in r[1] PROVE r[2] = EndAt(q) + 24
  BY <1>2 DEF Ranging, EndAt
<1>3. \E r \in rows : q \in r[1]
  BY DEF Ranging
<1> HIDE DEF rows
<1>4. PICK r \in rows : q \in r[1] /\ Place(rows, q) = r[2]
  BY <1>3, PlaceIs
<1> QED BY <1>1, <1>2, <1>4

LEMMA SmallestFew ==
  ASSUME NEW p \in {1002, 30, 57}
  PROVE  smallest_pdt_len(p) = (CASE p = 1002 -> -1 [] p = 30 -> 14 [] p = 57 -> 43)
<1> DEFINE rows ==
        {<<{0, 7, 32, 1100}, 34>>, <<{1, 15, 33}, 37>>, <<{2, 40}, 36>>, <<{3, 61}, 68>>,
         <<{4}, 64>>, <<{5, 51}, 47>>, <<{6, 91}, 35>>, <<{8, 48}, 58>>, <<{9, 46}, 71>>,
         <<{10}, 59>>, <<{11, 34}, 61>>, <<{12, 42}, 60>>, <<{13}, 92>>, <<{14}, 88>>,
         <<{20, 54, 57}, 43>>, <<{30}, 14>>, <<{31}, 25>>, <<{41}, 39>>, <<{43}, 63>>,
         <<{44}, 45>>, <<{45, 1101}, 50>>, <<{47}, 74>>, <<{52}, 31>>, <<{53}, 40>>,
         <<{60}, 44>>, <<{254}, 15>>, <<{1000}, 22>>, <<{1001}, 38>>}
<1>1. smallest_pdt_len(p) = Place(rows, p)
  BY DEF smallest_pdt_len
<1>2. ASSUME NEW r \in rows, p \in r[1]
      PROVE  p # 1002 /\ (p = 30 => r[2] = 14) /\ (p = 57 => r[2] = 43)
  BY <1>2
<1>3. p # 1002 => \E r \in rows : p \in r[1]
  OBVIOUS
<1> HIDE DEF rows
<1>4. CASE p # 1002
  <2>1. PICK r \in rows : p \in r[1] /\ Place(rows, p) = r[2]
    BY <1>3, <1>4, PlaceIs
  <2> QED BY <1>1, <1>2, <2>1
<1>5. CASE p = 1002
  <2>1. ~(\E r \in rows : p \in r[1])
    BY <1>2, <1>5
  <2>2. Place(rows, p) = -1
    BY <2>1, PlaceIs DEF NULL
  <2> QED BY <1>1, <1>5, <2>2
<1> QED BY <1>4, <1>5

LEMMA StartIs ==
  ASSUME NEW p \in Nat, p # 34, NEW n \in 1..2
  PROVE  /\ \E h \in 8..140 : 9..(StartLen(p, n) - 1) = 9..h /\ Suits(p, h)
         /\ p \in Ranging => StartLen(p, n) \in Int /\ StartLen(p, n) >= EndAt(p) + 12 * (n + 1)
<1>1. PICK m \in -1..92 : m = smallest_pdt_len(p)
  BY SmallestIs
<1>2. PICK l \in -1..120 : l = StartLen(p, n) /\ l >= m /\ (p \in Ranging => l >= m + 12 * (n - 1))
  <2>1. CASE p \in {13, 14}
    BY <1>1, <2>1 DEF StartLen
  <2>2. CASE p \in {3, 4}
    BY <1>1, <2>2 DEF StartLen, Ranging
  <2>3. CASE p \in {1002, 30, 57}
    <3>1. m = (CASE p = 1002 -> -1 [] p = 30 -> 14 [] p = 57 -> 43)
      BY <1>1, <2>3, SmallestFew
    <3>2. StartLen(p, n) = (CASE p = 1002 -> 35 [] p = 30 -> 24 [] p = 57 -> 48)
      BY <2>3 DEF StartLen, Ranged
    <3>3. p \notin Ranging
      BY <2>3 DEF Ranging
    <3> QED BY <2>3, <3>1, <3>2, <3>3
  <2>4. CASE p \in Ranging \ {13, 14}
    <3>1. StartLen(p, n) = m + 12 * (n - 1)
      BY <1>1, <2>4 DEF StartLen, Ranged, Ranging
    <3> QED BY <3>1
  <2>5. CASE p \notin Ranging \cup {3, 4, 1002, 30, 57}
    <3>1. StartLen(p, n) = m
      BY <1>1, <2>5 DEF StartLen, Ranged, Ranging
    <3> QED BY <2>5, <3>1
  <2> QED BY <2>1, <2>2, <2>3, <2>4, <2>5
<1>3. PICK h \in 8..140 : h = IF l - 1 > 8 THEN l - 1 ELSE 8
  OBVIOUS
<1>4. 9..(l - 1) = 9..h
  BY <1>3
<1>5. Suits(p, h)
  <2>1. h \in Int /\ h >= m - 1 /\ h <= 140
    BY <1>2, <1>3
  <2> QED BY <1>1, <2>1, SmallestIs
<1>6. p \in Ranging => l >= EndAt(p) + 12 * (n + 1)
  <2> SUFFICES ASSUME p \in Ranging PROVE l >= EndAt(p) + 12 * (n + 1)
    OBVIOUS
  <2>1. PICK e \in 34..68 : e = EndAt(p)
    <3>1. EndAt(p) \in 34..68
      BY DEF Ranging, EndAt
    <3> QED BY <3>1
  <2>2. m = e + 24
    BY <1>1, <2>1, SmallestFor
  <2>3. l >= m + 12 * (n - 1)
    BY <1>2
  <2> QED BY <2>1, <2>2, <2>3
<1>7. \E i \in 8..140 : 9..(StartLen(p, n) - 1) = 9..i /\ Suits(p, i)
  <2>1. 9..(StartLen(p, n) - 1) = 9..h
    BY <1>2, <1>4
  <2> QED BY <1>5, <2>1
<1>8. p \in Ranging => StartLen(p, n) \in Int /\ StartLen(p, n) >= EndAt(p) + 12 * (n + 1)
  <2>1. l \in Int /\ StartLen(p, n) = l
    BY <1>2
  <2> QED BY <1>6, <2>1
<1> QED BY <1>7, <1>8

-----------------------------------------------------------------------------
(* A message before its counts and times are filled in.                    *)
BlankStart(p, n) ==
  [status |-> "run", ref |-> 0, code12 |-> 1, code14 |-> 1, pdt |-> p,
   jma |-> FALSE, oct |-> [i \in 9 .. StartLen(p, n) - 1 |-> i]]

CountedStart(p, n) == [BlankStart(p, n) EXCEPT !.oct = Counts(BlankStart(p, n))]

Begun(x, p, n) ==
  /\ Section(x) /\ x.pdt = p /\ x.ref = 0 /\ x.status = "run"
  /\ p \in Ranging => Len4(x) >= EndAt(p) + 12 * (n + 1)
  /\ KnownCounts(x)

LEMMA BlankBegun ==
  ASSUME NEW p \in Nat, p # 34, NEW n \in 1..2
  PROVE  Begun(BlankStart(p, n), p, n)
<1>1. PICK h \in 8..140 : 9..(StartLen(p, n) - 1) = 9..h /\ Suits(p, h)
  BY StartIs
<1>2. PICK o : o = [i \in 9..h |-> i]
  OBVIOUS
<1>3. o \in [9..h -> Int]
  BY <1>2
<1>4. BlankStart(p, n) = [status |-> "run", ref |-> 0, code12 |-> 1, code14 |-> 1, pdt |-> p,
                          jma |-> FALSE, oct |-> o]
  <2>1. [i \in 9 .. StartLen(p, n) - 1 |-> i] = o
    <3>1. PICK D : D = 9..(StartLen(p, n) - 1) /\ D = 9..h
      BY <1>1
    <3>2. [i \in D |-> i] = o
      BY <1>2, <3>1
    <3> QED BY <3>1, <3>2
  <2> QED BY <2>1 DEF BlankStart
<1>5. h \in 8..150
  OBVIOUS
<1>6. PICK x : x = BlankStart(p, n)
  OBVIOUS
<1>7. Section(x)
  <2>1. "run" \in {"run", "fatal", "overrun"} /\ 0 \in Nat /\ 1 \in 0..1
    OBVIOUS
  <2>2. Section([status |-> "run", ref |-> 0, code12 |-> 1, code14 |-> 1, pdt |-> p,
                 jma |-> FALSE, oct |-> o])
    BY ONLY <1>1, <1>3, <1>5, <2>1, p \in Nat, SectionMade
  <2> QED BY <1>4, <1>6, <2>2
<1>8. x.pdt = p /\ x.ref = 0 /\ x.status = "run" /\ x.oct = o
  BY <1>4, <1>6
<1>9. Len4(x) = h + 1
  BY <1>3, <1>5, <1>8, Len4Is
<1>10. ASSUME p \in Ranging PROVE Len4(x) >= EndAt(p) + 12 * (n + 1)
  <2>1. PICK l \in Int : l = StartLen(p, n) /\ l >= EndAt(p) + 12 * (n + 1)
    BY <1>10, StartIs
  <2>2. EndAt(p) \in 34..68
    BY <1>10 DEF Ranging, EndAt
  <2>3. PICK e \in 34..68 : e = EndAt(p)
    BY <2>2
  <2>4. l - 1 \in 9..(l - 1)
    BY <2>1, <2>3
  <2>5. l - 1 \in 9..h
    BY <1>1, <2>1, <2>4
  <2>6. h + 1 >= l
    BY <2>5
  <2> QED BY <1>9, <2>1, <2>3, <2>6
<1>11. KnownCounts(x)
  <2>1. PICK c \in 13..57 : c = CountAt(p)
    BY DEF CountAt
  <2>2. p \in Counting => c \in 9..h
    <3>1. Suits(p, h)
      BY <1>1
    <3>2. p \in Counting => h >= CountAt(p)
      BY ONLY <3>1 DEF Suits
    <3>3. p \in Counting => h >= c
      BY ONLY <2>1, <3>2
    <3> QED BY ONLY <1>1, <3>3, c \in 13..57
  <2>3. p \in Counting => o[c] \in Nat
    BY <1>2, <2>2
  <2> QED BY <1>8, <2>1, <2>3 DEF KnownCounts
<1> QED BY <1>6, <1>7, <1>8, <1>10, <1>11 DEF Begun

CountsWritten(x) == \E at \in Int, v \in Seq(Nat) : Counts(x) = Store(x.oct, at, v)

LEMMA CountedBegun ==
  ASSUME NEW p \in Nat, p # 34, NEW n \in 1..2
  PROVE  Begun(CountedStart(p, n), p, n)
<1>1. PICK x : x = BlankStart(p, n)
  OBVIOUS
<1>2. Begun(x, p, n)
  BY <1>1, BlankBegun
<1>3. Section(x) /\ x.pdt = p
  BY <1>2 DEF Begun
<1>4. PICK y : y = CountedStart(p, n) /\ y = [x EXCEPT !.oct = Counts(x)]
  BY <1>1 DEF CountedStart
<1>5. CASE p \in {3, 13, 4, 14, 30, 31, 32, 33, 51, 57}
  <2>1. CountsWritten(x)
    <3>2. CASE p \in {3, 13}
      <4>1. PICK v, at : v = <<2>> /\ at = 57
        OBVIOUS
      <4>2. v \in Seq(Nat) /\ at \in Int
        BY ONLY <4>1
      <4>3. Counts(x) = Store(x.oct, at, v)
        BY <1>3, <3>2, <4>1 DEF Counts
      <4> QED BY ONLY <4>2, <4>3 DEF CountsWritten
    <3>3. CASE p \in {4, 14}
      <4>1. PICK v, at : v = <<2>> /\ at = 53
        OBVIOUS
      <4>2. v \in Seq(Nat) /\ at \in Int
        BY ONLY <4>1
      <4>3. Counts(x) = Store(x.oct, at, v)
        BY <1>3, <3>3, <4>1 DEF Counts
      <4> QED BY ONLY <4>2, <4>3 DEF CountsWritten
    <3>4. CASE p \in {30, 31}
      <4>1. PICK v, at : v = <<1>> /\ at = 13
        OBVIOUS
      <4>2. v \in Seq(Nat) /\ at \in Int
        BY ONLY <4>1
      <4>3. Counts(x) = Store(x.oct, at, v)
        BY <1>3, <3>4, <4>1 DEF Counts
      <4> QED BY ONLY <4>2, <4>3 DEF CountsWritten
    <3>5. CASE p \in {32, 33}
      <4>1. PICK v, at : v = <<1>> /\ at = 22
        OBVIOUS
      <4>2. v \in Seq(Nat) /\ at \in Int
        BY ONLY <4>1
      <4>3. Counts(x) = Store(x.oct, at, v)
        BY <1>3, <3>5, <4>1 DEF Counts
      <4> QED BY ONLY <4>2, <4>3 DEF CountsWritten
    <3>6. CASE p = 51
      <4>1. PICK v, at : v = <<1>> /\ at = 34
        OBVIOUS
      <4>2. v \in Seq(Nat) /\ at \in Int
        BY ONLY <4>1
      <4>3. Counts(x) = Store(x.oct, at, v)
        BY <1>3, <3>6, <4>1 DEF Counts
      <4> QED BY ONLY <4>2, <4>3 DEF CountsWritten
    <3>7. CASE p = 57
      <4>1. PICK v, at : v = <<0, 1>> /\ at = 13
        OBVIOUS
      <4>2. v \in Seq(Nat) /\ at \in Int
        BY ONLY <4>1
      <4>3. Counts(x) = Store(x.oct, at, v)
        BY <1>3, <3>7, <4>1 DEF Counts
      <4> QED BY ONLY <4>2, <4>3 DEF CountsWritten
    <3> QED BY <1>5, <3>2, <3>3, <3>4, <3>5, <3>6, <3>7
  <2>11. PICK at \in Int, v \in Seq(Nat) : Counts(x) = Store(x.oct, at, v)
    BY <2>1 DEF CountsWritten
  <2>2. PICK z : z = [x EXCEPT !.oct = Store(@, at, v)]
    OBVIOUS
  <2>3. y = z
    BY <1>4, <2>11, <2>2
  <2>4. Stored(z, x, at, v)
    <3>1. v \in Seq(Int)
      OBVIOUS
    <3> QED BY <1>3, <2>2, <3>1, StoredSection
  <2>5. KnownCounts(z)
    <3>1. Section(z) /\ z.pdt = p /\ Len4(z) = Len4(x)
      BY <1>3, <2>4 DEF Stored
    <3>2. PICK c \in 13..57 : c = CountAt(p)
      BY DEF CountAt
    <3>3. ASSUME p \in Counting PROVE z.oct[c] \in Nat
      <4>1. PICK l \in 9..151 : l = Len4(x) /\ Suits(x.pdt, l - 1)
        BY <1>3, OctetIs
      <4>2. c \in 9..(l - 1)
        <5>1. x.pdt \in Counting => l - 1 >= CountAt(x.pdt)
          BY ONLY <4>1 DEF Suits
        <5>2. x.pdt = p
          BY <1>3
        <5>3. l - 1 >= c
          BY ONLY <3>2, <3>3, <5>1, <5>2
        <5> QED BY ONLY <5>3, c \in 13..57, l \in 9..151
      <4>3. DOMAIN x.oct = 9..(l - 1) /\ DOMAIN z.oct = 9..(l - 1)
        BY <1>3, <3>1, <4>1, OctetIs
      <4>4. Octet(x, c) = x.oct[c] /\ Octet(z, c) = z.oct[c]
        BY <4>2, <4>3 DEF Octet
      <4>5. x.oct[c] \in Nat
        BY <1>2, <1>3, <3>2, <3>3 DEF Begun, KnownCounts
      <4>6. CASE c \in at..(at + Len(v) - 1)
        <5>1. c - at + 1 \in 1..Len(v)
          BY <4>6
        <5>2. Octet(z, c) = v[c - at + 1]
          BY <2>4, <4>1, <4>2, <4>6 DEF Stored
        <5> QED BY <4>4, <5>1, <5>2
      <4>7. CASE c \notin at..(at + Len(v) - 1)
        <5>1. c \in Int /\ Octet(z, c) = Octet(x, c)
          BY <2>4, <4>7 DEF Stored
        <5> QED BY <4>4, <4>5, <5>1
      <4> QED BY <4>6, <4>7
    <3> QED BY <3>1, <3>2, <3>3 DEF KnownCounts
  <2> QED BY <1>2, <1>4, <2>3, <2>4, <2>5 DEF Stored, Begun
<1>6. CASE p \notin {3, 13, 4, 14, 30, 31, 32, 33, 51, 57}
  <2>1. Counts(x) = x.oct
    BY <1>3, <1>6 DEF Counts
  <2>2. y = x
    <3>1. x = [status |-> x.status, ref |-> x.ref, code12 |-> x.code12, code14 |-> x.code14,
               pdt |-> x.pdt, jma |-> x.jma, oct |-> x.oct]
      BY <1>3, SectionIs
    <3> QED BY <1>4, <2>1, <3>1
  <2> QED BY <1>2, <1>4, <2>2
<1> QED BY <1>5, <1>6

LEMMA MessageGood ==
  ASSUME NEW p \in Nat, p # 34, NEW n \in 1..2, NEW time \in Nat
  PROVE  Good(Message(p, n, time))
<1>1. PICK x : x = CountedStart(p, n)
  OBVIOUS
<1>2. Begun(x, p, n)
  BY <1>1, CountedBegun
<1>3. Section(x) /\ x.pdt = p /\ x.ref = 0 /\ x.status = "run" /\ KnownCounts(x)
  BY <1>2 DEF Begun
<1>4. PICK y : y = IF code_table_4_4_location(x) = NULL THEN x
                   ELSE StoreForecast(x, TimeOctets(time, p))
  OBVIOUS
<1>5. PICK ranges : ranges = IF n = 1 THEN OneRange(0, 6) ELSE <<Outer(3, 12)>> \o OneRange(0, 6)
  OBVIOUS
<1>6. Message(p, n, time)
        = IF stat_proc_verf_time_location(y) = NULL THEN y
          ELSE [y EXCEPT !.oct =
                  Store(@, stat_proc_verf_time_location(y),
                        save_time(time + TotalLen(ranges)) \o <<n>> \o int_char(0) \o AllRanges(ranges))]
  BY <1>1, <1>4, <1>5 DEF Message, CountedStart, BlankStart
<1>7. Section(y) /\ y.pdt = p /\ KnownCounts(y)
  <2>1. CASE code_table_4_4_location(x) = NULL
    BY <1>3, <1>4, <2>1
  <2>2. CASE code_table_4_4_location(x) # NULL
    <3>1. PICK at \in Int : at = code_table_4_4_location(x)
      BY <1>3, Clear2 DEF Clear
    <3>2. PICK v, w : v = TimeOctets(time, p) /\ w = <<Hour>> \o v
      OBVIOUS
    <3>3. v \in Seq(Int) /\ Len(v) <= 4
      BY <3>2, TimeOctetsIs
    <3>4. Stored(StoreForecast(x, v), x, at, w)
      BY <1>3, <3>1, <3>2, <3>3, ForecastPut
    <3>5. KnownCounts(StoreForecast(x, v))
      BY <1>3, <2>2, <3>1, <3>2, <3>3, <3>4, ForecastCounted
    <3> QED BY <1>3, <1>4, <2>2, <3>2, <3>4, <3>5 DEF Stored
  <2> QED BY <2>1, <2>2
<1>8. CASE p \notin Ranging
  <2>1. stat_proc_verf_time_location(y) = NULL
    BY <1>7, <1>8, EndPlace
  <2> QED BY <1>6, <1>7, <1>8, <2>1, Rangeless
<1>9. CASE p \in Ranging
  <2>1. PICK e \in 34..68, g \in 17..30 :
          /\ e = EndAt(p) /\ g = ForecastAt(p)
          /\ stat_proc_verf_time_location(x) = e /\ code_table_4_4_location(x) = g
          /\ stat_proc_verf_time_location(y) = e /\ ~BadModes(x) /\ p # 44
    <3>1. PICK q \in Ranging : q = p
      BY <1>9
    <3>2. /\ EndAt(q) \in 34..68 /\ ForecastAt(q) \in 17..30
          /\ stat_proc_verf_time_location(x) = EndAt(q) /\ code_table_4_4_location(x) = ForecastAt(q)
          /\ ~BadModes(x) /\ q # 44
      BY <1>3, <3>1, RangedIs
    <3>3. stat_proc_verf_time_location(y) = EndAt(q)
      BY <1>7, <3>1, RangedIs
    <3> QED BY <3>1, <3>2, <3>3
  <2>2. /\ ranges \in RangeLists /\ Passing(ranges) /\ Len(ranges) = n
    <3>1. PICK r, q : OneRange(0, 6) = <<r>> /\ <<Outer(3, 12)>> \o OneRange(0, 6) = <<q, r>>
                      /\ r \in RangeRecord /\ q \in RangeRecord /\ r.code11 = 2 /\ q.code11 = 1
      BY StartRanges
    <3>2. CASE n = 1
      <4>1. ranges = <<r>> /\ ranges \in RangeLists
        BY <1>5, <3>1, <3>2 DEF RangeLists
      <4> QED BY <3>1, <3>2, <4>1 DEF Passing
    <3>3. CASE n = 2
      <4>1. ranges = <<q, r>> /\ ranges \in RangeLists
        BY <1>5, <3>1, <3>3 DEF RangeLists
      <4>2. Len(ranges) = 2 /\ ranges[1] = q /\ ranges[2] = r
        BY <4>1
      <4> QED BY <3>1, <3>3, <4>1, <4>2 DEF Passing
    <3> QED BY <3>2, <3>3
  <2>3. Good(AtRanges(x, time, ranges))
    BY <1>3, <2>2, StoreRangesGood
  <2>4. AtRanges(x, time, ranges) = Message(p, n, time)
    <3>1. y = StoreForecast(x, int_char(time))
      BY <1>4, <2>1 DEF TimeOctets, NULL
    <3>2. PICK total \in Nat : total = TotalLen(ranges)
      BY <2>2, RangesAre
    <3>3. x.ref + time + total = time + total
      BY <1>3
    <3>31. PICK w : w = save_time(time + total) \o <<n>> \o int_char(0) \o AllRanges(ranges)
      OBVIOUS
    <3>32. PICK t : t = [y EXCEPT !.oct = Store(@, e, w)]
      OBVIOUS
    <3>4. Message(p, n, time) = t
      <4>1. stat_proc_verf_time_location(y) # NULL
        BY <2>1 DEF NULL
      <4>2. w = save_time(time + TotalLen(ranges)) \o <<n>> \o int_char(0) \o AllRanges(ranges)
        BY <3>2, <3>31
      <4> QED BY ONLY <1>6, <2>1, <3>32, <4>1, <4>2
    <3>5. AtRanges(x, time, ranges) = StoreRanges(x, e, time, ranges)
      BY <2>1 DEF AtRanges
    <3>6. ~(e + 12 * (Len(ranges) + 1) > Len4(x))
      <4>1. Len4(x) >= e + 12 * (n + 1)
        BY <1>2, <1>9, <2>1 DEF Begun
      <4>2. PICK m \in 9..151 : m = Len4(x)
        BY <1>3, OctetIs
      <4>3. ~(e + 12 * (n + 1) > m)
        BY <4>1, <4>2
      <4> QED BY <2>2, <4>2, <4>3
    <3>61. w = save_time(x.ref + time + TotalLen(ranges)) \o <<Len(ranges)>> \o int_char(0) \o AllRanges(ranges)
      BY <2>2, <3>2, <3>3, <3>31
    <3>62. e # NULL /\ g # NULL
      BY DEF NULL
    <3>7. StoreRanges(x, e, time, ranges) = t
      BY <1>3, <2>1, <3>1, <3>32, <3>6, <3>61, <3>62 DEF StoreRanges
    <3> QED BY <3>4, <3>5, <3>7
  <2> QED BY <2>3, <2>4
<1> QED BY <1>8, <1>9

-----------------------------------------------------------------------------
(* Every message of the beginning is good.                                 *)
LEMMA GoodInit == Init => Good(msg)
<1> SUFFICES ASSUME Init PROVE Good(msg)
  OBVIOUS
<1>1. PICK p \in StartTemplates, n \in RangeCounts, t \in Times : msg = Message(p, n, t)
  BY DEF Init
<1>2. p \in Nat /\ p # 34 /\ n \in 1..2 /\ t \in Nat
  BY PdtAssumption
<1> QED BY <1>1, <1>2, MessageGood

(* Every option leaves a good message good.                                *)
LEMMA GoodNext == Good(msg) /\ [Next]_vars => Good(msg')
<1> SUFFICES ASSUME Good(msg), [Next]_vars PROVE Good(msg')
  OBVIOUS
<1>0. ASSUME NEW new, NEW items, Apply(new, items)
      PROVE  msg.status = "run" /\ msg' = new
  BY <1>0 DEF Apply
<1>1. ASSUME NEW p \in NewTemplates, NEW copy \in BOOLEAN, SetPdt(p, -1, copy)
      PROVE  Good(msg')
  <2>1. msg.status = "run" /\ msg' = f_set_pdt(msg, p, -1, copy)
    BY <1>0, <1>1 DEF SetPdt
  <2>2. p \in Nat /\ -1 \in Int /\ ~(-1 > 0)
    BY PdtAssumption
  <2> QED BY <2>1, <2>2, NewPdtGood
<1>2. ASSUME NEW e \in EnsNumbers, NEW n \in EnsNumbers, SetEnsNum(e, e, n)
      PROVE  Good(msg')
  <2>1. msg.status = "run" /\ msg' = f_set_ens_num(msg, e, e, n)
    BY <1>0, <1>2 DEF SetEnsNum
  <2>2. e \in Int /\ n \in Int
    BY PdtAssumption
  <2> QED BY <2>1, <2>2, EnsNumGood
<1>3. ASSUME NEW c \in {4, Missing}, SetEnsmDerived(c, 20) PROVE Good(msg')
  <2>1. msg.status = "run" /\ msg' = f_set_ensm_derived_fcst(msg, c, 20)
    BY <1>0, <1>3 DEF SetEnsmDerived
  <2>2. c \in Int /\ 20 \in Int
    BY DEF Missing
  <2> QED BY <2>1, <2>2, DerivedGood
<1>4. ASSUME SetPercentile(50) PROVE Good(msg')
  <2>1. msg.status = "run" /\ msg' = f_set_percentile(msg, 50) /\ 50 \in Int
    BY <1>0, <1>4 DEF SetPercentile
  <2> QED BY <2>1, PercentileGood
<1>5. ASSUME SetProb(Limits) PROVE Good(msg')
  <2>1. msg.status = "run" /\ msg' = f_set_prob(msg, 1, 2, Limits) /\ 1 \in Int /\ 2 \in Int
    BY <1>0, <1>5 DEF SetProb
  <2> QED BY <2>1, LimitsAre, ProbGood
<1>6. ASSUME NEW t \in Times, SetFtime1(t) PROVE Good(msg')
  <2>1. msg.status = "run" /\ msg' = f_set_ftime1(msg, t) /\ t \in Nat
    BY <1>0, <1>6, PdtAssumption DEF SetFtime1
  <2> QED BY <2>1, Ftime1Good
<1>7. ASSUME NEW t \in Times, NEW r \in RangeInputs, SetFtime2(t, r) PROVE Good(msg')
  <2>1. msg.status = "run" /\ msg' = f_set_ftime2(msg, t, r)
    BY <1>0, <1>7 DEF SetFtime2
  <2>2. t \in Nat /\ Ask(r)
    BY PdtAssumption, InputsAsk
  <2> QED BY <2>1, <2>2, Ftime2Good
<1>8. ASSUME NEW d \in {0, 12}, SetDate(d) PROVE Good(msg')
  <2>1. msg.status = "run" /\ msg' = f_set_date(msg, d) /\ d \in Nat
    BY <1>0, <1>8 DEF SetDate
  <2> QED BY <2>1, SetDateGood
<1>9. ASSUME NEW t \in Times, NEW r \in RangeInputs, NEW f \in MetadataFields,
             SetMetadata(12, t, r, f)
      PROVE  Good(msg')
  <2>1. msg.status = "run" /\ msg' = set_metadata_string(msg, 12, t, r, f)
    BY <1>0, <1>9 DEF SetMetadata
  <2>2. t \in Nat /\ 12 \in Nat /\ Ask(r)
    BY PdtAssumption, InputsAsk
  <2> QED BY <2>1, <2>2, MetadataGood
<1>10. CASE UNCHANGED vars
  BY <1>10 DEF vars
<1> QED BY <1>1, <1>2, <1>3, <1>4, <1>5, <1>6, <1>7, <1>8, <1>9, <1>10 DEF Next

(* The inductive invariant: the message is good.                           *)
THEOREM MessagesAreGood == Spec => []Good(msg)
<1>1. Init => Good(msg)
  BY GoodInit
<1>2. Good(msg) /\ [Next]_vars => Good(msg)'
  BY GoodNext
<1> QED BY <1>1, <1>2, PTL DEF Spec

(* A section is a run of octets from 9 on, no longer than the buffer that  *)
(* new_pdt has for it.                                                     *)
THEOREM PdtTypeOK == Spec => []TypeOK
<1>1. Good(msg) => TypeOK
  <2> SUFFICES ASSUME Good(msg) PROVE TypeOK
    OBVIOUS
  <2>1. Section(msg)
    BY DEF Good
  <2>2. Len4(msg) \in 9..151 /\ DOMAIN msg.oct = 9..(Len4(msg) - 1)
    BY <2>1, OctetIs
  <2>3. msg.status \in {"run", "fatal", "overrun"} /\ msg.code12 \in 0..1 /\ msg.code14 \in 0..1
    BY <2>1, SectionIs
  <2>4. Len4(msg) <= BufferSize
    <3>1. \A l \in 9..151 : l <= 500
      OBVIOUS
    <3> QED BY <2>2, <3>1 DEF BufferSize
  <2> QED BY <2>2, <2>3, <2>4 DEF TypeOK
<1> QED BY <1>1, MessagesAreGood, PTL

(* The end of a message's time ranges is the reference time, the forecast  *)
(* time and the lengths of the ranges passed one after the other, added up *)
(* (f_set_ftime1, f_set_ftime2 and f_set_date write it; new_pdt and the    *)
(* ensemble options move it).                                              *)
THEOREM RangesEndRight == Spec => []EndOfRanges
<1>1. Good(msg) => EndOfRanges
  <2> SUFFICES ASSUME Good(msg), msg.status = "run", HasRanges(msg) PROVE EndIsRight(msg)
    BY DEF EndOfRanges
  <2>1. Section(msg) /\ Right(msg)
    BY DEF Good
  <2> QED BY <2>1, RightIs
<1> QED BY <1>1, MessagesAreGood, PTL

-----------------------------------------------------------------------------
(* The octets of a template, as each library counts them.                 *)

(* The octets of an entry, and of the first i entries of a map.            *)
EntryMaps == Seq(-4..4)
UpTo(map, i) == Size(SubSeq(map, 1, i))
WideEntries(map, i, n) == {j \in 1..i : Abs(map[j]) = n}

LEMMA UpToIs ==
  ASSUME NEW map \in EntryMaps, NEW i \in 0..Len(map)
  PROVE  /\ \A n \in Nat : IsFiniteSet(WideEntries(map, i, n))
         /\ UpTo(map, i) = Cardinality(WideEntries(map, i, 1)) + 2 * Cardinality(WideEntries(map, i, 2))
                           + 3 * Cardinality(WideEntries(map, i, 3)) + 4 * Cardinality(WideEntries(map, i, 4))
<1>1. PICK s : s = SubSeq(map, 1, i)
  OBVIOUS
<1>2. Len(s) = i /\ \A j \in 1..i : s[j] = map[j]
  BY <1>1 DEF EntryMaps
<1>3. \A n : {j \in 1..Len(s) : Abs(s[j]) = n} = WideEntries(map, i, n)
  BY <1>2 DEF WideEntries
<1>4. ASSUME NEW n PROVE IsFiniteSet(WideEntries(map, i, n))
  <2>1. IsFiniteSet(1..i)
    BY FS_Interval
  <2>2. WideEntries(map, i, n) \in SUBSET (1..i)
    BY DEF WideEntries
  <2> QED BY <2>1, <2>2, FS_Subset
<1> QED BY <1>1, <1>3, <1>4 DEF UpTo, Size

(* One entry more.                                                         *)
LEMMA NextEntries ==
  ASSUME NEW map \in EntryMaps, NEW i \in 0..(Len(map) - 1), NEW n \in Nat
  PROVE  /\ Cardinality(WideEntries(map, i, n)) \in Nat
         /\ Cardinality(WideEntries(map, i + 1, n)) =
              Cardinality(WideEntries(map, i, n)) + (IF Abs(map[i + 1]) = n THEN 1 ELSE 0)
<1>1. IsFiniteSet(WideEntries(map, i, n))
  BY UpToIs
<1>2. i + 1 \notin WideEntries(map, i, n)
  BY DEF WideEntries
<1>3. WideEntries(map, i + 1, n) = IF Abs(map[i + 1]) = n THEN WideEntries(map, i, n) \cup {i + 1}
                                  ELSE WideEntries(map, i, n)
  <2>1. 1..(i + 1) = (1..i) \cup {i + 1}
    OBVIOUS
  <2> QED BY <2>1 DEF WideEntries
<1>4. Cardinality(WideEntries(map, i, n)) \in Nat
  BY <1>1, FS_CardinalityType
<1>5. Cardinality(WideEntries(map, i, n) \cup {i + 1}) = Cardinality(WideEntries(map, i, n)) + 1
  BY <1>1, <1>2, FS_AddElement
<1> QED BY <1>3, <1>4, <1>5

(* The octets with one entry more.                                         *)
LEMMA UpToNext ==
  ASSUME NEW map \in EntryMaps, NEW i \in 0..(Len(map) - 1)
  PROVE  /\ UpTo(map, i) \in Nat
         /\ UpTo(map, i + 1) = UpTo(map, i) + Abs(map[i + 1])
<1> DEFINE c(n) == Cardinality(WideEntries(map, i, n))
           d(n) == Cardinality(WideEntries(map, i + 1, n))
<1>1. UpTo(map, i) = c(1) + 2 * c(2) + 3 * c(3) + 4 * c(4)
  BY UpToIs
<1>2. UpTo(map, i + 1) = d(1) + 2 * d(2) + 3 * d(3) + 4 * d(4)
  BY UpToIs DEF EntryMaps
<1>3. \A n \in 1..4 : c(n) \in Nat /\ d(n) = c(n) + (IF Abs(map[i + 1]) = n THEN 1 ELSE 0)
  BY NextEntries
<1>4. map[i + 1] \in -4..4
  BY DEF EntryMaps
<1>5. Abs(map[i + 1]) \in 0..4
  BY <1>4 DEF Abs
<1>6. /\ c(1) \in Nat /\ c(2) \in Nat /\ c(3) \in Nat /\ c(4) \in Nat
      /\ d(1) = c(1) + (IF Abs(map[i + 1]) = 1 THEN 1 ELSE 0)
      /\ d(2) = c(2) + (IF Abs(map[i + 1]) = 2 THEN 1 ELSE 0)
      /\ d(3) = c(3) + (IF Abs(map[i + 1]) = 3 THEN 1 ELSE 0)
      /\ d(4) = c(4) + (IF Abs(map[i + 1]) = 4 THEN 1 ELSE 0)
  <2> HIDE DEF c, d
  <2> QED BY <1>3
<1> HIDE DEF c, d
<1>7. PICK x \in 0..4 : x = Abs(map[i + 1])
  BY <1>5
<1>8. /\ d(1) = c(1) + (IF x = 1 THEN 1 ELSE 0) /\ d(2) = c(2) + (IF x = 2 THEN 1 ELSE 0)
      /\ d(3) = c(3) + (IF x = 3 THEN 1 ELSE 0) /\ d(4) = c(4) + (IF x = 4 THEN 1 ELSE 0)
  BY <1>6, <1>7
<1>9. PICK c1 \in Nat, c2 \in Nat, c3 \in Nat, c4 \in Nat :
        c1 = c(1) /\ c2 = c(2) /\ c3 = c(3) /\ c4 = c(4)
  BY <1>6
<1>10. PICK d1 \in Nat, d2 \in Nat, d3 \in Nat, d4 \in Nat :
         d1 = d(1) /\ d2 = d(2) /\ d3 = d(3) /\ d4 = d(4)
  BY <1>8, <1>9
<1>11. /\ d1 = c1 + (IF x = 1 THEN 1 ELSE 0) /\ d2 = c2 + (IF x = 2 THEN 1 ELSE 0)
       /\ d3 = c3 + (IF x = 3 THEN 1 ELSE 0) /\ d4 = c4 + (IF x = 4 THEN 1 ELSE 0)
  BY <1>8, <1>9, <1>10
<1>12. /\ c1 + 2 * c2 + 3 * c3 + 4 * c4 \in Nat
       /\ d1 + 2 * d2 + 3 * d3 + 4 * d4 = (c1 + 2 * c2 + 3 * c3 + 4 * c4) + x
  BY ONLY <1>11, x \in 0..4
<1>13. UpTo(map, i) = c1 + 2 * c2 + 3 * c3 + 4 * c4 /\ UpTo(map, i + 1) = d1 + 2 * d2 + 3 * d3 + 4 * d4
  BY <1>1, <1>2, <1>9, <1>10
<1> QED BY <1>7, <1>12, <1>13

(* No entry, no octet.                                                     *)
LEMMA UpToNone ==
  ASSUME NEW map \in EntryMaps
  PROVE  UpTo(map, 0) = 0
<1>1. \A n \in 1..4 : WideEntries(map, 0, n) = {}
  BY DEF WideEntries
<1>2. \A n \in 1..4 : Cardinality(WideEntries(map, 0, n)) = 0
  BY <1>1, FS_EmptySet
<1> QED BY <1>2, UpToIs DEF EntryMaps

(* The octets of a map, given the octets up to each entry.                 *)
LEMMA UpToAre ==
  ASSUME NEW map \in EntryMaps, NEW f, f[0] = 0,
         \A i \in 1..Len(map) : f[i] = f[i - 1] + Abs(map[i])
  PROVE  \A i \in 0..Len(map) : UpTo(map, i) = f[i]
<1>0. Len(map) \in Nat
  BY DEF EntryMaps
<1> DEFINE g == [i \in 0..Len(map) |-> UpTo(map, i)]
<1>1. g[0] = f[0]
  BY <1>0, UpToNone
<1>2. ASSUME NEW i \in 1..Len(map), g[i - 1] = f[i - 1] PROVE g[i] = f[i]
  <2>1. i - 1 \in 0..(Len(map) - 1) /\ (i - 1) + 1 = i /\ i - 1 \in 0..Len(map) /\ i \in 0..Len(map)
    BY <1>0
  <2>2. UpTo(map, i) = UpTo(map, i - 1) + Abs(map[i])
    BY <2>1, UpToNext
  <2> QED BY <1>2, <2>1, <2>2
<1>3. \A i \in 0..Len(map) : g[i] = f[i]
  <2> HIDE DEF g
  <2>1. \A i \in 0 + 1..Len(map) : g[i - 1] = f[i - 1] => g[i] = f[i]
    BY <1>2
  <2>2. 0 \in Int /\ Len(map) \in Int
    BY <1>0
  <2> QED BY ONLY <1>1, <2>1, <2>2, SameSteps
<1> QED BY <1>3

LEMMA SizeIs ==
  ASSUME NEW map \in EntryMaps
  PROVE  Size(map) = UpTo(map, Len(map))
<1>1. SubSeq(map, 1, Len(map)) = map
  BY DEF EntryMaps
<1> QED BY <1>1 DEF UpTo

LEMMA UpToNat ==
  ASSUME NEW map \in EntryMaps, NEW i \in 0..Len(map)
  PROVE  UpTo(map, i) \in Nat
<1>1. ASSUME NEW n \in 1..4 PROVE Cardinality(WideEntries(map, i, n)) \in Nat
  <2>1. IsFiniteSet(WideEntries(map, i, n))
    BY UpToIs
  <2> QED BY <2>1, FS_CardinalityType
<1>2. /\ Cardinality(WideEntries(map, i, 1)) \in Nat /\ Cardinality(WideEntries(map, i, 2)) \in Nat
      /\ Cardinality(WideEntries(map, i, 3)) \in Nat /\ Cardinality(WideEntries(map, i, 4)) \in Nat
  BY <1>1
<1> QED BY <1>2, UpToIs

(* The octets of two maps, one after the other.                            *)
LEMMA UpToBoth ==
  ASSUME NEW a \in EntryMaps, NEW b \in EntryMaps
  PROVE  /\ a \o b \in EntryMaps /\ Len(a \o b) = Len(a) + Len(b)
         /\ \A i \in 1..Len(a) : (a \o b)[i] = a[i]
         /\ \A i \in 1..Len(b) : (a \o b)[Len(a) + i] = b[i]
         /\ \A i \in 0..Len(a) : UpTo(a \o b, i) = UpTo(a, i)
         /\ \A i \in 0..Len(b) : UpTo(a \o b, Len(a) + i) = Size(a) + UpTo(b, i)
         /\ Size(a \o b) = Size(a) + Size(b)
<1>1. PICK c : c = a \o b
  OBVIOUS
<1>2. /\ c \in EntryMaps /\ Len(c) = Len(a) + Len(b) /\ Len(a) \in Nat /\ Len(b) \in Nat
      /\ \A i \in 1..Len(a) : c[i] = a[i]
      /\ \A i \in 1..Len(b) : c[Len(a) + i] = b[i]
  BY <1>1 DEF EntryMaps
<1> DEFINE f == [i \in 0..Len(c) |-> IF i <= Len(a) THEN UpTo(a, i) ELSE Size(a) + UpTo(b, i - Len(a))]
<1>3. f[0] = 0
  BY <1>2, UpToNone
<1>4. Size(a) = UpTo(a, Len(a)) /\ UpTo(b, 0) = 0 /\ UpTo(a, Len(a)) \in Nat
  BY <1>2, SizeIs, UpToNone, UpToNat
<1>5. ASSUME NEW i \in 1..Len(c) PROVE f[i] = f[i - 1] + Abs(c[i])
  <2>0. i \in 0..Len(c) /\ i - 1 \in 0..Len(c)
    BY <1>2
  <2>1. CASE i <= Len(a)
    <3>1. i - 1 \in 0..(Len(a) - 1) /\ (i - 1) + 1 = i /\ c[i] = a[i] /\ i - 1 <= Len(a)
      BY <1>2, <2>1
    <3>2. UpTo(a, i) = UpTo(a, i - 1) + Abs(a[i])
      BY <3>1, UpToNext
    <3> QED BY <2>0, <2>1, <3>1, <3>2
  <2>2. CASE ~(i <= Len(a))
    <3> DEFINE k == i - Len(a)
    <3>1. k - 1 \in 0..(Len(b) - 1) /\ (k - 1) + 1 = k /\ k \in 1..Len(b) /\ Len(a) + k = i
      BY <1>2, <2>2
    <3>2. c[i] = b[k]
      BY <1>2, <3>1
    <3>3. UpTo(b, k) = UpTo(b, k - 1) + Abs(b[k]) /\ UpTo(b, k - 1) \in Nat
      BY <3>1, UpToNext
    <3>4. f[i] = Size(a) + UpTo(b, k)
      BY <2>0, <2>2
    <3>5. f[i - 1] = Size(a) + UpTo(b, k - 1)
      <4>1. CASE i - 1 <= Len(a)
        <5>1. i - 1 = Len(a) /\ k - 1 = 0
          BY <1>2, <2>2, <4>1
        <5> HIDE DEF k
        <5> QED BY <1>4, <2>0, <4>1, <5>1
      <4>2. CASE ~(i - 1 <= Len(a))
        <5>1. (i - 1) - Len(a) = k - 1
          BY <1>2
        <5> HIDE DEF k
        <5> QED BY <2>0, <4>2, <5>1
      <4> QED BY <4>1, <4>2
    <3>6. Abs(b[k]) \in Nat
      <4>1. b[k] \in -4..4
        BY <3>1 DEF EntryMaps
      <4> QED BY <4>1 DEF Abs
    <3> HIDE DEF k, f
    <3> QED BY <1>4, <3>2, <3>3, <3>4, <3>5, <3>6
  <2> QED BY <2>1, <2>2
<1>6. \A i \in 0..Len(c) : UpTo(c, i) = f[i]
  <2> HIDE DEF f
  <2> QED BY <1>2, <1>3, <1>5, UpToAre
<1>7. \A i \in 0..Len(a) : UpTo(c, i) = UpTo(a, i)
  BY <1>2, <1>6
<1>8. ASSUME NEW i \in 0..Len(b) PROVE UpTo(c, Len(a) + i) = Size(a) + UpTo(b, i)
  <2>1. Len(a) + i \in 0..Len(c) /\ (Len(a) + i) - Len(a) = i
    BY <1>2
  <2>2. CASE i = 0
    BY <1>2, <1>4, <1>7, <2>2
  <2>3. CASE i # 0
    <3>1. ~(Len(a) + i <= Len(a))
      BY <1>2, <2>3
    <3>2. f[Len(a) + i] = Size(a) + UpTo(b, (Len(a) + i) - Len(a))
      BY <2>1, <3>1
    <3> HIDE DEF f
    <3> QED BY <1>6, <2>1, <3>2
  <2> QED BY <2>2, <2>3
<1>9. Size(c) = Size(a) + Size(b)
  <2>1. Size(c) = UpTo(c, Len(a) + Len(b)) /\ Size(b) = UpTo(b, Len(b)) /\ Len(b) \in 0..Len(b)
    BY <1>2, SizeIs
  <2> QED BY <1>8, <2>1
<1> QED BY <1>1, <1>2, <1>7, <1>8, <1>9

(* A map of k entries and n octets.                                        *)
IsMap(map, k, n) == map \in EntryMaps /\ Len(map) = k /\ Size(map) = n

(* p has the octets up to each entry of a map.                             *)
Adds(map, p, k) == p[1] = Abs(map[1]) /\ \A i \in 2..k : p[i] = p[i - 1] + Abs(map[i])

LEMMA AbsIs == \A n \in Nat : Abs(-n) = n /\ Abs(n) = n
BY DEF Abs

LEMMA Listed ==
  ASSUME NEW map \in EntryMaps, NEW k \in Nat, k > 0, Len(map) = k, NEW p, Adds(map, p, k)
  PROVE  Size(map) = p[k] /\ \A i \in 1..k : UpTo(map, i) = p[i]
<1> DEFINE f == [i \in 0..k |-> IF i = 0 THEN 0 ELSE p[i]]
<1>1. f[0] = 0 /\ \A i \in 1..k : f[i] = p[i]
  OBVIOUS
<1>2. ASSUME NEW i \in 1..Len(map) PROVE f[i] = f[i - 1] + Abs(map[i])
  <2>1. CASE i = 1
    <3>1. map[1] \in -4..4
      BY DEF EntryMaps
    <3>2. Abs(map[1]) \in Nat
      BY <3>1 DEF Abs
    <3> HIDE DEF f
    <3> QED BY <1>1, <2>1, <3>2 DEF Adds
  <2>2. CASE i # 1
    <3>1. i \in 2..k /\ i - 1 \in 1..k /\ i \in 1..k
      BY <2>2
    <3> HIDE DEF f
    <3> QED BY <1>1, <3>1 DEF Adds
  <2> QED BY <2>1, <2>2
<1>3. \A i \in 0..k : UpTo(map, i) = f[i]
  <2> HIDE DEF f
  <2> QED BY <1>1, <1>2, UpToAre
<1>4. Size(map) = UpTo(map, k)
  BY SizeIs
<1>5. k \in 1..k /\ k \in 0..k
  OBVIOUS
<1> HIDE DEF f
<1> QED BY <1>1, <1>3, <1>4, <1>5

LEMMA IsMapOf ==
  ASSUME NEW map \in EntryMaps, NEW k \in Nat, k > 0, Len(map) = k, NEW p, Adds(map, p, k),
         NEW n, p[k] = n
  PROVE  IsMap(map, k, n)
BY Listed DEF IsMap

(* Maps one after the other.                                               *)
LEMMA Joined ==
  ASSUME NEW a, NEW b, NEW k \in Nat, NEW l \in Nat, NEW m \in Nat, NEW n \in Nat,
         IsMap(a, k, m), IsMap(b, l, n)
  PROVE  IsMap(a \o b, k + l, m + n)
BY UpToBoth DEF IsMap

(* The parts that the templates are made of.                               *)
LEMMA ShortParts ==
  /\ IsMap(<<1>>, 1, 1)
  /\ IsMap(<<4>>, 1, 4)
  /\ IsMap(<<1, 1>>, 2, 2)
  /\ IsMap(<<1, 1, 1>>, 3, 3)
  /\ IsMap(<<1, 1, 4>>, 3, 6)
  /\ IsMap(<<1, 1, 2>>, 3, 4)
  /\ IsMap(<<1, 1, 1, 2>>, 4, 5)
  /\ IsMap(<<1, 1, 1, 1, 1>>, 5, 5)
  /\ IsMap(<<1, 1, 2, 1, 1, 4>>, 6, 10)
  /\ IsMap(<<1, 1, 1, 4, 4, 2>>, 6, 13)
  /\ IsMap(<<1, 1, 1, 4, 1, 4>>, 6, 12)
  /\ IsMap(<<1, -1, -4, 1, -1, -4>>, 6, 12)
  /\ IsMap(<<1, -1, -4, -1, -4>>, 5, 11)
<1>1. IsMap(<<1>>, 1, 1)
  <2>1. PICK map, p : map = <<1>> /\ p = <<1>>
    OBVIOUS
  <2>2. map \in EntryMaps /\ Len(map) = 1 /\ p[1] = 1
    BY <2>1 DEF EntryMaps
  <2>3. Adds(map, p, 1)
    <3>1. Abs(map[1]) = p[1]
      <4>1. map[1] = 1 /\ 4 \in Nat /\ 1 \in Nat /\ 2 \in Nat /\ p[1] = 1
        BY <2>1
      <4> QED BY <4>1, AbsIs
    <3>2. ASSUME NEW i \in 2..1 PROVE p[i] = p[i - 1] + Abs(map[i])
      BY <2>1 DEF Abs
    <3> QED BY <3>1, <3>2 DEF Adds
  <2>4. 1 \in Nat /\ 1 > 0
    OBVIOUS
  <2> QED BY <2>1, <2>2, <2>3, <2>4, IsMapOf
<1>2. IsMap(<<4>>, 1, 4)
  <2>1. PICK map, p : map = <<4>> /\ p = <<4>>
    OBVIOUS
  <2>2. map \in EntryMaps /\ Len(map) = 1 /\ p[1] = 4
    BY <2>1 DEF EntryMaps
  <2>3. Adds(map, p, 1)
    <3>1. Abs(map[1]) = p[1]
      <4>1. map[1] = 4 /\ 4 \in Nat /\ 1 \in Nat /\ 2 \in Nat /\ p[1] = 4
        BY <2>1
      <4> QED BY <4>1, AbsIs
    <3>2. ASSUME NEW i \in 2..1 PROVE p[i] = p[i - 1] + Abs(map[i])
      BY <2>1 DEF Abs
    <3> QED BY <3>1, <3>2 DEF Adds
  <2>4. 1 \in Nat /\ 1 > 0
    OBVIOUS
  <2> QED BY <2>1, <2>2, <2>3, <2>4, IsMapOf
<1>3. IsMap(<<1, 1>>, 2, 2)
  <2>1. PICK map, p : map = <<1, 1>> /\ p = <<1, 2>>
    OBVIOUS
  <2>2. map \in EntryMaps /\ Len(map) = 2 /\ p[2] = 2
    BY <2>1 DEF EntryMaps
  <2>3. Adds(map, p, 2)
    <3>1. Abs(map[1]) = p[1]
      <4>1. map[1] = 1 /\ 4 \in Nat /\ 1 \in Nat /\ 2 \in Nat /\ p[1] = 1
        BY <2>1
      <4> QED BY <4>1, AbsIs
    <3>2. ASSUME NEW i \in 2..2 PROVE p[i] = p[i - 1] + Abs(map[i])
      BY <2>1 DEF Abs
    <3> QED BY <3>1, <3>2 DEF Adds
  <2>4. 2 \in Nat /\ 2 > 0
    OBVIOUS
  <2> QED BY <2>1, <2>2, <2>3, <2>4, IsMapOf
<1>4. IsMap(<<1, 1, 1>>, 3, 3)
  <2>1. PICK map, p : map = <<1, 1, 1>> /\ p = <<1, 2, 3>>
    OBVIOUS
  <2>2. map \in EntryMaps /\ Len(map) = 3 /\ p[3] = 3
    BY <2>1 DEF EntryMaps
  <2>3. Adds(map, p, 3)
    <3>1. Abs(map[1]) = p[1]
      <4>1. map[1] = 1 /\ 4 \in Nat /\ 1 \in Nat /\ 2 \in Nat /\ p[1] = 1
        BY <2>1
      <4> QED BY <4>1, AbsIs
    <3>2. ASSUME NEW i \in 2..3 PROVE p[i] = p[i - 1] + Abs(map[i])
      BY <2>1 DEF Abs
    <3> QED BY <3>1, <3>2 DEF Adds
  <2>4. 3 \in Nat /\ 3 > 0
    OBVIOUS
  <2> QED BY <2>1, <2>2, <2>3, <2>4, IsMapOf
<1>5. IsMap(<<1, 1, 4>>, 3, 6)
  <2>1. PICK map, p : map = <<1, 1, 4>> /\ p = <<1, 2, 6>>
    OBVIOUS
  <2>2. map \in EntryMaps /\ Len(map) = 3 /\ p[3] = 6
    BY <2>1 DEF EntryMaps
  <2>3. Adds(map, p, 3)
    <3>1. Abs(map[1]) = p[1]
      <4>1. map[1] = 1 /\ 4 \in Nat /\ 1 \in Nat /\ 2 \in Nat /\ p[1] = 1
        BY <2>1
      <4> QED BY <4>1, AbsIs
    <3>2. ASSUME NEW i \in 2..3 PROVE p[i] = p[i - 1] + Abs(map[i])
      BY <2>1 DEF Abs
    <3> QED BY <3>1, <3>2 DEF Adds
  <2>4. 3 \in Nat /\ 3 > 0
    OBVIOUS
  <2> QED BY <2>1, <2>2, <2>3, <2>4, IsMapOf
<1>6. IsMap(<<1, 1, 2>>, 3, 4)
  <2>1. PICK map, p : map = <<1, 1, 2>> /\ p = <<1, 2, 4>>
    OBVIOUS
  <2>2. map \in EntryMaps /\ Len(map) = 3 /\ p[3] = 4
    BY <2>1 DEF EntryMaps
  <2>3. Adds(map, p, 3)
    <3>1. Abs(map[1]) = p[1]
      <4>1. map[1] = 1 /\ 4 \in Nat /\ 1 \in Nat /\ 2 \in Nat /\ p[1] = 1
        BY <2>1
      <4> QED BY <4>1, AbsIs
    <3>2. ASSUME NEW i \in 2..3 PROVE p[i] = p[i - 1] + Abs(map[i])
      BY <2>1 DEF Abs
    <3> QED BY <3>1, <3>2 DEF Adds
  <2>4. 3 \in Nat /\ 3 > 0
    OBVIOUS
  <2> QED BY <2>1, <2>2, <2>3, <2>4, IsMapOf
<1>7. IsMap(<<1, 1, 1, 2>>, 4, 5)
  <2>1. PICK map, p : map = <<1, 1, 1, 2>> /\ p = <<1, 2, 3, 5>>
    OBVIOUS
  <2>2. map \in EntryMaps /\ Len(map) = 4 /\ p[4] = 5
    BY <2>1 DEF EntryMaps
  <2>3. Adds(map, p, 4)
    <3>1. Abs(map[1]) = p[1]
      <4>1. map[1] = 1 /\ 4 \in Nat /\ 1 \in Nat /\ 2 \in Nat /\ p[1] = 1
        BY <2>1
      <4> QED BY <4>1, AbsIs
    <3>2. ASSUME NEW i \in 2..4 PROVE p[i] = p[i - 1] + Abs(map[i])
      BY <2>1 DEF Abs
    <3> QED BY <3>1, <3>2 DEF Adds
  <2>4. 4 \in Nat /\ 4 > 0
    OBVIOUS
  <2> QED BY <2>1, <2>2, <2>3, <2>4, IsMapOf
<1>8. IsMap(<<1, 1, 1, 1, 1>>, 5, 5)
  <2>1. PICK map, p : map = <<1, 1, 1, 1, 1>> /\ p = <<1, 2, 3, 4, 5>>
    OBVIOUS
  <2>2. map \in EntryMaps /\ Len(map) = 5 /\ p[5] = 5
    BY <2>1 DEF EntryMaps
  <2>3. Adds(map, p, 5)
    <3>1. Abs(map[1]) = p[1]
      <4>1. map[1] = 1 /\ 4 \in Nat /\ 1 \in Nat /\ 2 \in Nat /\ p[1] = 1
        BY <2>1
      <4> QED BY <4>1, AbsIs
    <3>2. ASSUME NEW i \in 2..5 PROVE p[i] = p[i - 1] + Abs(map[i])
      BY <2>1 DEF Abs
    <3> QED BY <3>1, <3>2 DEF Adds
  <2>4. 5 \in Nat /\ 5 > 0
    OBVIOUS
  <2> QED BY <2>1, <2>2, <2>3, <2>4, IsMapOf
<1>9. IsMap(<<1, 1, 2, 1, 1, 4>>, 6, 10)
  <2>1. PICK map, p : map = <<1, 1, 2, 1, 1, 4>> /\ p = <<1, 2, 4, 5, 6, 10>>
    OBVIOUS
  <2>2. map \in EntryMaps /\ Len(map) = 6 /\ p[6] = 10
    BY <2>1 DEF EntryMaps
  <2>3. Adds(map, p, 6)
    <3>1. Abs(map[1]) = p[1]
      <4>1. map[1] = 1 /\ 4 \in Nat /\ 1 \in Nat /\ 2 \in Nat /\ p[1] = 1
        BY <2>1
      <4> QED BY <4>1, AbsIs
    <3>2. ASSUME NEW i \in 2..6 PROVE p[i] = p[i - 1] + Abs(map[i])
      BY <2>1 DEF Abs
    <3> QED BY <3>1, <3>2 DEF Adds
  <2>4. 6 \in Nat /\ 6 > 0
    OBVIOUS
  <2> QED BY <2>1, <2>2, <2>3, <2>4, IsMapOf
<1>10. IsMap(<<1, 1, 1, 4, 4, 2>>, 6, 13)
  <2>1. PICK map, p : map = <<1, 1, 1, 4, 4, 2>> /\ p = <<1, 2, 3, 7, 11, 13>>
    OBVIOUS
  <2>2. map \in EntryMaps /\ Len(map) = 6 /\ p[6] = 13
    BY <2>1 DEF EntryMaps
  <2>3. Adds(map, p, 6)
    <3>1. Abs(map[1]) = p[1]
      <4>1. map[1] = 1 /\ 4 \in Nat /\ 1 \in Nat /\ 2 \in Nat /\ p[1] = 1
        BY <2>1
      <4> QED BY <4>1, AbsIs
    <3>2. ASSUME NEW i \in 2..6 PROVE p[i] = p[i - 1] + Abs(map[i])
      BY <2>1 DEF Abs
    <3> QED BY <3>1, <3>2 DEF Adds
  <2>4. 6 \in Nat /\ 6 > 0
    OBVIOUS
  <2> QED BY <2>1, <2>2, <2>3, <2>4, IsMapOf
<1>11. IsMap(<<1, 1, 1, 4, 1, 4>>, 6, 12)
  <2>1. PICK map, p : map = <<1, 1, 1, 4, 1, 4>> /\ p = <<1, 2, 3, 7, 8, 12>>
    OBVIOUS
  <2>2. map \in EntryMaps /\ Len(map) = 6 /\ p[6] = 12
    BY <2>1 DEF EntryMaps
  <2>3. Adds(map, p, 6)
    <3>1. Abs(map[1]) = p[1]
      <4>1. map[1] = 1 /\ 4 \in Nat /\ 1 \in Nat /\ 2 \in Nat /\ p[1] = 1
        BY <2>1
      <4> QED BY <4>1, AbsIs
    <3>2. ASSUME NEW i \in 2..6 PROVE p[i] = p[i - 1] + Abs(map[i])
      BY <2>1 DEF Abs
    <3> QED BY <3>1, <3>2 DEF Adds
  <2>4. 6 \in Nat /\ 6 > 0
    OBVIOUS
  <2> QED BY <2>1, <2>2, <2>3, <2>4, IsMapOf
<1>12. IsMap(<<1, -1, -4, 1, -1, -4>>, 6, 12)
  <2>1. PICK map, p : map = <<1, -1, -4, 1, -1, -4>> /\ p = <<1, 2, 6, 7, 8, 12>>
    OBVIOUS
  <2>2. map \in EntryMaps /\ Len(map) = 6 /\ p[6] = 12
    BY <2>1 DEF EntryMaps
  <2>3. Adds(map, p, 6)
    <3>1. Abs(map[1]) = p[1]
      <4>1. map[1] = 1 /\ 4 \in Nat /\ 1 \in Nat /\ 2 \in Nat /\ p[1] = 1
        BY <2>1
      <4> QED BY <4>1, AbsIs
    <3>2. ASSUME NEW i \in 2..6 PROVE p[i] = p[i - 1] + Abs(map[i])
      BY <2>1 DEF Abs
    <3> QED BY <3>1, <3>2 DEF Adds
  <2>4. 6 \in Nat /\ 6 > 0
    OBVIOUS
  <2> QED BY <2>1, <2>2, <2>3, <2>4, IsMapOf
<1>13. IsMap(<<1, -1, -4, -1, -4>>, 5, 11)
  <2>1. PICK map, p : map = <<1, -1, -4, -1, -4>> /\ p = <<1, 2, 6, 7, 11>>
    OBVIOUS
  <2>2. map \in EntryMaps /\ Len(map) = 5 /\ p[5] = 11
    BY <2>1 DEF EntryMaps
  <2>3. Adds(map, p, 5)
    <3>1. Abs(map[1]) = p[1]
      <4>1. map[1] = 1 /\ 4 \in Nat /\ 1 \in Nat /\ 2 \in Nat /\ p[1] = 1
        BY <2>1
      <4> QED BY <4>1, AbsIs
    <3>2. ASSUME NEW i \in 2..5 PROVE p[i] = p[i - 1] + Abs(map[i])
      BY <2>1 DEF Abs
    <3> QED BY <3>1, <3>2 DEF Adds
  <2>4. 5 \in Nat /\ 5 > 0
    OBVIOUS
  <2> QED BY <2>1, <2>2, <2>3, <2>4, IsMapOf
<1> QED BY <1>1, <1>2, <1>3, <1>4, <1>5, <1>6, <1>7, <1>8, <1>9, <1>10, <1>11, <1>12, <1>13

LEMMA LongParts ==
  /\ IsMap(<<1, 1, 1, 1, 1, 1, 1>>, 7, 7)
  /\ IsMap(<<1, 1, 1, -1, -4, -1, -4>>, 7, 13)
  /\ IsMap(<<1, 1, 1, 2, 1, 1, 2>>, 7, 9)
  /\ IsMap(<<1, 1, 1, 2, 1, 1, 4>>, 7, 11)
  /\ IsMap(<<2, 1, 1, 1, 1, 1, 1, 4>>, 8, 12)
  /\ IsMap(<<-4, 4, 4, 1, -1, 4, -1, 4>>, 8, 23)
  /\ IsMap(<<1, 1, 1, 1, 1, 2, 1, 1, 4>>, 9, 13)
  /\ IsMap(<<-4, -4, 4, 4, 1, -1, 4, -1, 4>>, 9, 27)
  /\ IsMap(<<1, 1, 2, 1, 1, 1, 2, 1, 1, 4>>, 10, 15)
  /\ IsMap(<<1, 1, 1, 1, 1, -4, 4, 2, 4, 2, 1, 1, 1, 1, 1, 2, 1, 3, 2>>, 19, 34)
<1>1. IsMap(<<1, 1, 1, 1, 1, 1, 1>>, 7, 7)
  <2>1. PICK map, p : map = <<1, 1, 1, 1, 1, 1, 1>> /\ p = <<1, 2, 3, 4, 5, 6, 7>>
    OBVIOUS
  <2>2. map \in EntryMaps /\ Len(map) = 7 /\ p[7] = 7
    BY <2>1 DEF EntryMaps
  <2>3. Adds(map, p, 7)
    <3>1. Abs(map[1]) = p[1]
      <4>1. map[1] = 1 /\ 4 \in Nat /\ 1 \in Nat /\ 2 \in Nat /\ p[1] = 1
        BY <2>1
      <4> QED BY <4>1, AbsIs
    <3>2. ASSUME NEW i \in 2..7 PROVE p[i] = p[i - 1] + Abs(map[i])
      BY <2>1 DEF Abs
    <3> QED BY <3>1, <3>2 DEF Adds
  <2>4. 7 \in Nat /\ 7 > 0
    OBVIOUS
  <2> QED BY <2>1, <2>2, <2>3, <2>4, IsMapOf
<1>2. IsMap(<<1, 1, 1, -1, -4, -1, -4>>, 7, 13)
  <2>1. PICK map, p : map = <<1, 1, 1, -1, -4, -1, -4>> /\ p = <<1, 2, 3, 4, 8, 9, 13>>
    OBVIOUS
  <2>2. map \in EntryMaps /\ Len(map) = 7 /\ p[7] = 13
    BY <2>1 DEF EntryMaps
  <2>3. Adds(map, p, 7)
    <3>1. Abs(map[1]) = p[1]
      <4>1. map[1] = 1 /\ 4 \in Nat /\ 1 \in Nat /\ 2 \in Nat /\ p[1] = 1
        BY <2>1
      <4> QED BY <4>1, AbsIs
    <3>2. ASSUME NEW i \in 2..7 PROVE p[i] = p[i - 1] + Abs(map[i])
      BY <2>1 DEF Abs
    <3> QED BY <3>1, <3>2 DEF Adds
  <2>4. 7 \in Nat /\ 7 > 0
    OBVIOUS
  <2> QED BY <2>1, <2>2, <2>3, <2>4, IsMapOf
<1>3. IsMap(<<1, 1, 1, 2, 1, 1, 2>>, 7, 9)
  <2>1. PICK map, p : map = <<1, 1, 1, 2, 1, 1, 2>> /\ p = <<1, 2, 3, 5, 6, 7, 9>>
    OBVIOUS
  <2>2. map \in EntryMaps /\ Len(map) = 7 /\ p[7] = 9
    BY <2>1 DEF EntryMaps
  <2>3. Adds(map, p, 7)
    <3>1. Abs(map[1]) = p[1]
      <4>1. map[1] = 1 /\ 4 \in Nat /\ 1 \in Nat /\ 2 \in Nat /\ p[1] = 1
        BY <2>1
      <4> QED BY <4>1, AbsIs
    <3>2. ASSUME NEW i \in 2..7 PROVE p[i] = p[i - 1] + Abs(map[i])
      BY <2>1 DEF Abs
    <3> QED BY <3>1, <3>2 DEF Adds
  <2>4. 7 \in Nat /\ 7 > 0
    OBVIOUS
  <2> QED BY <2>1, <2>2, <2>3, <2>4, IsMapOf
<1>4. IsMap(<<1, 1, 1, 2, 1, 1, 4>>, 7, 11)
  <2>1. PICK map, p : map = <<1, 1, 1, 2, 1, 1, 4>> /\ p = <<1, 2, 3, 5, 6, 7, 11>>
    OBVIOUS
  <2>2. map \in EntryMaps /\ Len(map) = 7 /\ p[7] = 11
    BY <2>1 DEF EntryMaps
  <2>3. Adds(map, p, 7)
    <3>1. Abs(map[1]) = p[1]
      <4>1. map[1] = 1 /\ 4 \in Nat /\ 1 \in Nat /\ 2 \in Nat /\ p[1] = 1
        BY <2>1
      <4> QED BY <4>1, AbsIs
    <3>2. ASSUME NEW i \in 2..7 PROVE p[i] = p[i - 1] + Abs(map[i])
      BY <2>1 DEF Abs
    <3> QED BY <3>1, <3>2 DEF Adds
  <2>4. 7 \in Nat /\ 7 > 0
    OBVIOUS
  <2> QED BY <2>1, <2>2, <2>3, <2>4, IsMapOf
<1>5. IsMap(<<2, 1, 1, 1, 1, 1, 1, 4>>, 8, 12)
  <2>1. PICK map, p : map = <<2, 1, 1, 1, 1, 1, 1, 4>> /\ p = <<2, 3, 4, 5, 6, 7, 8, 12>>
    OBVIOUS
  <2>2. map \in EntryMaps /\ Len(map) = 8 /\ p[8] = 12
    BY <2>1 DEF EntryMaps
  <2>3. Adds(map, p, 8)
    <3>1. Abs(map[1]) = p[1]
      <4>1. map[1] = 2 /\ 4 \in Nat /\ 1 \in Nat /\ 2 \in Nat /\ p[1] = 2
        BY <2>1
      <4> QED BY <4>1, AbsIs
    <3>2. ASSUME NEW i \in 2..8 PROVE p[i] = p[i - 1] + Abs(map[i])
      BY <2>1 DEF Abs
    <3> QED BY <3>1, <3>2 DEF Adds
  <2>4. 8 \in Nat /\ 8 > 0
    OBVIOUS
  <2> QED BY <2>1, <2>2, <2>3, <2>4, IsMapOf
<1>6. IsMap(<<-4, 4, 4, 1, -1, 4, -1, 4>>, 8, 23)
  <2>1. PICK map, p : map = <<-4, 4, 4, 1, -1, 4, -1, 4>> /\ p = <<4, 8, 12, 13, 14, 18, 19, 23>>
    OBVIOUS
  <2>2. map \in EntryMaps /\ Len(map) = 8 /\ p[8] = 23
    BY <2>1 DEF EntryMaps
  <2>3. Adds(map, p, 8)
    <3>1. Abs(map[1]) = p[1]
      <4>1. map[1] = -4 /\ 4 \in Nat /\ 1 \in Nat /\ 2 \in Nat /\ p[1] = 4
        BY <2>1
      <4> QED BY <4>1, AbsIs
    <3>2. ASSUME NEW i \in 2..8 PROVE p[i] = p[i - 1] + Abs(map[i])
      <4>1. CASE i = 2
        BY <2>1, <4>1 DEF Abs
      <4>2. CASE i = 3
        BY <2>1, <4>2 DEF Abs
      <4>3. CASE i = 4
        BY <2>1, <4>3 DEF Abs
      <4>4. CASE i = 5
        BY <2>1, <4>4 DEF Abs
      <4>5. CASE i = 6
        BY <2>1, <4>5 DEF Abs
      <4>6. CASE i = 7
        BY <2>1, <4>6 DEF Abs
      <4>7. CASE i = 8
        BY <2>1, <4>7 DEF Abs
      <4> QED BY <4>1, <4>2, <4>3, <4>4, <4>5, <4>6, <4>7
    <3> QED BY <3>1, <3>2 DEF Adds
  <2>4. 8 \in Nat /\ 8 > 0
    OBVIOUS
  <2> QED BY <2>1, <2>2, <2>3, <2>4, IsMapOf
<1>7. IsMap(<<1, 1, 1, 1, 1, 2, 1, 1, 4>>, 9, 13)
  <2>1. PICK map, p : map = <<1, 1, 1, 1, 1, 2, 1, 1, 4>> /\ p = <<1, 2, 3, 4, 5, 7, 8, 9, 13>>
    OBVIOUS
  <2>2. map \in EntryMaps /\ Len(map) = 9 /\ p[9] = 13
    BY <2>1 DEF EntryMaps
  <2>3. Adds(map, p, 9)
    <3>1. Abs(map[1]) = p[1]
      <4>1. map[1] = 1 /\ 4 \in Nat /\ 1 \in Nat /\ 2 \in Nat /\ p[1] = 1
        BY <2>1
      <4> QED BY <4>1, AbsIs
    <3>2. ASSUME NEW i \in 2..9 PROVE p[i] = p[i - 1] + Abs(map[i])
      BY <2>1 DEF Abs
    <3> QED BY <3>1, <3>2 DEF Adds
  <2>4. 9 \in Nat /\ 9 > 0
    OBVIOUS
  <2> QED BY <2>1, <2>2, <2>3, <2>4, IsMapOf
<1>8. IsMap(<<-4, -4, 4, 4, 1, -1, 4, -1, 4>>, 9, 27)
  <2>1. PICK map, p : map = <<-4, -4, 4, 4, 1, -1, 4, -1, 4>> /\ p = <<4, 8, 12, 16, 17, 18, 22, 23, 27>>
    OBVIOUS
  <2>2. map \in EntryMaps /\ Len(map) = 9 /\ p[9] = 27
    BY <2>1 DEF EntryMaps
  <2>3. Adds(map, p, 9)
    <3>1. Abs(map[1]) = p[1]
      <4>1. map[1] = -4 /\ 4 \in Nat /\ 1 \in Nat /\ 2 \in Nat /\ p[1] = 4
        BY <2>1
      <4> QED BY <4>1, AbsIs
    <3>2. ASSUME NEW i \in 2..9 PROVE p[i] = p[i - 1] + Abs(map[i])
      <4>1. CASE i = 2
        BY <2>1, <4>1 DEF Abs
      <4>2. CASE i = 3
        BY <2>1, <4>2 DEF Abs
      <4>3. CASE i = 4
        BY <2>1, <4>3 DEF Abs
      <4>4. CASE i = 5
        BY <2>1, <4>4 DEF Abs
      <4>5. CASE i = 6
        BY <2>1, <4>5 DEF Abs
      <4>6. CASE i = 7
        BY <2>1, <4>6 DEF Abs
      <4>7. CASE i = 8
        BY <2>1, <4>7 DEF Abs
      <4>8. CASE i = 9
        BY <2>1, <4>8 DEF Abs
      <4> QED BY <4>1, <4>2, <4>3, <4>4, <4>5, <4>6, <4>7, <4>8
    <3> QED BY <3>1, <3>2 DEF Adds
  <2>4. 9 \in Nat /\ 9 > 0
    OBVIOUS
  <2> QED BY <2>1, <2>2, <2>3, <2>4, IsMapOf
<1>9. IsMap(<<1, 1, 2, 1, 1, 1, 2, 1, 1, 4>>, 10, 15)
  <2>1. PICK map, p : map = <<1, 1, 2, 1, 1, 1, 2, 1, 1, 4>> /\ p = <<1, 2, 4, 5, 6, 7, 9, 10, 11, 15>>
    OBVIOUS
  <2>2. map \in EntryMaps /\ Len(map) = 10 /\ p[10] = 15
    BY <2>1 DEF EntryMaps
  <2>3. Adds(map, p, 10)
    <3>1. Abs(map[1]) = p[1]
      <4>1. map[1] = 1 /\ 4 \in Nat /\ 1 \in Nat /\ 2 \in Nat /\ p[1] = 1
        BY <2>1
      <4> QED BY <4>1, AbsIs
    <3>2. ASSUME NEW i \in 2..10 PROVE p[i] = p[i - 1] + Abs(map[i])
      BY <2>1 DEF Abs
    <3> QED BY <3>1, <3>2 DEF Adds
  <2>4. 10 \in Nat /\ 10 > 0
    OBVIOUS
  <2> QED BY <2>1, <2>2, <2>3, <2>4, IsMapOf
<1>10. IsMap(<<1, 1, 1, 1, 1, -4, 4, 2, 4, 2, 1, 1, 1, 1, 1, 2, 1, 3, 2>>, 19, 34)
  <2>1. PICK map, p : map = <<1, 1, 1, 1, 1, -4, 4, 2, 4, 2, 1, 1, 1, 1, 1, 2, 1, 3, 2>> /\ p = <<1, 2, 3, 4, 5, 9, 13, 15, 19, 21, 22, 23, 24, 25, 26, 28, 29, 32, 34>>
    OBVIOUS
  <2>2. map \in EntryMaps /\ Len(map) = 19 /\ p[19] = 34
    BY <2>1 DEF EntryMaps
  <2>3. Adds(map, p, 19)
    <3>1. Abs(map[1]) = p[1]
      <4>1. map[1] = 1 /\ 4 \in Nat /\ 1 \in Nat /\ 2 \in Nat /\ p[1] = 1
        BY <2>1
      <4> QED BY <4>1, AbsIs
    <3>2. ASSUME NEW i \in 2..19 PROVE p[i] = p[i - 1] + Abs(map[i])
      BY <2>1 DEF Abs
    <3> QED BY <3>1, <3>2 DEF Adds
  <2>4. 19 \in Nat /\ 19 > 0
    OBVIOUS
  <2> QED BY <2>1, <2>2, <2>3, <2>4, IsMapOf
<1> QED BY <1>1, <1>2, <1>3, <1>4, <1>5, <1>6, <1>7, <1>8, <1>9, <1>10

(* The shared parts of the templates.                                      *)
LEMMA PartsAre ==
  /\ IsMap(Point, 9, 13)
  /\ IsMap(Levels, 6, 12)
  /\ IsMap(Member, 3, 3)
  /\ IsMap(Cluster, 7, 7)
  /\ IsMap(Probability, 7, 13)
  /\ IsMap(Statistics, 6, 12)
  /\ IsMap(SizeInterval, 5, 11)
  /\ IsMap(Product, 15, 25)
  /\ IsMap(Range_, 14, 24)
  /\ IsMap(Chemical, 16, 27)
  /\ IsMap(Aerosol, 21, 38)
<1>1. /\ IsMap(Point, 9, 13)
      /\ IsMap(Levels, 6, 12)
      /\ IsMap(Member, 3, 3)
      /\ IsMap(Cluster, 7, 7)
      /\ IsMap(Probability, 7, 13)
      /\ IsMap(Statistics, 6, 12)
      /\ IsMap(SizeInterval, 5, 11)
  BY ShortParts, LongParts DEF Point, Levels, Member, Cluster, Probability, Statistics, SizeInterval
<1>2. IsMap(Product, 15, 25)
  <2>1. IsMap(Point \o Levels, 15, 25)
    <3>1. IsMap(Point \o Levels, 9 + 6, 13 + 12)
      BY <1>1, ShortParts, LongParts, Joined
    <3> QED BY <3>1
  <2> QED BY <2>1 DEF Product
<1>3. IsMap(Range_, 14, 24)
  <2>1. IsMap(<<2, 1, 1, 1, 1, 1, 1, 4>> \o Statistics, 14, 24)
    <3>1. IsMap(<<2, 1, 1, 1, 1, 1, 1, 4>> \o Statistics, 8 + 6, 12 + 12)
      BY <1>1, ShortParts, LongParts, Joined
    <3> QED BY <3>1
  <2> QED BY <2>1 DEF Range_
<1>4. IsMap(Chemical, 16, 27)
  <2>1. IsMap(<<1, 1, 2, 1, 1, 1, 2, 1, 1, 4>> \o Levels, 16, 27)
    <3>1. IsMap(<<1, 1, 2, 1, 1, 1, 2, 1, 1, 4>> \o Levels, 10 + 6, 15 + 12)
      BY <1>1, ShortParts, LongParts, Joined
    <3> QED BY <3>1
  <2> QED BY <2>1 DEF Chemical
<1>5. IsMap(Aerosol, 21, 38)
  <2>1. IsMap(<<1, 1, 2>> \o SizeInterval, 8, 15)
    <3>1. IsMap(<<1, 1, 2>> \o SizeInterval, 3 + 5, 4 + 11)
      BY <1>1, ShortParts, LongParts, Joined
    <3> QED BY <3>1
  <2>2. IsMap(<<1, 1, 2>> \o SizeInterval \o <<1, 1, 1, 2, 1, 1, 4>>, 15, 26)
    <3>1. IsMap(<<1, 1, 2>> \o SizeInterval \o <<1, 1, 1, 2, 1, 1, 4>>, 8 + 7, 15 + 11)
      BY <1>1, ShortParts, LongParts, <2>1, Joined
    <3> QED BY <3>1
  <2>3. IsMap(<<1, 1, 2>> \o SizeInterval \o <<1, 1, 1, 2, 1, 1, 4>> \o Levels, 21, 38)
    <3>1. IsMap(<<1, 1, 2>> \o SizeInterval \o <<1, 1, 1, 2, 1, 1, 4>> \o Levels, 15 + 6, 26 + 12)
      BY <1>1, ShortParts, LongParts, <2>2, Joined
    <3> QED BY <3>1
  <2> QED BY <2>3 DEF Aerosol
<1> QED BY <1>1, <1>2, <1>3, <1>4, <1>5

(* The templates that are never longer.                                    *)
FixedProducts == {0, 1, 2, 5, 6, 7, 15, 20, 40, 41, 44, 45, 48, 254, 1000, 1001, 1002, 1100}
FixedSize(n) ==
  CASE n = 254 -> 6
    [] n = 1000 -> 13
    [] n \in {0, 7, 1100} -> 25
    [] n \in {6, 1002} -> 26
    [] n \in {2, 40} -> 27
    [] n \in {1, 15} -> 28
    [] n = 1001 -> 29
    [] n = 41 -> 30
    [] n = 20 -> 34
    [] n = 44 -> 36
    [] n = 5 -> 38
    [] n = 45 -> 41
    [] n = 48 -> 49

IsFixed(n) ==
  /\ templatespds[n].needext = FALSE
  /\ templatespds[n].map \in EntryMaps /\ Size(templatespds[n].map) = FixedSize(n)

(* The maps of the templates of g2clib that are never longer.              *)
LEMMA FixedMaps ==
  ASSUME NEW n \in FixedProducts
  PROVE  IsFixed(n)
<1>1. CASE n = 0
  <2>1. IsMap(Product, 15, 25)
    BY PartsAre, ShortParts, LongParts
  <2>2. templatespds[0] = NoExt(Product)
    BY DEF templatespds, pdsRows
  <2>3. templatespds[0].needext = FALSE /\ templatespds[0].map = Product
    BY <2>2 DEF NoExt
  <2>4. FixedSize(0) = 25
    BY DEF FixedSize
  <2> QED BY <1>1, <2>1, <2>3, <2>4 DEF IsMap, IsFixed
<1>2. CASE n = 7
  <2>1. IsMap(Product, 15, 25)
    BY PartsAre, ShortParts, LongParts
  <2>2. templatespds[7] = NoExt(Product)
    BY DEF templatespds, pdsRows
  <2>3. templatespds[7].needext = FALSE /\ templatespds[7].map = Product
    BY <2>2 DEF NoExt
  <2>4. FixedSize(7) = 25
    BY DEF FixedSize
  <2> QED BY <1>2, <2>1, <2>3, <2>4 DEF IsMap, IsFixed
<1>3. CASE n = 1100
  <2>1. IsMap(Product, 15, 25)
    BY PartsAre, ShortParts, LongParts
  <2>2. templatespds[1100] = NoExt(Product)
    BY DEF templatespds, pdsRows
  <2>3. templatespds[1100].needext = FALSE /\ templatespds[1100].map = Product
    BY <2>2 DEF NoExt
  <2>4. FixedSize(1100) = 25
    BY DEF FixedSize
  <2> QED BY <1>3, <2>1, <2>3, <2>4 DEF IsMap, IsFixed
<1>4. CASE n = 1
  <2>1. IsMap(Product \o Member, 18, 28)
    <3>1. IsMap(Product \o Member, 15 + 3, 25 + 3)
      BY PartsAre, ShortParts, LongParts, Joined
    <3> QED BY <3>1
  <2>2. templatespds[1] = NoExt(Product \o Member)
    BY DEF templatespds, pdsRows
  <2>3. templatespds[1].needext = FALSE /\ templatespds[1].map = Product \o Member
    BY <2>2 DEF NoExt
  <2>4. FixedSize(1) = 28
    BY DEF FixedSize
  <2> QED BY <1>4, <2>1, <2>3, <2>4 DEF IsMap, IsFixed
<1>5. CASE n = 2
  <2>1. IsMap(Product \o <<1, 1>>, 17, 27)
    <3>1. IsMap(Product \o <<1, 1>>, 15 + 2, 25 + 2)
      BY PartsAre, ShortParts, LongParts, Joined
    <3> QED BY <3>1
  <2>2. templatespds[2] = NoExt(Product \o <<1, 1>>)
    BY DEF templatespds, pdsRows
  <2>3. templatespds[2].needext = FALSE /\ templatespds[2].map = Product \o <<1, 1>>
    BY <2>2 DEF NoExt
  <2>4. FixedSize(2) = 27
    BY DEF FixedSize
  <2> QED BY <1>5, <2>1, <2>3, <2>4 DEF IsMap, IsFixed
<1>6. CASE n = 5
  <2>1. IsMap(Product \o Probability, 22, 38)
    <3>1. IsMap(Product \o Probability, 15 + 7, 25 + 13)
      BY PartsAre, ShortParts, LongParts, Joined
    <3> QED BY <3>1
  <2>2. templatespds[5] = NoExt(Product \o Probability)
    BY DEF templatespds, pdsRows
  <2>3. templatespds[5].needext = FALSE /\ templatespds[5].map = Product \o Probability
    BY <2>2 DEF NoExt
  <2>4. FixedSize(5) = 38
    BY DEF FixedSize
  <2> QED BY <1>6, <2>1, <2>3, <2>4 DEF IsMap, IsFixed
<1>7. CASE n = 6
  <2>1. IsMap(Product \o <<1>>, 16, 26)
    <3>1. IsMap(Product \o <<1>>, 15 + 1, 25 + 1)
      BY PartsAre, ShortParts, LongParts, Joined
    <3> QED BY <3>1
  <2>2. templatespds[6] = NoExt(Product \o <<1>>)
    BY DEF templatespds, pdsRows
  <2>3. templatespds[6].needext = FALSE /\ templatespds[6].map = Product \o <<1>>
    BY <2>2 DEF NoExt
  <2>4. FixedSize(6) = 26
    BY DEF FixedSize
  <2> QED BY <1>7, <2>1, <2>3, <2>4 DEF IsMap, IsFixed
<1>8. CASE n = 15
  <2>1. IsMap(Product \o <<1, 1, 1>>, 18, 28)
    <3>1. IsMap(Product \o <<1, 1, 1>>, 15 + 3, 25 + 3)
      BY PartsAre, ShortParts, LongParts, Joined
    <3> QED BY <3>1
  <2>2. templatespds[15] = NoExt(Product \o <<1, 1, 1>>)
    BY DEF templatespds, pdsRows
  <2>3. templatespds[15].needext = FALSE /\ templatespds[15].map = Product \o <<1, 1, 1>>
    BY <2>2 DEF NoExt
  <2>4. FixedSize(15) = 28
    BY DEF FixedSize
  <2> QED BY <1>8, <2>1, <2>3, <2>4 DEF IsMap, IsFixed
<1>9. CASE n = 20
  <2>1. IsMap(<<1, 1, 1, 1, 1, -4, 4, 2, 4, 2, 1, 1, 1, 1, 1, 2, 1, 3, 2>>, 19, 34)
    BY PartsAre, ShortParts, LongParts
  <2>2. templatespds[20] = NoExt(<<1, 1, 1, 1, 1, -4, 4, 2, 4, 2, 1, 1, 1, 1, 1, 2, 1, 3, 2>>)
    BY DEF templatespds, pdsRows
  <2>3. templatespds[20].needext = FALSE /\ templatespds[20].map = <<1, 1, 1, 1, 1, -4, 4, 2, 4, 2, 1, 1, 1, 1, 1, 2, 1, 3, 2>>
    BY <2>2 DEF NoExt
  <2>4. FixedSize(20) = 34
    BY DEF FixedSize
  <2> QED BY <1>9, <2>1, <2>3, <2>4 DEF IsMap, IsFixed
<1>10. CASE n = 40
  <2>1. IsMap(Chemical, 16, 27)
    BY PartsAre, ShortParts, LongParts
  <2>2. templatespds[40] = NoExt(Chemical)
    BY DEF templatespds, pdsRows
  <2>3. templatespds[40].needext = FALSE /\ templatespds[40].map = Chemical
    BY <2>2 DEF NoExt
  <2>4. FixedSize(40) = 27
    BY DEF FixedSize
  <2> QED BY <1>10, <2>1, <2>3, <2>4 DEF IsMap, IsFixed
<1>11. CASE n = 41
  <2>1. IsMap(Chemical \o Member, 19, 30)
    <3>1. IsMap(Chemical \o Member, 16 + 3, 27 + 3)
      BY PartsAre, ShortParts, LongParts, Joined
    <3> QED BY <3>1
  <2>2. templatespds[41] = NoExt(Chemical \o Member)
    BY DEF templatespds, pdsRows
  <2>3. templatespds[41].needext = FALSE /\ templatespds[41].map = Chemical \o Member
    BY <2>2 DEF NoExt
  <2>4. FixedSize(41) = 30
    BY DEF FixedSize
  <2> QED BY <1>11, <2>1, <2>3, <2>4 DEF IsMap, IsFixed
<1>12. CASE n = 44
  <2>1. IsMap(<<1, 1, 2>> \o SizeInterval, 8, 15)
    <3>1. IsMap(<<1, 1, 2>> \o SizeInterval, 3 + 5, 4 + 11)
      BY PartsAre, ShortParts, LongParts, Joined
    <3> QED BY <3>1
  <2>2. IsMap(<<1, 1, 2>> \o SizeInterval \o <<1, 1, 1, 2, 1, 1, 2>>, 15, 24)
    <3>1. IsMap(<<1, 1, 2>> \o SizeInterval \o <<1, 1, 1, 2, 1, 1, 2>>, 8 + 7, 15 + 9)
      BY PartsAre, ShortParts, LongParts, <2>1, Joined
    <3> QED BY <3>1
  <2>3. IsMap(<<1, 1, 2>> \o SizeInterval \o <<1, 1, 1, 2, 1, 1, 2>> \o Levels, 21, 36)
    <3>1. IsMap(<<1, 1, 2>> \o SizeInterval \o <<1, 1, 1, 2, 1, 1, 2>> \o Levels, 15 + 6, 24 + 12)
      BY PartsAre, ShortParts, LongParts, <2>2, Joined
    <3> QED BY <3>1
  <2>4. templatespds[44] = NoExt(<<1, 1, 2>> \o SizeInterval \o <<1, 1, 1, 2, 1, 1, 2>> \o Levels)
    BY DEF templatespds, pdsRows
  <2>5. templatespds[44].needext = FALSE /\ templatespds[44].map = <<1, 1, 2>> \o SizeInterval \o <<1, 1, 1, 2, 1, 1, 2>> \o Levels
    BY <2>4 DEF NoExt
  <2>6. FixedSize(44) = 36
    BY DEF FixedSize
  <2> QED BY <1>12, <2>3, <2>5, <2>6 DEF IsMap, IsFixed
<1>13. CASE n = 45
  <2>1. IsMap(Aerosol \o Member, 24, 41)
    <3>1. IsMap(Aerosol \o Member, 21 + 3, 38 + 3)
      BY PartsAre, ShortParts, LongParts, Joined
    <3> QED BY <3>1
  <2>2. templatespds[45] = NoExt(Aerosol \o Member)
    BY DEF templatespds, pdsRows
  <2>3. templatespds[45].needext = FALSE /\ templatespds[45].map = Aerosol \o Member
    BY <2>2 DEF NoExt
  <2>4. FixedSize(45) = 41
    BY DEF FixedSize
  <2> QED BY <1>13, <2>1, <2>3, <2>4 DEF IsMap, IsFixed
<1>14. CASE n = 48
  <2>1. IsMap(<<1, 1, 2>> \o SizeInterval, 8, 15)
    <3>1. IsMap(<<1, 1, 2>> \o SizeInterval, 3 + 5, 4 + 11)
      BY PartsAre, ShortParts, LongParts, Joined
    <3> QED BY <3>1
  <2>2. IsMap(<<1, 1, 2>> \o SizeInterval \o SizeInterval, 13, 26)
    <3>1. IsMap(<<1, 1, 2>> \o SizeInterval \o SizeInterval, 8 + 5, 15 + 11)
      BY PartsAre, ShortParts, LongParts, <2>1, Joined
    <3> QED BY <3>1
  <2>3. IsMap(<<1, 1, 2>> \o SizeInterval \o SizeInterval \o <<1, 1, 1, 2, 1, 1, 4>>, 20, 37)
    <3>1. IsMap(<<1, 1, 2>> \o SizeInterval \o SizeInterval \o <<1, 1, 1, 2, 1, 1, 4>>, 13 + 7, 26 + 11)
      BY PartsAre, ShortParts, LongParts, <2>2, Joined
    <3> QED BY <3>1
  <2>4. IsMap(<<1, 1, 2>> \o SizeInterval \o SizeInterval \o <<1, 1, 1, 2, 1, 1, 4>> \o Levels, 26, 49)
    <3>1. IsMap(<<1, 1, 2>> \o SizeInterval \o SizeInterval \o <<1, 1, 1, 2, 1, 1, 4>> \o Levels, 20 + 6, 37 + 12)
      BY PartsAre, ShortParts, LongParts, <2>3, Joined
    <3> QED BY <3>1
  <2>5. templatespds[48] = NoExt(<<1, 1, 2>> \o SizeInterval \o SizeInterval \o <<1, 1, 1, 2, 1, 1, 4>> \o Levels)
    BY DEF templatespds, pdsRows
  <2>6. templatespds[48].needext = FALSE /\ templatespds[48].map = <<1, 1, 2>> \o SizeInterval \o SizeInterval \o <<1, 1, 1, 2, 1, 1, 4>> \o Levels
    BY <2>5 DEF NoExt
  <2>7. FixedSize(48) = 49
    BY DEF FixedSize
  <2> QED BY <1>14, <2>4, <2>6, <2>7 DEF IsMap, IsFixed
<1>15. CASE n = 254
  <2>1. IsMap(<<1, 1, 4>>, 3, 6)
    BY PartsAre, ShortParts, LongParts
  <2>2. templatespds[254] = NoExt(<<1, 1, 4>>)
    BY DEF templatespds, pdsRows
  <2>3. templatespds[254].needext = FALSE /\ templatespds[254].map = <<1, 1, 4>>
    BY <2>2 DEF NoExt
  <2>4. FixedSize(254) = 6
    BY DEF FixedSize
  <2> QED BY <1>15, <2>1, <2>3, <2>4 DEF IsMap, IsFixed
<1>16. CASE n = 1000
  <2>1. IsMap(Point, 9, 13)
    BY PartsAre, ShortParts, LongParts
  <2>2. templatespds[1000] = NoExt(Point)
    BY DEF templatespds, pdsRows
  <2>3. templatespds[1000].needext = FALSE /\ templatespds[1000].map = Point
    BY <2>2 DEF NoExt
  <2>4. FixedSize(1000) = 13
    BY DEF FixedSize
  <2> QED BY <1>16, <2>1, <2>3, <2>4 DEF IsMap, IsFixed
<1>17. CASE n = 1001
  <2>1. IsMap(Point \o <<4>>, 10, 17)
    <3>1. IsMap(Point \o <<4>>, 9 + 1, 13 + 4)
      BY PartsAre, ShortParts, LongParts, Joined
    <3> QED BY <3>1
  <2>2. IsMap(Point \o <<4>> \o Statistics, 16, 29)
    <3>1. IsMap(Point \o <<4>> \o Statistics, 10 + 6, 17 + 12)
      BY PartsAre, ShortParts, LongParts, <2>1, Joined
    <3> QED BY <3>1
  <2>3. templatespds[1001] = NoExt(Point \o <<4>> \o Statistics)
    BY DEF templatespds, pdsRows
  <2>4. templatespds[1001].needext = FALSE /\ templatespds[1001].map = Point \o <<4>> \o Statistics
    BY <2>3 DEF NoExt
  <2>5. FixedSize(1001) = 29
    BY DEF FixedSize
  <2> QED BY <1>17, <2>2, <2>4, <2>5 DEF IsMap, IsFixed
<1>18. CASE n = 1002
  <2>1. IsMap(Point \o <<1, 1, 1, 4, 4, 2>>, 15, 26)
    <3>1. IsMap(Point \o <<1, 1, 1, 4, 4, 2>>, 9 + 6, 13 + 13)
      BY PartsAre, ShortParts, LongParts, Joined
    <3> QED BY <3>1
  <2>2. templatespds[1002] = NoExt(Point \o <<1, 1, 1, 4, 4, 2>>)
    BY DEF templatespds, pdsRows
  <2>3. templatespds[1002].needext = FALSE /\ templatespds[1002].map = Point \o <<1, 1, 1, 4, 4, 2>>
    BY <2>2 DEF NoExt
  <2>4. FixedSize(1002) = 26
    BY DEF FixedSize
  <2> QED BY <1>18, <2>1, <2>3, <2>4 DEF IsMap, IsFixed
<1>19. \/ n = 0 \/ n = 7 \/ n = 1100 \/ n = 1 \/ n = 15 \/ n = 2 \/ n = 5 \/ n = 6 \/ n = 20
       \/ n = 40 \/ n = 41 \/ n = 44 \/ n = 45 \/ n = 48 \/ n = 254 \/ n = 1000 \/ n = 1001 \/ n = 1002
  BY DEF FixedProducts
<1> QED BY ONLY <1>1, <1>2, <1>3, <1>4, <1>5, <1>6, <1>7, <1>8, <1>9, <1>10, <1>11, <1>12, <1>13, <1>14, <1>15, <1>16, <1>17, <1>18, <1>19

(* The templates with time ranges and nothing else to count.               *)
RangedProducts == {8, 9, 10, 11, 12, 42, 43, 46, 47}
IsRanged(n, h, k) ==
  /\ templatespds[n].needext = TRUE /\ templatespds[n].map = h \o Range_
  /\ IsMap(h, k, EndAt(n) - 9) /\ TimeRange[n] = <<k + 6, k + 8>>
  /\ Ranged[n] = <<EndAt(n) + 7, EndAt(n) + 12>>

(* Their maps in g2clib.                                                   *)
LEMMA RangedMaps ==
  ASSUME NEW n \in RangedProducts
  PROVE  \E h : \E k \in 9..24 : IsRanged(n, h, k)
<1>1. CASE n = 8
  <2>1. IsMap(Product, 15, 25)
    BY PartsAre
  <2>2. templatespds[8] = NeedExt(Product \o Range_)
    BY DEF templatespds, pdsRows
  <2>3. templatespds[8].needext = TRUE /\ templatespds[8].map = Product \o Range_
    BY <2>2 DEF NeedExt
  <2>4. EndAt(8) - 9 = 25 /\ 15 + 6 = 21 /\ 15 + 8 = 23 /\ EndAt(8) + 7 = 41 /\ EndAt(8) + 12 = 46
    BY DEF EndAt
  <2>5. TimeRange[8] = <<21, 23>> /\ Ranged[8] = <<41, 46>>
    BY DEF TimeRange, Ranged
  <2>6. IsRanged(8, Product, 15)
    BY <2>1, <2>3, <2>4, <2>5 DEF IsRanged
  <2>7. 15 \in 9..24
    OBVIOUS
  <2> QED BY ONLY <1>1, <2>6, <2>7
<1>2. CASE n = 9
  <2>1. IsMap(Product \o Probability, 22, 38)
    <3>1. IsMap(Product \o Probability, 15 + 7, 25 + 13)
      BY PartsAre, ShortParts, LongParts, Joined
    <3> QED BY <3>1
  <2>2. templatespds[9] = NeedExt(Product \o Probability \o Range_)
    BY DEF templatespds, pdsRows
  <2>3. templatespds[9].needext = TRUE /\ templatespds[9].map = Product \o Probability \o Range_
    BY <2>2 DEF NeedExt
  <2>4. EndAt(9) - 9 = 38 /\ 22 + 6 = 28 /\ 22 + 8 = 30 /\ EndAt(9) + 7 = 54 /\ EndAt(9) + 12 = 59
    BY DEF EndAt
  <2>5. TimeRange[9] = <<28, 30>> /\ Ranged[9] = <<54, 59>>
    BY DEF TimeRange, Ranged
  <2>6. IsRanged(9, Product \o Probability, 22)
    BY <2>1, <2>3, <2>4, <2>5 DEF IsRanged
  <2>7. 22 \in 9..24
    OBVIOUS
  <2> QED BY ONLY <1>2, <2>6, <2>7
<1>3. CASE n = 10
  <2>1. IsMap(Product \o <<1>>, 16, 26)
    <3>1. IsMap(Product \o <<1>>, 15 + 1, 25 + 1)
      BY PartsAre, ShortParts, LongParts, Joined
    <3> QED BY <3>1
  <2>2. templatespds[10] = NeedExt(Product \o <<1>> \o Range_)
    BY DEF templatespds, pdsRows
  <2>3. templatespds[10].needext = TRUE /\ templatespds[10].map = Product \o <<1>> \o Range_
    BY <2>2 DEF NeedExt
  <2>4. EndAt(10) - 9 = 26 /\ 16 + 6 = 22 /\ 16 + 8 = 24 /\ EndAt(10) + 7 = 42 /\ EndAt(10) + 12 = 47
    BY DEF EndAt
  <2>5. TimeRange[10] = <<22, 24>> /\ Ranged[10] = <<42, 47>>
    BY DEF TimeRange, Ranged
  <2>6. IsRanged(10, Product \o <<1>>, 16)
    BY <2>1, <2>3, <2>4, <2>5 DEF IsRanged
  <2>7. 16 \in 9..24
    OBVIOUS
  <2> QED BY ONLY <1>3, <2>6, <2>7
<1>4. CASE n = 11
  <2>1. IsMap(Product \o Member, 18, 28)
    <3>1. IsMap(Product \o Member, 15 + 3, 25 + 3)
      BY PartsAre, ShortParts, LongParts, Joined
    <3> QED BY <3>1
  <2>2. templatespds[11] = NeedExt(Product \o Member \o Range_)
    BY DEF templatespds, pdsRows
  <2>3. templatespds[11].needext = TRUE /\ templatespds[11].map = Product \o Member \o Range_
    BY <2>2 DEF NeedExt
  <2>4. EndAt(11) - 9 = 28 /\ 18 + 6 = 24 /\ 18 + 8 = 26 /\ EndAt(11) + 7 = 44 /\ EndAt(11) + 12 = 49
    BY DEF EndAt
  <2>5. TimeRange[11] = <<24, 26>> /\ Ranged[11] = <<44, 49>>
    BY DEF TimeRange, Ranged
  <2>6. IsRanged(11, Product \o Member, 18)
    BY <2>1, <2>3, <2>4, <2>5 DEF IsRanged
  <2>7. 18 \in 9..24
    OBVIOUS
  <2> QED BY ONLY <1>4, <2>6, <2>7
<1>5. CASE n = 12
  <2>1. IsMap(Product \o <<1, 1>>, 17, 27)
    <3>1. IsMap(Product \o <<1, 1>>, 15 + 2, 25 + 2)
      BY PartsAre, ShortParts, LongParts, Joined
    <3> QED BY <3>1
  <2>2. templatespds[12] = NeedExt(Product \o <<1, 1>> \o Range_)
    BY DEF templatespds, pdsRows
  <2>3. templatespds[12].needext = TRUE /\ templatespds[12].map = Product \o <<1, 1>> \o Range_
    BY <2>2 DEF NeedExt
  <2>4. EndAt(12) - 9 = 27 /\ 17 + 6 = 23 /\ 17 + 8 = 25 /\ EndAt(12) + 7 = 43 /\ EndAt(12) + 12 = 48
    BY DEF EndAt
  <2>5. TimeRange[12] = <<23, 25>> /\ Ranged[12] = <<43, 48>>
    BY DEF TimeRange, Ranged
  <2>6. IsRanged(12, Product \o <<1, 1>>, 17)
    BY <2>1, <2>3, <2>4, <2>5 DEF IsRanged
  <2>7. 17 \in 9..24
    OBVIOUS
  <2> QED BY ONLY <1>5, <2>6, <2>7
<1>6. CASE n = 42
  <2>1. IsMap(Chemical, 16, 27)
    BY PartsAre
  <2>2. templatespds[42] = NeedExt(Chemical \o Range_)
    BY DEF templatespds, pdsRows
  <2>3. templatespds[42].needext = TRUE /\ templatespds[42].map = Chemical \o Range_
    BY <2>2 DEF NeedExt
  <2>4. EndAt(42) - 9 = 27 /\ 16 + 6 = 22 /\ 16 + 8 = 24 /\ EndAt(42) + 7 = 43 /\ EndAt(42) + 12 = 48
    BY DEF EndAt
  <2>5. TimeRange[42] = <<22, 24>> /\ Ranged[42] = <<43, 48>>
    BY DEF TimeRange, Ranged
  <2>6. IsRanged(42, Chemical, 16)
    BY <2>1, <2>3, <2>4, <2>5 DEF IsRanged
  <2>7. 16 \in 9..24
    OBVIOUS
  <2> QED BY ONLY <1>6, <2>6, <2>7
<1>7. CASE n = 43
  <2>1. IsMap(Chemical \o Member, 19, 30)
    <3>1. IsMap(Chemical \o Member, 16 + 3, 27 + 3)
      BY PartsAre, ShortParts, LongParts, Joined
    <3> QED BY <3>1
  <2>2. templatespds[43] = NeedExt(Chemical \o Member \o Range_)
    BY DEF templatespds, pdsRows
  <2>3. templatespds[43].needext = TRUE /\ templatespds[43].map = Chemical \o Member \o Range_
    BY <2>2 DEF NeedExt
  <2>4. EndAt(43) - 9 = 30 /\ 19 + 6 = 25 /\ 19 + 8 = 27 /\ EndAt(43) + 7 = 46 /\ EndAt(43) + 12 = 51
    BY DEF EndAt
  <2>5. TimeRange[43] = <<25, 27>> /\ Ranged[43] = <<46, 51>>
    BY DEF TimeRange, Ranged
  <2>6. IsRanged(43, Chemical \o Member, 19)
    BY <2>1, <2>3, <2>4, <2>5 DEF IsRanged
  <2>7. 19 \in 9..24
    OBVIOUS
  <2> QED BY ONLY <1>7, <2>6, <2>7
<1>8. CASE n = 46
  <2>1. IsMap(Aerosol, 21, 38)
    BY PartsAre
  <2>2. templatespds[46] = NeedExt(Aerosol \o Range_)
    BY DEF templatespds, pdsRows
  <2>3. templatespds[46].needext = TRUE /\ templatespds[46].map = Aerosol \o Range_
    BY <2>2 DEF NeedExt
  <2>4. EndAt(46) - 9 = 38 /\ 21 + 6 = 27 /\ 21 + 8 = 29 /\ EndAt(46) + 7 = 54 /\ EndAt(46) + 12 = 59
    BY DEF EndAt
  <2>5. TimeRange[46] = <<27, 29>> /\ Ranged[46] = <<54, 59>>
    BY DEF TimeRange, Ranged
  <2>6. IsRanged(46, Aerosol, 21)
    BY <2>1, <2>3, <2>4, <2>5 DEF IsRanged
  <2>7. 21 \in 9..24
    OBVIOUS
  <2> QED BY ONLY <1>8, <2>6, <2>7
<1>9. CASE n = 47
  <2>1. IsMap(<<1, 1, 1, 2>> \o SizeInterval, 9, 16)
    <3>1. IsMap(<<1, 1, 1, 2>> \o SizeInterval, 4 + 5, 5 + 11)
      BY PartsAre, ShortParts, LongParts, Joined
    <3> QED BY <3>1
  <2>2. IsMap(<<1, 1, 1, 2>> \o SizeInterval \o <<1, 1, 2, 1, 1, 4>>, 15, 26)
    <3>1. IsMap(<<1, 1, 1, 2>> \o SizeInterval \o <<1, 1, 2, 1, 1, 4>>, 9 + 6, 16 + 10)
      BY PartsAre, ShortParts, LongParts, <2>1, Joined
    <3> QED BY <3>1
  <2>3. IsMap(<<1, 1, 1, 2>> \o SizeInterval \o <<1, 1, 2, 1, 1, 4>> \o Levels, 21, 38)
    <3>1. IsMap(<<1, 1, 1, 2>> \o SizeInterval \o <<1, 1, 2, 1, 1, 4>> \o Levels, 15 + 6, 26 + 12)
      BY PartsAre, ShortParts, LongParts, <2>2, Joined
    <3> QED BY <3>1
  <2>4. IsMap(<<1, 1, 1, 2>> \o SizeInterval \o <<1, 1, 2, 1, 1, 4>> \o Levels \o Member, 24, 41)
    <3>1. IsMap(<<1, 1, 1, 2>> \o SizeInterval \o <<1, 1, 2, 1, 1, 4>> \o Levels \o Member, 21 + 3, 38 + 3)
      BY PartsAre, ShortParts, LongParts, <2>3, Joined
    <3> QED BY <3>1
  <2>5. templatespds[47] = NeedExt(<<1, 1, 1, 2>> \o SizeInterval \o <<1, 1, 2, 1, 1, 4>> \o Levels \o Member \o Range_)
    BY DEF templatespds, pdsRows
  <2>6. templatespds[47].needext = TRUE /\ templatespds[47].map = <<1, 1, 1, 2>> \o SizeInterval \o <<1, 1, 2, 1, 1, 4>> \o Levels \o Member \o Range_
    BY <2>5 DEF NeedExt
  <2>7. EndAt(47) - 9 = 41 /\ 24 + 6 = 30 /\ 24 + 8 = 32 /\ EndAt(47) + 7 = 57 /\ EndAt(47) + 12 = 62
    BY DEF EndAt
  <2>8. TimeRange[47] = <<30, 32>> /\ Ranged[47] = <<57, 62>>
    BY DEF TimeRange, Ranged
  <2>9. IsRanged(47, <<1, 1, 1, 2>> \o SizeInterval \o <<1, 1, 2, 1, 1, 4>> \o Levels \o Member, 24)
    BY <2>4, <2>6, <2>7, <2>8 DEF IsRanged
  <2>10. 24 \in 9..24
    OBVIOUS
  <2> QED BY ONLY <1>9, <2>9, <2>10
<1>10. n = 8 \/ n = 9 \/ n = 10 \/ n = 11 \/ n = 12 \/ n = 42 \/ n = 43 \/ n = 46 \/ n = 47
  BY DEF RangedProducts
<1> QED BY ONLY <1>1, <1>2, <1>3, <1>4, <1>5, <1>6, <1>7, <1>8, <1>9, <1>10

(* Counting in rows of five or of six.                                     *)
LEMMA RowsOfFive ==
  ASSUME NEW i \in Nat
  PROVE  /\ i \div 5 \in Nat /\ i % 5 \in 0..4
         /\ i % 5 < 4 => (i + 1) \div 5 = i \div 5 /\ (i + 1) % 5 = (i % 5) + 1
         /\ i % 5 = 4 => (i + 1) \div 5 = i \div 5 + 1 /\ (i + 1) % 5 = 0
         /\ (5 * i) \div 5 = i /\ (5 * i) % 5 = 0
OBVIOUS

LEMMA RowsOfSix ==
  ASSUME NEW i \in Nat
  PROVE  /\ i \div 6 \in Nat /\ i % 6 \in 0..5
         /\ i % 6 < 5 => (i + 1) \div 6 = i \div 6 /\ (i + 1) % 6 = (i % 6) + 1
         /\ i % 6 = 5 => (i + 1) \div 6 = i \div 6 + 1 /\ (i + 1) % 6 = 0
         /\ (6 * i) \div 6 = i /\ (6 * i) % 6 = 0
OBVIOUS

LEMMA Rows ==
  ASSUME NEW k \in {5, 6}, NEW i \in Nat
  PROVE  /\ i \div k \in Nat /\ i % k \in 0..(k - 1)
         /\ i % k < k - 1 => (i + 1) \div k = i \div k /\ (i + 1) % k = (i % k) + 1
         /\ i % k = k - 1 => (i + 1) \div k = i \div k + 1 /\ (i + 1) % k = 0
         /\ (k * i) \div k = i /\ (k * i) % k = 0
<1>1. CASE k = 5
  BY <1>1, RowsOfFive
<1>2. CASE k = 6
  BY <1>2, RowsOfSix
<1> QED BY <1>1, <1>2

(* The same entries over and over.                                         *)
LEMMA RepeatedSize ==
  ASSUME NEW blk \in EntryMaps, NEW k \in {5, 6}, Len(blk) = k, NEW times \in Nat,
         NEW map, map = [i \in 1..(k * times) |-> blk[1 + ((i - 1) % k)]]
  PROVE  IsMap(map, k * times, Size(blk) * times)
<1>1. PICK n \in Nat : n = k * times
  OBVIOUS
<1>2. ASSUME NEW i \in 1..n PROVE (i - 1) \in Nat /\ 1 + ((i - 1) % k) \in 1..k
  <2>1. PICK j \in Nat : j = i - 1
    BY <1>1
  <2>2. j % k \in 0..(k - 1)
    BY <2>1, Rows
  <2> QED BY <2>1, <2>2
<1>3. map \in EntryMaps /\ Len(map) = n /\ \A i \in 1..n : map[i] = blk[1 + ((i - 1) % k)]
  <2>0. map = [i \in 1..n |-> blk[1 + ((i - 1) % k)]]
    BY <1>1
  <2>1. \A j \in 1..k : blk[j] \in -4..4
    BY DEF EntryMaps
  <2>2. \A i \in 1..n : blk[1 + ((i - 1) % k)] \in -4..4
    BY ONLY <1>2, <2>1
  <2>3. map \in [1..n -> -4..4]
    BY ONLY <2>0, <2>2
  <2> QED BY ONLY <1>1, <2>0, <2>3 DEF EntryMaps
<1>4. PICK size \in Nat : size = Size(blk)
  BY SizeIs, UpToNat DEF EntryMaps
<1>5. /\ UpTo(blk, 0) = 0 /\ UpTo(blk, k) = size
      /\ \A r \in 0..(k - 1) : UpTo(blk, r) \in Nat /\ UpTo(blk, r + 1) = UpTo(blk, r) + Abs(blk[r + 1])
                               /\ Abs(blk[r + 1]) \in Nat
  <2>1. UpTo(blk, 0) = 0 /\ UpTo(blk, k) = size
    BY <1>4, SizeIs, UpToNone
  <2>2. ASSUME NEW r \in 0..(k - 1)
        PROVE  UpTo(blk, r) \in Nat /\ UpTo(blk, r + 1) = UpTo(blk, r) + Abs(blk[r + 1])
               /\ Abs(blk[r + 1]) \in Nat
    <3>1. blk[r + 1] \in -4..4
      BY DEF EntryMaps
    <3> QED BY <3>1, UpToNext DEF Abs
  <2> QED BY <2>1, <2>2
<1> DEFINE f == [i \in 0..n |-> size * (i \div k) + UpTo(blk, i % k)]
<1>6. \A i \in 0..n : f[i] = size * (i \div k) + UpTo(blk, i % k)
  OBVIOUS
<1> HIDE DEF f
<1>7. f[0] = 0
  <2>1. 0 \in 0..n /\ (k * 0) \div k = 0 /\ (k * 0) % k = 0 /\ k * 0 = 0
    BY <1>1, Rows
  <2>2. f[0] = size * 0 + UpTo(blk, 0)
    BY ONLY <1>6, <2>1
  <2> QED BY ONLY <1>4, <1>5, <2>2
<1>8. ASSUME NEW i \in 1..Len(map) PROVE f[i] = f[i - 1] + Abs(map[i])
  <2>1. PICK j \in Nat : j = i - 1 /\ j + 1 = i /\ j \in 0..n /\ i \in 0..n /\ i \in 1..n
    BY <1>1, <1>3
  <2>2. PICK q \in Nat, r \in 0..(k - 1) : q = j \div k /\ r = j % k
    BY Rows
  <2>3. f[j] = size * q + UpTo(blk, r) /\ f[i] = size * (i \div k) + UpTo(blk, i % k)
    BY ONLY <1>6, <2>1, <2>2
  <2>4. map[i] = blk[r + 1]
    <3>1. map[i] = blk[1 + r]
      BY ONLY <1>3, <2>1, <2>2
    <3>2. 1 + r = r + 1
      BY <2>2
    <3> QED BY ONLY <3>1, <3>2
  <2>5. PICK b \in Nat, c \in Nat : b = UpTo(blk, r) /\ c = Abs(map[i]) /\ UpTo(blk, r + 1) = b + c
    BY ONLY <1>5, <2>2, <2>4
  <2>6. PICK a \in Nat : a = size * q /\ size * (q + 1) = a + size
    OBVIOUS
  <2>7. CASE r < k - 1
    <3>1. i \div k = q /\ i % k = r + 1
      BY <2>1, <2>2, <2>7, Rows
    <3>2. f[i] = a + (b + c) /\ f[j] = a + b
      BY ONLY <2>3, <2>5, <2>6, <3>1
    <3> QED BY ONLY <2>1, <2>5, <2>6, <3>2, a \in Nat, b \in Nat, c \in Nat
  <2>8. CASE r = k - 1
    <3>1. i \div k = q + 1 /\ i % k = 0
      BY <2>1, <2>2, <2>8, Rows
    <3>2. r + 1 = k
      BY <2>8
    <3>3. size = b + c
      BY ONLY <1>5, <2>5, <3>2
    <3>4. f[i] = (a + size) + 0 /\ f[j] = a + b
      BY ONLY <1>5, <2>3, <2>5, <2>6, <3>1
    <3> QED BY ONLY <2>1, <2>5, <3>3, <3>4, a \in Nat, b \in Nat, c \in Nat
  <2> QED BY <2>7, <2>8
<1>9. \A i \in 0..Len(map) : UpTo(map, i) = f[i]
  BY ONLY <1>3, <1>7, <1>8, UpToAre
<1>10. f[n] = size * times
  <2>1. n \in 0..n /\ n \div k = times /\ n % k = 0
    BY <1>1, Rows
  <2>2. f[n] = size * times + UpTo(blk, 0)
    BY ONLY <1>6, <2>1
  <2> QED BY <1>5, <2>2
<1>11. Size(map) = size * times
  <2>1. Size(map) = UpTo(map, n) /\ n \in 0..n
    BY <1>1, <1>3, SizeIs
  <2> QED BY ONLY <1>3, <1>9, <1>10, <2>1
<1> QED BY ONLY <1>1, <1>3, <1>4, <1>11 DEF IsMap

(* A list of entries of one octet.                                         *)
LEMMA OnesSize ==
  ASSUME NEW count \in Nat
  PROVE  IsMap(Ones(count), count, count)
<1>1. PICK map : map = Ones(count)
  OBVIOUS
<1>2. map \in EntryMaps /\ Len(map) = count /\ \A i \in 1..count : map[i] = 1
  <2>1. map = [i \in 1..count |-> 1]
    BY <1>1 DEF Ones
  <2>2. map \in [1..count -> -4..4]
    BY <2>1
  <2> QED BY <2>1, <2>2 DEF EntryMaps
<1> DEFINE f == [i \in 0..count |-> i]
<1>3. \A i \in 0..count : UpTo(map, i) = f[i]
  <2>1. f[0] = 0
    OBVIOUS
  <2>2. ASSUME NEW i \in 1..Len(map) PROVE f[i] = f[i - 1] + Abs(map[i])
    <3>1. Abs(map[i]) = 1
      BY <1>2 DEF Abs
    <3>2. f[i] = i /\ f[i - 1] = i - 1
      BY <1>2
    <3> HIDE DEF f
    <3> QED BY <1>2, <3>1, <3>2
  <2> HIDE DEF f
  <2> QED BY <1>2, <2>1, <2>2, UpToAre
<1>4. Size(map) = count
  BY <1>2, <1>3, SizeIs
<1> QED BY <1>1, <1>2, <1>4 DEF IsMap

LEMMA ListedTo ==
  ASSUME NEW map, NEW p, NEW k \in Nat, NEW i \in 1..k,
         map \in EntryMaps /\ Len(map) = k /\ Adds(map, p, k)
  PROVE  UpTo(map, i) = p[i]
<1>1. k > 0
  OBVIOUS
<1>2. \A j \in 1..k : UpTo(map, j) = p[j]
  BY ONLY k \in Nat, map \in EntryMaps /\ Len(map) = k /\ Adds(map, p, k), <1>1, Listed
<1> QED BY <1>2

(* What g2clib reads in an entry of one octet.                             *)
Entries(s, map) == [j \in 1..Len(map) |-> IF map[j] = 1 THEN Octet(s, Start(map, j)) ELSE 0]

LEMMA EntryIs ==
  ASSUME NEW s, NEW map \in EntryMaps, NEW i \in 1..Len(map), map[i] = 1
  PROVE  Entries(s, map)[i] = Octet(s, 9 + UpTo(map, i - 1))
<1>1. Entries(s, map)[i] = Octet(s, Start(map, i))
  BY DEF Entries
<1>2. Start(map, i) = 9 + UpTo(map, i - 1)
  BY DEF Start, UpTo
<1> QED BY <1>1, <1>2

(* The map with its extension.                                             *)
LEMMA EntryMapIs ==
  ASSUME NEW s, NEW map, templatespds[s.pdt].map = map
  PROVE  /\ templatespds[s.pdt].needext = FALSE => EntryMap(s) = map
         /\ templatespds[s.pdt].needext = TRUE =>
              EntryMap(s) = map \o extpdstemplate(s.pdt, map, Entries(s, map))
<1>1. EntryMap(s) = PdsMap(s.pdt, Entries(s, map))
  BY DEF EntryMap, Entries
<1> QED BY <1>1 DEF PdsMap

(* Templates with time ranges.                                             *)
LEMMA RangedAgree ==
  ASSUME NEW s, s.pdt \in RangedProducts, EndAt(s.pdt) + 7 \in DOMAIN s.oct,
         s.oct[EndAt(s.pdt) + 7] \in Nat
  PROVE  prod_def_temp_size(s) = 9 + Size(EntryMap(s))
<1>1. PICK n \in RangedProducts : n = s.pdt
  OBVIOUS
<1>2. PICK h : \E k \in 9..24 : IsRanged(n, h, k)
  BY RangedMaps
<1>21. PICK k \in 9..24 : IsRanged(n, h, k)
  BY <1>2
<1>3. PICK e \in 34..50 : e = EndAt(n)
  <2>1. EndAt(n) \in 34..50
    <3>1. n = 8 \/ n = 9 \/ n = 10 \/ n = 11 \/ n = 12 \/ n = 42 \/ n = 43 \/ n = 46 \/ n = 47
      BY DEF RangedProducts
    <3> QED BY <3>1 DEF EndAt
  <2> QED BY <2>1
<1>4. PICK map : map = h \o Range_
  OBVIOUS
<1>5. /\ templatespds[n].needext = TRUE /\ templatespds[n].map = map
      /\ IsMap(h, k, e - 9) /\ TimeRange[n] = <<k + 6, k + 8>> /\ Ranged[n] = <<e + 7, e + 12>>
  BY <1>21, <1>3, <1>4 DEF IsRanged
<1>6. /\ h \in EntryMaps /\ Len(h) = k /\ Size(h) = e - 9
      /\ Range_ \in EntryMaps /\ Len(Range_) = 14 /\ Size(Range_) = 24
      /\ Statistics \in EntryMaps /\ Len(Statistics) = 6 /\ Size(Statistics) = 12
  BY <1>5, PartsAre DEF IsMap
<1>7. /\ map \in EntryMaps /\ Len(map) = k + 14 /\ Size(map) = e + 15
      /\ \A i \in 1..14 : map[k + i] = Range_[i]
      /\ \A i \in 0..14 : UpTo(map, k + i) = (e - 9) + UpTo(Range_, i)
  <2>1. Size(h) + Size(Range_) = e + 15
    BY <1>6
  <2>2. /\ h \o Range_ \in EntryMaps /\ Len(h \o Range_) = Len(h) + Len(Range_)
        /\ \A i \in 1..Len(Range_) : (h \o Range_)[Len(h) + i] = Range_[i]
        /\ \A i \in 0..Len(Range_) : UpTo(h \o Range_, Len(h) + i) = Size(h) + UpTo(Range_, i)
        /\ Size(h \o Range_) = Size(h) + Size(Range_)
    BY ONLY <1>6, UpToBoth
  <2> QED BY ONLY <1>4, <1>6, <2>1, <2>2
<1>8. PICK c \in Nat : c = s.oct[e + 7] /\ Octet(s, e + 7) = c
  BY <1>1, <1>3 DEF Octet
<1>9. PICK list : list = Entries(s, map)
  OBVIOUS
<1>10. list[k + 7] = c
  <2>0. k \in 9..24 /\ Len(map) = k + 14
    BY <1>21, <1>7
  <2>1. k + 7 \in 1..Len(map) /\ (k + 7) - 1 = k + 6
    BY ONLY <2>0
  <2>2. map[k + 7] = 1
    <3>1. Range_[7] = 1
      BY DEF Range_
    <3>2. \A i \in 1..14 : map[k + i] = Range_[i]
      BY <1>7
    <3> QED BY ONLY <3>1, <3>2
  <2>3. UpTo(Range_, 6) = 7
    <3>1. PICK a, p : a = <<2, 1, 1, 1, 1, 1, 1, 4>> /\ p = <<2, 3, 4, 5, 6, 7, 8, 12>>
      OBVIOUS
    <3>2. a \in EntryMaps /\ Len(a) = 8 /\ p[6] = 7
      BY <3>1 DEF EntryMaps
    <3>3. Adds(a, p, 8)
      BY <3>1, AbsIs DEF Adds
    <3>4. 8 \in Nat /\ 8 > 0 /\ 6 \in 1..8 /\ 6 \in 0..8
      OBVIOUS
    <3>5. UpTo(a, 6) = p[6]
      BY ONLY <3>2, <3>3, <3>4, Listed
    <3>6. UpTo(a \o Statistics, 6) = UpTo(a, 6)
      <4>1. \A i \in 0..Len(a) : UpTo(a \o Statistics, i) = UpTo(a, i)
        BY ONLY <1>6, <3>2, UpToBoth
      <4> QED BY ONLY <3>2, <3>4, <4>1
    <3> QED BY <3>1, <3>2, <3>5, <3>6 DEF Range_
  <2>4. UpTo(map, k + 6) = (e - 9) + 7
    BY <1>7, <2>3
  <2>5. list[k + 7] = Octet(s, 9 + UpTo(map, k + 6))
    BY <1>7, <1>9, <2>1, <2>2, EntryIs
  <2>6. 9 + ((e - 9) + 7) = e + 7
    OBVIOUS
  <2> QED BY <1>8, <2>4, <2>5, <2>6
<1>11. PICK times \in Nat : times = IF c > 1 THEN c - 1 ELSE 0
  OBVIOUS
<1>12. MoreRanges(n, map, list) = [i \in 1..(6 * times) |-> Statistics[1 + ((i - 1) % 6)]]
  <2>1. TimeRange[n][1] + 1 = k + 7 /\ TimeRange[n][2] = k + 8
    BY <1>5
  <2>2. (IF c > 1 THEN 6 * (c - 1) ELSE 0) = 6 * times
    BY <1>11
  <2>3. MoreRanges(n, map, list) = [i \in 1..(6 * times) |-> map[k + 8 + 1 + ((i - 1) % 6)]]
    BY <1>10, <2>1, <2>2 DEF MoreRanges
  <2>4. ASSUME NEW i \in 1..(6 * times)
        PROVE  map[k + 8 + 1 + ((i - 1) % 6)] = Statistics[1 + ((i - 1) % 6)]
    <3>1. PICK r \in 0..5 : r = (i - 1) % 6
      <4>1. PICK j \in Nat : j = i - 1
        OBVIOUS
      <4>2. j % 6 \in 0..5
        BY RowsOfSix
      <4> QED BY <4>1, <4>2
    <3>2. k + 8 + 1 + r = k + (9 + r) /\ 9 + r \in 1..14 /\ 9 + r = 8 + (1 + r)
      OBVIOUS
    <3>3. map[k + (9 + r)] = Range_[9 + r]
      BY <1>7, <3>2
    <3>4. Range_[9 + r] = Statistics[1 + r]
      <4>1. r = 0 \/ r = 1 \/ r = 2 \/ r = 3 \/ r = 4 \/ r = 5
        OBVIOUS
      <4> QED BY <4>1 DEF Range_, Statistics
    <3> QED BY <3>1, <3>2, <3>3, <3>4
  <2> QED BY <2>3, <2>4
<1>13. PICK ext : ext = MoreRanges(n, map, list)
  OBVIOUS
<1>14. ext \in EntryMaps /\ Size(ext) = 12 * times
  <2>1. IsMap(ext, 6 * times, Size(Statistics) * times)
    BY <1>6, <1>12, <1>13, RepeatedSize
  <2> QED BY <1>6, <2>1 DEF IsMap
<1>15. EntryMap(s) = map \o ext
  <2>1. n \in DOMAIN TimeRange \ {13, 14} /\ n \notin {13, 14}
    BY DEF RangedProducts, TimeRange
  <2>3. n \notin {3, 4, 30, 31, 32}
    BY DEF RangedProducts
  <2>2. extpdstemplate(n, map, list) = ext
    BY ONLY <1>13, <2>1, <2>3 DEF extpdstemplate
  <2> QED BY <1>1, <1>5, <1>9, <2>2, EntryMapIs
<1>16. Size(EntryMap(s)) = (e + 15) + 12 * times
  <2>1. Size(map \o ext) = Size(map) + Size(ext)
    BY ONLY <1>7, <1>14, UpToBoth
  <2> QED BY <1>7, <1>14, <1>15, <2>1
<1>17. prod_def_temp_size(s) = (e + 12) + 12 * (IF c <= 1 THEN 1 ELSE c)
  <2>1. n \in DOMAIN Ranged
    BY DEF RangedProducts, Ranged
  <2>2. Ranged[n][1] = e + 7 /\ Ranged[n][2] = e + 12
    BY <1>5
  <2>4. n \notin {3, 4, 30, 31, 32, 33, 34, 51}
    BY DEF RangedProducts
  <2>3. prod_def_temp_size(s) = LET m == s.oct[Ranged[n][1]] IN Ranged[n][2] + 12 * (IF m <= 1 THEN 1 ELSE m)
    BY ONLY <1>1, <2>1, <2>4 DEF prod_def_temp_size
  <2> QED BY ONLY <1>8, <2>2, <2>3
<1> QED BY <1>11, <1>16, <1>17

(* Templates of clusters.                                                  *)
LEMMA ClustersAgree ==
  ASSUME NEW s, NEW n \in {3, 4}, s.pdt = n, NEW e, e = (IF n = 3 THEN 57 ELSE 53),
         e \in DOMAIN s.oct, s.oct[e] \in Nat
  PROVE  prod_def_temp_size(s) = 9 + Size(EntryMap(s))
<1>1. PICK tail : tail = IF n = 3 THEN <<-4, -4, 4, 4, 1, -1, 4, -1, 4>> ELSE <<-4, 4, 4, 1, -1, 4, -1, 4>>
  OBVIOUS
<1>2. PICK m \in 8..9 : m = IF n = 3 THEN 9 ELSE 8
  OBVIOUS
<1>3. PICK l \in {23, 27} : l = IF n = 3 THEN 27 ELSE 23
  OBVIOUS
<1>4. /\ tail \in EntryMaps /\ Len(tail) = m /\ Size(tail) = l
      /\ tail[m - 4] = 1 /\ UpTo(tail, m - 5) = l - 11
  <2>1. CASE n = 3
    <3>1. tail = <<-4, -4, 4, 4, 1, -1, 4, -1, 4>> /\ m = 9 /\ l = 27
      BY <1>1, <1>2, <1>3, <2>1
    <3>2. tail \in EntryMaps /\ Len(tail) = 9 /\ tail[5] = 1
      BY <3>1 DEF EntryMaps
    <3>3. PICK p : p = <<4, 8, 12, 16, 17, 18, 22, 23, 27>>
      OBVIOUS
    <3>4. Adds(tail, p, 9)
      BY <3>1, <3>3, AbsIs DEF Adds
    <3>5. 9 \in Nat /\ 9 > 0 /\ 4 \in 1..9 /\ p[9] = 27 /\ p[4] = 16
      BY <3>3
    <3>7. Size(tail) = p[9]
      <4>1. IsMap(tail, 9, 27)
        BY ONLY <3>2, <3>4, <3>5, IsMapOf
      <4> QED BY ONLY <3>5, <4>1 DEF IsMap
    <3>8. UpTo(tail, 4) = p[4]
      <4>1. UpTo(tail, 4) = 16
        BY ONLY <3>2, <3>4, <3>5, ListedTo
      <4> QED BY ONLY <3>5, <4>1
    <3>6. Size(tail) = p[9] /\ UpTo(tail, 4) = p[4]
      BY ONLY <3>7, <3>8
    <3> QED BY <3>1, <3>2, <3>3, <3>6
  <2>2. CASE n = 4
    <3>1. tail = <<-4, 4, 4, 1, -1, 4, -1, 4>> /\ m = 8 /\ l = 23
      BY <1>1, <1>2, <1>3, <2>2
    <3>2. tail \in EntryMaps /\ Len(tail) = 8 /\ tail[4] = 1
      BY <3>1 DEF EntryMaps
    <3>3. PICK p : p = <<4, 8, 12, 13, 14, 18, 19, 23>>
      OBVIOUS
    <3>4. Adds(tail, p, 8)
      BY <3>1, <3>3, AbsIs DEF Adds
    <3>5. 8 \in Nat /\ 8 > 0 /\ 3 \in 1..8 /\ p[8] = 23 /\ p[3] = 12
      BY <3>3
    <3>7. Size(tail) = p[8]
      <4>1. IsMap(tail, 8, 23)
        BY ONLY <3>2, <3>4, <3>5, IsMapOf
      <4> QED BY ONLY <3>5, <4>1 DEF IsMap
    <3>8. UpTo(tail, 3) = p[3]
      <4>1. UpTo(tail, 3) = 12
        BY ONLY <3>2, <3>4, <3>5, ListedTo
      <4> QED BY ONLY <3>5, <4>1
    <3>6. Size(tail) = p[8] /\ UpTo(tail, 3) = p[3]
      BY ONLY <3>7, <3>8
    <3> QED BY <3>1, <3>2, <3>3, <3>6
  <2> QED BY <2>1, <2>2
<1>5. PICK h : h = Product \o Cluster
  OBVIOUS
<1>6. h \in EntryMaps /\ Len(h) = 22 /\ Size(h) = 32
  <2>1. IsMap(Product, 15, 25) /\ IsMap(Cluster, 7, 7)
    BY PartsAre
  <2>2. IsMap(Product \o Cluster, 15 + 7, 25 + 7)
    BY <2>1, Joined
  <2> QED BY <1>5, <2>2 DEF IsMap
<1>7. PICK map : map = h \o tail
  OBVIOUS
<1>8. /\ map \in EntryMaps /\ Len(map) = 22 + m /\ Size(map) = 32 + l
      /\ map[22 + (m - 4)] = 1 /\ UpTo(map, 22 + (m - 5)) = 32 + (l - 11)
  <2>1. m - 4 \in 1..m /\ m - 5 \in 0..m
    OBVIOUS
  <2>2. /\ h \o tail \in EntryMaps /\ Len(h \o tail) = Len(h) + Len(tail)
        /\ \A i \in 1..Len(tail) : (h \o tail)[Len(h) + i] = tail[i]
        /\ \A i \in 0..Len(tail) : UpTo(h \o tail, Len(h) + i) = Size(h) + UpTo(tail, i)
        /\ Size(h \o tail) = Size(h) + Size(tail)
    BY ONLY <1>4, <1>6, UpToBoth
  <2> QED BY ONLY <1>4, <1>6, <1>7, <2>1, <2>2
<1>9. templatespds[n].needext = TRUE /\ templatespds[n].map = map
  <2>1. CASE n = 3
    <3>1. templatespds[3] = NeedExt(Product \o Cluster \o <<-4, -4, 4, 4, 1, -1, 4, -1, 4>>)
      BY DEF templatespds, pdsRows
    <3>2. templatespds[3].needext = TRUE
          /\ templatespds[3].map = (Product \o Cluster) \o tail
      <4>1. tail = <<-4, -4, 4, 4, 1, -1, 4, -1, 4>>
        BY <1>1, <2>1
      <4>2. templatespds[3] = NeedExt((Product \o Cluster) \o tail)
        BY ONLY <3>1, <4>1
      <4> QED BY ONLY <4>2 DEF NeedExt
    <3> QED BY <1>5, <1>7, <2>1, <3>2
  <2>2. CASE n = 4
    <3>1. templatespds[4] = NeedExt(Product \o Cluster \o <<-4, 4, 4, 1, -1, 4, -1, 4>>)
      BY DEF templatespds, pdsRows
    <3>2. templatespds[4].needext = TRUE
          /\ templatespds[4].map = (Product \o Cluster) \o tail
      <4>1. tail = <<-4, 4, 4, 1, -1, 4, -1, 4>>
        BY <1>1, <2>2
      <4>2. templatespds[4] = NeedExt((Product \o Cluster) \o tail)
        BY ONLY <3>1, <4>1
      <4> QED BY ONLY <4>2 DEF NeedExt
    <3> QED BY <1>5, <1>7, <2>2, <3>2
  <2> QED BY <2>1, <2>2
<1>10. PICK c \in Nat : c = s.oct[e] /\ Octet(s, e) = c
  BY DEF Octet
<1>11. Entries(s, map)[22 + (m - 4)] = c
  <2>1. 22 + (m - 4) \in 1..Len(map) /\ (22 + (m - 4)) - 1 = 22 + (m - 5)
    BY <1>8
  <2>2. 9 + (32 + (l - 11)) = e
    BY <1>3
  <2> QED BY <1>8, <1>10, <2>1, <2>2, EntryIs
<1>12. EntryMap(s) = map \o Ones(c)
  <2>1. ClusterCount[n] + 1 = 22 + (m - 4)
    BY <1>2 DEF ClusterCount
  <2>2. n \notin {13, 14} /\ n \notin DOMAIN TimeRange \ {13, 14}
    BY DEF TimeRange
  <2>3. extpdstemplate(n, map, Entries(s, map)) = Ones(c)
    BY <1>11, <2>1, <2>2 DEF extpdstemplate
  <2> QED BY <1>9, <2>3, EntryMapIs
<1>13. Size(EntryMap(s)) = (32 + l) + c
  <2>1. Ones(c) \in EntryMaps /\ Size(Ones(c)) = c
    BY OnesSize DEF IsMap
  <2> QED BY <1>8, <1>12, <2>1, UpToBoth
<1>14. prod_def_temp_size(s) = (IF n = 3 THEN 68 ELSE 64) + c
  <2>1. n \notin DOMAIN Ranged
    BY DEF Ranged
  <2> QED BY <1>10, <2>1 DEF prod_def_temp_size
<1> QED BY <1>3, <1>13, <1>14

(* Templates of satellites.                                                *)
LEMMA SatellitesAgree ==
  ASSUME NEW s, NEW n \in {30, 31}, s.pdt = n, 13 \in DOMAIN s.oct, s.oct[13] \in Nat
  PROVE  prod_def_temp_size(s) = 9 + Size(EntryMap(s))
<1>1. PICK map : map = <<1, 1, 1, 1, 1>>
  OBVIOUS
<1>2. map \in EntryMaps /\ Len(map) = 5 /\ Size(map) = 5 /\ UpTo(map, 4) = 4 /\ map[5] = 1
  <2>1. map \in EntryMaps /\ Len(map) = 5 /\ map[5] = 1
    BY <1>1 DEF EntryMaps
  <2>2. PICK p : p = <<1, 2, 3, 4, 5>>
    OBVIOUS
  <2>3. Adds(map, p, 5)
    BY <1>1, <2>2, AbsIs DEF Adds
  <2>5. 5 \in Nat /\ 5 > 0 /\ 4 \in 1..5 /\ p[5] = 5 /\ p[4] = 4
    BY <2>2
  <2>6. Size(map) = p[5]
    <3>1. IsMap(map, 5, 5)
      BY ONLY <2>1, <2>3, <2>5, IsMapOf
    <3> QED BY ONLY <2>5, <3>1 DEF IsMap
  <2>7. UpTo(map, 4) = p[4]
    BY ONLY <2>1, <2>3, <2>5, Listed
  <2>4. Size(map) = p[5] /\ UpTo(map, 4) = p[4]
    BY ONLY <2>6, <2>7
  <2> QED BY <2>1, <2>2, <2>4
<1>3. templatespds[n].needext = TRUE /\ templatespds[n].map = map
  <2>1. templatespds[n] = NeedExt(<<1, 1, 1, 1, 1>>)
    BY DEF templatespds, pdsRows
  <2> QED BY <1>1, <2>1 DEF NeedExt
<1>4. PICK c \in Nat : c = s.oct[13] /\ Octet(s, 13) = c
  BY DEF Octet
<1>5. Entries(s, map)[5] = c
  <2>1. 5 \in 1..Len(map) /\ 5 - 1 = 4 /\ 9 + 4 = 13
    BY <1>2
  <2> QED BY <1>2, <1>4, <2>1, EntryIs
<1>6. PICK blk : blk = <<2, 2, IF n = 30 THEN 1 ELSE 2, 1, 4>>
  OBVIOUS
<1>7. blk \in EntryMaps /\ Len(blk) = 5 /\ Size(blk) = IF n = 30 THEN 10 ELSE 11
  <2>1. blk \in EntryMaps /\ Len(blk) = 5
    BY <1>6 DEF EntryMaps
  <2>2. CASE n = 30
    <3>3. PICK p : p = <<2, 4, 5, 6, 10>>
      OBVIOUS
    <3>1. Adds(blk, p, 5)
      BY <1>6, <2>2, <3>3, AbsIs DEF Adds
    <3>4. 5 \in Nat /\ 5 > 0 /\ p[5] = 10
      BY <3>3
    <3>2. IsMap(blk, 5, 10)
      BY ONLY <2>1, <3>1, <3>4, IsMapOf
    <3> QED BY <2>1, <2>2, <3>2 DEF IsMap
  <2>3. CASE n = 31
    <3>3. PICK p : p = <<2, 4, 6, 7, 11>>
      OBVIOUS
    <3>1. Adds(blk, p, 5)
      BY <1>6, <2>3, <3>3, AbsIs DEF Adds
    <3>4. 5 \in Nat /\ 5 > 0 /\ p[5] = 11
      BY <3>3
    <3>2. IsMap(blk, 5, 11)
      BY ONLY <2>1, <3>1, <3>4, IsMapOf
    <3> QED BY <2>1, <2>3, <3>2 DEF IsMap
  <2> QED BY <2>2, <2>3
<1>8. PICK ext : ext = [i \in 1..(5 * c) |-> blk[1 + ((i - 1) % 5)]]
  OBVIOUS
<1>9. ext \in EntryMaps /\ Size(ext) = Size(blk) * c
  <2>1. IsMap(ext, 5 * c, Size(blk) * c)
    BY <1>7, <1>8, RepeatedSize
  <2> QED BY <2>1 DEF IsMap
<1>10. EntryMap(s) = map \o ext
  <2>1. n \notin {13, 14} /\ n \notin DOMAIN TimeRange \ {13, 14} /\ n \notin {3, 4}
    BY DEF TimeRange
  <2>2. extpdstemplate(n, map, Entries(s, map)) = [i \in 1..(5 * c) |-> Band(n, i)]
    BY <1>5, <2>1 DEF extpdstemplate
  <2>3. [i \in 1..(5 * c) |-> Band(n, i)] = ext
    BY <1>6, <1>8 DEF Band
  <2>4. extpdstemplate(s.pdt, map, Entries(s, map)) = ext
    BY ONLY s.pdt = n, <2>2, <2>3
  <2>5. templatespds[s.pdt].needext = TRUE /\ templatespds[s.pdt].map = map
    BY ONLY s.pdt = n, <1>3
  <2> QED BY ONLY <2>4, <2>5, EntryMapIs
<1>11. Size(EntryMap(s)) = 5 + Size(blk) * c
  BY <1>2, <1>9, <1>10, UpToBoth
<1>12. prod_def_temp_size(s) = 14 + (IF n = 30 THEN 10 ELSE 11) * c
  <2>1. n \notin DOMAIN Ranged
    BY DEF Ranged
  <2> QED BY <1>4, <2>1 DEF prod_def_temp_size
<1>13. CASE n = 30
  BY <1>7, <1>11, <1>12, <1>13
<1>14. CASE n = 31
  BY <1>7, <1>11, <1>12, <1>14
<1> QED BY <1>13, <1>14

(* Templates that are never longer.                                        *)
LEMMA FixedAgree ==
  ASSUME NEW s, s.pdt \in FixedProducts
  PROVE  prod_def_temp_size(s) = 9 + Size(EntryMap(s))
<1> DEFINE rows ==
        {<<{0, 7, 1100}, 34>>, <<{1, 15}, 37>>, <<{2, 40}, 36>>, <<{5}, 47>>, <<{6}, 35>>,
         <<{20}, 43>>, <<{41}, 39>>, <<{44}, 45>>, <<{45}, 50>>, <<{48}, 58>>,
         <<{60}, 44>>, <<{254}, 15>>, <<{1000}, 22>>, <<{1001}, 38>>, <<{1002}, 35>>,
         <<{1101}, 46>>}
<1>1. PICK n \in FixedProducts : n = s.pdt
  OBVIOUS
<1>2. n \notin DOMAIN Ranged /\ n \notin {3, 4, 30, 31, 32, 33, 34, 51}
  BY DEF FixedProducts, Ranged
<1>3. prod_def_temp_size(s) = Place(rows, n)
  BY ONLY <1>1, <1>2 DEF prod_def_temp_size
<1>4. ASSUME NEW r \in rows, n \in r[1] PROVE r[2] = 9 + FixedSize(n)
  BY <1>4 DEF FixedSize, FixedProducts
<1>5. \E r \in rows : n \in r[1]
  BY DEF FixedProducts
<1> HIDE DEF rows
<1>6. Place(rows, n) = 9 + FixedSize(n)
  BY ONLY <1>4, <1>5, PlaceIs
<1>7. EntryMap(s) = templatespds[n].map /\ Size(templatespds[n].map) = FixedSize(n)
  <2>1. IsFixed(n)
    BY FixedMaps
  <2> QED BY <1>1, <2>1, EntryMapIs DEF IsFixed
<1> QED BY <1>3, <1>6, <1>7

(* Both libraries count the same octets in a template, whatever counts it  *)
(* holds: prod_def_temp_size of wgrib2, and the entries of the template    *)
(* and of its extension in g2clib.                                         *)
THEOREM SizesAreSame == Spec => []SizesAgree
<1>1. Good(msg) => SizesAgree
  <2> SUFFICES ASSUME Good(msg), Known, msg.pdt \notin {13, 14, 50, 51, 52, 91, 1101}
               PROVE  prod_def_temp_size(msg) = 9 + Size(EntryMap(msg))
    BY DEF SizesAgree
  <2>1. Section(msg) /\ KnownCounts(msg) /\ msg.status = "run"
    BY DEF Good, Known
  <2>2. PICK l \in 9..151 : l = Len4(msg) /\ DOMAIN msg.oct = 9..(l - 1) /\ Suits(msg.pdt, l - 1)
    BY <2>1, OctetIs
  <2>3. msg.pdt \in FixedProducts \cup RangedProducts \cup {3, 4} \cup {30, 31}
    BY DEF Known, pdsRows, FixedProducts, RangedProducts
  <2>4. CASE msg.pdt \in FixedProducts
    BY <2>4, FixedAgree
  <2>5. CASE msg.pdt \in RangedProducts
    <3>1. PICK p \in Ranging : p = msg.pdt
      BY <2>5 DEF RangedProducts, Ranging
    <3>2. PICK e \in 34..68 : e = EndAt(p) /\ Ranges(msg) = Octet(msg, e + 7)
      BY <2>1, <3>1, RangedIs
    <3>3. l - 1 >= e + 7
      BY <2>2, <3>1, <3>2 DEF Suits
    <3>4. e + 7 \in 9..(l - 1)
      BY <3>3
    <3>5. msg.oct[e + 7] = Ranges(msg)
      BY <2>2, <3>2, <3>4 DEF Octet
    <3>6. msg.oct[e + 7] \in Nat
      BY <2>1, <3>5, RangesOf DEF Missing
    <3> QED BY <2>2, <2>5, <3>1, <3>2, <3>4, <3>6, RangedAgree
  <2>6. CASE msg.pdt \in {3, 4} \cup {30, 31}
    <3>1. PICK c \in 13..57 : c = CountAt(msg.pdt)
      BY DEF CountAt
    <3>2. msg.pdt \in Counting
      BY <2>6 DEF Counting
    <3>3. l - 1 >= CountAt(msg.pdt)
      BY ONLY <2>2, <3>2 DEF Suits
    <3>4. c \in 9..(l - 1)
      BY <3>1, <3>3
    <3>5. c \in DOMAIN msg.oct /\ msg.oct[c] \in Nat
      BY <2>1, <2>2, <3>1, <3>2, <3>4 DEF KnownCounts
    <3>6. CASE msg.pdt \in {3, 4}
      <4>1. c = IF msg.pdt = 3 THEN 57 ELSE 53
        BY <3>1, <3>6 DEF CountAt
      <4> QED BY <3>5, <3>6, <4>1, ClustersAgree
    <3>7. CASE msg.pdt \in {30, 31}
      <4>1. c = 13
        BY <3>1, <3>7 DEF CountAt
      <4> QED BY <3>5, <3>7, <4>1, SatellitesAgree
    <3> QED BY <2>6, <3>6, <3>7
  <2> QED BY <2>3, <2>4, <2>5, <2>6
<1> QED BY <1>1, MessagesAreGood, PTL
=============================================================================

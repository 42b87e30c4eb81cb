----------------------------- MODULE PdtLayout -----------------------------
(* Where wgrib2 finds the metadata of a product definition section         *)
(* (CodeTable.c, Code_Values.c, prod_def_temp_size.c).                     *)
(*                                                                         *)
(* A section is a record: pdt, its template number; jma, whether the       *)
(* center of the message is one of JMA's two; oct, its octets from 9 on,   *)
(* numbered as sec[4][] is in the code.  A place is the number of an       *)
(* octet, NULL when the template does not have the item.                   *)
EXTENDS Integers, Sequences

NULL == -1

\* Rows of a table: <<templates, place>>.
Place(rows, pdt) ==
  IF \E r \in rows : pdt \in r[1]
  THEN (CHOOSE r \in rows : pdt \in r[1])[2]
  ELSE NULL

PlaceOr(rows, s, jmaTemplates, jmaPlace) ==
  IF s.jma /\ s.pdt \in jmaTemplates THEN jmaPlace ELSE Place(rows, s.pdt)

Horizontal == 0 .. 15       \* products on a level, of any kind
Ensemble33(s) == 11 * s.oct[22]     \* octets of the bands of templates 33 and 34
number_of_mode(s) == 256 * s.oct[13] + s.oct[14]

JmaProducts == {50000, 50008, 50009, 50010, 50011, 50020, 51020, 51021, 51022, 52020}
JmaForecasts == {50000, 50008, 50009, 50010, 50011}

----------------------------------------------------------------------------
(* What is measured. *)

code_table_4_1_location(s) ==
  PlaceOr({<<Horizontal \cup {20} \cup 30 .. 34 \cup 40 .. 48 \cup 50 .. 52
             \cup {57, 60, 61, 91, 254, 1000, 1001, 1002, 1100, 1101}, 9>>},
          s, JmaProducts, 9)

\* The test for the standard templates guards the one for a JMA template that
\* follows it: only JMA's templates have a place.
code_table_4_2_location(s) == PlaceOr({}, s, JmaProducts, 10)

\* Template 57 describes a number of modes first: none, or a missing number, is fatal.
BadModes(s) == s.pdt = 57 /\ number_of_mode(s) \in {0, 65535}

code_table_4_3_location(s) ==
  IF s.pdt = 57 THEN 20 + 5 * number_of_mode(s)
  ELSE PlaceOr({<<Horizontal \cup {20, 60, 61, 1000, 1001, 1002, 1100, 1101}
                  \cup 30 .. 34 \cup {47}, 11>>,
                <<40 .. 43, 13>>, <<44 .. 46, 24>>, <<{48}, 35>>, <<{52}, 13>>},
               s, JmaProducts, 11)

code_table_4_4_location(s) ==
  IF s.pdt = 57 THEN 26 + 5 * number_of_mode(s)
  ELSE PlaceOr({<<Horizontal \cup {32, 51, 60, 61, 91, 1000, 1001, 1002}, 17>>,
                <<40 .. 43, 19>>, <<44 .. 47, 30>>, <<{48}, 41>>, <<{52}, 20>>},
               s, {50008, 50009, 50011}, 17)

code_table_4_5a_location(s) ==
  IF s.pdt = 57 THEN 31 + 5 * number_of_mode(s)
  ELSE PlaceOr({<<Horizontal \cup {51, 60, 61, 91, 1100, 1101}, 22>>,
                <<40 .. 43, 24>>, <<{44}, 33>>, <<45 .. 47, 35>>, <<{48}, 46>>, <<{52}, 25>>},
               s, 50008 .. 50011, 22)

code_table_4_5b_location(s) ==
  IF s.pdt = 57 THEN 37 + 5 * number_of_mode(s)
  ELSE PlaceOr({<<Horizontal \cup {51, 60, 61, 91, 1100, 1101}, 28>>,
                <<40 .. 43, 30>>, <<{44}, 39>>, <<45 .. 47, 41>>, <<{48}, 52>>},
               s, 50008 .. 50011, 28)

----------------------------------------------------------------------------
(* Ensembles and probabilities. *)

code_table_4_6_location(s) ==
  IF s.pdt \in {33, 34} THEN 23 + Ensemble33(s)
  ELSE Place({<<{1, 11, 60, 61}, 34>>, <<{41, 43}, 36>>}, s.pdt)

perturbation_number_location(s) ==
  IF s.pdt \in {33, 34} THEN 24 + Ensemble33(s)
  ELSE Place({<<{1, 11, 60, 61}, 35>>, <<{41, 43}, 37>>}, s.pdt)

number_of_forecasts_in_the_ensemble_location(s) ==
  IF s.pdt \in {33, 34} THEN 25 + Ensemble33(s)
  ELSE Place({<<{1, 11, 60, 61}, 36>>, <<{2, 3, 4, 12, 13}, 35>>, <<{41, 43}, 38>>}, s.pdt)

code_table_4_7_location(s) == Place({<<{2, 3, 4, 12}, 34>>}, s.pdt)
code_table_4_8_location(s) == Place({<<{3, 13}, 34>>}, s.pdt)
code_table_4_9_location(s) == Place({<<{5, 9}, 36>>}, s.pdt)
Percentile35(s) == Place({<<{6}, 34>>, <<{10}, 35>>}, s.pdt)
percentile_value_location(s) == Place({<<{6, 10}, 34>>}, s.pdt)
year_of_model_version_date_location(s) == Place({<<{60, 61}, 37>>}, s.pdt)

----------------------------------------------------------------------------
(* Statistical processing. *)

code_table_4_10_location(s) ==
  PlaceOr({<<{8}, 46>>, <<{9}, 59>>, <<{10}, 47>>, <<{11}, 49>>, <<{12}, 48>>, <<{13}, 80>>,
           <<{14}, 76>>, <<{15}, 34>>, <<{42}, 48>>, <<{43}, 51>>, <<{1001}, 26>>,
           <<{1002}, 24>>, <<{1101}, 38>>}, s, {50011}, 46)

code_table_4_11_location(s) ==
  PlaceOr({<<{8}, 47>>, <<{9}, 60>>, <<{10}, 48>>, <<{11}, 50>>, <<{12}, 49>>, <<{13}, 81>>,
           <<{14}, 77>>, <<{42}, 49>>, <<{43}, 52>>, <<{1001}, 27>>, <<{1101}, 39>>},
          s, {50011}, 47)

code_table_4_15_location(s) == Place({<<{15}, 35>>}, s.pdt)

stat_proc_verf_time_location(s) ==
  IF s.pdt = 34 THEN 26 + Ensemble33(s)
  ELSE PlaceOr({<<{8}, 34>>, <<{9}, 47>>, <<{10}, 35>>, <<{11}, 37>>, <<{12}, 36>>,
                <<{13}, 68>>, <<{14}, 64>>, <<{42}, 36>>, <<{43}, 39>>, <<{46}, 47>>,
                <<{47}, 50>>, <<{61}, 44>>}, s, {50008}, 34)

stat_proc_n_time_ranges_index(s) ==
  IF stat_proc_verf_time_location(s) = NULL THEN NULL
  ELSE stat_proc_verf_time_location(s) + 7

----------------------------------------------------------------------------
(* Constituents. *)

code_table_4_91_location(s) == Place({<<{44, 45, 46, 48}, 13>>, <<{47}, 14>>}, s.pdt)
code_table_4_91b_location(s) == Place({<<{48}, 24>>}, s.pdt)
code_table_4_230_location(s) == Place({<<40 .. 43 \cup {57}, 11>>}, s.pdt)
code_table_4_233_location(s) == Place({<<{47}, 12>>, <<{44, 45, 46, 48}, 11>>}, s.pdt)
code_table_4_240_location(s) == Place({<<{57}, 17>>}, s.pdt)

----------------------------------------------------------------------------
(* The process that made the product. *)

Forecasts == Horizontal \cup 32 .. 34 \cup {60, 61, 1000, 1001, 1002, 1100, 1101}

background_generating_process_identifier_location(s) ==
  PlaceOr({<<Forecasts, 12>>, <<40 .. 43, 14>>, <<44 .. 47, 25>>, <<{48}, 36>>, <<{52}, 15>>},
          s, JmaForecasts, 12)

analysis_or_forecast_generating_process_identifier_location(s) ==
  PlaceOr({<<Forecasts, 13>>, <<40 .. 43, 15>>, <<44 .. 47, 26>>, <<{48}, 37>>, <<{52}, 16>>},
          s, JmaForecasts, 13)

hours_of_observational_data_cutoff_after_reference_time_location(s) ==
  Place({<<Forecasts, 14>>, <<44 .. 47, 27>>, <<{48}, 38>>}, s.pdt)

minutes_of_observational_data_cutoff_after_reference_time_location(s) ==
  Place({<<Forecasts, 16>>, <<44 .. 47, 29>>, <<{48}, 40>>}, s.pdt)

observation_generating_process_identifier_location(s) == Place({<<{30, 31}, 12>>}, s.pdt)

----------------------------------------------------------------------------
(* Lengths. *)

\* The shortest section with this template, NULL for an unknown one.
smallest_pdt_len(pdt) ==
  Place({<<{0, 7, 32, 1100}, 34>>, <<{1, 15, 33}, 37>>, <<{2, 40}, 36>>, <<{3, 61}, 68>>,
         <<{4}, 64>>, <<{5, 51}, 47>>, <<{6, 91}, 35>>, <<{8, 48}, 58>>, <<{9, 46}, 71>>,
         <<{10}, 59>>, <<{11, 34}, 61>>, <<{12, 42}, 60>>, <<{13}, 92>>, <<{14}, 88>>,
         <<{20, 54, 57}, 43>>, <<{30}, 14>>, <<{31}, 25>>, <<{41}, 39>>, <<{43}, 63>>,
         <<{44}, 45>>, <<{45, 1101}, 50>>, <<{47}, 74>>, <<{52}, 31>>, <<{53}, 40>>,
         <<{60}, 44>>, <<{254}, 15>>, <<{1000}, 22>>, <<{1001}, 38>>}, pdt)

\* <<octet with the number of ranges, octets without ranges>>
Ranged ==
  [p \in {8, 9, 10, 11, 12, 13, 14, 42, 43, 46, 47, 61} |->
     CASE p = 8 -> <<41, 46>>  [] p = 9 -> <<54, 59>>   [] p = 10 -> <<42, 47>>
       [] p = 11 -> <<44, 49>> [] p = 12 -> <<43, 48>>  [] p = 13 -> <<75, 80>>
       [] p = 14 -> <<71, 76>> [] p = 42 -> <<43, 48>>  [] p = 43 -> <<46, 51>>
       [] p = 46 -> <<54, 59>> [] p = 47 -> <<57, 62>>  [] p = 61 -> <<51, 56>>]

\* The octets of this section's template, counting what it says of itself.
prod_def_temp_size(s) ==
  CASE s.pdt \in DOMAIN Ranged ->
         LET n == s.oct[Ranged[s.pdt][1]]
         IN  Ranged[s.pdt][2] + 12 * (IF n <= 1 THEN 1 ELSE n)
    [] s.pdt = 3 -> 68 + s.oct[57]
    [] s.pdt = 4 -> 64 + s.oct[53]
    [] s.pdt = 30 -> 14 + 10 * s.oct[13]
    [] s.pdt = 31 -> 14 + 11 * s.oct[13]
    [] s.pdt \in {32, 33, 34} -> 23 + 11 * s.oct[22]
    [] s.pdt = 51 -> 35 + 12 * s.oct[34]
    [] OTHER ->
         Place({<<{0, 7, 1100}, 34>>, <<{1, 15}, 37>>, <<{2, 40}, 36>>, <<{5}, 47>>, <<{6}, 35>>,
                <<{20}, 43>>, <<{41}, 39>>, <<{44}, 45>>, <<{45}, 50>>, <<{48}, 58>>,
                <<{60}, 44>>, <<{254}, 15>>, <<{1000}, 22>>, <<{1001}, 38>>, <<{1002}, 35>>,
                <<{1101}, 46>>}, s.pdt)
=============================================================================

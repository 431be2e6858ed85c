-------------------------------- MODULE Scoring --------------------------------
(***************************************************************************)
(* services/scenario/real_scoring.py: the DrinkwaterDruk score of an H3    *)
(* cell, the verdict of a set of cells, and the area a scenario is scored  *)
(* over (area.py).  Numbers are integers in the unit that keeps what the   *)
(* code compares: scores in 1/10000 point, weights in ten-thousandths,     *)
(* shares in hundredths, the dryness multiplier, the flood class and the   *)
(* demand reference in tenths, growth in thousandths, homes and households *)
(* in thousands.  What is finer is dropped once, before it is used: the    *)
(* demand of a cell is a whole number of hundredths wherever it counts.    *)
(*                                                                         *)
(* A data set is a record of what the four themes say of every cell.       *)
(***************************************************************************)
EXTENDS Folding, FiniteSets

CONSTANTS
    Cells,          \* h3_ids
    Near,           \* per place the cells of the grid disk around its coordinates
    NearFallback,   \* the same around the coordinates used without PDOK
    NoPlace,        \* location_name is None
    IntakeCells     \* per intake the cells whose OWMNAAM contains its name

Places  == DOMAIN Near
Intakes == DOMAIN IntakeCells

ASSUME ScoringConstants ==
    /\ IsFiniteSet(Cells)
    /\ Near \in [Places -> SUBSET Cells] /\ NoPlace \notin Places
    /\ NearFallback \in [Places \cup {NoPlace} -> SUBSET Cells]
    /\ IntakeCells \in [Intakes -> SUBSET Cells]

\* Flood severity in tenths: no, low, middle, high and very high risk, or unknown.
FLOOD_SEVERITY == {0, 2, 4, 7, 10, 3}

DataSet == [salty : SUBSET Cells, zone : SUBSET Cells,
            flood : [Cells -> FLOOD_SEVERITY], pop : [Cells -> Nat]]

(***************************************************************************)
(* Assumptions: dictionaries that may miss keys, completed by the defaults *)
(***************************************************************************)

point == 10000      \* of a score

DEFAULT_ASSUMPTIONS ==
    [weight_salinity |-> 4000, weight_demand |-> 3000, weight_flood |-> 2000,
     weight_protection |-> 1000,
     knmi_dryness_multiplier |-> 10, population_growth_pct |-> 0, demand_ref_m3_per_cell |-> 15,
     added_homes |-> 0, pop_min_built_up |-> 0,
     verdict_caution |-> 33 * point, verdict_stop |-> 66 * point, area_stop_share |-> 20]

demand_per_person   == 119      \* litres a day
regional_households == 1700

Levers == DOMAIN DEFAULT_ASSUMPTIONS

Full(assumptions) == assumptions ++ DEFAULT_ASSUMPTIONS

Min2(x, y) == IF x < y THEN x ELSE y

(***************************************************************************)
(* The score of a cell: four terms, added up and clamped (_scored_cte)     *)
(***************************************************************************)

\* LEAST(1.0, pop * dppd * (1 + growth) * added_factor / ref), in hundredths.
demand_norm(pop, a) ==
    LET litres == (pop * demand_per_person * (1000 + a.population_growth_pct)) \div 1000
        grown  == (litres * (regional_households + a.added_homes)) \div regional_households
    IN  Min2(100, grown \div a.demand_ref_m3_per_cell)

term_salinity(d, a, c) ==
    IF c \in d.salty THEN 10 * a.weight_salinity * a.knmi_dryness_multiplier ELSE 0

term_flood(d, a, c) == 10 * a.weight_flood * d.flood[c]

term_protection(d, a, c) == IF c \in d.zone THEN 100 * a.weight_protection ELSE 0

\* Faulty variant: the attribution's demand term forgets the growth and the added homes.
term_demand_today(d, a, c) ==
    a.weight_demand * demand_norm(d.pop[c], [a EXCEPT !.population_growth_pct = 0, !.added_homes = 0])

term_demand(d, a, c) == a.weight_demand * demand_norm(d.pop[c], a)

score(d, a, c) ==
    LET demand == a.weight_demand * demand_norm(d.pop[c], a)
    IN  Min2(100 * point, term_salinity(d, a, c) + term_flood(d, a, c) + term_protection(d, a, c) + demand)

verdict_from_score(s, a) ==
    IF s >= a.verdict_stop THEN "STOP" ELSE IF s >= a.verdict_caution THEN "CAUTION" ELSE "GO"

(***************************************************************************)
(* The universe and the verdict of an area (score_h3_area)                 *)
(***************************************************************************)

Bases == {"salinity", "populated"}

Universe(d, a, area, base) ==
    area \cap (IF base = "populated" THEN {c \in Cells : d.pop[c] > a.pop_min_built_up}
                                     ELSE d.salty)

Klasse(d, a, area, base, v) ==
    {c \in Universe(d, a, area, base) : verdict_from_score(score(d, a, c), a) = v}

\* STOP when the share of STOP cells reaches the limit, CAUTION when any cell is not GO.
AreaVerdict(n, n_stop, n_caution, a) ==
    IF (n > 0 \/ a.area_stop_share = 0) /\ 100 * n_stop >= a.area_stop_share * n THEN "STOP"
    ELSE IF n_stop + n_caution > 0 THEN "CAUTION" ELSE "GO"

\* stop_share is rounded to three digits, score_avg to one decimal.
score_h3_area(d, assumptions, area, base) ==
    LET a == Full(assumptions)
        U == Universe(d, a, area, base)
        n == Cardinality(U)
        s == Cardinality(Klasse(d, a, area, base, "STOP"))
        k == Cardinality(Klasse(d, a, area, base, "CAUTION"))
    IN  [n_cells |-> n, n_stop |-> s, n_caution |-> k,
         stop_share |-> IF n = 0 THEN 0 ELSE (2000 * s + n) \div (2 * n),
         score_avg |-> IF n = 0 THEN 0
                       ELSE (Total([c \in U |-> score(d, a, c)]) + 500 * n) \div (1000 * n),
         area_verdict |-> AreaVerdict(n, s, k, a)]

(***************************************************************************)
(* The area of interest (area.py).  None, the whole region, is Cells.      *)
(***************************************************************************)

\* Zones of the named intake, or all zones when none carries its name.
zes_cells(d, intake) ==
    LET named == IF intake \in Intakes THEN d.zone \cap IntakeCells[intake] ELSE {}
    IN  IF named = {} THEN d.zone ELSE named

\* PDOK is asked on every call; without an answer the fallback coordinates count.
select_h3_area(d, p, pdok) ==
    CASE p.scenario_type = "intake_failure" -> zes_cells(d, p.intake_id)
      [] p.scenario_type = "drop_pin" ->
            IF pdok /\ p.location_name \in Places THEN Near[p.location_name]
                                                 ELSE NearFallback[p.location_name]
      [] OTHER -> Cells
================================================================================

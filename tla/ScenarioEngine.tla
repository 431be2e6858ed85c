---------------------------- MODULE ScenarioEngine -----------------------------
(***************************************************************************)
(* services/scenario/workflow.py as operators: from the parameters of a    *)
(* question to the assumptions, the area, the score and the ranked         *)
(* interventions.  The dictionaries are merged as the code merges them;    *)
(* f ++ g keeps f where both have a key.                                   *)
(***************************************************************************)
EXTENDS Scoring, Sequences, SequencesExt

CONSTANTS NoIntake      \* intake_id is None

KNMI_DRYNESS == [B |-> 10, Ln |-> 12, Hn |-> 13, Ld |-> 15, Hd |-> 18]
GROWTH_PCT   == [laag |-> 40, middel |-> 65, hoog |-> 90]

Nothing == <<>>         \* the empty dictionary

\* A name outside the tables gives the default, never an error.
dryness(preset) == IF preset \in DOMAIN KNMI_DRYNESS THEN KNMI_DRYNESS[preset] ELSE 10
growth(preset)  == IF preset \in DOMAIN GROWTH_PCT THEN GROWTH_PCT[preset] ELSE 65

knmi(preset) == [knmi_dryness_multiplier |-> dryness(preset)]

(***************************************************************************)
(* ScenarioParams.  development_units 0 stands for None; years and types   *)
(* are kept as far as the gate looks at them.                              *)
(***************************************************************************)
default_params ==
    [scenario_type |-> "drop_pin", knmi_preset |-> "Hd", time_horizon |-> 2040,
     growth_preset |-> "middel", location_name |-> NoPlace, intake_id |-> NoIntake,
     housing |-> FALSE, development_units |-> 0, assumption_overrides |-> Nothing]

housing_weights ==
    [weight_demand |-> 6000, weight_salinity |-> 1500, weight_flood |-> 2000,
     weight_protection |-> 500, demand_ref_m3_per_cell |-> 20]

\* The preset, then the homes and the housing weights, then extra, then the overrides.
params_to_assumptions(p, extra) ==
       p.assumption_overrides
    ++ extra
    ++ (IF p.housing THEN housing_weights ELSE Nothing)
    ++ (IF p.development_units # 0 THEN [added_homes |-> p.development_units] ELSE Nothing)
    ++ [knmi_dryness_multiplier |-> dryness(p.knmi_preset),
        population_growth_pct   |-> growth(p.growth_preset)]

(***************************************************************************)
(* score_node: the universe is the request's, or that of the housing rule  *)
(***************************************************************************)

NoBase == "none"

use_populated(p, base) == base = "populated" \/ (base = NoBase /\ p.housing)

\* The area is only looked up, and PDOK only asked, when the universe is salinity.
AsksPdok(p, base) == ~use_populated(p, base) /\ p.scenario_type = "drop_pin"

score_node(d, p, extra, base, pdok) ==
    IF use_populated(p, base)
    THEN score_h3_area(d, params_to_assumptions(p, extra), Cells, "populated")
    ELSE score_h3_area(d, params_to_assumptions(p, extra), select_h3_area(d, p, pdok), "salinity")

(***************************************************************************)
(* enrich_node: what would make it feasible                                *)
(***************************************************************************)

INTERVENTIONS ==
    <<[id |-> "interconnectie",
       delta |-> [weight_salinity |-> 2500, weight_flood |-> 4000, weight_protection |-> 3500]],
      [id |-> "droogtebuffer", delta |-> [knmi_dryness_multiplier |-> 10]],
      [id |-> "spons",
       delta |-> [weight_salinity |-> 3500, weight_flood |-> 2500, weight_protection |-> 2000]]>>

\* Faulty variant: the intervention is scored on the defaults instead of the scenario.
RescoredOnDefaults(d, a, iv) == score_h3_area(d, iv.delta, Cells, "salinity")

\* Always over the whole salinity region: base and area of the scenario are not passed on.
Rescored(d, a, iv) == score_h3_area(d, iv.delta ++ a, Cells, "salinity")

Reductions(d, a, res) ==
    [i \in DOMAIN INTERVENTIONS |->
        LET r2 == Rescored(d, a, INTERVENTIONS[i])
        IN  [id |-> INTERVENTIONS[i].id, new_area_verdict |-> r2.area_verdict,
             stop_share_after |-> r2.stop_share,
             reduction |-> res.stop_share - r2.stop_share]]

\* A stable sort by reduction; a scenario that is GO needs none.
interventions_ranked(d, a, res) ==
    IF res.area_verdict = "GO" THEN <<>>
    ELSE LET R == Reductions(d, a, res)
             before(i, j) == \/ R[i].reduction > R[j].reduction
                             \/ R[i].reduction = R[j].reduction /\ i < j
             order == CHOOSE s \in [DOMAIN R -> DOMAIN R] :
                         \A i, j \in DOMAIN R : i < j => before(s[i], s[j])
         IN  [k \in DOMAIN order |-> R[order[k]]]

================================================================================

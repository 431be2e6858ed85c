------------------------------ MODULE ScenarioGate ------------------------------
(***************************************************************************)
(* What stands between a request and the engine: the intent of a question  *)
(* (intents.py), the parameters read from it (extraction.py), and the      *)
(* whitelists of scenario_run.py, recipe.py and cumulative.py.             *)
(*                                                                         *)
(* A question is a record of what the code looks for in its text.          *)
(***************************************************************************)
EXTENDS ScenarioAnalysis

CONSTANTS
    KnownIntakes,   \* intake names the gate accepts
    NotANumber      \* a weight that float() refuses

Question ==
    [explanatory : BOOLEAN,         \* _EXPLAIN_TERMS
     limits : BOOLEAN,              \* _DATA_LIMIT_TERMS
     run : BOOLEAN,                 \* _RUN_TERMS
     lever : BOOLEAN,               \* _LEVER_RE or a scenario word
     compare : BOOLEAN,             \* _COMPARE_TERMS
     presets : Seq(STRING),         \* what follows "knmi", as often as it is there
     intake : Intakes \cup {NoIntake}, water : BOOLEAN,
     datacenter : BOOLEAN, housing : BOOLEAN, units : Nat,
     place : Places \cup {NoPlace}, year : Nat,
     terms : SUBSET STRING]         \* content terms, for the answers from the corpus

\* The first failing check of a chain of early returns, or "ok".
FirstOf(checks) ==
    LET failing == {i \in DOMAIN checks : checks[i][2]}
    IN  IF failing = {} THEN "ok" ELSE checks[Min(failing)][1]

(***************************************************************************)
(* intents.py                                                              *)
(***************************************************************************)

classify_intent(q, has_scenario_card) ==
    IF has_scenario_card /\ q.explanatory THEN "explain_scenario"
    ELSE IF q.limits THEN "data_limits"
    ELSE IF q.run /\ ~q.explanatory /\ q.lever THEN "scenario_run_request"
    ELSE "knowledge"

(***************************************************************************)
(* extraction.py.  The model may read anything; when it fails, and when    *)
(* there is none, the rules read the question.                             *)
(***************************************************************************)

ALLOWED_KNMI   == DOMAIN KNMI_DRYNESS
ALLOWED_GROWTH == DOMAIN GROWTH_PCT

extract_rule(q) ==
    LET preset == IF q.presets # <<>> /\ q.presets[1] \in ALLOWED_KNMI THEN q.presets[1] ELSE "Hd"
        read   == [default_params EXCEPT !.knmi_preset = preset, !.time_horizon = q.year]
        homes  == q.housing /\ ~q.datacenter
    IN  IF q.intake # NoIntake \/ q.water
        THEN [params |-> [read EXCEPT !.scenario_type = "intake_failure",
                             !.intake_id = IF q.intake = NoIntake THEN "IJssel" ELSE q.intake],
              confidence |-> 90]
        ELSE [params |-> [read EXCEPT !.location_name = q.place, !.housing = homes,
                             !.development_units = IF ~homes THEN 0
                                                   ELSE IF q.units = 0 THEN 5 ELSE q.units],
              confidence |-> IF (homes \/ q.datacenter) /\ q.place # NoPlace THEN 85 ELSE 60]

(***************************************************************************)
(* scenario_run.py                                                         *)
(***************************************************************************)

ALLOWED_SCENARIO_TYPES == {"drop_pin", "intake_failure", "multi_hazard", "intervention"}

WEIGHTS == {"weight_salinity", "weight_demand", "weight_flood", "weight_protection"}

ALLOWED_LEVER_KEYS ==
    WEIGHTS \cup {"knmi_dryness_multiplier", "population_growth_pct", "added_homes",
                  "demand_ref_m3_per_cell"}

MIN_CONFIDENCE == 50
ZeroToOne == 0..10000        \* of a weight
Horizon == 2025..2100

validate_params(p, confidence) ==
    LET o == p.assumption_overrides
    IN  FirstOf(<<
            <<"low_confidence",    confidence < MIN_CONFIDENCE>>,
            <<"bad_scenario_type", p.scenario_type \notin ALLOWED_SCENARIO_TYPES>>,
            <<"bad_knmi",          p.knmi_preset \notin ALLOWED_KNMI>>,
            <<"bad_growth",        p.growth_preset \notin ALLOWED_GROWTH>>,
            <<"bad_horizon",       p.time_horizon \notin Horizon>>,
            <<"unknown_intake",    /\ p.scenario_type = "intake_failure"
                                   /\ p.intake_id \notin KnownIntakes>>,
            <<"missing_location",  p.scenario_type = "drop_pin" /\ p.location_name = NoPlace>>,
            <<"unknown_lever",     ~(DOMAIN o \subseteq ALLOWED_LEVER_KEYS)>>,
            <<"weight_out_of_range", \E k \in DOMAIN o \cap WEIGHTS : o[k] \notin ZeroToOne>> >>)

\* The presets that were named, mildest and harshest; the order of the question does not count.
Named(q) == {q.presets[i] : i \in DOMAIN q.presets} \cap ALLOWED_KNMI
Mildest(S)  == CHOOSE p \in S : \A o \in S : KNMI_DRYNESS[p] <= KNMI_DRYNESS[o]
Harshest(S) == CHOOSE p \in S : \A o \in S : KNMI_DRYNESS[p] >= KNMI_DRYNESS[o]

\* Faulty variant: the first two presets as they were named.
detect_as_named(q) ==
    IF Cardinality(Named(q)) >= 2 THEN <<knmi(q.presets[1]), knmi(q.presets[2])>>
    ELSE IF q.compare THEN <<knmi("B"), knmi("Hd")>> ELSE <<>>

\* The two levers of a comparison, or <<>> when none is asked for.
detect_comparison(q) ==
    IF Cardinality(Named(q)) >= 2
    THEN <<knmi(Mildest(Named(q))), knmi(Harshest(Named(q)))>>
    ELSE IF q.compare THEN <<knmi("B"), knmi("Hd")>> ELSE <<>>

(***************************************************************************)
(* recipe.py.  A recipe names weights per signal, in ten-thousandths.      *)
(***************************************************************************)

AboutOne == 9900..10100     \* of the four weights together

SIGNALS == [salinity |-> "weight_salinity", demand |-> "weight_demand",
            flood |-> "weight_flood", protection |-> "weight_protection"]

Weight(r, k) == IF k \in DOMAIN r.weights /\ r.weights[k] # NotANumber THEN r.weights[k] ELSE 0

validate_recipe(r) ==
    LET total == Weight(r, "salinity") + Weight(r, "demand") + Weight(r, "flood")
                 + Weight(r, "protection")
        named == {r.weights[k] : k \in DOMAIN r.weights}
    IN  FirstOf(<<
            <<"unknown_signal",      ~(DOMAIN r.weights \subseteq DOMAIN SIGNALS)>>,
            <<"weight_not_number",   NotANumber \in named>>,
            <<"weight_out_of_range", ~(named \ {NotANumber} \subseteq ZeroToOne)>>,
            <<"weights_sum",         total \notin AboutOne>>,
            <<"bad_knmi",            r.knmi_preset \notin ALLOWED_KNMI>>,
            <<"bad_growth",          r.growth_preset \notin ALLOWED_GROWTH>>,
            <<"bad_base",            r.base \notin Bases>>,
            <<"bad_horizon",         r.time_horizon \notin Horizon>>,
            <<"bad_added_homes",     r.added_homes < 0>>,
            <<"unknown_intake",      r.intake_id # NoIntake /\ r.intake_id \notin KnownIntakes>> >>)

RecipeParams(r) ==
    [default_params EXCEPT
        !.scenario_type = IF r.intake_id # NoIntake THEN "intake_failure"
                          ELSE IF r.location_name # NoPlace THEN "drop_pin" ELSE "multi_hazard",
        !.knmi_preset = r.knmi_preset, !.time_horizon = r.time_horizon,
        !.growth_preset = r.growth_preset,
        !.location_name = r.location_name, !.intake_id = r.intake_id,
        !.assumption_overrides =
            [w \in WEIGHTS \cup (IF r.added_homes = 0 THEN {} ELSE {"added_homes"}) |->
                IF w = "added_homes" THEN r.added_homes
                ELSE Weight(r, CHOOSE k \in DOMAIN SIGNALS : SIGNALS[k] = w)]]

(***************************************************************************)
(* cumulative.py                                                           *)
(***************************************************************************)

validate_cumulative(spec) ==
    FirstOf(<<
        <<"bad_knmi",    spec.knmi_preset \notin ALLOWED_KNMI>>,
        <<"bad_growth",  spec.growth_preset \notin ALLOWED_GROWTH>>,
        <<"no_projects", spec.projects = <<>> >>,
        <<"too_many",    Len(spec.projects) > MAX_PROJECTS>>,
        <<"negative_demand",    \E i \in DOMAIN spec.projects : homes_equiv(spec.projects[i]) < 0>>,
        <<"negative_committed", \E i \in DOMAIN spec.committed : spec.committed[i] < 0>> >>)
================================================================================

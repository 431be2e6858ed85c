-------------------------- MODULE MCScenarioRequests ---------------------------
(***************************************************************************)
(* Three cells and three states of the data, in which a cell alone can be  *)
(* GO, CAUTION or STOP depending on dryness, homes and weights.            *)
(***************************************************************************)
EXTENDS ScenarioRequests, TLC

CONSTANTS c1, c2, c3

Fn(x, y, z) == c1 :> x @@ c2 :> y @@ c3 :> z

MCCells == {c1, c2, c3}

MCDataSets ==
    {[salty |-> {c1, c2}, zone |-> {c2}, flood |-> Fn(0, 7, 4), pop |-> Fn(2, 0, 12)],
     [salty |-> {c1, c3}, zone |-> {c1, c3}, flood |-> Fn(2, 3, 10), pop |-> Fn(2, 5, 0)],
     [salty |-> {}, zone |-> {c2}, flood |-> Fn(2, 0, 10), pop |-> Fn(0, 5, 12)]}

MCNear         == [Delft |-> {c1, c3}]
MCNearFallback == "Delft" :> {c2, c3} @@ NoPlace :> {c1, c2}
MCIntakeCells  == [IJssel |-> {c2}, Maas |-> {c3}, Rijn |-> {}]
MCKnownIntakes == {"IJssel", "Maas"}

MCTerms == [p1 |-> {"zout", "cbs"}, p2 |-> {"zout"}, p3 |-> {"knmi"},
            k1 |-> {"oordeel", "zout"}, k2 |-> {"stap"}]
MCCorpus       == {"p1", "p2", "p3"}
MCCardPassages == {"k1", "k2"}

q0 == [explanatory |-> FALSE, limits |-> FALSE, run |-> FALSE, lever |-> FALSE, compare |-> FALSE,
       presets |-> <<>>, intake |-> NoIntake, water |-> FALSE, datacenter |-> FALSE,
       housing |-> FALSE, units |-> 0, place |-> NoPlace, year |-> 2040, terms |-> {"zout"}]

run0 == [q0 EXCEPT !.run = TRUE, !.lever = TRUE]

ScenarioQuestions ==
    {[run0 EXCEPT !.intake = "IJssel"],
     [run0 EXCEPT !.water = TRUE, !.presets = <<"Hd", "B", "Ld">>],
     [run0 EXCEPT !.housing = TRUE, !.units = 200, !.place = "Delft", !.compare = TRUE],
     [run0 EXCEPT !.place = "Delft", !.presets = <<"XX", "Ld", "Ln">>, !.datacenter = TRUE],
     [run0 EXCEPT !.housing = TRUE],
     [run0 EXCEPT !.intake = "Rijn"],
     [run0 EXCEPT !.water = TRUE, !.year = 2020]}

OtherQuestions ==
    {[q0 EXCEPT !.explanatory = TRUE],
     [run0 EXCEPT !.explanatory = TRUE, !.terms = {"cbs", "knmi"}],
     [run0 EXCEPT !.limits = TRUE, !.terms = {"cbs", "olifant"}],
     [q0 EXCEPT !.terms = {"oordeel", "olifant"}],
     [run0 EXCEPT !.lever = FALSE, !.terms = {}]}

MCAsks ==
    [kind : {"ask"}, question : ScenarioQuestions, card : {"none", "full"}]
    \cup [kind : {"ask"}, question : OtherQuestions, card : Cards]
    \cup [kind : {"ask"}, question : {Blank}, card : {"none"}]

MCSweeps == [kind : {"uncertainty"},
             question : {Blank, [run0 EXCEPT !.intake = "Maas"],
                         [run0 EXCEPT !.place = "Delft"],
                         [run0 EXCEPT !.housing = TRUE, !.units = 100]}]

Reading(p, c) == [params |-> p, confidence |-> c]

region == [default_params EXCEPT !.scenario_type = "multi_hazard"]

MCModel(q) ==
    IF q.run /\ q.lever /\ [kind |-> "uncertainty", question |-> q] \notin MCSweeps
    THEN {Reading(region, 70),
          Reading([region EXCEPT !.scenario_type = "flood"], 70),
          Reading([region EXCEPT !.growth_preset = "extreem"], 70),
          Reading([region EXCEPT !.knmi_preset = "Z"], 70),
          Reading(region, 40)}
    ELSE {Reading([region EXCEPT !.growth_preset = "extreem"], 70), Reading(region, 40)}

(* Recipes *)

R(s, d, f, p) == [salinity |-> s, demand |-> d, flood |-> f, protection |-> p]

r0 == [weights |-> R(4000, 3000, 2000, 1000), knmi_preset |-> "Hd", growth_preset |-> "middel",
       base |-> "salinity", time_horizon |-> 2040, added_homes |-> 0,
       location_name |-> NoPlace, intake_id |-> NoIntake]

MCRecipes == [kind : {"recipe"}, recipe :
    {r0,
     [r0 EXCEPT !.weights = R(2000, 6000, 1000, 1000), !.base = "populated", !.added_homes = 100],
     [r0 EXCEPT !.weights = R(6000, 0, 4000, 0), !.intake_id = "Maas", !.knmi_preset = "B"],
     [r0 EXCEPT !.location_name = "Delft", !.knmi_preset = "Ld"],
     [r0 EXCEPT !.weights = R(2000, 0, 0, 8000)], [r0 EXCEPT !.weights = R(0, 6000, 0, 4000)],
     [r0 EXCEPT !.weights = [salinity |-> 10000]],
     [r0 EXCEPT !.weights = [noise |-> 10000]],
     [r0 EXCEPT !.weights = [salinity |-> NotANumber]],
     [r0 EXCEPT !.weights = R(12000, -2000, 0, 0)],
     [r0 EXCEPT !.weights = R(4000, 3000, 2000, 0)],
     [r0 EXCEPT !.knmi_preset = "Z"], [r0 EXCEPT !.growth_preset = "extreem"],
     [r0 EXCEPT !.base = "region"], [r0 EXCEPT !.time_horizon = 2020],
     [r0 EXCEPT !.added_homes = -1], [r0 EXCEPT !.intake_id = "Rijn"]}]

(* Stacks of projects *)

homes200 == [added_homes |-> 200]

s0 == [projects |-> <<homes200, homes200>>, committed |-> <<>>,
       knmi_preset |-> "Ld", growth_preset |-> "middel"]

MCStacks == [kind : {"cumulative"}, spec :
    {s0,
     [s0 EXCEPT !.committed = <<70>>],
     [s0 EXCEPT !.committed = <<70, 70>>, !.projects = <<[datacenter_mw |-> 500]>>],
     [s0 EXCEPT !.projects = <<[development_units |-> 900], [m3_day |-> 35], [name |-> 1]>>],
     [s0 EXCEPT !.projects = <<>>],
     [s0 EXCEPT !.projects = [i \in 1..9 |-> homes200]],
     [s0 EXCEPT !.projects = <<[m3_day |-> -1]>>],
     [s0 EXCEPT !.committed = <<-1>>],
     [s0 EXCEPT !.knmi_preset = "Z"], [s0 EXCEPT !.growth_preset = "extreem"]}]

(* Comparisons *)

Stored(p)     == [params |-> p, assumptions |-> Nothing]
InlineSide(a) == [params |-> Inline, assumptions |-> a]

Sides ==
    {Stored(region), Stored([default_params EXCEPT !.location_name = "Delft"]),
     Stored([default_params EXCEPT !.housing = TRUE, !.development_units = 200]),
     InlineSide([knmi_dryness_multiplier |-> 13, population_growth_pct |-> 90]),
     InlineSide([weight_salinity |-> 6000, weight_flood |-> 4000, added_homes |-> 900]),
     InlineSide([verdict_stop |-> 400000, pop_min_built_up |-> 2]),
     InlineSide([weight_salinity |-> 3335, weight_demand |-> 3390, weight_flood |-> 2003,
                 knmi_dryness_multiplier |-> 13]),
     InlineSide(Nothing), Stored(Gone)}

MCCompares ==
    [kind : {"compare"}, a : Sides, b : Sides, base : {NoBase, "populated"}, area : {NoArea}]
    \cup [kind : {"compare"}, a : Sides, b : Sides, base : {NoBase, "salinity", "populated"},
          area : {{c1, c3}}]
================================================================================

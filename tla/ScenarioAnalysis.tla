---------------------------- MODULE ScenarioAnalysis ----------------------------
(***************************************************************************)
(* What is made of several runs of the engine: the comparison of two       *)
(* scenarios cell by cell (compare.py), the band over the five presets     *)
(* (uncertainty.py) and the stack of projects (cumulative.py).             *)
(***************************************************************************)
EXTENDS ScenarioEngine

CONSTANTS
    Inline,         \* a side of a comparison that is no stored scenario
    NoArea          \* area_cells is None

RANK == [GO |-> 0, CAUTION |-> 1, STOP |-> 2]
Verdicts == DOMAIN RANK

(***************************************************************************)
(* uncertainty.py: results is one run per preset, mild to harsh            *)
(***************************************************************************)

KNMI_PRESETS == <<"B", "Ln", "Hn", "Ld", "Hd">>

\* Faulty variant: max of the words themselves, STOP after GO after CAUTION.
WorstWord(S) ==
    IF "STOP" \in S THEN "STOP" ELSE IF "GO" \in S THEN "GO" ELSE "CAUTION"

\* max and min by rank.
Worst(S) == CHOOSE v \in S : \A w \in S : RANK[w] <= RANK[v]
Best(S)  == CHOOSE v \in S : \A w \in S : RANK[v] <= RANK[w]

Band(results) ==
    LET verdict == [i \in DOMAIN results |-> results[i].area_verdict]
        seen    == {verdict[i] : i \in DOMAIN verdict}
        count   == [v \in Verdicts |-> Cardinality({i \in DOMAIN verdict : verdict[i] = v})]
        scores  == {results[i].score_avg : i \in DOMAIN results}
    IN  [presets |-> verdict, count |-> count,
         score_min |-> Min(scores), score_max |-> Max(scores),
         worst_case |-> Worst(seen), best_case |-> Best(seen),
         robustness |-> IF Cardinality(seen) = 1 THEN "robuust"
                        ELSE IF {"GO", "STOP"} \subseteq seen THEN "wankel"
                        ELSE "matig robuust"]

(***************************************************************************)
(* cumulative.py.  A project is a dictionary; the first key of this list   *)
(* that it has says its demand in homes (thousands; water in 1000 m3/day). *)
(***************************************************************************)

DATACENTER_M3_PER_MW_DAY == 12
VEWIN_HOUSEHOLD_DAY_M3   == 35      \* hundredths
MAX_PROJECTS == 8

FromWater(m3) == IF m3 < 0 THEN -1 ELSE (100 * m3) \div VEWIN_HOUSEHOLD_DAY_M3

homes_equiv(project) ==
    LET has(k) == k \in DOMAIN project
    IN  IF has("added_homes") THEN project.added_homes
        ELSE IF has("development_units") THEN project.development_units
        ELSE IF has("datacenter_mw")
             THEN FromWater((project.datacenter_mw * DATACENTER_M3_PER_MW_DAY) \div 1000)
        ELSE IF has("m3_day") THEN FromWater(project.m3_day)
        ELSE 0

Homes(projects)   == [i \in DOMAIN projects |-> homes_equiv(projects[i])]
Committed(spec)   == Total([i \in DOMAIN spec.committed |-> FromWater(spec.committed[i])])

CumulativeParams(spec, homes) ==
    [default_params EXCEPT !.scenario_type = "multi_hazard", !.knmi_preset = spec.knmi_preset,
        !.growth_preset = spec.growth_preset, !.assumption_overrides = [added_homes |-> homes]]

\* Faulty variant: a project alone is scored without what is already committed.
AloneUncommitted(spec, i) == Homes(spec.projects)[i]

\* The runs in order: as committed, each project on top of that, all of them.
AloneHomes(spec, i) == Committed(spec) + Homes(spec.projects)[i]

StackHomes(spec) ==
    <<Committed(spec)>>
    \o [i \in DOMAIN spec.projects |-> AloneHomes(spec, i)]
    \o <<Committed(spec) + Total(Homes(spec.projects))>>

Stack(results) ==
    LET alone == SubSeq(results, 2, Len(results) - 1)
    IN  [baseline |-> results[1].area_verdict,
         alone    |-> [i \in DOMAIN alone |-> alone[i].area_verdict],
         combined |-> results[Len(results)].area_verdict,
         stacking_flips |-> /\ \A i \in DOMAIN alone : alone[i].area_verdict # "STOP"
                            /\ results[Len(results)].area_verdict = "STOP"]

(***************************************************************************)
(* compare.py.  A side has stored parameters or inline assumptions.        *)
(***************************************************************************)

side_assumptions(side) ==
    IF side.params = Inline THEN side.assumptions ELSE params_to_assumptions(side.params, Nothing)

\* An explicit override wins; otherwise side A says which cells are compared.
resolve_universe(d, p, base_override, area_override, pdok) ==
    LET housing == p # Inline /\ p.housing
        base == IF base_override = NoBase THEN "salinity" ELSE base_override
    IN  IF area_override # NoArea THEN [base |-> base, area |-> area_override]
        ELSE IF base_override = "populated" \/ (base_override = NoBase /\ housing)
             THEN [base |-> "populated", area |-> Cells]
        ELSE [base |-> base, area |-> IF p = Inline THEN Cells ELSE select_h3_area(d, p, pdok)]

FACTORS == {"salinity", "flood", "protection", "demand"}

\* A score is rounded to one decimal before it is classified, a factor to two.
Rounded(s)  == 1000 * ((s + 500) \div 1000)
Rounded2(t) == 100 * ((t + 50) \div 100)

score_cells_components(d, assumptions, u) ==
    LET a == Full(assumptions)
    IN  [c \in Universe(d, a, u.area, u.base) |->
            [score |-> Rounded(score(d, a, c)),
             salinity |-> Rounded2(term_salinity(d, a, c)),
             flood |-> Rounded2(term_flood(d, a, c)),
             protection |-> Rounded2(term_protection(d, a, c)),
             demand |-> Rounded2(term_demand(d, a, c))]]

Aggregate(cells, a) ==
    LET n == Cardinality(DOMAIN cells)
        s == Cardinality({c \in DOMAIN cells : cells[c].score >= a.verdict_stop})
        k == Cardinality({c \in DOMAIN cells : /\ cells[c].score >= a.verdict_caution
                                               /\ cells[c].score < a.verdict_stop})
    IN  [n_cells |-> n, n_stop |-> s, n_caution |-> k, n_go |-> n - s - k,
         feasibility_class |-> IF n = 0 THEN "GO" ELSE AreaVerdict(n, s, k, a)]

FactorSum(cells, f) == Total([c \in DOMAIN cells |-> cells[c][f]])

\* Faulty variant: both sides are classified with the thresholds of A.
klasse_shared(s, a_full, b_full) == verdict_from_score(s, a_full)

klasse_b(s, a_full, b_full) == verdict_from_score(s, b_full)

compare_scenarios(d, a, b, base, area, pdok) ==
    LET u == resolve_universe(d, a.params, base, area, pdok)
        a_full == Full(side_assumptions(a))
        b_full == Full(side_assumptions(b))
        cells_a == score_cells_components(d, side_assumptions(a), u)
        cells_b == score_cells_components(d, side_assumptions(b), u)
        common  == DOMAIN cells_a \cap DOMAIN cells_b
        klasse  == [c \in common |-> <<verdict_from_score(cells_a[c].score, a_full),
                                       klasse_b(cells_b[c].score, a_full, b_full)>>]
    IN  [a |-> Aggregate(cells_a, a_full), b |-> Aggregate(cells_b, b_full),
         cells_a |-> cells_a, cells_b |-> cells_b,
         factors |-> [f \in FACTORS |-> <<FactorSum(cells_a, f), FactorSum(cells_b, f)>>],
         n_common |-> Cardinality(common),
         transitions |-> [move \in Verdicts \X Verdicts |-> Cardinality({c \in common : klasse[c] = move})],
         n_worsened |-> Cardinality({c \in common : cells_b[c].score > cells_a[c].score}),
         n_improved |-> Cardinality({c \in common : cells_b[c].score < cells_a[c].score})]
================================================================================

--------------------------- MODULE ScenarioRequests ----------------------------
(***************************************************************************)
(* A client's requests, one after another, to POST /api/chatbot/ask and    *)
(* /recipe/run (routers/chatbot.py) and to /api/scenario/cumulative,       *)
(* /uncertainty and /compare (routers/scenario.py).                        *)
(*                                                                         *)
(* Every run of the engine awaits between its nodes, and a request may     *)
(* make up to ten of them: the data files can be replaced in between, the  *)
(* model may read the same question differently, and PDOK may answer one   *)
(* run and not the next.                                                   *)
(***************************************************************************)
EXTENDS ChatAnswers

CONSTANTS
    DataSets,       \* what the parquet files may contain
    Model(_),       \* readings the language model may give of a question
    Asks,           \* requests by kind
    Recipes, Stacks, Sweeps, Compares,
    Blank,          \* a question of spaces
    Gone,           \* a scenario_id the store does not have
    None

ASSUME RequestConstants ==
    /\ DataSets \subseteq DataSet /\ DataSets # {}
    /\ IntakeCells \in [Intakes -> SUBSET Cells] /\ KnownIntakes \subseteq Intakes
    /\ IsFiniteSet(Corpus \cup CardPassages) /\ TopK \in Nat /\ Cited \in Nat \ {0}
    /\ NoPlace \notin Places /\ NoIntake \notin Intakes

\* A request is what its endpoint takes.
ASSUME RequestKinds ==
    /\ \A r \in Asks : r.kind = "ask"
    /\ \A r \in Recipes : r.kind = "recipe"
    /\ \A r \in Stacks : r.kind = "cumulative" /\ r.spec.projects \in Seq(Range(r.spec.projects))
    /\ \A r \in Sweeps : r.kind = "uncertainty"
    /\ \A r \in Compares : r.kind = "compare"
    /\ None \notin Asks \cup Recipes \cup Stacks \cup Sweeps \cup Compares

VARIABLES
    data,           \* the parquet files
    request,        \* the last request, or None
    pc,             \* how far it is
    jobs,           \* runs of the engine still to be made
    current,        \* the run that is scored but not enriched yet
    runs,           \* finished runs
    confirmed,      \* the parameters the client was shown before the run
    out,            \* what the client got: stream events, or the status of a JSON answer
    result,         \* the answer, the band, the stack or the comparison
    captured,       \* the answer became a suggested FAQ
    steady          \* history: the data did not change during the request

vars == <<data, request, pc, jobs, current, runs, confirmed, out, result, captured, steady>>

Readings(q) == {extract_rule(q)} \cup Model(q)

\* Parameters can be told from their absence, as a dictionary can from None.
ASSUME NoneIsNoParams ==
    /\ \A r \in Asks : r.question # Blank =>
          \A reading \in Readings(r.question) : reading.params # None
    /\ \A r \in Recipes : RecipeParams(r.recipe) # None
    /\ \A r \in Stacks : \A i \in DOMAIN StackHomes(r.spec) :
          CumulativeParams(r.spec, StackHomes(r.spec)[i]) # None

\* What is read from a question: the extraction asks for no assumptions, and a place that
\* was named is found at its coordinates or, unknown, taken as none.
Read(p) ==
    /\ p.location_name \in Places \cup {NoPlace} /\ p.housing \in BOOLEAN
    /\ p.development_units \in Int /\ p.assumption_overrides = Nothing

\* Numbers for all levers, and cells of some demand to measure a cell's demand by.
Measured(a) == (\A k \in Levers : a[k] \in Int) /\ a.demand_ref_m3_per_cell > 0

ASSUME RequestTypes ==
    /\ \A r \in Asks \cup Sweeps : r.question # Blank =>
          \A reading \in Readings(r.question) : Read(reading.params)
    /\ \A r \in Recipes : /\ r.recipe.added_homes \in Int
                          /\ r.recipe.location_name \in Places \cup {NoPlace}
    /\ \A r \in Stacks : /\ r.spec.committed \in Seq(Int)
                         /\ \A i \in DOMAIN r.spec.projects : homes_equiv(r.spec.projects[i]) \in Int
    /\ \A r \in Compares : \A side \in {r.a, r.b} :
          side.params = Gone \/ Measured(Full(side_assumptions(side)))

Streams == {"ask", "recipe"}

\* A job without parameters has the engine extract them itself.
Job(params, extra, base) == [params |-> params, extra |-> extra, base |-> base]

\* Faulty variant: the engine reads the question again.
RereadJobs(params, levers) ==
    IF levers = <<>> THEN <<Job(None, Nothing, NoBase)>>
    ELSE [i \in 1..2 |-> Job(None, levers[i], NoBase)]

\* A plan hands its validated parameters to the run, twice in a comparison.
PlanJobs(params, levers) ==
    IF levers = <<>> THEN <<Job(params, Nothing, NoBase)>>
    ELSE [i \in 1..2 |-> Job(params, levers[i], NoBase)]

SweepJobs == [i \in DOMAIN KNMI_PRESETS |-> Job(None, knmi(KNMI_PRESETS[i]), NoBase)]

StackJobs(spec) ==
    [i \in DOMAIN StackHomes(spec) |->
        Job(CumulativeParams(spec, StackHomes(spec)[i]), Nothing, "populated")]

Init ==
    /\ data \in DataSets
    /\ request = None /\ pc = "idle" /\ jobs = <<>> /\ current = None /\ runs = <<>>
    /\ confirmed = None /\ out = <<>> /\ result = None /\ captured = FALSE /\ steady = TRUE

\* Requests share nothing but the data files: each starts from nothing.  e are its first events.
Start(req, to, js, params, e) ==
    /\ request = None
    /\ request' = req /\ pc' = to /\ jobs' = js /\ confirmed' = params /\ out' = e
    /\ UNCHANGED <<data, current, runs, result, captured, steady>>

Refuse(req, status) == Start(req, "idle", <<>>, None, <<status>>)

(***************************************************************************)
(* routers/chatbot.py                                                      *)
(***************************************************************************)

\* The plan is made before the stream opens; what it cannot run it asks about.
AskScenario(req) ==
    \E reading \in Readings(req.question) :
        IF validate_params(reading.params, reading.confidence) = "ok"
        THEN Start(req, "score", PlanJobs(reading.params, detect_comparison(req.question)),
                   reading.params, <<"params">>)
        ELSE Start(req, "idle", <<>>, None, <<"followup", "done">>)

ChatbotAsk(req) ==
    IF req.question = Blank THEN Refuse(req, "422")
    ELSE IF classify_intent(req.question, req.card # "none") = "scenario_run_request"
    THEN AskScenario(req)
    ELSE Start(req, "answer", <<>>, None, <<>>)

\* Capturing the answer as a suggestion is best effort.
Reply ==
    /\ pc = "answer"
    /\ \E answer \in answers(request.question, request.card) :
        /\ result' = answer
        /\ captured' \in {FALSE, should_cache(answer)}
        /\ out' = (IF answer.followup THEN <<"followup">> ELSE <<>>)
                  \o <<"text", "citations", "done">>
    /\ pc' = "idle"
    /\ UNCHANGED <<data, request, jobs, current, runs, confirmed, steady>>

RecipeRun(req) ==
    IF validate_recipe(req.recipe) = "ok"
    THEN Start(req, "score", <<Job(RecipeParams(req.recipe), Nothing, req.recipe.base)>>,
               RecipeParams(req.recipe), <<"params">>)
    ELSE Start(req, "idle", <<>>, None, <<"followup", "done">>)

(***************************************************************************)
(* routers/scenario.py                                                     *)
(***************************************************************************)

Cumulative(req) ==
    IF validate_cumulative(req.spec) = "ok"
    THEN Start(req, "score", StackJobs(req.spec), None, <<>>)
    ELSE Refuse(req, "422")

Uncertainty(req) ==
    IF req.question = Blank THEN Refuse(req, "422")
    ELSE Start(req, "score", SweepJobs, None, <<>>)

Missing(side) == side.params = Inline /\ side.assumptions = Nothing

\* Nothing is awaited between the two scorings of a comparison.
Compare(req) ==
    IF Missing(req.a) \/ Missing(req.b) THEN Refuse(req, "422")
    ELSE IF Gone \in {req.a.params, req.b.params} THEN Refuse(req, "404")
    ELSE /\ request = None
         /\ \E pdok \in BOOLEAN :
                result' = compare_scenarios(data, req.a, req.b, req.base, req.area, pdok)
         /\ request' = req /\ out' = <<"json">>
         /\ UNCHANGED <<data, pc, jobs, current, runs, confirmed, captured, steady>>

(***************************************************************************)
(* A run of the engine: extract and score, then enrich and format          *)
(***************************************************************************)

Given(job) == IF job.params = None THEN Readings(request.question)
              ELSE {[params |-> job.params, confidence |-> 100]}

ScoreNode ==
    /\ pc = "score"
    /\ \E reading \in Given(Head(jobs)), pdok \in BOOLEAN :
        LET p == reading.params
            job == Head(jobs)
        IN  /\ reading.confidence >= MIN_CONFIDENCE
            /\ pdok \/ AsksPdok(p, job.base)
            /\ current' = [params |-> p, extra |-> job.extra, base |-> job.base, pdok |-> pdok,
                           res |-> score_node(data, p, job.extra, job.base, pdok)]
    /\ pc' = "enrich"
    /\ UNCHANGED <<data, request, jobs, runs, confirmed, out, result, captured, steady>>

Finished(r, ranked) ==
    [params |-> r.params, extra |-> r.extra, base |-> r.base, pdok |-> r.pdok,
     res |-> r.res, ranked |-> ranked]

EnrichNode ==
    /\ pc = "enrich"
    /\ LET a == Full(params_to_assumptions(current.params, current.extra))
       IN  runs' = Append(runs, Finished(current, interventions_ranked(data, a, current.res)))
    /\ jobs' = Tail(jobs)
    /\ current' = None
    /\ pc' = IF Tail(jobs) = <<>> THEN "finish" ELSE "score"
    /\ UNCHANGED <<data, request, confirmed, out, result, captured, steady>>

\* DuckDB or a missing file; a stream says so, a JSON endpoint answers 500.
EngineFails ==
    /\ pc \in {"score", "enrich"}
    /\ out' = IF request.kind \in Streams THEN out \o <<"error", "done">> ELSE <<"500">>
    /\ pc' = "idle" /\ jobs' = <<>> /\ current' = None
    /\ UNCHANGED <<data, request, runs, confirmed, result, captured, steady>>

\* Faulty variant: a preset whose question is not understood is skipped.
SkipPreset ==
    /\ pc = "score" /\ Head(jobs).params = None
    /\ \E reading \in Readings(request.question) : reading.confidence < MIN_CONFIDENCE
    /\ jobs' = Tail(jobs)
    /\ UNCHANGED <<data, request, pc, current, runs, confirmed, out, result, captured, steady>>

\* The engine asks back, and run_uncertainty looks for a card that is not there.
NotUnderstood ==
    /\ pc = "score" /\ Head(jobs).params = None
    /\ \E reading \in Readings(request.question) : reading.confidence < MIN_CONFIDENCE
    /\ out' = <<"500">> /\ pc' = "idle" /\ jobs' = <<>>
    /\ UNCHANGED <<data, request, current, runs, confirmed, result, captured, steady>>

(***************************************************************************)
(* The end of a request                                                    *)
(***************************************************************************)

\* All cards are stored before the first is sent.
StoreAndEmit ==
    /\ pc = "finish" /\ request.kind \in Streams
    /\ out' = out \o [i \in DOMAIN runs |-> "card"]
                  \o (IF Len(runs) = 2 THEN <<"delta", "done">> ELSE <<"done">>)
    /\ pc' = "idle"
    /\ UNCHANGED <<data, request, jobs, current, runs, confirmed, result, captured, steady>>

\* The store raises outside the try of the stream: nothing more is sent.
StoreFails ==
    /\ pc = "finish" /\ request.kind \in Streams
    /\ out' = Append(out, "broken")
    /\ pc' = "idle"
    /\ UNCHANGED <<data, request, jobs, current, runs, confirmed, result, captured, steady>>

Results == [i \in DOMAIN runs |-> runs[i].res]

Return ==
    /\ pc = "finish" /\ request.kind \notin Streams
    /\ result' = IF request.kind = "cumulative" THEN Stack(Results) ELSE Band(Results)
    /\ out' = <<"json">>
    /\ pc' = "idle"
    /\ UNCHANGED <<data, request, jobs, current, runs, confirmed, captured, steady>>

\* The client closes a stream: the generator is cancelled where it waits.
Leave ==
    /\ pc \in {"score", "enrich", "finish"} /\ request.kind \in Streams
    /\ out' = Append(out, "left")
    /\ pc' = "idle" /\ jobs' = <<>> /\ current' = None
    /\ UNCHANGED <<data, request, runs, confirmed, result, captured, steady>>

\* The client has what it gets, and the server keeps nothing of the request.
Taken ==
    /\ pc = "idle" /\ request # None
    /\ request' = None /\ runs' = <<>> /\ confirmed' = None /\ out' = <<>>
    /\ result' = None /\ captured' = FALSE /\ steady' = TRUE
    /\ UNCHANGED <<data, pc, jobs, current>>

\* External: new files, at most once during a request.
Refresh ==
    /\ pc # "idle" /\ steady
    /\ data' \in DataSets \ {data}
    /\ steady' = FALSE
    /\ UNCHANGED <<request, pc, jobs, current, runs, confirmed, out, result, captured>>

Next ==
    \/ \E req \in Asks : ChatbotAsk(req)
    \/ \E req \in Recipes : RecipeRun(req)
    \/ \E req \in Stacks : Cumulative(req)
    \/ \E req \in Sweeps : Uncertainty(req)
    \/ \E req \in Compares : Compare(req)
    \/ Reply \/ ScoreNode \/ EnrichNode \/ EngineFails \/ NotUnderstood
    \/ StoreAndEmit \/ StoreFails \/ Return \/ Leave \/ Taken \/ Refresh

Spec == Init /\ [][Next]_vars

(***************************************************************************)
(* Properties                                                              *)
(***************************************************************************)

Events == {"params", "followup", "text", "citations", "card", "delta", "error", "done",
           "json", "422", "404", "500", "left", "broken"}

\* Type invariant: the parts of a request are there exactly while it needs them.
TypeOK ==
    /\ data \in DataSets
    /\ pc \in {"idle", "answer", "score", "enrich", "finish"}
    /\ request \in {None} \cup Asks \cup Recipes \cup Stacks \cup Sweeps \cup Compares
    /\ Range(out) \subseteq Events
    /\ (pc = "score") => jobs # <<>>
    /\ pc = "enrich" \/ current = None
    /\ (pc = "idle" /\ request # None) => jobs = <<>> /\ out # <<>>
    /\ captured => request.kind = "ask" /\ result.citations # {}
    /\ steady \in BOOLEAN

Ended(kind) == pc = "idle" /\ request # None /\ request.kind = kind

\* All runs of the request were about the same scenario, area and data.
Alike ==
    /\ steady
    /\ \A i, j \in DOMAIN runs : runs[i].params = runs[j].params /\ runs[i].pdok = runs[j].pdok

\* A stack never looks better than its parts, nor a part better than what is already
\* committed; and a stacking effect takes two projects and room that was left
\* (execute_cumulative), unless the data change on the way.
StackOnlyWorsens ==
    Ended("cumulative") /\ result # None /\ steady =>
        /\ \A i \in DOMAIN result.alone :
              /\ RANK[result.baseline] <= RANK[result.alone[i]]
              /\ RANK[result.alone[i]] <= RANK[result.combined]
        /\ result.stacking_flips => Len(request.spec.projects) >= 2 /\ result.baseline # "STOP"

\* The band runs from the mildest preset to the harshest: the verdicts only worsen along
\* it, and the worst and best case and the score band are its ends (run_uncertainty), unless
\* the runs were not about the same thing.
WorstIsHarshest ==
    Ended("uncertainty") /\ result # None /\ Alike =>
        /\ \A i \in 1..4 : RANK[result.presets[i]] <= RANK[result.presets[i + 1]]
        /\ result.best_case = result.presets[1] /\ result.worst_case = result.presets[5]
        /\ result.score_min = runs[1].res.score_avg /\ result.score_max = runs[5].res.score_avg
        /\ (result.robustness = "robuust") <=> (result.presets[1] = result.presets[5])

\* A comparison from the chat goes from mild to harsh, in whatever order the presets are
\* named: the second card is never milder than the first (_detect_comparison, run_comparison).
ShockIsHarsher ==
    Ended("ask") /\ Len(runs) = 2 /\ Alike =>
        /\ runs[1].res.n_cells = runs[2].res.n_cells
        /\ runs[1].res.n_stop <= runs[2].res.n_stop
        /\ runs[1].res.score_avg <= runs[2].res.score_avg
        /\ RANK[runs[1].res.area_verdict] <= RANK[runs[2].res.area_verdict]

WholeRegion(r) ==
    /\ ~use_populated(r.params, r.base)
    /\ r.params.scenario_type \notin {"intake_failure", "drop_pin"}

\* Taking the drought away never adds STOP cells: the buffer's reduction is not negative
\* (enrich_node).  Only for the whole salinity region: the reduction of any other scenario
\* is taken from an area that is not the scenario's.
DroughtBufferHelps ==
    \A i \in DOMAIN runs : WholeRegion(runs[i]) /\ steady =>
        \A k \in DOMAIN runs[i].ranked :
            runs[i].ranked[k].id = "droogtebuffer" => runs[i].ranked[k].reduction >= 0

\* The engine runs exactly what the client was shown, also when the question could be read
\* in another way; and a recipe never gets it to run what the chat's gate would refuse.
NothingRunsUnchecked ==
    request # None /\ request.kind \in Streams =>
        \A i \in DOMAIN runs :
            /\ runs[i].params = confirmed
            /\ validate_params(runs[i].params, 100) = "ok"

\* No dead ends: a stream that is read to its end has a card, an error, a question, or an
\* answer with its sources, and then says that it is done (routers/chatbot.py), unless the
\* store breaks it off.
NoDeadEnd ==
    /\ (Ended("ask") \/ Ended("recipe")) /\ out[Len(out)] \notin {"left", "broken", "422"} =>
            /\ out[Len(out)] = "done"
            /\ Range(out) \cap {"card", "error", "followup", "citations"} # {}
    /\ Ended("ask") /\ result # None => (result.followup <=> result.citations = {})

Compared == Ended("compare") /\ result # None

SameCells == DOMAIN result.cells_a = DOMAIN result.cells_b

Into(v)  == Total([w \in Verdicts \ {v} |-> result.transitions[<<w, v>>]])
OutOf(v) == Total([w \in Verdicts \ {v} |-> result.transitions[<<v, w>>]])

\* The cell diff accounts for the verdicts of both sides: the change of each class is what
\* the transitions move (compare_scenarios), when both sides have the same cells.
TransitionsBalance ==
    Compared /\ SameCells =>
        /\ result.b.n_stop - result.a.n_stop = Into("STOP") - OutOf("STOP")
        /\ result.b.n_caution - result.a.n_caution = Into("CAUTION") - OutOf("CAUTION")
        /\ result.b.n_go - result.a.n_go = Into("GO") - OutOf("GO")

Sum4(f, side) == f.salinity[side] + f.flood[side] + f.protection[side] + f.demand[side]

Clamped(cells) == \E c \in DOMAIN cells : cells[c].score >= 100 * point

\* "attribution can never silently drift from the verdict" (compare.py:18-20): the four
\* factors add up to the scores on each side, up to the rounding of a score to one decimal and
\* of its factors to two (0.05 + 4 * 0.005 point), and to no less where a cell is clamped.
AttributionExplains ==
    Compared =>
        LET Drift(cells, side) == Sum4(result.factors, side)
                - Total([c \in DOMAIN cells |-> cells[c].score])
            Explains(cells, side) ==
                /\ Drift(cells, side) >= -700 * Cardinality(DOMAIN cells)
                /\ ~Clamped(cells) => Drift(cells, side) <= 700 * Cardinality(DOMAIN cells)
        IN  Explains(result.cells_a, 1) /\ Explains(result.cells_b, 2)

\* "Explain-mode must always ground on the card, even if word overlap is low"
\* (service.py:118): an explanation of a scenario with results cites that scenario.
ExplainGroundsOnCard ==
    Ended("ask") /\ result # None =>
        (result.intent = "explain_scenario" /\ request.card = "full"
            => result.citations \cap CardPassages # {})
================================================================================

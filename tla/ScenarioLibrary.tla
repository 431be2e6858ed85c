---------------------------- MODULE ScenarioLibrary ----------------------------
(***************************************************************************)
(* Scenario cards: how they are computed (services/scenario/workflow.py),  *)
(* stored with the data version of that moment (routers/scenario.py,       *)
(* routers/chatbot.py, scenario_store.py) and verified on the data of      *)
(* today.  The table lives in an in-memory DuckDB of the process; the      *)
(* parquet files are replaced under it at any time.                        *)
(*                                                                         *)
(* Of the assumptions one lever is kept: its value comes from the preset,  *)
(* from a slider or a comparison (extra_assumptions) or from a recipe      *)
(* (assumption_overrides).  The score is any function of the lever, the    *)
(* universe, the area, the tables under data/ and the CBS file, which is   *)
(* kept outside data/ and of which verify reads no version.                *)
(***************************************************************************)
EXTENDS Naturals, FiniteSets

CONSTANTS
    Runs,           \* runs of the engine, each with the scenario_id it mints
    Checks,         \* GET /api/scenario/{id}/verify requests, each made once
    Levels,         \* values of the lever
    NoLevel,        \* the lever is not set
    Digest(_),      \* a lever as it enters the hash: rounded to four decimals
    Areas,          \* where a pin may land: PDOK's answers, and the fallback
    Region,         \* the area of a run without a pin
    Tables,         \* the tables under data/, each with versions of its own
    Outcome(_, _, _, _, _),
                    \* feasibility_class and score_avg of a lever, a universe, an
                    \* area, the tables and the CBS file
    Outcomes,
    NoRun, NoCard,
    MaxVersion,     \* bound: how often a file changes
    MaxSingles,     \* bound: runs outside a comparison
    MaxLibrary      \* bound: assumption-library versions of deployed code

Versions == 1..MaxVersion       \* newest mtime: a data load only moves it forward
Unread   == 0                   \* the table is not in _dataset_versions()
Files    == [Tables -> Versions]
Read     == [Tables -> Versions \cup {Unread}]
Universe == {"salinity", "populated"}
Places   == Areas \cup {Region}

ASSUME LibraryConstants ==
    /\ NoLevel \notin Levels
    /\ NoRun \notin Runs
    /\ MaxVersion \in Nat \ {0} /\ MaxLibrary \in Nat \ {0}

ASSUME OutcomeType ==
    \A lever \in Levels, universe \in Universe, area \in Places, tables \in Files,
       file \in Versions : Outcome(lever, universe, area, tables, file) \in Outcomes

Params == [kind : {"region", "pin", "housing"}, preset : Levels, override : Levels \cup {NoLevel}]
Recipe == [params : Params, extra : Levels \cup {NoLevel}, base : Universe \cup {"none"}]

VARIABLES
    data,           \* version of every table under data/
    cbs,            \* version of the CBS file under extra_data/
    library,        \* ASSUMPTIONS_VERSION of the running code
    pc, recipe,     \* progress and request of a run
    twin,           \* the other run of a comparison
    result,         \* state["score"] of a run that was scored
    scoredOn,       \* history: the scene it was scored on
    scenarios,      \* the table: the card of a run, or NoCard
    phase, target,  \* progress of a verify, and its scenario_id
    cached,         \* the row get_by_id returned
    new,            \* the result of the rerun
    rerunOn,        \* history: the scene of the rerun
    verdict         \* what verify answered

files == <<data, cbs>>
engine == <<pc, recipe, twin, result, scoredOn>>
checks == <<phase, target, cached, new, rerunOn, verdict>>
vars == <<data, cbs, library, pc, recipe, twin, result, scoredOn, scenarios,
          phase, target, cached, new, rerunOn, verdict>>

\* All a score depends on beside the recipe.
Scene   == [tables : Files, cbs : Versions, area : Places]
Card    == [params : Params, lever : Levels, result : Outcomes, stamp : Read,
            library : 1..MaxLibrary]
Verdict == [matches : BOOLEAN, drift : BOOLEAN, assumption_drift : BOOLEAN,
            clean : BOOLEAN, read : Read]

ASSUME NoCardIsNone == NoCard \notin Recipe \cup Outcomes \cup Scene \cup Card \cup Verdict

TypeOK ==
    /\ data      \in Files /\ cbs \in Versions
    /\ library   \in 1..MaxLibrary
    /\ pc        \in [Runs -> {"idle", "waiting", "accepted", "scored", "stored",
                               "over"}]
    /\ recipe    \in [Runs -> Recipe \cup {NoCard}]
    /\ twin      \in [Runs -> Runs \cup {NoRun}]
    /\ result    \in [Runs -> Outcomes \cup {NoCard}]
    /\ scoredOn  \in [Runs -> Scene \cup {NoCard}]
    /\ scenarios \in [Runs -> Card \cup {NoCard}]
    /\ phase     \in [Checks -> {"idle", "read", "rescored", "told", "over"}]
    /\ target    \in [Checks -> Runs \cup {NoRun}]
    /\ cached    \in [Checks -> Card \cup {NoCard}]
    /\ new       \in [Checks -> Outcomes \cup {NoCard}]
    /\ rerunOn   \in [Checks -> Scene \cup {NoCard}]
    /\ verdict   \in [Checks -> Verdict \cup {NoCard}]
    /\ \A r \in Runs : scenarios[r] # NoCard =>
          pc[r] = "stored" /\ \A t \in Tables : scenarios[r].stamp[t] <= data[t]

Init ==
    /\ data = [t \in Tables |-> 1] /\ cbs = 1 /\ library = 1
    /\ pc       = [r \in Runs |-> "idle"]
    /\ recipe   = [r \in Runs |-> NoCard]
    /\ twin     = [r \in Runs |-> NoRun]
    /\ result   = [r \in Runs |-> NoCard]
    /\ scoredOn = [r \in Runs |-> NoCard]
    /\ scenarios = [r \in Runs |-> NoCard]
    /\ phase    = [v \in Checks |-> "idle"]
    /\ target   = [v \in Checks |-> NoRun]
    /\ cached   = [v \in Checks |-> NoCard]
    /\ new      = [v \in Checks |-> NoCard]
    /\ rerunOn  = [v \in Checks |-> NoCard]
    /\ verdict  = [v \in Checks |-> NoCard]

-------------------------------------------------------------------------------
(***************************************************************************)
(* The engine                                                              *)
(***************************************************************************)

\* Faulty variant: the preset's defaults are forgotten.
LeverWithoutPreset(p, extra) == IF p.override # NoLevel THEN p.override ELSE extra

\* params_to_assumptions: the last update wins.
LeverOf(p, extra) ==
    IF p.override # NoLevel THEN p.override
    ELSE IF extra # NoLevel THEN extra ELSE p.preset

\* score_node: an explicit base wins, otherwise housing is scored where people live.
UniverseOf(p, base) ==
    IF base = "populated" \/ (base = "none" /\ p.kind = "housing") THEN "populated" ELSE "salinity"

\* select_h3_area: where people live no area is chosen; a pin is looked up at PDOK in
\* every run, and lands elsewhere when the answer is another one, or none in time.
AreasOf(p, base) ==
    IF UniverseOf(p, base) = "salinity" /\ p.kind = "pin" THEN Areas ELSE {Region}

\* The files of this moment, and where the run's pin landed.
Scenes(p, base) ==
    {[tables |-> data, cbs |-> cbs, area |-> area] : area \in AreasOf(p, base)}

\* score_h3_area, as far as verify looks: class and rounded average.
ScoreOf(p, extra, base, scene) ==
    Outcome(LeverOf(p, extra), UniverseOf(p, base), scene.area, scene.tables, scene.cbs)

\* The page and the chat extract params (no overrides); sliders are extra.
Asked == {q \in Recipe : q.params.override = NoLevel /\ q.base = "none"}

\* validate_recipe: its weights are overrides, its base is explicit.
Built == {q \in Recipe : /\ q.params.override \in Levels /\ q.params.kind # "housing"
                         /\ q.extra = NoLevel /\ q.base \in Universe}

\* A run that is over without a card is forgotten.
Ends(these) ==
    /\ pc'       = [r \in Runs |-> IF r \in these THEN "over" ELSE pc[r]]
    /\ twin'     = [r \in Runs |-> IF r \in these THEN NoRun ELSE twin[r]]
    /\ recipe'   = [r \in Runs |-> IF r \in these THEN NoCard ELSE recipe[r]]
    /\ result'   = [r \in Runs |-> IF r \in these THEN NoCard ELSE result[r]]
    /\ scoredOn' = [r \in Runs |-> IF r \in these THEN NoCard ELSE scoredOn[r]]

RunOne(r) ==
    /\ pc[r] = "idle"
    /\ Cardinality({x \in Runs : pc[x] # "idle" /\ twin[x] = NoRun}) < MaxSingles
    /\ \E q \in Asked \cup Built : recipe' = [recipe EXCEPT ![r] = q]
    /\ pc' = [pc EXCEPT ![r] = "accepted"]
    /\ UNCHANGED <<files, library, twin, result, scoredOn, scenarios, checks>>

\* _route_after_extract: too little confidence makes it a question.
Followup(r) ==
    /\ pc[r] = "accepted" /\ twin[r] = NoRun
    /\ recipe[r] \in Asked
    /\ Ends({r})
    /\ UNCHANGED <<files, library, scenarios, checks>>

\* run_comparison: two runs with the same params, one after the other.
RunTwo(r, x) ==
    /\ r # x /\ pc[r] = "idle" /\ pc[x] = "idle"
    /\ \E q, p \in Asked :
          /\ q.params = p.params
          /\ recipe' = [recipe EXCEPT ![r] = q, ![x] = p]
    /\ twin' = [twin EXCEPT ![r] = x, ![x] = r]
    /\ pc' = [pc EXCEPT ![r] = "accepted", ![x] = "waiting"]
    /\ UNCHANGED <<files, library, result, scoredOn, scenarios, checks>>

\* The engine raises, or there is too little confidence for a comparison: state_a
\* has no card, and the KeyError is a 500.  A comparison then stores neither card.
RunFails(r) ==
    /\ pc[r] = "accepted"
    /\ Ends({r, twin[r]})
    /\ UNCHANGED <<files, library, scenarios, checks>>

\* score_node; what follows until the card is formatted changes nothing here.
Score(r) ==
    /\ pc[r] = "accepted"
    /\ LET q == recipe[r]
       IN  \E scene \in Scenes(q.params, q.base) :
              /\ result' = [result EXCEPT ![r] = ScoreOf(q.params, q.extra, q.base, scene)]
              /\ scoredOn' = [scoredOn EXCEPT ![r] = scene]
    /\ pc' = [x \in Runs |-> IF x = r THEN "scored"
                             ELSE IF x = twin[r] /\ pc[x] = "waiting" THEN "accepted"
                             ELSE pc[x]]
    /\ UNCHANGED <<files, library, recipe, twin, scenarios, checks>>

\* _dataset_versions: a table without a file at that moment is left out, and one
\* that loses its file while it is looked at leaves all of them out.
Readings == {[t \in Tables |-> IF t \in seen THEN data[t] ELSE Unread] : seen \in SUBSET Tables}

\* The card as it is stored: format_node and _persist.
CardOf(r, stamp) ==
    [params |-> recipe[r].params, lever |-> LeverOf(recipe[r].params, recipe[r].extra),
     result |-> result[r], stamp |-> stamp, library |-> library]

\* The generator of a single run stores the card when the client reads it, after
\* the audit; a comparison stores both cards before it answers.
Persist(r) ==
    /\ pc[r] = "scored"
    /\ twin[r] # NoRun => pc[twin[r]] = "scored"
    /\ LET these == {r, twin[r]} \ {NoRun}
       IN  /\ \E stamp \in [these -> Readings] :
                 scenarios' = [x \in Runs |-> IF x \in these THEN CardOf(x, stamp[x])
                                              ELSE scenarios[x]]
           /\ pc' = [x \in Runs |-> IF x \in these THEN "stored" ELSE pc[x]]
    /\ UNCHANGED <<files, library, recipe, twin, result, scoredOn, checks>>

\* The client of a single run leaves before its stream has begun.
Abandon(r) ==
    /\ pc[r] = "scored" /\ twin[r] = NoRun
    /\ Ends({r})
    /\ UNCHANGED <<files, library, scenarios, checks>>

-------------------------------------------------------------------------------
(***************************************************************************)
(* scenario_verify                                                         *)
(***************************************************************************)

\* A request that is over leaves its variables behind.
Over(these, how) ==
    /\ phase'   = [v \in Checks |-> IF v \in these THEN how ELSE phase[v]]
    /\ target'  = [v \in Checks |-> IF v \in these THEN NoRun ELSE target[v]]
    /\ cached'  = [v \in Checks |-> IF v \in these THEN NoCard ELSE cached[v]]
    /\ new'     = [v \in Checks |-> IF v \in these THEN NoCard ELSE new[v]]
    /\ rerunOn' = [v \in Checks |-> IF v \in these THEN NoCard ELSE rerunOn[v]]

ReadCard(v, r) ==
    /\ phase[v] = "idle"
    /\ scenarios[r] # NoCard
    /\ target' = [target EXCEPT ![v] = r]
    /\ cached' = [cached EXCEPT ![v] = scenarios[r]]
    /\ phase' = [phase EXCEPT ![v] = "read"]
    /\ UNCHANGED <<files, library, engine, scenarios, new, rerunOn, verdict>>

\* 404: never stored, or stored by an earlier process.
NotStored(v, r) ==
    /\ phase[v] = "idle"
    /\ pc[r] \notin {"idle", "waiting", "accepted"} /\ scenarios[r] = NoCard
    /\ Over({v}, "over")
    /\ UNCHANGED <<files, library, engine, scenarios, verdict>>

\* Faulty variant: the rerun goes without the overrides of the params.
RescoreWithoutOverrides(v) ==
    /\ phase[v] = "read"
    /\ LET p == [cached[v].params EXCEPT !.override = NoLevel]
       IN  \E scene \in Scenes(p, "none") :
              /\ new' = [new EXCEPT ![v] = ScoreOf(p, NoLevel, "none", scene)]
              /\ rerunOn' = [rerunOn EXCEPT ![v] = scene]
    /\ phase' = [phase EXCEPT ![v] = "rescored"]
    /\ UNCHANGED <<files, library, engine, scenarios, target, cached, verdict>>

\* run_scenario(question, params=...): the stored params are all it gets.
Rescore(v) ==
    /\ phase[v] = "read"
    /\ LET p == cached[v].params
       IN  \E scene \in Scenes(p, "none") :
              /\ new' = [new EXCEPT ![v] = ScoreOf(p, NoLevel, "none", scene)]
              /\ rerunOn' = [rerunOn EXCEPT ![v] = scene]
    /\ phase' = [phase EXCEPT ![v] = "rescored"]
    /\ UNCHANGED <<files, library, engine, scenarios, target, cached, verdict>>

\* The engine raises: the request is answered with a 500.
RescoreFails(v) ==
    /\ phase[v] = "read"
    /\ Over({v}, "over")
    /\ UNCHANGED <<files, library, engine, scenarios, verdict>>

\* Equal hashes: same params and assumptions_used.  base is not part of it.
SameHash(c) == Digest(c.lever) = Digest(LeverOf(c.params, NoLevel))

\* Faulty variants: no drift check, and a table without a version has drifted.
NeverDrifted(stamp, now)  == FALSE
DriftedUnread(stamp, now) == now # stamp

\* detect_version_drift: only a table with a version on both sides can drift.
Drifted(stamp, now) ==
    \E t \in Tables : stamp[t] # Unread /\ now[t] # Unread /\ now[t] # stamp[t]

\* matches (the averages have one decimal: within 0.05 is equal), drift and the note;
\* then the audit and the answer.
Tell(v) ==
    /\ phase[v] = "rescored"
    /\ \E now \in Readings :
          LET c == cached[v]
              matches == SameHash(c) /\ new[v] = c.result
              drift   == Drifted(c.stamp, now)
              adrift  == c.library # library
          IN  verdict' = [verdict EXCEPT ![v] =
                  [matches |-> matches, drift |-> drift, assumption_drift |-> adrift,
                   clean |-> matches /\ ~drift /\ ~adrift, read |-> now]]
    /\ Over({v}, "told")
    /\ UNCHANGED <<files, library, engine, scenarios>>

-------------------------------------------------------------------------------
(***************************************************************************)
(* The environment                                                         *)
(***************************************************************************)

\* A data load replaces the files of a table, or the CBS file.
Refresh ==
    /\ \/ \E t \in Tables :
             /\ data[t] < MaxVersion
             /\ data' = [data EXCEPT ![t] = data[t] + 1] /\ cbs' = cbs
       \/ cbs < MaxVersion /\ cbs' = cbs + 1 /\ data' = data
    /\ UNCHANGED <<library, engine, scenarios, checks>>

\* What was under way is cut off; a card that is gone takes its run with it.
Cut(keep) ==
    /\ Ends({r \in Runs : pc[r] # "idle"} \ keep)
    /\ Over({v \in Checks : phase[v] \in {"read", "rescored"}}, "over")
    /\ UNCHANGED <<files, verdict>>

\* Faulty variant: the table is kept in a file.
RestartKeepingTable ==
    /\ library' \in {library, library + 1} \cap (1..MaxLibrary)
    /\ Cut({r \in Runs : pc[r] = "stored"})
    /\ UNCHANGED scenarios

\* A restart, perhaps with another library: the in-memory table is gone.
Restart ==
    /\ library' \in {library, library + 1} \cap (1..MaxLibrary)
    /\ Cut({})
    /\ scenarios' = [r \in Runs |-> NoCard]

Next ==
    \/ \E r \in Runs :
          \/ RunOne(r) \/ Followup(r) \/ RunFails(r) \/ Score(r) \/ Persist(r) \/ Abandon(r)
          \/ \E x \in Runs : RunTwo(r, x)
    \/ \E v \in Checks :
          \/ \E r \in Runs : ReadCard(v, r) \/ NotStored(v, r)
          \/ Rescore(v) \/ RescoreFails(v) \/ Tell(v)
    \/ Refresh
    \/ Restart

Spec == Init /\ [][Next]_vars

-------------------------------------------------------------------------------
(***************************************************************************)
(* Properties                                                              *)
(***************************************************************************)

Tells(v) == phase[v] = "rescored" /\ phase'[v] = "told"

\* Every table had a version when the card was stored and when verify looked.
Seeing(v) == \A t \in Tables : cached[v].stamp[t] # Unread /\ verdict'[v].read[t] # Unread

\* The hash leaves the base out: what the params alone say of it is the card's base.
SameBase(r) == UniverseOf(recipe[r].params, recipe[r].base) = UniverseOf(recipe[r].params, "none")

\* "Identiek herberekend op de huidige data en aanname-bibliotheek": a clean verdict
\* means that the lever of the card, as the hash sees it and its sliders included,
\* gives the stored class and average on the tables as they are when verify answers,
\* however they moved since it began: where the pin landed now, and for what the hash
\* and the versions cannot see only if the base is that of the params and the CBS file
\* did not move under the rerun.
CleanIsTrue ==
    [][\A v \in Checks :
          /\ Tells(v) /\ Seeing(v) /\ verdict'[v].clean
          /\ SameBase(target[v]) /\ rerunOn[v].cbs = cbs
          => \E lever \in Levels :
                /\ Digest(lever) = Digest(LeverOf(recipe[target[v]].params, recipe[target[v]].extra))
                /\ Outcome(lever, UniverseOf(recipe[target[v]].params, recipe[target[v]].base),
                           rerunOn[v].area, data, cbs) = cached[v].result]_vars

\* The recipe of a run is all in the params that its card keeps.
Plain(r) ==
    /\ LeverOf(recipe[r].params, recipe[r].extra) = LeverOf(recipe[r].params, NoLevel)
    /\ SameBase(r)

\* Nothing the score of the run depends on is different now, where its pin landed in
\* the rerun included.
Unmoved(v) ==
    /\ scoredOn[target[v]].tables = data /\ scoredOn[target[v]].cbs = cbs
    /\ scoredOn[target[v]].area = rerunOn[v].area

\* No false alarm for a card whose recipe is all in its params: if no file moved since
\* it was scored and its pin landed where it did, verify calls it clean, though tables
\* may be missing from the versions on either side.
PlainVerifiesClean ==
    [][\A v \in Checks : Tells(v) /\ Plain(target[v]) /\ Unmoved(v)
          => verdict'[v].clean]_vars

\* A drift warning is never false: a table moved since the card was scored.  Without
\* one, every table that had a version on both sides is the one the rerun was scored
\* on, and no newer than what the card was stamped with.
DriftDatesFromStorage ==
    [][\A v \in Checks : Tells(v) =>
          /\ verdict'[v].drift => \E t \in Tables : scoredOn[target[v]].tables[t] < data[t]
          /\ ~verdict'[v].drift =>
                \A t \in Tables : cached[v].stamp[t] # Unread /\ verdict'[v].read[t] # Unread
                   => cached[v].stamp[t] = data[t] /\ rerunOn[v].tables[t] = data[t]]_vars

\* verify never gets to see a card of another assumption library: the table goes
\* with the process that computed it.
LibraryNeverDrifts ==
    \A v \in Checks : verdict[v] # NoCard => ~verdict[v].assumption_drift

\* "Let op: resultaat, dataset of aanname-versie is gewijzigd sinds de opslag": a
\* verdict that is not clean has one of these reasons: other files or another place
\* than the card was scored on, or another library.
NotCleanMeansChanged ==
    [][\A v \in Checks : Tells(v) /\ ~verdict'[v].clean =>
          ~Unmoved(v) \/ cached[v].library # library]_vars
===============================================================================

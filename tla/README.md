# TLA+ models of the OneGov spatial assistant

This directory models the backend under `src/src/backend/app` (paths below are
relative to it unless they start with `frontend/`, which is
`src/src/frontend/src/`): what it stores, what it decides and in which order it does
so. The models are written in TLA+ and checked with TLC on small instances; what
matters most is proved with TLAPS for every size.

The application answers questions of civil servants about spatial data: a Vue
client talks over SSE to one FastAPI process, which runs LangGraph workflows on
a language model, PDOK and DuckDB, and keeps chat sessions, feedback and FAQ
entries in Postgres. It is one uvicorn worker (`Dockerfile`), so concurrency is
that of coroutines: a request runs alone until it awaits, and any other request
may run there. Almost everything that can go wrong without an exception does so
in those gaps, or in a rule that is right for most inputs; the models spend their
detail on these two.

1. [Inventory](#1-inventory)
2. [Modules and how they follow the code](#2-modules-and-how-they-follow-the-code)
3. [Runs](#3-runs)
4. [What the runs show](#4-what-the-runs-show)
5. [What is proved](#5-what-is-proved)
6. [Assumptions about what is not in this repository](#6-assumptions-about-what-is-not-in-this-repository)
7. [Not modelled, and why](#7-not-modelled-and-why)
8. [Plan](#8-plan)

## 1. Inventory

| Component | Code | State it keeps | Operations |
|---|---|---|---|
| Chat sessions | `routers/chat.py`, `routers/sessions.py`, `models/session.py` | table `sessions`: owner, `deleted_at`, and the whole conversation as one JSON array | POST `/api/chat` (resolve or create, save the question, stream, save the answer), GET list/detail, DELETE (soft) |
| Message feedback | `routers/feedback.py`, `mlflow_monitoring/feedback.py`, `models/feedback.py`, `database.py` | table `message_feedback`, `user_thumbs` assessments in MLflow, a Postgres advisory lock on a pooled connection | POST `.../feedback` (up, down, clear), GET |
| FAQ cache | `services/chatbot/faq_cache.py`, `faq_cache_sql.py`, `routers/chatbot.py` | table `faq_cache`, or two dicts in memory | capture after an answer, promote, reject, list published |
| Descriptive workflow | `services/workflow.py`, `services/nodes/*` | the graph state of one turn | eight nodes, two conditional edges, a fallback for each node |
| Filter validation | `services/helpers/filter_*.py`, `location_hierarchy.py` | none | which filters select nothing, which one is blamed, what may replace it |
| Scenario engine | `services/scenario/workflow.py`, `assumptions.py`, `scenario_hash.py`, `scenario_store.py` beside it, `routers/scenario.py` | in-memory DuckDB table of scenario cards | run, compare, fetch, verify, drift |
| Scoring | `services/scenario/real_scoring.py`, `area.py` | none | the score of a cell, the verdict of an area, the area of a scenario |
| Scenario analyses | `services/scenario/uncertainty.py`, `cumulative.py`, `compare.py` | none | the band over five presets, the stack of projects, the comparison cell by cell |
| Chatbot ask and answer | `routers/chatbot.py`, `services/chatbot/service.py`, `intents.py`, `scenario_run.py`, `recipe.py`, `services/scenario/extraction.py` | none of its own | route an intent, gate a run, run a scenario or a recipe, answer with sources |
| Chatbot retrieval | `services/chatbot/retrieval.py`, `corpus.py` | static corpus | rank |
| Audit trail | `services/audit*` | append-only table | record, best effort |
| Chat client | `frontend/composables/useChat.ts`, session list | `messages`, `sessionId`, `isStreaming`, per tab | send, stop, load, clear, thumbs |
| Scenario and chatbot client, map and browser database | `frontend/` | as above; rendered layers | as above; draw, filter |
| Start-up, data dictionary, data sources, query endpoint, Waterinfo/PDF/official positions, standalone calculators, model and prompt helpers, migrations | the rest | built once, or none | read only |

How they interact:

* The client sends a question with an optional session id. `chat.py` authorises
  it against `sessions`, saves the question, runs the descriptive workflow and
  forwards its events; what it keeps of them becomes the stored answer.
* Within the workflow, every categorical filter the language model proposes is
  checked against the data before SQL is generated; what selects nothing goes back
  to the model with candidates, once.
* The `meta` event hands the client the session id and the id of the answer
  *before* the answer exists. Feedback goes to that id, so it depends on the
  later save, and feeds a second store (MLflow) that has no transaction in common
  with the first.
* POST `/api/chatbot/ask` either answers from the corpus and the attached card, or
  has the scenario engine run what it read in the question. The first kind is
  captured in the FAQ store when it is confident and cited; a moderator promotes or
  rejects it; GET `/faqs` serves the published ones that carry the stamp of the
  running version. The second passes a whitelist (`validate_params`), as a
  recipe passes its own (`validate_recipe`).
* The scenario router stores cards it computed; `verify` recomputes one with the
  data of today. The chatbot runs the same engine and stores in the same place. The
  analyses run the engine several times in one request, or score directly.

Hard behaviours, each listed with its line in `PROJECT.json` under `hazards`:
reading an array before a stream and writing it minutes later; the soft delete in
between; a client that leaves, a process that restarts, a save that fails; a lock
that belongs to a connection while the handler changes connections and the pool closes
some; a SELECT and
a commit with other requests in between; nodes that fail and leave the state as
it is while the graph goes on; filters that are each fine and together select
nothing; a band of five runs each of which reads the question, the files and PDOK
anew; rounding and clamping before, and after, a classification.

What makes each component correct:

* **Chat sessions.** An answer is stored under its own question, once, in the
  session its owner sent it to; a deleted session is frozen; a turn alone in its
  session loses nothing; every turn ends.
* **Feedback.** One thumb per user and answer; MLflow follows Postgres; a click that
  has the lock gives it up.
* **FAQ.** One entry per question; only checked and current text is served (the
  code keeps less: see 4); a
  rejection is final; the SQL store does what the in-memory one does.
* **Workflow and validation.** A turn asks back or queries, never both; a query runs
  on filters that together select something and on places that were resolved; the
  filter that is blamed is one that can be mended; no turn ends in silence.
* **Scenario engine and library.** A card that verifies clean is the card one would
  compute now, as far as hash and versions can see; one that does not has a reason.
* **Scoring and analyses.** Pulling a lever harder never gives a milder verdict; what
  several runs are made into says what they say: the band's ends are its extremes, a
  stack is no better than its parts, the cell differences add up to the class
  differences, the factors add up to the scores.
* **Chatbot.** The engine runs what was shown and checked, nothing else; every stream
  ends in an answer with sources, a card, a question or an error.
* **Client.** What streams is shown in the session it belongs to.

## 2. Modules and how they follow the code

Every module is translated from the code it names; `PROJECT.json` maps each of its
definitions to the lines it stands for. Definitions called *faulty variant* are not
part of any specification: each is a plausible bug of the definition that follows it,
and with it in that definition's place a property fails.

| Modules | Component | Runs |
|---|---|---|
| `ChatMessages`, `ChatLog`, `ChatSessions` | chat sessions | `chat_*` |
| `Feedback` | message feedback | `feedback_*` |
| `FaqEntries`, `FaqStore`, `FaqCache` | FAQ cache | `faq_*` |
| `Folding` | the loops of scoring and validation | (with those that use it) |
| `FilterValidation`, `ChatWorkflow` | filter validation, descriptive workflow | `workflow_turn` |
| `ScenarioLibrary` | cards, persist, verify, drift | `scenario_*` |
| `Scoring`, `ScenarioEngine`, `ScenarioAnalysis` | scoring, engine, analyses | `chatbot_turn` |
| `ScenarioGate`, `ChatAnswers`, `ScenarioRequests` | chatbot ask and answer, requests | `chatbot_turn`, `explain_card` |
| `MC*` | symmetry sets and the small databases, question sets and cells | |
| `*Proofs` | theorems | |

`FaqCache` composes `FaqEntries` with the interface of `FaqStore`; `ChatWorkflow`
extends `FilterValidation`; `ScenarioRequests` extends the chain `Scoring`,
`ScenarioEngine`, `ScenarioAnalysis`, `ScenarioGate`, `ChatAnswers`, whose members are
operators without state.

`Folding` has what both pure parts of the code loop for: `Total`, a sum over a
collection (`SUM` and `AVG` in the SQL of `real_scoring.py`, `sum()` in the Python),
`Only`, a list comprehension with a condition, and `++`, a dictionary display
`{**a, **b}`. They are written so that they can be proved about; `FoldingProofs` has
what is true of them for every collection.

### `ChatMessages`, `ChatLog`, `ChatSessions`

`ChatMessages` names the entries of the JSON array: a message is its role and the
turn that minted its uuid. `ChatSessions` has the table as three functions
(`owner`, `deleted`, `messages`), and for every turn the locals of its coroutine:
`target` (`session_id`), `base` (first `session.messages` as loaded, then
`current_messages`), `content` (`has_content`) and `pc`. An action is the code
between two awaits at which the database or the client can be seen:

| Action | Code |
|---|---|
| `Resolve`, `Refuse`, `Create`, `Refresh` | `_resolve_session` with `require_session_access`; a new row is committed, then refreshed |
| `SaveQuestion`, `SaveQuestionFails` | `chat`: array + question, commit |
| `Announce`, `Produce`, `StreamEnds` | `event_generator`: `meta`, the events that make content, the end of the loop by exhaustion, exception or a client that is found gone |
| `Persist`, `SkipPersist`, `Finish` | the answer's save (or none: no content, or it failed and was logged), `done` |
| `Cancel`, `Leave` | the client goes away; sse-starlette cancels the generator, whose `except Exception` does not see `CancelledError` |
| `Delete`, `Crash` | the soft delete at any time; a restart of the process |

Two histories are not in the code: `alone` (no other turn of the session was in
flight beside this one) and `who`, the authenticated caller. `ChatLog` is the
promise to a user: a log per session that only grows, an answer directly behind
its question.

### `Feedback`

One row, one assessment list and one lock per (message, user). The lock is
modelled as Postgres has it: held by a connection, `depth` times, re-entrant on
that connection; an unlock elsewhere is only a warning, and the end of the connection
frees it. The pool is the one `make_engine` gets by default, SQLAlchemy's queue: first in
first out; it opens a connection when none waits, up to `Conns` (5 + 10 in the code),
lets a request wait 30 seconds when there are no more, and *closes* a connection that
is returned when `PoolSize` (5) are idle already. `AsyncSession` holds a connection from a
statement to the next commit, so every action that commits gives it back and every first
statement afterwards takes one.

| Action | Code |
|---|---|
| `Look`, `Refuse`, `Lock` | `post_feedback`: access, message, `pg_advisory_lock` |
| `Read`, `ClearNothing`, `ClearRow`, `Store`, `Refresh` | `_apply_feedback` up to the MLflow call |
| `Search`, `Write`, `SyncFails` | `log_feedback_to_mlflow`: two calls, either of which may fail |
| `Unlock`, `UnlockFails` | `_release_advisory_lock`: on the connection there is, or now gets; a failure is swallowed |
| `StatementFails`, `CommitLost`, `RefreshFails`, `PoolTimeout` | an exception inside the lock. A failed statement leaves the session's transaction broken, so the release fails with it; `CommitLost` is a commit that Postgres made and nobody heard of |
| `Close` | the end of `get_session`: the pool rolls back, which frees no session-level lock |
| `Elsewhere`, `Break`, `Restart` | other requests that turn the pool; a connection that breaks, which the next statement on it notices; another process |

`Refresh` raises when another click deleted the row. A flush that raises for the same
reason is no action: `RowIsAsRead` shows that it cannot happen. Histories are `lockedOn`,
`stripped` (the pool closed, or lost, a connection that a click inside had locked on),
`met` and `missed`.

### `FaqEntries`, `FaqStore`, `FaqCache`

`FaqEntries` has the rules on one entry: the gate for capture, a fresh entry, what
a repeat makes of one, what may be promoted. `FaqStore` is the in-memory back end,
whose methods never await and are therefore atomic; it is the abstract
specification of the interface. `FaqCache` is the Postgres back end: each method
has a SELECT (`Capture`, `Promote`, `Reject`) and a `Commit`, which writes only
the columns that differ from what was read, as the ORM does. `Restart` may bring another
deployment, that is, other code or another corpus. What the store knows of it is
`version`, and `Stamp` is any function of deployments: the code hashes the commit, which
is `unknown` where there is no git (`Dockerfile` builds on a slim image, and
`.dockerignore` leaves `.git` out), with the number and the ids of the corpus' passages.
Deployments that differ in the text of a passage share a stamp, although
`faq_cache.py:84` says that it "changes when docs/metadata change".

### `FilterValidation`

`collect_invalid_filters` as operators over a small database (`Columns`, `Data`).
`SortByHierarchy` is the order of blame, `IndividuallyInvalid` the first phase (each
filter by itself, within the locations that were validated before it), `Conflict` the
second (the filters are added one by one until nothing is left), `Candidates` what
the correction prompt may choose from and `Raises` the one way DuckDB stops it: a
scope without a table that names a column the table has not got. The queries are
translated as their WHERE clauses are built, OR within a column and AND across
columns, a scope taking in filters without a table. Which candidates are *similar*
enough to be offered (`difflib`) is left out: the operator has all a choice is made
from.

### `ChatWorkflow`

One turn through the graph, one action per node and outcome. What the model,
PDOK and DuckDB return is any value of the right shape, or an exception; the intents
a model may reply with are a constant set, and every intent of it is really
validated by `FilterValidation`. An origin is a filter too: a place, a coordinate, or a
column of the data, which `resolve_spatial` overwrites with a coordinate all the same.
The reply to the correction prompt is any `IntentAnalysis`, too: only its categorical
filters are validated again, so it may bring a place that nobody looks up, or drop an
origin. `madeBy` is a history: the node whose call to the model gave the intent.
`Return`, `Raise`, `CallFails` and `Ask` are `BaseNode.__call__` and the generator's
handling of the events: an exception becomes an `error` event and the node's
fallback, and the edge after it is taken with whatever the state then is.

### `ScenarioLibrary`

Runs of the scenario engine, the in-memory table of their cards, and `verify`,
over data files that are replaced at any time.

| Action | Code |
|---|---|
| `RunOne`, `Followup`, `RunTwo`, `RunFails` | `scenario_run`, the chat's and the recipe's runs, `run_comparison`; a question that is not understood asks back, or is a `KeyError` in a comparison |
| `Score` | `score_node`; enriching, checking and formatting follow without a look at the data that verify compares |
| `Persist`, `Abandon` | `_persist` with `_dataset_versions`, when the client reads the stream (never, if it has left); a comparison stores both cards before it answers |
| `ReadCard`, `NotStored` | `scenario_verify`: `get_by_id`, or 404 |
| `Rescore`, `RescoreFails` | `run_scenario(question, params=...)` |
| `Tell` | `matches`, `detect_version_drift`, the note |
| `Refresh`, `Restart` | other files of one table, or of CBS; another process, perhaps with another `ASSUMPTIONS_VERSION` |

One lever stands for the assumptions, as each of them goes the same three ways: the
preset, `assumption_overrides` in the params, `extra_assumptions` beside them. What a
score depends on is `Scene` beside the recipe: the tables under `data/`, each with
versions of its own, the CBS file under `extra_data/`, and where the pin landed, since a
`drop_pin` run asks PDOK every time and takes the fallback's coordinates when it does not
answer. `Outcome` is *any* function of these, what verify compares of a result: the class
and the average. Averages are rounded to one decimal, so "within 0.05" is equality.
Different scenes may have the same outcome; what is calculated is in `Scoring`.

`verify` sees less than that. The hash has the params and the lever, rounded to four
decimals (`Digest`), and not the base; `_dataset_versions` has the newest mtime per table
under `data/`, which only moves forward, nothing of the CBS file, and nothing of a table
that has no file at that moment (`Unread`; all of them, when one vanishes while it is
looked at). `scoredOn` and `rerunOn` are histories.

### `Scoring`, `ScenarioEngine`, `ScenarioAnalysis`

The arithmetic, in integers of the unit that keeps every comparison of the code:
scores in 1/10000 point (`point`), weights in ten-thousandths, shares in hundredths,
dryness, flood class and demand reference in tenths, growth in thousandths, homes and
households in thousands; the share of demand is rounded down to a hundredth wherever it is
used. Where the code rounds, the model does: a comparison has scores to one decimal and
factors to two (`Rounded`, `Rounded2`; ties go up, which Python's `round` and its binary
floats may see otherwise). A
data set says of each cell whether its groundwater is salty, whether it lies in a
protection zone, its flood class and its population: the joins over parquet files come
down to that, with one flood class and one CBS row per cell, the CBS file shipped and
h3 ids that are padded alike.

`Scoring` is `real_scoring.py` and `area.py`: four terms added and clamped, the
universe, the verdict of an area, `select_h3_area` with its fallbacks (no zone carries
the name of the intake; PDOK does not answer). `ScenarioEngine` is `workflow.py` as
operators: dictionaries are merged with `++` in the order of the code, and
interventions are scored again and sorted by reduction as `enrich_node` does, within
the whole salinity region, whatever the scenario's own area was. `ScenarioAnalysis` has
the band, the stack and the cell-by-cell comparison.

### `ScenarioGate`, `ChatAnswers`, `ScenarioRequests`

A question is a record of what the code looks for in its text (`Question`): terms,
presets in the order they are named, an intake, a place. `ScenarioGate` has the intent,
the rule-based reading and the three whitelists; each is a chain of early returns, the
first failing check being the reason (`FirstOf`). `ChatAnswers` has the answers from
corpus and card: BM25 decides an order among the passages that share a term, which is
left open, as is the coverage where it is neither nothing nor everything.

`ScenarioRequests` is the state machine: one request after another, since requests
share nothing but the data files and those move by `Refresh`.

| Action | Code |
|---|---|
| `ChatbotAsk`, `RecipeRun` | `chatbot_ask` and `recipe_run` up to the stream: 422, a plan, a question back, or an answer |
| `Reply` | `answer_question` and the best-effort capture |
| `Cumulative`, `Uncertainty` | the JSON endpoints up to their first run |
| `Compare` | `scenario_compare` as a whole: nothing in it awaits |
| `ScoreNode`, `EnrichNode` | a run of the engine: extract and score, then enrich and format; between them the files may change |
| `EngineFails`, `NotUnderstood` | DuckDB or a missing file; an engine that asks back where a card is expected |
| `StoreAndEmit`, `StoreFails`, `Return` | the end of a stream, with the store outside the `try`, or of a JSON answer |
| `Leave` | the client closes the stream |
| `Taken` | the next request |

What a language model reads in a question is `Model(question)`, any of a set of
readings; the set has readings the gate must refuse. `steady` is a history: the data
did not change during the request.

## 3. Runs

| Run | Instance | Question |
|---|---|---|
| `chat_overlap` | 3 turns, 2 sessions, 2 users | whatever overlaps, fails or is cut: order, uniqueness and ownership of what is stored; frozen deletes; only overlaps lose |
| `chat_one_tab` | 3 turns, 2 sessions, one tab | `ChatSessions` implements `ChatLog`; every accepted turn ends |
| `chat_lost` | 2 turns, 1 session | *violated*: a stored answer disappears |
| `feedback_lock` | 2 clicks, 1 key, 2 connections of which the pool keeps 1 | what the lock still gives; a click inside comes out |
| `feedback_twice` | 2 clicks, pool of 2 | *violated*: two assessments |
| `faq_race` | 4 calls, 2 keys, 2 answers, 1 source list, 3 deployments with 2 stamps | duplicates only by a race, rejections final, answers with the current stamp only, calls that are alone are atomic |
| `faq_silent` | 3 calls, 1 key | *violated*: published text changes without a promote |
| `workflow_turn` | one turn, every reply and failure, filters over two tables | asks or queries, on filters that select something, blame and corrections, never silent |
| `scenario_verify` | 2 runs, 1 verify, 2 levels, 2 areas, 2 tables and CBS with 2 versions each, 2 library versions | what a clean verdict, a drift warning and a false alarm are |
| `scenario_alarm` | 1 run, 1 verify, 2 data versions | *violated*: nothing changed, and the note says that something did |
| `chatbot_turn` | every kind of request, 3 cells, 3 data sets | the gate, the analyses, the ends of a stream |
| `explain_card` | the same | *violated*: an explanation of a card that cites everything but the card |

Why these bounds are enough. Ids are only compared, so a set needs as many members
as a property speaks of, plus one that disturbs. A lost update needs two turns; a
third is the bystander whose entry the loser carries away, and the second session
and user are what an access check could confuse. On the lock, two
clicks meet, and one connection that is kept and one that is closed are enough to nest, to
unlock elsewhere, to lose a lock at the commit and to have every connection taken;
`Elsewhere` takes and returns both. (No symmetry is declared there, because the run
checks liveness.) For the FAQ store two calls
race, one prepared the entry and one moderates; two keys tell the entry from its
neighbour, and of three deployments two share a stamp.

A turn of the workflow is acyclic. Its database has two municipalities with names and
codes, two kinds of housing, an empty cell and a second table that knows only one of
the municipalities: enough for a filter that fails alone, two that fail together and a
third that is innocent, for LIKE, for an operator that is not checked, for a column
nobody validates and for a filter without a table. Any two filters come together, and
any three or four of a core of two names, a code and a kind; two lists are there for
what they taught: a filter that is named twice, and five filters of which the locations
agree and the others do not, although the query first comes up empty at a location.
Origins come in lists of up to two.

A comparison of the library needs two runs, a verify speaks of one card and disturbs
nobody. Two versions of a table have a change at any one moment between scoring and the
answer; with two tables one can move while the other is missing from the versions, and the
CBS file moves beside them. On the first CBS file of `AllShows` the two universes have the
same outcome, so that a recipe's base may go unnoticed by `matches`; otherwise everything
that differs shows. `MaxSingles` keeps single runs from being as many as runs;
`MaxVersion` and `MaxLibrary` cap the counters of `ScenarioLibrary`, in the guards of
`Refresh` and `Restart`.

`chatbot_turn` has three cells, whose scores lie around both thresholds depending on
preset, homes and weights, so that each verdict of a cell and of an area occurs; three
data sets of which a request sees at most two (`Refresh` once per request:
files are replaced seldom beside the length of a request); every refusal of the recipes and the stacks, and those of the
chat's gate that a reading can run into; presets named in the wrong order, three of them,
and unknown ones; a stack with up to three projects and two commitments, and one
of nine that is refused; all pairs of the sides of a comparison, one of which has
weights whose factors' rounding adds up beyond that of the score. The questions, recipes
and stacks are the definitions of `MCScenarioRequests`. The run has about 80 000 states.

The numbers of turns, clicks and calls are the only bounds on the other counters
(`hits`, `depth`, `asked`): no guard caps those.

`CHECK_DEADLOCK FALSE` is in the configurations that make a bounded number of requests
and then rightly stop. `chatbot_turn` and `explain_card` serve requests for ever and
check that they never get stuck.

### Fairness

`chat_one_tab` needs `WF_vars(Serve(t))`, that is, a coroutine that can go on is
resumed. asyncio serves its ready queue in order, and every call the turn makes is bounded
in time (the model client's, PDOK's and the database's timeouts). Nothing is assumed of clients, of the
model producing content, of deletes, cancellations or restarts.

`feedback_lock` needs `WF_vars(Serve(r) \/ Trouble(r))` of a click inside: its next
statement, its MLflow call and its place in the pool's queue answer or fail (the pool's
with a timeout of 30 seconds). Nothing is assumed of `pg_advisory_lock`, which has no
timeout, so nothing is claimed of a click that waits for it, nor of other requests
returning their connections. All other runs check safety without fairness.

## 4. What the runs show

Holds, although no lock protects the array: a stored answer always stands directly
behind its own question (`AnswerFollowsQuestion`), is stored once
(`NoMessageTwice`) and belongs to the owner of its session (`OnlyOwnTurns`).
The reason is that the copy a turn saves always ends in its own question. The
price is that a turn may drop another's entries, and `AloneLosesNothing` says that
this takes an overlap.

Holds of the lock, although the handler may unlock on the wrong connection: unless the
pool closed or lost a connection that a click inside had locked on (`stripped`), everybody
inside is covered by a lock (`InsideIsCovered`) and two clicks meet only by nesting on one
connection (`TogetherByNesting`). The premise is a real one: with more than five
connections in use, the commit of a click closes an overflow connection, Postgres frees
its lock, and the next click walks in. As a click keeps its connection from the lock
to its commit, the Postgres half stays serial in any case (`RowIsAsRead`): it is
MLflow where two clicks collide. `InsideEnds` says that a click inside comes out, although
it needs a connection twice more while those who wait for its lock may hold every one: a
refresh or release that finds none in 30 seconds raises, and the click is over, its lock
left behind or not. A lock does stay behind, when the release runs on another connection,
on none, or on a failed session; then the next click waits for as long as the pool keeps
that connection, and no property denies it.

Holds of the SQL store: duplicates only by a race, rejections are final once no
older promote is under way, and calls without company behave as the in-memory
ones (`AloneIsAtomic`). What GET `/faqs` serves was answered on a deployment with the
stamp of the running one, or by calls that overlapped (`ServedIsCurrent`). That is less
than "current": stamps are shared by deployments that differ in the text of their corpus
(or in code, where there is no git), and it is less than "checked", see finding 3.

Holds of the workflow: `SqlOnSoundFilters`, a query runs on categorical filters that
together select something, although they are validated in two phases, corrected at
most once, and origins apart from filters; what is excepted is a turn that told of an
error in one of these two nodes. Of places it speaks only while the intent is that of
`check_intent`: a correction goes from the validation straight to SQL, with whatever place
it holds (`validate_filters.py:90`). `BlameSparesLocations`: a municipality that exists is
never blamed for what other columns ask of it, only for a clash among some locations of
its own table. "Some" is all there is: with two names and a code, a location may be
blamed where it clashes with one name although the other name, further on in the list,
would let all of them through (filters of one column are alternatives).
`CorrectionMovesOn`: every candidate offered for the filter that broke a combination
mends it, or moves the blame further on. It speaks of the first place at which that
filter is named: `collect_invalid_filters` breaks off there, and a correction that
changed a later occurrence would settle nothing.

Holds of `verify`: a clean verdict means that the lever of the card gives the stored class
and average on the tables as they are at the answer (`CleanIsTrue`), although the rerun is
not given all of the recipe and may have run on older files. It is a near thing: it needs
the comparison of `assumptions_used` in the hash *and* the drift check, because the files
may have changed after the rerun. And it has premises, each for something that verify
cannot see: every table had a version on both sides (`Seeing`), the base is the one that
follows from the params (`SameBase`), the CBS file did not move under the rerun, the lever
is what the hash tells apart, and the pin is where it landed in the rerun. The other way
round, a card whose recipe is all in its params verifies clean when no file moved and its
pin landed where it did (`PlainVerifiesClean`); when PDOK answers otherwise it may not.
A drift warning is never false, and is dated from storage, not from scoring
(`DriftDatesFromStorage`): a change in between shows as a result that differs without
drift, and a change of the CBS file is never one. And assumption drift, which
`docs/onegov2_design_v4_current_build.md:282` says verify reports, never is: a card
lives in the process that computed it, with one `ASSUMPTIONS_VERSION`
(`LibraryNeverDrifts`).

Holds of the analyses: the band runs from mild to harsh and its ends are its extremes
(`WorstIsHarshest`), a comparison from the chat goes from mild to harsh in whatever
order the presets were named (`ShockIsHarsher`), a stack is never better than its
parts (`StackOnlyWorsens`), a class grows by what the transitions move into it
(`TransitionsBalance`), the factors add up to the scores up to the rounding
of a score to one decimal and of its four factors to two, together 0.07 point per cell, and
the clamp (`AttributionExplains`), and taking the drought away never adds STOP cells
(`DroughtBufferHelps`). The premises are part of the result:

* `Alike`: the runs of one request are each made from the question, the files and PDOK
  as they then are. `uncertainty.py:8` calls the band "Deterministic"; it is when the
  model reads the question the same way five times and no file moves.
* `SameCells`: the note of a comparison says that both sides are scored on the same H3
  universe (`compare.py:356`); with inline assumptions, each side's own
  `pop_min_built_up` chooses its cells, and then the differences do not add up.
* `WholeRegion`: an intervention is ranked by the difference between the scenario's
  share of STOP cells, in the scenario's area and base, and its own, in the whole
  salinity region (`workflow.py:165-169`). For a pin, an intake or a housing scenario
  these are different sets of cells.

Holds of the chatbot: what runs is what was shown and passed the gate, also when the
model reads the question otherwise the second time, and no recipe gets anything past
it that the gate would refuse (`NothingRunsUnchecked`); no stream is a dead end
(`NoDeadEnd`), but for a store that raises outside the `try`, which breaks it off.

Disagreements between the code and what it says of itself (`findings`):

1. `routers/chat.py:279`: two turns that overlap on a session drop each other's
   entries, stored answers included.
2. `routers/feedback.py:140`: the advisory lock stays on a connection that the
   commit gave back; two clicks can be inside and log two assessments (and the lock is
   gone when the pool closes that connection instead of keeping it). For the same
   reason the unlock may run on another connection, and the lock stays behind.
3. `services/chatbot/faq_cache_sql.py:78`: a repeat replaces published text
   without a promote.
4. `routers/scenario.py:300`: a card with sliders, comparison levers or a recipe's
   base is verified as another scenario and called changed when nothing did.
5. `services/chatbot/service.py:119`: an explanation falls back on the card only when
   nothing else was found, although the comment says it always grounds on it.

Smaller ones, seen while translating and visible in the models but not made runs of:
a place that is not found asks its question and then shows the error of the next node
beside it (`nodes/spatial.py:48`, `ValidateNothing`); a scenario that a question to the
chatbot runs is stored without an audit entry, although `audit.py:3-5` says that every
accountable action writes one.

## 5. What is proved

TLC shows each property on its instance; the theorems below hold for every value of
the constants. Each invariant is shown to be inductive by one step per action.

| Module | Theorems | Assumes |
|---|---|---|
| `ChatSessionsProofs` | `TypeCorrect`, `AnswersFollowQuestions`, `SessionsHoldOwnTurns`, `AloneKeepsAll`, `MessagesAreUnique`, `DeletedStaysDeleted`, `OneTabSeesALog` | `ChatConstants`: `NoUser`, `NoSession` are no members; the last one `OneTab`, that a tab waits for `done` |
| `FeedbackProofs` | `FeedbackTypeCorrect`, `NobodyInsideLosesTheLock`, `OnlyNestingMeets`, `RowsAreAsRead`, `ClicksApartLeaveOneThumb`, `MLflowFollowsTheRow` | `FeedbackConstants`: clicks and connections are finite sets, the pool's size a number |
| `FaqCacheProofs` | `FaqTypeCorrect`, `RejectionsAreFinal`, `DuplicatesTakeARace`, `OnlyCurrentIsServed`, `DistinctStampsServeTheRunning`, `AloneCallsAreAtomic`, `CallsApartSeeOneStore` | `FaqConstants`, `NoEntryIsNone`, `StampConstants`: a deployment has a stamp |
| `ChatWorkflowProofs` | `WorkflowTypeCorrect`, `TurnAsksOrQueries`, `TurnIsNeverSilent`, `QueriesAreSound`, `LocationsAreSpared`, `CorrectionsMoveOn` | `WorkflowConstants`: an intent has two lists of filters, and filling in tables or looking up origins gives another one; `TableOrder` lists the tables; the marker `h3_spatial_filter` is no column of the data |
| `ScenarioLibraryProofs` | `LibraryTypeCorrect`, `CleanVerdictIsTrue`, `NoFalseAlarm`, `DriftIsTrue`, `NoAssumptionDrift` | `LibraryConstants`, `NoCardIsNone`, `OutcomeType`: a score is any function of its scene |
| `FoldingProofs` | lemmas on `Total`, `Only` and induction | nothing |
| `ScoringProofs` | `HarsherIsNeverMilder` | `ScoringConstants`: finitely many cells |
| `ScenarioRequestsProofs` | `TypeCorrect`, `ConfirmedIsRun`, `StreamsEndWell`, `BandIsOrdered`, `ShockNeverMilder`, `StackNeverHelps`, `BufferNeverHurts`, `DiffAddsUp`, `FactorsAddUp` | `RequestConstants`: a finite corpus, at least one citation; `RequestKinds`, `RequestTypes`: a request is what its endpoint takes; `NoneIsNoParams` |

### Chat sessions

* `AnswersFollowQuestions`: `AnswerFollowsQuestion` alone is not inductive,
  because a save overwrites the table with a private copy. `OrderInv` asks the
  order of every private copy as well, and that the copy of a generator ends in its
  own question, so appending the answer keeps it (`AppendQuestion`,
  `AppendAnswer`).
* `SessionsHoldOwnTurns`: `OwnInv` asks of every private copy, too, that its
  turns belong to the target, that the target's owner is the caller, that turns
  that have not begun appear nowhere and that a session without owner is empty.
* `AloneKeepsAll`: `CompanyInv` says that the copy of a turn that is alone *is* the
  array of its session. That is the whole content of "the stale copy needs an
  overlap to do harm"; the action property follows, since an append keeps what
  was there.
* `MessagesAreUnique`: `OnceInv` asks it of every private copy, and that what a turn
  still has to add is in no array and no copy yet, of its own or of others.
* `DeletedStaysDeleted`: `DeletedInv` says that a deleted session has an owner, so that
  it cannot be created again; nobody else resolves it, and only a turn in flight writes.
* `OneTabSeesALog` is the refinement of `ChatLog`. `TabInv` says that with one tab at
  most one turn is in flight, and that it has no company; so by `CompanyInv` the copy
  it writes back is the table, and writing copy plus question, or copy plus answer, is
  a step of the log (`QuestionIsAsked`, which takes from `OnceInv` that the question is
  new; `AnswerIsReply`, which takes from `OrderInv` that it stands behind its
  question). No other step touches `messages`, a delete and a restart included.

### Feedback

`TypeInv` is `TypeOK` with three parts: an open connection is idle or in use, and by
one click only (`PoolInv`); a row has a rating (`RowInv`); a lock that is held is held at
least once (`LockInv`). `CoverInv` then is the argument for the lock, for the keys that
were not stripped of a connection: every key is locked on the connection of each click
inside, at least once per click. An unlock on another connection takes nothing away, one
on the same takes one of as many as there are clicks, and the connections that the pool
closes or loses are those that `stripped` remembers. `HoldInv` needs no such premise: up to
its commit a click *has* the connection it locked on, which holds the lock unless it is
broken. So `RowsAreAsRead` follows, since two clicks with a row in hand would have the same
connection checked out (`OneReader`). `AloneInv`, `ThumbInv` and `Found` are for keys
whose clicks never met: what the search found is still what the trace has; and
`FollowInv` says for each stage of a click how far row and assessment agree. Counting
needs the finiteness of the two sets.

### FAQ store

`Inv` says that a call makes the entry of its own id or none, that a call between
SELECT and commit holds the plan its method made of what it read (`Plan`), and that for
a call that is alone what it read is what is stored (`Fits`), from which
`AloneCallsAreAtomic` is one commit unfolded: each method does what `FaqStore` does.
`CallsApartSeeOneStore` makes a refinement of it: while no two calls on one key overlap,
the table is a run of `FaqStore`, restarts and overlaps on different keys included.
`KeyInv` and `PairInv` follow a pair of entries from the second SELECT on;
`ToldInv` says of every entry that some call asked for just what it holds, on a deployment
with the entry's stamp, or an overlap or a rejection explains it.
`DistinctStampsServeTheRunning` is what is left of "current" where no two deployments
share a stamp.

### Workflow

`AskInv` is what is settled when a node is next: up to the validation nothing has been
queried; behind a question, the edge goes to the end; where the graph goes on after a
question, the intent is `None` and the next node cannot do anything but raise. `SpokeInv`
is why a turn is not silent: each way to the end passes a node that said something.

`QueriesAreSound` needs `SoundInv`: in a turn that told of no error in the two nodes,
places are gone once the origins were looked up (`NoPlaces`), and whatever the validation
let through, at once or after a correction, is `Sound` (`Settled`); a corrected intent may
hold places, of which nothing is claimed. Of the intent itself it says that
its categorical filters have their tables before they are validated (`Filled`); origins
and corrections may lack theirs, and of such a filter, which the code takes for valid,
nothing is claimed. That an empty list of blame means a selection that is not empty is the algorithm's own
theorem: the first phase finds nothing, and the second adds the filters one by one, so
its last prefix is all of them (`InvalidInCombination` over `Prefix`, for lists of any
length).

`LocationsAreSpared`: a location that occurs is not blamed by itself, as its scope is
empty; and as `SortByHierarchy` puts the locations first, the prefix that came up empty
at it has locations only, of which those of its table are the clash (`BreakingTable`,
`LocationsClash`). `CorrectionsMoveOn` follows a list in which one filter is replaced by
a candidate (`Heals`). The candidate comes from a row that satisfies everything in front
(`CandidateFits`), so the new filter is valid by itself, in whatever scope
(`SortedScope`, `HealedIsValid`), and leaves that row to the combination
(`HealedCombines`); what stands before it is as it was, and a filter that is named twice
cannot break the combination a second time (`OnceIsEnough`). Both are about lists of any
length, and rest on what `FoldingProofs` says of `Only`.

### Scenario library

`CleanVerdictIsTrue`, `NoFalseAlarm`, `DriftIsTrue` and `NoAssumptionDrift`
follow from one invariant, `Inv`. `RunInv` says that a stored card is *genuine*:
its result is the score of its whole recipe on the scene `scoredOn`, its stamp
is no older, table by table where it has one, its library is the running one. `CheckInv`
says that the card a verify holds stays genuine, since a restart ends the verify too, and
that the rerun was scored on *some* tables between the stamp and now. At the answer,
no drift means that stamp and data coincide where both have a version, which squeezes the
rerun's tables: that is why a rerun on older files cannot pass for one on today's. No such
argument exists for the CBS file, of which verify knows nothing: the theorem has to be
told that it did not move under the rerun. `TypeInv` adds that what is under
way has its recipe, result or card, and that the runs of a comparison end together.

### Scoring

`HarsherIsNeverMilder`: between two sets of assumptions that agree on weights,
thresholds and the choice of cells, the one that is drier, grows faster and has more
homes has the same universe, no fewer STOP cells, STOP wherever the other has it and GO
nowhere else. The argument goes from integer division and `LEAST` (`DivMono`, `MinMono`)
to a term, a score, the class of a cell and the count of an area. It is what
`BandIsOrdered`, `ShockNeverMilder` and `StackNeverHelps` rest on. `Sane` is what the
presets and the whitelists let through: nothing is negative.

### Requests

`IInv` has three parts. `FlowInv` says which parts of a request there are at which
stage: jobs exactly while the engine works, runs at the end, an answer only after it.
`GateInv` says of a stream that what it still has to run, what is being scored and what
it has run are all `confirmed`, and that `confirmed` is `Sound`: it passes
`validate_params`. A plan is sound because it was validated (`SureReading`: it is run
as if it were certain, which can only help); a recipe because `validate_recipe` is at
least as strict (`RecipesPassTheGate`), for which both chains of early returns are
turned into conjunctions (`FirstOfOk`, `GateOk`, `RecipeOk`). `GateInv` is also why a
stream cannot end in the 500 of `NotUnderstood`: its jobs have parameters. `EndInv` is
the promise of the end; for an answer it rests on `AnswersStand`, that whatever is
found, in whatever order, an answer has no citations exactly when it asks back.

### Analyses

The answer of an analysis is given when its runs are done, so the invariant (`RunInv`)
has to know then what each run was. `JobInv`: what was admitted, still has to run, runs
and has run is, in this order, the list of jobs of the request. `ScoreInv`: a run that
was made while no file moved is the score of its job on the data of the request.
`ReturnInv`: an answer is what the code makes of such runs. From there on
each property is about operators:

* `BandIsOrdered`, `ShockNeverMilder`: the presets are ordered lever by lever, so their
  assumptions satisfy the hypothesis of monotonicity, for areas around a pin, an
  intake's zone and the whole region alike. It is also shown that the extremes which
  the code finds by ranking five verdicts are those of the two ends.
* `StackNeverHelps`: each project's homes are part of the stack's total
  (`TotalIsMonotone`), and the gate bounds what can be stacked.
* `BufferNeverHurts`: without the drought the same cells of the whole region are scored
  less dry; a count of STOP cells can only fall, and so can its share.
* `DiffAddsUp`, `FactorsAddUp`: two sums over the same cells, one per class change and
  one per class (`TotalAddsUp`), and the errors of rounding four factors and a score, cell
  by cell, with the clamp named as the only other difference.

`FoldingProofs` has the tools. The sum over a finite set is the community module's
recursive fold; that it is well defined, adds up, is monotone and is a multiplication
for a constant is proved by induction on the finite set, and the induction itself from
the least number of a non-empty set of naturals (`LeastNumber`, `NatInduct`), since the
library's induction theorem cannot be instantiated here. `Only` is treated the same
way: what it keeps (`OnlyRange`), in which order (`OnlyIsKept`, `OnlyFront`,
`OnlyBack`), and when it is the identity (`OnlyAll`).

### Only model-checked

* Liveness (`EveryTurnEnds`, `InsideEnds`): fairness and `ENABLED` are beyond the prover.

Every other property of a passing run is a theorem. That the premises of the implications
occur is TLC's to show: each property has a mutant of the code that violates it in its own
run.

## 6. Assumptions about what is not in this repository

* Postgres: a commit is atomic and durable; advisory locks as above; an UPDATE of
  a row that is gone matches no row.
* SQLAlchemy: an UPDATE holds the changed columns; `expire_on_commit=False`
  (`database.py:19`), so objects keep what they read; the default pool as above, whose
  numbers are constants; a session whose statement failed takes no further one until it is
  rolled back.
* MLflow: an assessment is logged, updated or deleted atomically, or the call fails.
* The file system: replacing a data file gives it a newer mtime. The versions of all tables
  are read at one moment: nothing moves while `_dataset_versions` runs.
* Deployments: code and corpus change only with a restart of the process.
* DuckDB: one statement sees one state of a parquet file.
* PDOK: it may answer or not, per call. In `ScenarioRequests` a place it knows is always in
  the same spot; in `ScenarioLibrary` each run's pin may land anywhere in `Areas`.
* The h3 files: no column of the data is called `h3_spatial_filter`, the name under which
  the workflow keeps a coordinate among the filters.
* The extraction returns no `assumption_overrides`: its schema has no such field, and
  only a recipe or a client's sliders set them (`Read`).
* Inline assumptions of a comparison are numbers with a positive demand reference
  (`Measured`), as the client sends them: its sliders have the dryness and the weights.
  The endpoint itself checks nothing: with a reference of zero the SQL divides by zero,
  which is not modelled.
* The language model answers anything of the declared shape or raises, corrections
  included.

## 7. Not modelled, and why

* *Chat client* (`useChat.ts`): only its guard on sending (`MaySend`) is. Its stream
  handler, which writes into the last message shown, whichever session that belongs to
  by then, is listed as a hazard without a property.
* Rendering, formatting, PDF, map layers, prompts and their wording, narratives.
* The order BM25 gives and the texts of the corpus: pure text statistics over static
  data; the answers are checked for every order.
* The audit trail: append-only, best effort, in memory by default; nothing reads it back
  into a decision.
* Read-only endpoints, the query endpoint, the data dictionary and the data sources:
  built once at start or one statement per request.
* The standalone calculators (calibration, chloride, demand, intake, feasibility,
  interventions, fixtures): closed formulas of an earlier design which the engine does
  not call.
* Migrations; MLflow tracing other than the assessments.
* Time: `urlopen` blocks the event loop in `spatial.py`, which delays others and
  changes no state.

## 8. Plan

Done: chat sessions, feedback, FAQ store, workflow and scenario library; filter
validation inside the workflow; scoring, the analyses, the gate and the answers in one
state machine of requests; all of their safety properties proved, with the refinements
of `ChatLog` and `FaqStore`.

Next, in this order:

1. `ChatClient`: one tab's stream handlers against `loadSession`, `stop` and the
   optimistic thumb, composed with the promise of `ChatSessions`.
2. The two stores of a vote: an abstract thumb per user and answer, which `Feedback`
   implements as long as clicks do not meet (`MLflowFollows` has the quiet states only).

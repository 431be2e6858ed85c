----------------------------- MODULE ChatWorkflow -----------------------------
(***************************************************************************)
(* The descriptive LangGraph workflow (services/workflow.py and its nodes) *)
(* for one turn, with what the generator in routers/chat.py stores of the  *)
(* events it streams.  Every node runs under BaseNode.__call__: whatever   *)
(* it raises becomes an `error` event and the node's fallback update, and  *)
(* the graph goes on.  The language model, PDOK and DuckDB are external:   *)
(* they answer anything of the right shape, or raise.                      *)
(*                                                                         *)
(* Filters are checked by FilterValidation against its small database.  An *)
(* origin is a filter, too: on a column of the data, or on the pseudo      *)
(* column h3_spatial_filter, with a place name or a coordinate.            *)
(***************************************************************************)
EXTENDS FilterValidation

CONSTANTS
    NoIntent,       \* intent is None
    Intents,        \* the intents a reply of the model can hold
    Categorical,    \* pairs of table and column the dictionary calls categorical
    TableOrder      \* the tables, as the dictionary lists them

Steps == {"check_intent", "resolve_spatial", "validate_filters", "generate_sql",
          "execute_query", "plan_visualization", "describe_results", "cite_sources"}

\* The value "LATLON" stands for any text that starts with LATLON:.
IsSpatial(f) == f.column = "h3_spatial_filter"
IsPlace(f)   == IsSpatial(f) /\ f.value # "LATLON"

Question == {"text", "empty", "none"}       \* follow_up_question: "" and None are possible
Analysis == [clear : BOOLEAN, intent : Intents \cup {NoIntent}, question : Question]

\* IntentNode fills in a table where the model left it blank: the first that has the column.
WithTable(f) ==
    LET has == {k \in DOMAIN TableOrder : f.column \in Columns[TableOrder[k]]}
    IN  IF IsSpatial(f) \/ f.table # NoTable \/ has = {} THEN f
        ELSE [f EXCEPT !.table = TableOrder[CHOOSE k \in has : \A j \in has : k <= j]]

FillTables(i) == [i EXCEPT !.filters = [k \in DOMAIN @ |-> WithTable(@[k])]]

\* SpatialNode looks up every origin, also coordinates and columns, and overwrites
\* its value: a column filter then compares a column with a LATLON text.
LookedUp(i) ==
    [i EXCEPT !.origins = [k \in DOMAIN @ |-> [@[k] EXCEPT !.value = "LATLON"]]]

ASSUME WorkflowConstants ==
    /\ NoIntent \notin Intents
    /\ TableOrder \in Seq(Tables) /\ Range(TableOrder) = Tables
    /\ \A i \in Intents : FillTables(i) \in Intents /\ LookedUp(i) \in Intents
    /\ \A p \in Categorical : p[1] \in Tables /\ p[2] \in Columns[p[1]]
    /\ \A t \in Tables : "h3_spatial_filter" \notin Columns[t]
    /\ Intents \subseteq [filters : Seq(Filter), origins : Seq(Filter)]

Nothing == [clear |-> FALSE, intent |-> NoIntent, question |-> "none"]  \* intent_analysis is None

VARIABLES
    node,           \* the node to run next, "end", or "aborted" by the generator
    analysis,       \* intent_analysis
    needsSpatial,   \* needs_spatial_resolution
    sql,            \* sql_query is a non-empty string
    result,         \* query_result
    planned,        \* map_plan is not None
    explanation,    \* "none", "text" or "empty"
    stored,         \* what chat.py keeps: assistant_content, assistant_sql, map config
    asked,          \* follow-up questions the client was shown
    errors,         \* steps that sent an `error` event ("chat": the generator itself)
    failed,         \* history: steps in which an external call raised
    madeBy          \* history: the node whose model call gave the intent

vars == <<node, analysis, needsSpatial, sql, result, planned, explanation, stored,
          asked, errors, failed, madeBy>>
output == <<sql, result, planned, explanation>>

TypeOK ==
    /\ node         \in Steps \cup {"end", "aborted"}
    /\ analysis     \in Analysis
    /\ needsSpatial \in BOOLEAN
    /\ sql          \in BOOLEAN
    /\ result       \in {"none", "error", "empty", "rows"}
    /\ planned      \in BOOLEAN
    /\ explanation  \in {"none", "text", "empty"}
    /\ stored       \in SUBSET {"text", "sql", "map"}
    /\ asked        \in Nat
    /\ errors       \in SUBSET (Steps \cup {"chat"})
    /\ failed       \in SUBSET Steps
    /\ madeBy       \in {"check_intent", "validate_filters"}
    /\ node = "resolve_spatial" => needsSpatial /\ analysis.intent # NoIntent
    /\ node = "generate_sql" => analysis.clear

Init ==
    /\ node = "check_intent"
    /\ analysis = Nothing /\ needsSpatial = FALSE
    /\ sql = FALSE /\ result = "none" /\ planned = FALSE /\ explanation = "none"
    /\ stored = {} /\ asked = 0 /\ errors = {} /\ failed = {} /\ madeBy = "check_intent"

-------------------------------------------------------------------------------
(***************************************************************************)
(* BaseNode.__call__ and the generator's handling of follow_up_text        *)
(***************************************************************************)

\* Nothing to tell: the node returns its update.
Return(next) == node' = next /\ UNCHANGED <<stored, asked, errors, failed>>

\* run() raises by itself, or because an external call raised.
Raise(next) ==
    /\ errors' = errors \cup {node}
    /\ node' = next
    /\ UNCHANGED <<stored, asked, failed>>

CallFails(next) ==
    /\ errors' = errors \cup {node}
    /\ failed' = failed \cup {node}
    /\ node' = next
    /\ UNCHANGED <<stored, asked>>

\* `assistant_content += None` raises in the generator, which gives up the workflow.
Ask(question, next) ==
    CASE question = "text"  -> /\ asked' = asked + 1 /\ stored' = stored \cup {"text"}
                               /\ node' = next /\ UNCHANGED <<errors, failed>>
      [] question = "empty" -> Return(next)
      [] question = "none"  -> /\ errors' = errors \cup {"chat"} /\ node' = "aborted"
                               /\ UNCHANGED <<stored, asked, failed>>

(***************************************************************************)
(* check_intent                                                            *)
(***************************************************************************)

NeedsSpatial(a) ==
    a.clear /\ a.intent # NoIntent /\ \E f \in Range(a.intent.origins) : IsPlace(f)

\* Faulty variant: any spatial query is resolved.
RouteByOrigins(a) ==
    IF ~a.clear THEN "end"
    ELSE IF a.intent # NoIntent /\ a.intent.origins # <<>> THEN "resolve_spatial"
    ELSE "validate_filters"

RouteAfterIntent(a) ==
    IF ~a.clear THEN "end"
    ELSE IF NeedsSpatial(a) THEN "resolve_spatial" ELSE "validate_filters"

\* The model's reading of the conversation; an unclear one is asked back, in
\* other words when it was asked before (the loop-break changes nothing else).
CheckIntent ==
    /\ node = "check_intent"
    /\ \E a \in Analysis :
          /\ analysis' = IF a.clear /\ a.intent # NoIntent
                          THEN [a EXCEPT !.intent = FillTables(@)] ELSE a
          /\ needsSpatial' = NeedsSpatial(a)
          /\ IF a.clear THEN Return(RouteAfterIntent(a)) ELSE Ask(a.question, "end")
    /\ UNCHANGED <<output, madeBy>>

CheckIntentFails ==
    /\ node = "check_intent"
    /\ CallFails("end")
    /\ analysis' = Nothing /\ needsSpatial' = FALSE
    /\ UNCHANGED <<output, madeBy>>

(***************************************************************************)
(* resolve_spatial                                                         *)
(***************************************************************************)

ResolveSpatial ==
    /\ node = "resolve_spatial"
    /\ analysis' = [analysis EXCEPT !.intent = LookedUp(@), !.question = "none"]
    /\ needsSpatial' = FALSE
    /\ Return("validate_filters")
    /\ UNCHANGED <<output, madeBy>>

\* PDOK knows no coordinates, or cannot be reached: the turn becomes a question.
NotFound ==
    /\ node = "resolve_spatial"
    /\ analysis' = [clear |-> FALSE, intent |-> NoIntent, question |-> "text"]
    /\ needsSpatial' = FALSE
    /\ Ask("text", "validate_filters")
    /\ UNCHANGED <<output, madeBy>>

\* An answer of PDOK in another shape raises; the intent keeps its place name.
ResolveSpatialFails ==
    /\ node = "resolve_spatial"
    /\ CallFails("validate_filters")
    /\ needsSpatial' = FALSE
    /\ UNCHANGED <<analysis, output, madeBy>>

(***************************************************************************)
(* validate_filters                                                        *)
(***************************************************************************)

\* Faulty variant of the conditional edge.
RouteToSql(a) == "generate_sql"

RouteAfterValidation(a) == IF a.clear THEN "generate_sql" ELSE "end"

IsCategorical(f) ==
    \/ <<f.table, f.column>> \in Categorical
    \/ f.table = NoTable /\ \E p \in Categorical : p[2] = f.column

Categoricals(fs) == Only(fs, {f \in Range(fs) : IsCategorical(f)})

\* Filters and origins are validated apart from each other.
ValidateAll(i) ==
    LET filters == Categoricals(i.filters)
        origins == Categoricals(i.origins)
    IN  [invalid |-> CollectInvalid(filters) \cup CollectInvalid(origins),
         raises  |-> Raises(filters) \/ Raises(origins)]

\* A table of the verdicts: the data do not change during a turn.
Verdict == [i \in Intents |-> ValidateAll(i)]

Valid(i)   == ~Verdict[i].raises /\ Verdict[i].invalid = {}
Invalid(i) == ~Verdict[i].raises /\ Verdict[i].invalid # {}

\* `intent.filters` of an intent that is None, also after NotFound.
ValidateNothing ==
    /\ node = "validate_filters" /\ analysis.intent = NoIntent
    /\ Raise(RouteAfterValidation(analysis))
    /\ UNCHANGED <<analysis, needsSpatial, output, madeBy>>

AllValid ==
    /\ node = "validate_filters" /\ analysis.intent # NoIntent /\ Valid(analysis.intent)
    /\ Return(RouteAfterValidation(analysis))
    /\ UNCHANGED <<analysis, needsSpatial, output, madeBy>>

\* The reply to the correction prompt is any IntentAnalysis.  Only its categorical filters
\* are looked at: places and other filters that it adds, changes or drops pass as they are.
InvalidFilters ==
    node = "validate_filters" /\ analysis.intent # NoIntent /\ Invalid(analysis.intent)

\* The model gives up and asks.
CannotCorrect ==
    /\ InvalidFilters
    /\ \E r \in Analysis :
          ~r.clear /\ analysis' = r /\ Ask(r.question, RouteAfterValidation(r))
    /\ madeBy' = "validate_filters"
    /\ UNCHANGED <<needsSpatial, output>>

\* Faulty variant: the corrected values are not validated again.
CorrectedUnchecked ==
    /\ InvalidFilters
    /\ \E r \in Analysis :
          /\ r.clear /\ r.intent # NoIntent
          /\ analysis' = r
          /\ Return(RouteAfterValidation(r))
    /\ madeBy' = "validate_filters"
    /\ UNCHANGED <<needsSpatial, output>>

Corrected ==
    /\ InvalidFilters
    /\ \E r \in Analysis :
          /\ r.clear /\ r.intent # NoIntent /\ Valid(r.intent)
          /\ analysis' = r
          /\ Return(RouteAfterValidation(r))
    /\ madeBy' = "validate_filters"
    /\ UNCHANGED <<needsSpatial, output>>

\* Still invalid, like the same intent again: a final call, whose reply is made a question
\* in any case.
StillInvalid ==
    /\ InvalidFilters
    /\ \E f \in Analysis :
          LET q == IF f.clear /\ f.question # "text" THEN "text" ELSE f.question
          IN  /\ analysis' = [f EXCEPT !.clear = FALSE, !.question = q]
              /\ Ask(q, RouteAfterValidation(analysis'))
    /\ madeBy' = "validate_filters"
    /\ UNCHANGED <<needsSpatial, output>>

\* A "clear" correction without an intent raises: the invalid intent stays.
CorrectedNothing ==
    /\ InvalidFilters
    /\ Raise(RouteAfterValidation(analysis))
    /\ UNCHANGED <<analysis, needsSpatial, output, madeBy>>

\* The model or DuckDB raises: fallback() leaves the unvalidated intent as it is.
ValidateFails ==
    /\ node = "validate_filters" /\ analysis.intent # NoIntent
    /\ CallFails(RouteAfterValidation(analysis))
    /\ UNCHANGED <<analysis, needsSpatial, output, madeBy>>

(***************************************************************************)
(* generate_sql, execute_query, plan_visualization                         *)
(***************************************************************************)

GenerateSql ==
    /\ node = "generate_sql" /\ analysis.intent # NoIntent
    /\ \/ sql' = TRUE /\ stored' = stored \cup {"sql"}
       \/ sql' = FALSE /\ UNCHANGED stored
    /\ node' = "execute_query"
    /\ UNCHANGED <<analysis, needsSpatial, result, planned, explanation, asked, errors, failed,
                   madeBy>>

GenerateSqlFails ==
    /\ node = "generate_sql"
    /\ IF analysis.intent = NoIntent THEN Raise("execute_query") ELSE CallFails("execute_query")
    /\ UNCHANGED <<analysis, needsSpatial, output, madeBy>>

\* Without SQL, and when DuckDB raises, the result says so and nothing is sent.
ExecuteQuery ==
    /\ node = "execute_query"
    /\ result' \in IF sql THEN {"error", "empty", "rows"} ELSE {"error"}
    /\ Return("plan_visualization")
    /\ UNCHANGED <<analysis, needsSpatial, sql, planned, explanation, madeBy>>

PlanVisualization ==
    /\ node = "plan_visualization"
    /\ IF result = "rows"
       THEN planned' = TRUE /\ stored' = stored \cup {"map"}
       ELSE UNCHANGED <<planned, stored>>
    /\ node' = "describe_results"
    /\ UNCHANGED <<analysis, needsSpatial, sql, result, explanation, asked, errors, failed, madeBy>>

PlanVisualizationFails ==
    /\ node = "plan_visualization" /\ result = "rows"
    /\ CallFails("describe_results")
    /\ UNCHANGED <<analysis, needsSpatial, output, madeBy>>

(***************************************************************************)
(* describe_results, cite_sources                                          *)
(***************************************************************************)

\* Faulty variant: only a result with rows is described.
DescribeRowsOnly ==
    /\ node = "describe_results"
    /\ explanation' \in IF result = "rows" THEN {"text", "empty"} ELSE {"none"}
    /\ stored' = IF explanation' = "text" THEN stored \cup {"text"} ELSE stored
    /\ node' = "cite_sources"
    /\ UNCHANGED <<analysis, needsSpatial, sql, result, planned, asked, errors, failed, madeBy>>

\* "Always runs": errors and empty results are explained too.
DescribeResults ==
    /\ node = "describe_results" /\ analysis.intent # NoIntent
    /\ explanation' \in {"text", "empty"}
    /\ stored' = IF explanation' = "text" THEN stored \cup {"text"} ELSE stored
    /\ node' = "cite_sources"
    /\ UNCHANGED <<analysis, needsSpatial, sql, result, planned, asked, errors, failed, madeBy>>

\* The stream breaks off, perhaps after some text; or there is no intent.
DescribeResultsFails ==
    /\ node = "describe_results"
    /\ node' = "cite_sources"
    /\ errors' = errors \cup {node}
    /\ \/ analysis.intent = NoIntent /\ UNCHANGED <<stored, failed>>
       \/ /\ analysis.intent # NoIntent
          /\ failed' = failed \cup {node}
          /\ stored' \in {stored, stored \cup {"text"}}
    /\ UNCHANGED <<analysis, needsSpatial, output, asked, madeBy>>

\* Sources of the tables in the SQL; what it raises is told like any error.
CiteSources ==
    /\ node = "cite_sources"
    /\ Return("end") \/ CallFails("end")
    /\ UNCHANGED <<analysis, needsSpatial, output, madeBy>>

Next ==
    \/ CheckIntent \/ CheckIntentFails
    \/ ResolveSpatial \/ NotFound \/ ResolveSpatialFails
    \/ ValidateNothing \/ AllValid \/ CannotCorrect \/ Corrected \/ StillInvalid
    \/ CorrectedNothing \/ ValidateFails
    \/ GenerateSql \/ GenerateSqlFails \/ ExecuteQuery
    \/ PlanVisualization \/ PlanVisualizationFails
    \/ DescribeResults \/ DescribeResultsFails \/ CiteSources

Spec == Init /\ [][Next]_vars

-------------------------------------------------------------------------------
(***************************************************************************)
(* Properties                                                              *)
(***************************************************************************)

\* A turn either asks back or queries, never both, and asks at most once: the
\* route after each node has to look at is_clear for that.
QuestionInsteadOfSql ==
    asked <= 1 /\ (asked = 1 => ~sql /\ result = "none")

Checkable(fs) ==
    {f \in Range(fs) : <<f.table, f.column>> \in Categorical /\ f.op # "IS NOT NULL"}

\* Some row of every table they name satisfies all its filters: one per column at least.
Selective(fs) ==
    \A t \in {f.table : f \in fs} : \E row \in Data[t] :
        \A c \in {f.column : f \in {g \in fs : g.table = t}} :
            \E f \in fs : f.table = t /\ f.column = c /\ Selects(f, row)

\* A query only runs on categorical filters that together select something, unless the
\* user was told that resolving or validating went wrong: neither the routes nor the two
\* rounds of correction let an empty combination through (validate_filters.py:63-91).
\* Nor does it run on a place that nobody looked up, if it is on the intent of
\* check_intent; the place of a corrected intent is not looked up any more.
SqlOnSoundFilters ==
    sql /\ errors \cap {"resolve_spatial", "validate_filters"} = {} =>
        /\ Selective(Checkable(analysis.intent.filters))
        /\ Selective(Checkable(analysis.intent.origins))
        /\ madeBy = "check_intent" =>
               \A f \in Range(analysis.intent.origins) : ~IsPlace(f)

BeingValidated == node = "validate_filters" /\ analysis.intent # NoIntent

\* "Parent filters must validate before children" (filter_validation.py:41): a
\* location that occurs in its table is never blamed for what other columns ask
\* of it, only when it clashes with other location filters of that table.  That all of
\* them clash is not said: another name of the same column may be asked for further on.
BlameSparesLocations ==
    BeingValidated =>
        LET fs == analysis.intent.filters
        IN  \A b \in Verdict[analysis.intent].invalid :
                IsLocation(b.filter) /\ b.filter \in Range(fs) /\ ValueExists(b.filter, {}) =>
                    \/ \E clash \in SUBSET {f \in Checkable(fs) : IsLocation(f)
                                                            /\ f.table = b.filter.table} :
                          b.filter \in clash /\ ~Selective(clash)
                    \/ b.filter \in Range(analysis.intent.origins)

\* A combination is repaired from left to right: whichever candidate takes the place
\* of the filter that broke it ("Only use values from the candidate lists"), the
\* next validation is content or blames a filter further on, so that a correction
\* neither has to come back to what it settled nor is offered what cannot work.  A
\* filter that is named twice broke the combination where it was first named.
CorrectionMovesOn ==
    BeingValidated =>
        LET s == SortByHierarchy(Validatable(Categoricals(analysis.intent.filters)))
            conflict == IF IndividuallyInvalid(s) = {} THEN InvalidInCombination(s) ELSE {}
        IN  \A b \in conflict : \A k \in DOMAIN s :
                s[k] = b.filter /\ b.filter \notin Prefix(s, k - 1) =>
                    \A v \in Candidates(b.filter, b.scope) :
                        LET healed == [s EXCEPT ![k].value = v, ![k].op = "="]
                        IN  \A next \in CollectInvalid(healed) :
                                \A j \in DOMAIN s : healed[j] = next.filter => j > k

\* Whatever goes wrong on the way, a finished turn has said something: text, or
\* an error; only a model that answers with an empty text can make it silent.
NeverSilent ==
    node \in {"end", "aborted"} =>
        "text" \in stored \/ errors # {} \/ explanation = "empty" \/ analysis.question = "empty"
===============================================================================

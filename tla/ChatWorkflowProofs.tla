--------------------------- MODULE ChatWorkflowProofs ---------------------------
(***************************************************************************)
(* Theorems about ChatWorkflow, for any dictionary, database, filters and  *)
(* intents: first the turn, then the filters that are validated in it.     *)
(***************************************************************************)
EXTENDS ChatWorkflow, FoldingProofs

\* Something to show: text, an error, or an answer of the model that is empty.
Spoke ==
    "text" \in stored \/ errors # {} \/ explanation = "empty" \/ analysis.question = "empty"

\* What is settled when a node is the next to run.
AskInv ==
    /\ asked \in {0, 1}
    /\ node \in {"check_intent", "resolve_spatial", "validate_filters", "generate_sql"} =>
          ~sql /\ result = "none"
    /\ node \notin {"validate_filters", "end", "aborted"} => asked = 0
    /\ asked = 1 => ~sql /\ result = "none"
    /\ node = "resolve_spatial" => analysis.clear
    /\ node = "validate_filters" =>
          IF analysis.clear THEN asked = 0 ELSE analysis.intent = NoIntent /\ "text" \in stored

SpokeInv == node \in {"cite_sources", "end", "aborted"} => Spoke

Inv == TypeOK /\ AskInv /\ SpokeInv

LEMMA WorkflowInit == Init => Inv
<1>1. Nothing \in Analysis
      BY DEF Nothing, Analysis, Question
<1>2. Init => TypeOK
      <2>1. Init => /\ node = "check_intent" /\ madeBy = "check_intent"
                    /\ analysis \in Analysis /\ result = "none" /\ explanation = "none"
                    /\ stored = {} /\ errors = {} /\ failed = {}
            BY <1>1 DEF Init
      <2>2. Init => needsSpatial \in BOOLEAN /\ sql \in BOOLEAN /\ planned \in BOOLEAN
            BY Zenon DEF Init
      <2>3. Init => asked \in Nat
            BY DEF Init
      <2> QED
            BY <2>1, <2>2, <2>3 DEF TypeOK, Steps
<1>3. Init => AskInv /\ SpokeInv
      BY DEF Init, AskInv, SpokeInv
<1> QED
      BY <1>2, <1>3 DEF Inv

\* The turn's own state after a step that sends a follow-up question.
LEMMA Asking ==
    ASSUME Inv, asked = 0, NEW q \in Question, NEW next, Ask(q, next)
    PROVE  /\ asked' \in {0, 1} /\ stored' \in SUBSET {"text", "sql", "map"}
           /\ errors' \in SUBSET (Steps \cup {"chat"}) /\ failed' = failed
           /\ node' \in {next, "aborted"}
           /\ q = "text" => node' = next /\ "text" \in stored'
           /\ q = "empty" => node' = next /\ asked' = asked
           /\ q = "none" => errors' # {}
<1>1. CASE q = "text"
      BY <1>1 DEF Ask, Inv, TypeOK
<1>2. CASE q = "empty"
      BY <1>2 DEF Ask, Return, Inv, TypeOK
<1>3. CASE q = "none"
      BY <1>3 DEF Ask, Inv, TypeOK
<1> QED
      BY <1>1, <1>2, <1>3 DEF Question

\* The steps that leave an error behind and go on.
LEMMA Raising ==
    ASSUME Inv, node \in Steps, NEW next, Raise(next) \/ CallFails(next)
    PROVE  /\ node' = next /\ stored' = stored /\ asked' = asked
           /\ errors' \in SUBSET (Steps \cup {"chat"}) /\ errors' # {}
           /\ failed' \in SUBSET Steps
BY DEF Raise, CallFails, Inv, TypeOK

LEMMA IntentStep == ASSUME Inv, CheckIntent PROVE Inv'
<1>1. PICK a \in Analysis :
          /\ analysis' = IF a.clear /\ a.intent # NoIntent
                          THEN [a EXCEPT !.intent = FillTables(@)] ELSE a
          /\ needsSpatial' = NeedsSpatial(a)
          /\ IF a.clear THEN Return(RouteAfterIntent(a)) ELSE Ask(a.question, "end")
      BY DEF CheckIntent
<1>2. /\ node = "check_intent" /\ UNCHANGED <<sql, result, planned, explanation, madeBy>>
      /\ asked = 0 /\ ~sql /\ result = "none"
      BY DEF CheckIntent, output, Inv, AskInv
<1>3. /\ analysis' \in Analysis /\ analysis'.clear = a.clear /\ analysis'.question = a.question
      /\ a.intent # NoIntent => ~a.clear \/ analysis'.intent # NoIntent
      /\ needsSpatial' \in BOOLEAN
      <2>1. a.clear \in BOOLEAN /\ a.intent \in Intents \cup {NoIntent} /\ a.question \in Question
            BY DEF Analysis
      <2>2. needsSpatial' \in BOOLEAN
            BY <1>1, <2>1 DEF NeedsSpatial
      <2>3. CASE a.clear /\ a.intent # NoIntent
            <3>1. FillTables(a.intent) \in Intents /\ FillTables(a.intent) # NoIntent
                  BY <2>1, <2>3, WorkflowConstants
            <3>2. analysis' = [a EXCEPT !.intent = FillTables(a.intent)]
                  BY <1>1, <2>3
            <3> QED
                  BY <2>1, <2>2, <3>1, <3>2 DEF Analysis
      <2>4. CASE ~(a.clear /\ a.intent # NoIntent)
            BY <1>1, <2>1, <2>2, <2>4
      <2> QED
            BY <2>3, <2>4
<1>4. CASE a.clear
      <2>1. /\ node' = IF NeedsSpatial(a) THEN "resolve_spatial" ELSE "validate_filters"
            /\ UNCHANGED <<stored, asked, errors, failed>>
            BY <1>1, <1>4 DEF Return, RouteAfterIntent
      <2>2. NeedsSpatial(a) => a.intent # NoIntent
            BY DEF NeedsSpatial
      <2> QED
            BY <1>1, <1>2, <1>3, <1>4, <2>1, <2>2 DEF Inv, TypeOK, AskInv, SpokeInv, Steps
<1>5. CASE ~a.clear
      <2>1. Ask(a.question, "end") /\ a.question \in Question
            BY <1>1, <1>5 DEF Analysis
      <2>2. node' \in {"end", "aborted"} /\ asked' \in {0, 1} /\ failed' = failed
            /\ stored' \in SUBSET {"text", "sql", "map"} /\ errors' \in SUBSET (Steps \cup {"chat"})
            BY <1>2, <2>1, Asking
      <2>3. Spoke'
            BY <1>2, <1>3, <2>1, Asking DEF Spoke, Question
      <2> QED
            BY <1>2, <1>3, <2>2, <2>3 DEF Inv, TypeOK, AskInv, SpokeInv
<1> QED
      BY <1>4, <1>5

LEMMA IntentFailsStep == ASSUME Inv, CheckIntentFails PROVE Inv'
<1>1. /\ node = "check_intent" /\ CallFails("end") /\ UNCHANGED <<sql, result, planned, explanation, madeBy>>
      /\ analysis' = Nothing /\ needsSpatial' = FALSE /\ ~sql /\ result = "none" /\ asked = 0
      BY DEF CheckIntentFails, output, Inv, AskInv
<1>2. Nothing \in Analysis
      BY DEF Nothing, Analysis, Question
<1>3. /\ node' = "end" /\ stored' = stored /\ asked' = asked /\ errors' # {}
      /\ errors' \in SUBSET (Steps \cup {"chat"}) /\ failed' \in SUBSET Steps
      BY <1>1, Raising DEF Steps
<1> QED
      BY <1>1, <1>2, <1>3 DEF Inv, TypeOK, AskInv, SpokeInv, Spoke, Steps

LEMMA SpatialStep ==
    ASSUME Inv, ResolveSpatial \/ NotFound \/ ResolveSpatialFails
    PROVE  Inv'
<1>1. /\ node = "resolve_spatial" /\ UNCHANGED <<sql, result, planned, explanation, madeBy>>
      /\ analysis \in Analysis /\ analysis.intent # NoIntent /\ analysis.clear
      /\ ~sql /\ result = "none" /\ asked = 0 /\ needsSpatial' = FALSE
      BY DEF ResolveSpatial, NotFound, ResolveSpatialFails, output, Inv, TypeOK, AskInv
<1>2. CASE ResolveSpatial
      <2>1. LookedUp(analysis.intent) \in Intents
            BY <1>1, WorkflowConstants DEF Analysis
      <2>2. analysis' = [analysis EXCEPT !.intent = LookedUp(analysis.intent), !.question = "none"]
            BY <1>2 DEF ResolveSpatial
      <2>3. analysis' \in Analysis /\ analysis'.clear
            BY <1>1, <2>1, <2>2 DEF Analysis, Question
      <2>4. node' = "validate_filters" /\ UNCHANGED <<stored, asked, errors, failed>>
            BY <1>2 DEF ResolveSpatial, Return
      <2> QED
            BY <1>1, <2>3, <2>4 DEF Inv, TypeOK, AskInv, SpokeInv, Steps
<1>3. CASE NotFound
      <2>1. /\ analysis' = [clear |-> FALSE, intent |-> NoIntent, question |-> "text"]
            /\ Ask("text", "validate_filters")
            BY <1>3 DEF NotFound
      <2>2. analysis' \in Analysis /\ ~analysis'.clear /\ analysis'.intent = NoIntent
            BY <2>1 DEF Analysis, Question
      <2>3. /\ node' = "validate_filters" /\ "text" \in stored' /\ asked' \in {0, 1}
            /\ failed' = failed /\ stored' \in SUBSET {"text", "sql", "map"}
            /\ errors' \in SUBSET (Steps \cup {"chat"})
            BY <1>1, <2>1, Asking DEF Question
      <2>4. needsSpatial' \in BOOLEAN
            BY <1>1, Zenon
      <2> QED
            BY <1>1, <2>2, <2>3, <2>4 DEF Inv, TypeOK, AskInv, SpokeInv, Steps
<1>4. CASE ResolveSpatialFails
      <2>1. CallFails("validate_filters") /\ analysis' = analysis
            BY <1>4 DEF ResolveSpatialFails
      <2>2. /\ node' = "validate_filters" /\ stored' = stored /\ asked' = asked
            /\ errors' \in SUBSET (Steps \cup {"chat"}) /\ failed' \in SUBSET Steps
            BY <1>1, <2>1, Raising DEF Steps
      <2> QED
            BY <1>1, <2>1, <2>2 DEF Inv, TypeOK, AskInv, SpokeInv, Steps
<1> QED
      BY <1>2, <1>3, <1>4

-------------------------------------------------------------------------------
\* The steps of validate_filters that leave the analysis alone.
LEMMA SameIntentStep ==
    ASSUME Inv, ValidateNothing \/ AllValid \/ CorrectedNothing \/ ValidateFails
    PROVE  Inv'
<1>1. /\ node = "validate_filters" /\ UNCHANGED <<sql, result, planned, explanation, madeBy>>
      /\ UNCHANGED <<analysis, needsSpatial>> /\ ~sql /\ result = "none"
      BY DEF ValidateNothing, AllValid, CorrectedNothing, ValidateFails, InvalidFilters, output,
             Inv, AskInv
<1>2. CASE AllValid
      <2>1. node' = "generate_sql" /\ UNCHANGED <<stored, asked, errors, failed>>
            BY <1>1, <1>2 DEF AllValid, Return, RouteAfterValidation, Inv, AskInv
      <2> QED
            BY <1>1, <1>2, <2>1 DEF AllValid, Inv, TypeOK, AskInv, SpokeInv, Steps
<1>3. CASE ValidateNothing \/ CorrectedNothing \/ ValidateFails
      <2>1. Raise(RouteAfterValidation(analysis)) \/ CallFails(RouteAfterValidation(analysis))
            BY <1>3 DEF ValidateNothing, CorrectedNothing, ValidateFails
      <2>2. /\ node' = RouteAfterValidation(analysis) /\ stored' = stored /\ asked' = asked
            /\ errors' \in SUBSET (Steps \cup {"chat"}) /\ errors' # {} /\ failed' \in SUBSET Steps
            BY <1>1, <2>1, Raising DEF Steps
      <2> QED
            BY <1>1, <2>2 DEF RouteAfterValidation, Inv, TypeOK, AskInv, SpokeInv, Spoke, Steps
<1> QED
      BY <1>2, <1>3

LEMMA ClearBefore == ASSUME Inv, InvalidFilters PROVE analysis.clear
BY DEF Analysis, InvalidFilters, Inv, TypeOK, AskInv

LEMMA CorrectedStep == ASSUME Inv, Corrected PROVE Inv'
<1>1. /\ node = "validate_filters" /\ UNCHANGED <<sql, result, planned, explanation, needsSpatial>>
      /\ madeBy' = "validate_filters"
      /\ ~sql /\ result = "none" /\ asked = 0 /\ InvalidFilters
      BY ClearBefore DEF Corrected, InvalidFilters, output, Inv, AskInv
<1>2. PICK r \in Analysis : r.clear /\ analysis' = r /\ Return(RouteAfterValidation(r))
      BY DEF Corrected
<1>3. /\ node' = "generate_sql" /\ analysis' \in Analysis /\ analysis'.clear
      /\ UNCHANGED <<stored, asked, errors, failed>>
      BY <1>1, <1>2, ClearBefore DEF Return, RouteAfterValidation
<1> QED
      BY <1>1, <1>3 DEF Inv, TypeOK, AskInv, SpokeInv, Steps

\* Both ways to give the correction up end in a question.
LEMMA QuestionStep == ASSUME Inv, CannotCorrect \/ StillInvalid PROVE Inv'
<1>1. /\ node = "validate_filters" /\ UNCHANGED <<sql, result, planned, explanation, needsSpatial>>
      /\ madeBy' = "validate_filters"
      /\ ~sql /\ result = "none" /\ asked = 0 /\ InvalidFilters
      BY ClearBefore DEF CannotCorrect, StillInvalid, InvalidFilters, output, Inv, AskInv
<1>2. \E q \in Question : /\ analysis' \in Analysis /\ ~analysis'.clear /\ analysis'.question = q
                          /\ Ask(q, "end")
      <2>1. CASE CannotCorrect
            <3>1. PICK r \in Analysis :
                      ~r.clear /\ analysis' = r /\ Ask(r.question, RouteAfterValidation(r))
                  BY <2>1 DEF CannotCorrect
            <3> QED
                  BY <1>1, <3>1, ClearBefore DEF RouteAfterValidation, Analysis
      <2>2. CASE StillInvalid
            <3>1. PICK f \in Analysis, q \in Question :
                      /\ analysis' = [f EXCEPT !.clear = FALSE, !.question = q]
                      /\ Ask(q, RouteAfterValidation(analysis'))
                  <4>1. \A f \in Analysis :
                            (IF f.clear /\ f.question # "text" THEN "text" ELSE f.question) \in Question
                        BY DEF Analysis, Question
                  <4> QED
                        BY <2>2, <4>1 DEF StillInvalid
            <3>2. f \in Analysis
                  BY <1>1, ClearBefore
            <3>3. analysis' \in Analysis /\ ~analysis'.clear /\ analysis'.question = q
                  BY <3>1, <3>2 DEF Analysis
            <3> QED
                  BY <3>1, <3>3 DEF RouteAfterValidation
      <2> QED
            BY <2>1, <2>2
<1>3. PICK q \in Question : /\ analysis' \in Analysis /\ ~analysis'.clear /\ analysis'.question = q
                            /\ Ask(q, "end")
      BY <1>2
<1>4. /\ node' \in {"end", "aborted"} /\ asked' \in {0, 1} /\ failed' = failed
      /\ stored' \in SUBSET {"text", "sql", "map"} /\ errors' \in SUBSET (Steps \cup {"chat"})
      BY <1>1, <1>3, Asking
<1>5. Spoke'
      BY <1>1, <1>3, Asking DEF Spoke, Question
<1> QED
      BY <1>1, <1>3, <1>4, <1>5 DEF Inv, TypeOK, AskInv, SpokeInv

-------------------------------------------------------------------------------
LEMMA SqlStep ==
    ASSUME Inv, GenerateSql \/ GenerateSqlFails \/ ExecuteQuery
    PROVE  Inv'
<1> USE DEF Inv, TypeOK, AskInv, SpokeInv, Steps
<1>1. CASE GenerateSql
      <2>1. sql' \in BOOLEAN
            BY <1>1, Zenon DEF GenerateSql
      <2>2. stored' \in {stored, stored \cup {"sql"}}
            BY <1>1 DEF GenerateSql
      <2>3. /\ node = "generate_sql" /\ node' = "execute_query"
            /\ UNCHANGED <<analysis, needsSpatial, result, planned, explanation, asked, errors,
                           failed, madeBy>>
            BY <1>1 DEF GenerateSql
      <2> QED
            BY <2>1, <2>2, <2>3
<1>2. CASE GenerateSqlFails
      <2>1. /\ Raise("execute_query") \/ CallFails("execute_query")
            /\ node = "generate_sql"
            /\ UNCHANGED <<analysis, needsSpatial, sql, result, planned, explanation, madeBy>>
            BY <1>2 DEF GenerateSqlFails, output
      <2>2. /\ node' = "execute_query" /\ stored' = stored /\ asked' = asked
            /\ errors' \in SUBSET (Steps \cup {"chat"}) /\ failed' \in SUBSET Steps
            BY <2>1, Raising
      <2> QED
            BY <2>1, <2>2
<1>3. CASE ExecuteQuery
      BY <1>3 DEF ExecuteQuery, Return
<1> QED
      BY <1>1, <1>2, <1>3

LEMMA TellStep ==
    ASSUME Inv, PlanVisualization \/ PlanVisualizationFails \/ DescribeResults
                \/ DescribeResultsFails \/ CiteSources
    PROVE  Inv'
<1> USE DEF Inv, TypeOK, AskInv, SpokeInv, Steps
<1>1. CASE PlanVisualization
      BY <1>1 DEF PlanVisualization
<1>2. CASE PlanVisualizationFails
      <2>1. /\ node = "plan_visualization" /\ CallFails("describe_results")
            /\ UNCHANGED <<analysis, needsSpatial, sql, result, planned, explanation, madeBy>>
            BY <1>2 DEF PlanVisualizationFails, output
      <2>2. /\ node' = "describe_results" /\ stored' = stored /\ asked' = asked
            /\ errors' \in SUBSET (Steps \cup {"chat"}) /\ failed' \in SUBSET Steps
            BY <2>1, Raising
      <2> QED
            BY <2>1, <2>2
<1>3. CASE DescribeResults
      BY <1>3 DEF DescribeResults, Spoke
<1>4. CASE DescribeResultsFails
      BY <1>4 DEF DescribeResultsFails, output, Spoke
<1>5. CASE CiteSources
      <2>1. CASE Return("end")
            BY <1>5, <2>1 DEF CiteSources, Return, output, Spoke
      <2>2. CASE CallFails("end")
            <3>1. /\ node = "cite_sources"
                  /\ UNCHANGED <<analysis, needsSpatial, sql, result, planned, explanation, madeBy>>
                  BY <1>5 DEF CiteSources, output
            <3>2. /\ node' = "end" /\ stored' = stored /\ asked' = asked
                  /\ errors' \in SUBSET (Steps \cup {"chat"}) /\ failed' \in SUBSET Steps
                  /\ errors' # {}
                  BY <2>2, <3>1, Raising
            <3> QED
                  BY <3>1, <3>2 DEF Spoke
      <2> QED
            BY <1>5, <2>1, <2>2 DEF CiteSources
<1> QED
      BY <1>1, <1>2, <1>3, <1>4, <1>5

LEMMA WorkflowStep == Inv /\ [Next]_vars => Inv'
<1>1. ASSUME Inv, UNCHANGED vars PROVE Inv'
      BY <1>1 DEF vars, Inv, TypeOK, AskInv, SpokeInv, Spoke
<1> QED
      BY <1>1, IntentStep, IntentFailsStep, SpatialStep, SameIntentStep, CorrectedStep,
         QuestionStep, SqlStep, TellStep DEF Next

LEMMA WorkflowInv == Spec => []Inv
BY WorkflowInit, WorkflowStep, PTL DEF Spec

-------------------------------------------------------------------------------
\* The state of a turn keeps its types: a place is only looked up in an intent, and
\* SQL is only generated for a clear question.
THEOREM WorkflowTypeCorrect == Spec => []TypeOK
<1>1. Inv => TypeOK
      BY DEF Inv
<1> QED
      BY <1>1, WorkflowInv, PTL

\* A turn asks back at most once, and one that did has run no query.
THEOREM TurnAsksOrQueries == Spec => []QuestionInsteadOfSql
<1>1. Inv => QuestionInsteadOfSql
      BY DEF Inv, AskInv, QuestionInsteadOfSql
<1> QED
      BY <1>1, WorkflowInv, PTL

\* A finished turn has said something, unless the model's answer was empty.
THEOREM TurnIsNeverSilent == Spec => []NeverSilent
<1>1. Inv => NeverSilent
      BY DEF Inv, SpokeInv, Spoke, NeverSilent
<1> QED
      BY <1>1, WorkflowInv, PTL

(***************************************************************************)
(* Lists of filters                                                        *)
(***************************************************************************)

\* The locations come first.
Sorted(s) ==
    \E m \in 0..Len(s) : /\ \A j \in 1..m : IsLocation(s[j])
                         /\ \A j \in (m + 1)..Len(s) : ~IsLocation(s[j])

\* The elements of a list are those at its positions.
LEMMA ListElements ==
    ASSUME NEW T, NEW s \in Seq(T)
    PROVE  /\ Len(s) \in Nat /\ DOMAIN s = 1..Len(s) /\ Range(s) = {s[j] : j \in 1..Len(s)}
           /\ \A j \in 1..Len(s) : s[j] \in T /\ s[j] \in Range(s)
BY LenProperties, ElementOfSeq DEF Range

\* Sorting keeps the filters and puts the locations first.
LEMMA SortSorts ==
    ASSUME NEW T, NEW fs \in Seq(T)
    PROVE  /\ SortByHierarchy(fs) \in Seq(T) /\ Range(SortByHierarchy(fs)) = Range(fs)
           /\ Sorted(SortByHierarchy(fs))
<1> DEFINE located == {f \in Range(fs) : IsLocation(f)}
           a == Only(fs, located)
           b == Only(fs, Range(fs) \ located)
           s == SortByHierarchy(fs)
<1>1. s = a \o b
      BY DEF SortByHierarchy
<1>2. a \in Seq(T) /\ Range(a) = located /\ b \in Seq(T) /\ Range(b) = Range(fs) \ located
      <2>1. Range(fs) \cap located = located /\ Range(fs) \cap (Range(fs) \ located) = Range(fs) \ located
            OBVIOUS
      <2> HIDE DEF located
      <2> QED
            BY <2>1, OnlyRange
<1>3. /\ \A f \in Range(a) : IsLocation(f)
      /\ \A f \in Range(b) : ~IsLocation(f)
      BY <1>2
<1> HIDE DEF a, b, s
<1>4. /\ \A j \in 1..Len(a) : IsLocation(a[j])
      /\ \A j \in 1..Len(b) : ~IsLocation(b[j])
      <2>1. \A j \in 1..Len(a) : a[j] \in Range(a)
            BY <1>2, ListElements
      <2>2. \A j \in 1..Len(b) : b[j] \in Range(b)
            BY <1>2, ListElements
      <2> QED
            BY <1>3, <2>1, <2>2
<1>5. /\ a \o b \in Seq(T) /\ Len(a) \in Nat /\ Len(b) \in Nat /\ Len(a \o b) = Len(a) + Len(b)
      /\ \A j \in 1..Len(a) : (a \o b)[j] = a[j]
      /\ \A j \in (Len(a) + 1)..(Len(a) + Len(b)) : (a \o b)[j] = b[j - Len(a)]
      BY <1>2, ConcatProperties, LenProperties
<1>6. \A j \in (Len(a) + 1)..(Len(a) + Len(b)) : j - Len(a) \in 1..Len(b)
      BY <1>5
<1>7. \A j \in 1..Len(b) : j + Len(a) \in (Len(a) + 1)..(Len(a) + Len(b)) /\ (j + Len(a)) - Len(a) = j
      BY <1>5
<1>8. Sorted(s)
      <2>1. Len(a) \in 0..Len(s)
            BY <1>1, <1>5
      <2>2. \A j \in 1..Len(a) : IsLocation(s[j])
            BY <1>1, <1>5, <1>4
      <2>3. \A j \in (Len(a) + 1)..Len(s) : ~IsLocation(s[j])
            BY <1>1, <1>5, <1>6, <1>4
      <2> QED
            BY <2>1, <2>2, <2>3 DEF Sorted
<1>9. Range(s) = Range(a) \cup Range(b)
      <2>1. /\ Range(s) = {s[j] : j \in 1..(Len(a) + Len(b))}
            /\ Range(a) = {a[j] : j \in 1..Len(a)} /\ Range(b) = {b[j] : j \in 1..Len(b)}
            <3>1. s \in Seq(T) /\ Len(s) = Len(a) + Len(b)
                  BY <1>1, <1>5
            <3>2. Range(s) = {s[j] : j \in 1..Len(s)}
                  BY <3>1, ListElements
            <3>3. Range(a) = {a[j] : j \in 1..Len(a)}
                  BY <1>2, ListElements
            <3>4. Range(b) = {b[j] : j \in 1..Len(b)}
                  BY <1>2, ListElements
            <3> QED
                  BY <3>1, <3>2, <3>3, <3>4
      <2>2. \A j \in 1..(Len(a) + Len(b)) : j \in 1..Len(a) \/ j \in (Len(a) + 1)..(Len(a) + Len(b))
            BY <1>5
      <2>3. \A j \in 1..(Len(a) + Len(b)) : s[j] \in Range(a) \/ s[j] \in Range(b)
            BY <1>1, <1>5, <1>6, <2>1, <2>2
      <2>4. \A j \in 1..Len(a) : a[j] \in Range(s)
            <3>1. \A j \in 1..Len(a) : j \in 1..(Len(a) + Len(b))
                  BY <1>5
            <3> QED
                  BY <1>1, <1>5, <2>1, <3>1
      <2>5. \A j \in 1..Len(b) : b[j] \in Range(s)
            <3>1. \A j \in 1..Len(b) : j + Len(a) \in 1..(Len(a) + Len(b))
                  BY <1>5
            <3>2. \A j \in 1..Len(b) : s[j + Len(a)] = b[j]
                  BY <1>1, <1>5, <1>7
            <3> QED
                  BY <2>1, <3>1, <3>2
      <2> QED
            BY <2>1, <2>3, <2>4, <2>5
<1> QED
      BY <1>1, <1>2, <1>5, <1>8, <1>9 DEF s

\* What is sorted stays as it is.
LEMMA SortedStays ==
    ASSUME NEW T, NEW s \in Seq(T), Sorted(s)
    PROVE  SortByHierarchy(s) = s
<1> DEFINE located == {f \in Range(s) : IsLocation(f)}
           others == Range(s) \ located
<1>1. PICK m \in 0..Len(s) : /\ \A j \in 1..m : IsLocation(s[j])
                             /\ \A j \in (m + 1)..Len(s) : ~IsLocation(s[j])
      BY DEF Sorted
<1>2. /\ Len(s) \in Nat /\ m \in Nat /\ m <= Len(s)
      /\ \A j \in 1..Len(s) : s[j] \in Range(s)
      BY ListElements
<1>3. /\ \A j \in 1..m : s[j] \in located /\ s[j] \notin others
      /\ \A j \in (m + 1)..Len(s) : s[j] \notin located /\ s[j] \in others
      BY <1>1, <1>2
<1>4. SortByHierarchy(s) = Only(s, located) \o Only(s, others)
      BY DEF SortByHierarchy
<1> HIDE DEF located, others
<1>5. Only(s, located) = SubSeq(s, 1, m) /\ Only(s, others) = SubSeq(s, m + 1, Len(s))
      BY <1>3, OnlyFront, OnlyBack
<1>6. SubSeq(s, 1, m) \o SubSeq(s, m + 1, Len(s)) = s
      <2>1. SubSeq(s, 1, Len(s)) = s
            BY SubSeqFull
      <2>2. 1 \in 1..(Len(s) + 1) /\ m \in (1 - 1)..Len(s) /\ Len(s) \in m..Len(s)
            BY <1>2
      <2>3. SubSeq(s, 1, m) \o SubSeq(s, m + 1, Len(s)) = SubSeq(s, 1, Len(s))
            BY <2>2, ConcatAdjacentSubSeq
      <2> QED
            BY <2>1, <2>3
<1> QED
      BY <1>4, <1>5, <1>6

\* What is validated of a list of filters.
ToCheck(fs) == SortByHierarchy(Validatable(Categoricals(fs)))

LEMMA CheckedFilters ==
    ASSUME NEW T, NEW fs \in Seq(T)
    PROVE  /\ ToCheck(fs) \in Seq(T) /\ Sorted(ToCheck(fs))
           /\ Range(ToCheck(fs)) = {f \in Range(fs) : IsCategorical(f) /\ f.op # "IS NOT NULL"}
<1> DEFINE c == Categoricals(fs)
           v == Validatable(c)
<1>1. c \in Seq(T) /\ Range(c) = {f \in Range(fs) : IsCategorical(f)}
      <2>1. c \in Seq(T) /\ Range(c) = Range(fs) \cap {f \in Range(fs) : IsCategorical(f)}
            BY OnlyRange DEF Categoricals
      <2> QED
            BY <2>1
<1> HIDE DEF c
<1>2. v \in Seq(T) /\ Range(v) = {f \in Range(c) : f.op # "IS NOT NULL"}
      <2>1. v \in Seq(T) /\ Range(v) = Range(c) \cap {f \in Range(c) : f.op # "IS NOT NULL"}
            BY <1>1, OnlyRange DEF Validatable
      <2> QED
            BY <2>1
<1>3. ToCheck(fs) = SortByHierarchy(v)
      BY DEF ToCheck, c
<1> HIDE DEF v
<1> QED
      BY <1>1, <1>2, <1>3, SortSorts

\* The first k filters of a list.
LEMMA PrefixIs ==
    ASSUME NEW T, NEW s \in Seq(T), NEW k \in 0..Len(s)
    PROVE  Prefix(s, k) = {s[j] : j \in 1..k}
<1>1. Len(s) \in Nat /\ k \in Nat /\ k <= Len(s)
      BY ListElements
<1> DEFINE u == SubSeq(s, 1, k)
<1>2. u \in Seq(T) /\ Len(u) = k /\ \A j \in 1..k : u[j] = s[j]
      BY <1>1
<1> HIDE DEF u
<1>3. Range(u) = {u[j] : j \in 1..k}
      BY <1>2, ListElements
<1> QED
      BY <1>2, <1>3 DEF Prefix, u

LEMMA PrefixEnds ==
    ASSUME NEW T, NEW s \in Seq(T)
    PROVE  Prefix(s, 0) = {} /\ Prefix(s, Len(s)) = Range(s)
<1>1. Len(s) \in Nat /\ 0 \in 0..Len(s) /\ Len(s) \in 0..Len(s) /\ 1..0 = {}
      BY ListElements
<1>2. Prefix(s, 0) = {s[j] : j \in 1..0} /\ Prefix(s, Len(s)) = {s[j] : j \in 1..Len(s)}
      BY <1>1, PrefixIs
<1>3. Range(s) = {s[j] : j \in 1..Len(s)}
      BY ListElements
<1> QED
      BY <1>1, <1>2, <1>3

LEMMA PrefixGrows ==
    ASSUME NEW T, NEW s \in Seq(T), NEW k \in 1..Len(s)
    PROVE  /\ Prefix(s, k) = Prefix(s, k - 1) \cup {s[k]}
           /\ k - 1 \in 0..Len(s) /\ k \in Nat
<1>1. Len(s) \in Nat /\ k \in 0..Len(s) /\ k - 1 \in 0..Len(s)
      BY ListElements
<1>2. 1..k = 1..(k - 1) \cup {k}
      BY <1>1
<1>3. Prefix(s, k) = {s[j] : j \in 1..k} /\ Prefix(s, k - 1) = {s[j] : j \in 1..(k - 1)}
      BY <1>1, PrefixIs
<1> QED
      BY <1>1, <1>2, <1>3

\* The k-th filter is the first that leaves nothing.
Breaks(s, k) ==
    /\ k \in DOMAIN s /\ ~CombinationHasResults(Prefix(s, k))
    /\ \A j \in 0..(k - 1) : CombinationHasResults(Prefix(s, j))

\* No filters ask for nothing.
LEMMA NoneCombine == CombinationHasResults({})
BY DEF CombinationHasResults

\* A clash is blamed on the filter that breaks the combination.
LEMMA ConflictBreaks ==
    ASSUME NEW T, NEW s \in Seq(T), NEW b \in InvalidInCombination(s)
    PROVE  \E k \in DOMAIN s : Breaks(s, k) /\ b = Blame(s[k], Prefix(s, k - 1))
<1> DEFINE broken == {k \in DOMAIN s : ~CombinationHasResults(Prefix(s, k))}
<1>1. b \in Conflict(s)
      BY DEF InvalidInCombination
<1>2. PICK k \in broken : (\A j \in broken : k <= j) /\ b = Blame(s[k], Prefix(s, k - 1))
      BY <1>1 DEF Conflict
<1>3. DOMAIN s = 1..Len(s) /\ Len(s) \in Nat
      BY ListElements
<1>4. ASSUME NEW j \in 0..(k - 1) PROVE CombinationHasResults(Prefix(s, j))
      <2>1. CASE j = 0
            <3>1. Prefix(s, 0) = {}
                  BY PrefixEnds
            <3> QED
                  BY <2>1, <3>1, NoneCombine
      <2>2. CASE j # 0
            <3>1. j \in DOMAIN s /\ ~(k <= j)
                  BY <1>3, <2>2
            <3> QED
                  BY <1>2, <3>1
      <2> QED
            BY <2>1, <2>2
<1> QED
      BY <1>2, <1>4 DEF Breaks

\* When nobody is blamed, the filters can be combined.
LEMMA NobodyBlamed ==
    ASSUME NEW T, NEW s \in Seq(T), IndividuallyInvalid(s) = {}, InvalidInCombination(s) = {}
    PROVE  CombinationHasResults(Range(s))
<1>1. DOMAIN s = 1..Len(s) /\ Len(s) \in Nat /\ Range(s) = {s[j] : j \in 1..Len(s)}
      BY ListElements
<1>2. CASE Len(s) = 0
      <2>1. Range(s) = {}
            BY <1>1, <1>2
      <2> QED
            BY <2>1, NoneCombine
<1>3. CASE Len(s) = 1
      <2>1. Range(s) = {s[1]} /\ 1 \in DOMAIN s
            <3>1. 1..1 = {1}
                  OBVIOUS
            <3> QED
                  BY <1>1, <1>3, <3>1
      <2>2. Scope(s, 1) = {}
            <3>1. 1..(1 - 1) = {}
                  OBVIOUS
            <3> QED
                  BY <3>1 DEF Scope
      <2>3. ValueExists(s[1], {})
            BY <2>1, <2>2 DEF IndividuallyInvalid
      <2> SUFFICES ASSUME NEW t \in {f.table : f \in Range(s)} \ {NoTable}
                   PROVE  \E row \in Data[t] : Where({f \in Range(s) : f.table = t}, row)
            BY DEF CombinationHasResults
      <2>4. t = s[1].table /\ s[1].table # NoTable
            BY <2>1
      <2>5. PICK row \in Data[t] : Selects(s[1], row)
            BY <2>3, <2>4 DEF ValueExists, Scoped
      <2> QED
            BY <2>1, <2>5 DEF Where
<1>4. CASE Len(s) > 1
      <2> SUFFICES ASSUME ~CombinationHasResults(Range(s)) PROVE FALSE
            OBVIOUS
      <2> DEFINE broken == {k \in DOMAIN s : ~CombinationHasResults(Prefix(s, k))}
      <2>1. Len(s) \in broken
            <3>1. Prefix(s, Len(s)) = Range(s)
                  BY PrefixEnds
            <3>2. Len(s) \in DOMAIN s
                  BY <1>1, <1>4
            <3> QED
                  BY <3>1, <3>2
      <2>2. broken \in SUBSET Nat /\ broken # {}
            BY <1>1, <2>1
      <2> HIDE DEF broken
      <2>3. PICK k \in broken : \A j \in broken : k <= j
            BY <2>2, LeastNumber
      <2>4. Blame(s[k], Prefix(s, k - 1)) \in Conflict(s)
            BY <2>3 DEF Conflict, broken
      <2>5. InvalidInCombination(s) = Conflict(s)
            BY <1>1, <1>4 DEF InvalidInCombination
      <2> QED
            BY <2>4, <2>5
<1> QED
      BY <1>1, <1>2, <1>3, <1>4

\* Valid filters select something.
LEMMA ValidIsSelective ==
    ASSUME NEW T, NEW fs \in Seq(T), CollectInvalid(Categoricals(fs)) = {}
    PROVE  Selective(Checkable(fs))
<1> DEFINE s == ToCheck(fs)
<1>1. s \in Seq(T) /\ Range(s) = {f \in Range(fs) : IsCategorical(f) /\ f.op # "IS NOT NULL"}
      BY CheckedFilters
<1>2. CollectInvalid(Categoricals(fs)) =
         IF IndividuallyInvalid(s) # {} THEN IndividuallyInvalid(s) ELSE InvalidInCombination(s)
      BY DEF CollectInvalid, ToCheck
<1> HIDE DEF s
<1>3. CombinationHasResults(Range(s))
      BY <1>1, <1>2, NobodyBlamed
<1>4. \A f \in Checkable(fs) : f \in Range(s) /\ f.table # NoTable
      BY <1>1, WorkflowConstants, FilterConstants DEF Checkable, IsCategorical
<1> SUFFICES ASSUME NEW t \in {f.table : f \in Checkable(fs)}
             PROVE  \E row \in Data[t] :
                       \A c \in {f.column : f \in {g \in Checkable(fs) : g.table = t}} :
                          \E f \in Checkable(fs) : f.table = t /\ f.column = c /\ Selects(f, row)
      BY DEF Selective
<1>5. PICK row \in Data[t] : Where({f \in Range(s) : f.table = t}, row)
      BY <1>3, <1>4 DEF CombinationHasResults
<1>6. ASSUME NEW f \in Checkable(fs), f.table = t
      PROVE  \E g \in Checkable(fs) : g.table = t /\ g.column = f.column /\ Selects(g, row)
      <2>1. PICK g \in Range(s) : g.table = t /\ g.column = f.column /\ Selects(g, row)
            BY <1>4, <1>5, <1>6 DEF Where
      <2>2. g \in Checkable(fs)
            BY <1>1, <1>6, <2>1 DEF Checkable
      <2> QED
            BY <2>1, <2>2
<1> QED
      BY <1>6

(***************************************************************************)
(* A query runs on sound filters                                           *)
(***************************************************************************)

\* Every filter that will be validated has a table.
Filled(i) == \A f \in Range(i.filters) : IsCategorical(f) => f.table # NoTable

\* No origin is a place that nobody looked up.
NoPlaces(i) == \A f \in Range(i.origins) : ~IsPlace(f)

Sound(i) == i \in Intents /\ Valid(i)

Untroubled == errors \cap {"resolve_spatial", "validate_filters"} = {}

\* What a query runs on; the places of a corrected intent are as the model gave them.
Settled ==
    /\ Sound(analysis.intent)
    /\ madeBy = "check_intent" => NoPlaces(analysis.intent)

\* What is known of the intent when a node is the next to run.
SoundInv ==
    /\ node \in {"resolve_spatial", "validate_filters"} /\ analysis.intent # NoIntent =>
          Filled(analysis.intent)
    /\ node = "validate_filters" /\ analysis.intent # NoIntent /\ Untroubled =>
          NoPlaces(analysis.intent)
    /\ (node = "generate_sql" \/ sql) /\ Untroubled => Settled

LEMMA IntentTypes ==
    ASSUME NEW i \in Intents
    PROVE  /\ i.filters \in Seq(Filter) /\ i.origins \in Seq(Filter)
           /\ i = [filters |-> i.filters, origins |-> i.origins]
BY WorkflowConstants

\* The range of a list whose elements are changed one by one.
LEMMA ChangedRange ==
    ASSUME NEW T, NEW s \in Seq(T), NEW g, g = [k \in DOMAIN s |-> g[k]], NEW f \in Range(g)
    PROVE  \E k \in DOMAIN s : f = g[k] /\ s[k] \in T /\ s[k] \in Range(s)
BY ListElements DEF Range

\* The table that a filter is given is one of those that have its column.
LEMMA TableFound ==
    ASSUME NEW f \in Filter, IsCategorical(WithTable(f))
    PROVE  WithTable(f).table # NoTable
<1> DEFINE has == {k \in DOMAIN TableOrder : f.column \in Columns[TableOrder[k]]}
           first == CHOOSE k \in has : \A j \in has : k <= j
<1>1. DOMAIN TableOrder \subseteq Nat /\ \A k \in DOMAIN TableOrder : TableOrder[k] \in Tables
      <2>1. TableOrder \in Seq(Tables)
            BY WorkflowConstants
      <2> QED
            BY <2>1, ListElements
<1>2. WithTable(f) = IF IsSpatial(f) \/ f.table # NoTable \/ has = {} THEN f
                     ELSE [f EXCEPT !.table = TableOrder[first]]
      BY DEF WithTable
<1>3. CASE IsSpatial(f) \/ f.table # NoTable \/ has = {}
      <2> SUFFICES ASSUME f.table = NoTable PROVE FALSE
            BY <1>2, <1>3
      <2>1. PICK p \in Categorical : p[2] = f.column
            <3>1. IsCategorical(f)
                  BY <1>2, <1>3
            <3>2. <<f.table, f.column>> \notin Categorical
                  BY WorkflowConstants, FilterConstants
            <3> QED
                  BY <3>1, <3>2 DEF IsCategorical
      <2>2. p[1] \in Tables /\ f.column \in Columns[p[1]]
            BY <2>1, WorkflowConstants
      <2>3. PICK k \in DOMAIN TableOrder : TableOrder[k] = p[1]
            BY <2>2, WorkflowConstants DEF Range
      <2>4. ~IsSpatial(f)
            BY <2>2, WorkflowConstants DEF IsSpatial
      <2> QED
            BY <1>3, <2>2, <2>3, <2>4
<1>4. CASE ~(IsSpatial(f) \/ f.table # NoTable \/ has = {})
      <2>1. has \in SUBSET Nat /\ has # {}
            BY <1>1, <1>4
      <2> HIDE DEF has
      <2>2. \E k \in has : \A j \in has : k <= j
            BY <2>1, LeastNumber
      <2>3. first \in has
            BY <2>2
      <2>4. TableOrder[first] \in Tables
            BY <1>1, <2>3 DEF has
      <2>5. WithTable(f).table = TableOrder[first]
            BY <1>2, <1>4 DEF Filter
      <2> QED
            BY <2>4, <2>5, FilterConstants
<1> QED
      BY <1>3, <1>4

LEMMA FillTablesFills ==
    ASSUME NEW i \in Intents
    PROVE  /\ FillTables(i) \in Intents /\ Filled(FillTables(i))
           /\ FillTables(i).origins = i.origins
<1> DEFINE s == i.filters
           g == [k \in DOMAIN s |-> WithTable(s[k])]
<1>1. s \in Seq(Filter)
      BY IntentTypes
<1>2. FillTables(i) = [i EXCEPT !.filters = g]
      BY DEF FillTables
<1>3. FillTables(i).filters = g /\ FillTables(i).origins = i.origins
      BY <1>2, IntentTypes
<1>4. ASSUME NEW f \in Range(g), IsCategorical(f) PROVE f.table # NoTable
      <2>1. PICK k \in DOMAIN s : f = g[k]
            BY <1>4 DEF Range
      <2>2. f = WithTable(s[k]) /\ s[k] \in Filter
            BY <1>1, <2>1, ListElements
      <2> QED
            BY <1>4, <2>2, TableFound
<1>5. FillTables(i) \in Intents
      BY WorkflowConstants
<1> HIDE DEF g
<1> QED
      BY <1>3, <1>4, <1>5 DEF Filled

LEMMA LookedUpResolves ==
    ASSUME NEW i \in Intents
    PROVE  /\ LookedUp(i) \in Intents /\ NoPlaces(LookedUp(i))
           /\ LookedUp(i).filters = i.filters
<1> DEFINE s == i.origins
           g == [k \in DOMAIN s |-> [s[k] EXCEPT !.value = "LATLON"]]
<1>1. s \in Seq(Filter)
      BY IntentTypes
<1>2. LookedUp(i) = [i EXCEPT !.origins = g]
      BY DEF LookedUp
<1>3. LookedUp(i).origins = g /\ LookedUp(i).filters = i.filters
      BY <1>2, IntentTypes
<1>4. ASSUME NEW f \in Range(g) PROVE ~IsPlace(f)
      <2>1. PICK k \in DOMAIN s : f = g[k]
            BY <1>4 DEF Range
      <2>2. f = [s[k] EXCEPT !.value = "LATLON"] /\ s[k] \in Filter
            BY <1>1, <2>1, ListElements
      <2> QED
            BY <2>2 DEF IsPlace, Filter
<1>5. LookedUp(i) \in Intents
      BY WorkflowConstants
<1> HIDE DEF g
<1> QED
      BY <1>3, <1>4, <1>5 DEF NoPlaces

LEMMA SoundInit == Init => SoundInv
BY DEF Init, SoundInv

\* Once an error of the two nodes was told, it stays told.
LEMMA ErrorsStay ==
    ASSUME Inv, Next, Untroubled'
    PROVE  Untroubled
<1>1. ASSUME NEW next, Return(next) \/ Raise(next) \/ CallFails(next) \/ \E q \in Question : Ask(q, next)
      PROVE  errors \subseteq errors'
      BY <1>1 DEF Return, Raise, CallFails, Ask, Question
<1>2. ASSUME CheckIntent \/ CheckIntentFails PROVE errors \subseteq errors'
      <2>1. \/ \E next : Return(next) \/ CallFails(next)
            \/ \E q \in Question : Ask(q, "end")
            BY <1>2 DEF CheckIntent, CheckIntentFails, Analysis
      <2> QED
            BY <1>1, <2>1
<1>3. ASSUME ResolveSpatial \/ NotFound \/ ResolveSpatialFails PROVE errors \subseteq errors'
      BY <1>1, <1>3 DEF ResolveSpatial, NotFound, ResolveSpatialFails, Question
<1>4. ASSUME ValidateNothing \/ AllValid \/ CannotCorrect \/ Corrected \/ StillInvalid
             \/ CorrectedNothing \/ ValidateFails
      PROVE  errors \subseteq errors'
      <2>1. CASE CannotCorrect
            <3>1. PICK r \in Analysis : Ask(r.question, RouteAfterValidation(r))
                  BY <2>1 DEF CannotCorrect
            <3>2. r.question \in Question
                  BY DEF Analysis
            <3> QED
                  BY <1>1, <3>1, <3>2
      <2>2. CASE StillInvalid
            <3>1. \A f \in Analysis :
                      (IF f.clear /\ f.question # "text" THEN "text" ELSE f.question) \in Question
                  BY DEF Analysis, Question
            <3>2. \E q \in Question : Ask(q, RouteAfterValidation(analysis'))
                  BY <2>2, <3>1 DEF StillInvalid
            <3> QED
                  BY <1>1, <3>2
      <2> QED
            BY <1>1, <1>4, <2>1, <2>2 DEF ValidateNothing, AllValid, Corrected, CorrectedNothing,
               ValidateFails
<1>5. ASSUME GenerateSql \/ GenerateSqlFails \/ ExecuteQuery \/ PlanVisualization
             \/ PlanVisualizationFails \/ DescribeResults \/ DescribeResultsFails \/ CiteSources
      PROVE  errors \subseteq errors'
      BY <1>1, <1>5 DEF GenerateSql, GenerateSqlFails, ExecuteQuery, PlanVisualization,
         PlanVisualizationFails, DescribeResults, DescribeResultsFails, CiteSources
<1>6. errors \subseteq errors'
      BY <1>2, <1>3, <1>4, <1>5 DEF Next
<1> QED
      BY <1>6 DEF Untroubled

LEMMA SoundFirstSteps ==
    ASSUME Inv, SoundInv, CheckIntent \/ CheckIntentFails
    PROVE  SoundInv'
<1>1. ~sql' /\ node = "check_intent"
      BY DEF CheckIntent, CheckIntentFails, output, Inv, AskInv
<1>2. CASE CheckIntentFails
      BY <1>1, <1>2 DEF CheckIntentFails, CallFails, SoundInv
<1>3. CASE CheckIntent
      <2>1. PICK a \in Analysis :
                /\ analysis' = IF a.clear /\ a.intent # NoIntent
                                THEN [a EXCEPT !.intent = FillTables(@)] ELSE a
                /\ IF a.clear THEN Return(RouteAfterIntent(a)) ELSE Ask(a.question, "end")
            BY <1>3 DEF CheckIntent
      <2>2. CASE ~a.clear
            BY <1>1, <2>1, <2>2 DEF Ask, Return, Analysis, Question, SoundInv
      <2>3. CASE a.clear /\ a.intent = NoIntent
            <3>1. analysis'.intent = NoIntent /\ node' = "validate_filters"
                  BY <2>1, <2>3 DEF Return, RouteAfterIntent, NeedsSpatial
            <3> QED
                  BY <1>1, <3>1 DEF SoundInv
      <2>4. CASE a.clear /\ a.intent # NoIntent
            <3>1. a.intent \in Intents /\ analysis'.intent = FillTables(a.intent)
                  BY <2>1, <2>4 DEF Analysis
            <3>2. node' \in {"resolve_spatial", "validate_filters"}
                  BY <2>1, <2>4 DEF Return, RouteAfterIntent
            <3>3. Filled(analysis'.intent)
                  BY <3>1, FillTablesFills
            <3>4. node' = "validate_filters" => NoPlaces(a.intent)
                  BY <2>1, <2>4 DEF Return, RouteAfterIntent, NeedsSpatial, NoPlaces
            <3>5. NoPlaces(a.intent) => NoPlaces(analysis'.intent)
                  BY <3>1, FillTablesFills DEF NoPlaces
            <3> QED
                  BY <1>1, <3>2, <3>3, <3>4, <3>5 DEF SoundInv
      <2> QED
            BY <2>2, <2>3, <2>4
<1> QED
      BY <1>2, <1>3

LEMMA SoundSpatialSteps ==
    ASSUME Inv, SoundInv, ResolveSpatial \/ NotFound \/ ResolveSpatialFails
    PROVE  SoundInv'
<1>1. /\ ~sql' /\ node = "resolve_spatial" /\ node' = "validate_filters"
      BY DEF ResolveSpatial, NotFound, ResolveSpatialFails, Return, Ask, CallFails, output, Inv,
             AskInv
<1>2. analysis \in Analysis /\ analysis.intent \in Intents /\ Filled(analysis.intent)
      BY <1>1 DEF Inv, TypeOK, Analysis, SoundInv
<1>3. CASE ResolveSpatial
      <2>1. analysis'.intent = LookedUp(analysis.intent)
            BY <1>2, <1>3 DEF ResolveSpatial, Analysis
      <2>2. NoPlaces(analysis'.intent) /\ Filled(analysis'.intent)
            BY <1>2, <2>1, LookedUpResolves DEF Filled
      <2> QED
            BY <1>1, <2>2 DEF SoundInv
<1>4. CASE NotFound
      BY <1>1, <1>4 DEF NotFound, SoundInv
<1>5. CASE ResolveSpatialFails
      <2>1. analysis' = analysis /\ "resolve_spatial" \in errors'
            BY <1>1, <1>5 DEF ResolveSpatialFails, CallFails
      <2> QED
            BY <1>1, <1>2, <2>1 DEF SoundInv, Untroubled
<1> QED
      BY <1>3, <1>4, <1>5

LEMMA SoundValidationSteps ==
    ASSUME Inv, SoundInv, ValidateNothing \/ AllValid \/ CannotCorrect \/ Corrected
                          \/ StillInvalid \/ CorrectedNothing \/ ValidateFails
    PROVE  SoundInv'
<1>1. ~sql' /\ node = "validate_filters"
      <2>1. node = "validate_filters" /\ sql' = sql
            BY DEF ValidateNothing, AllValid, CannotCorrect, Corrected, StillInvalid,
                   CorrectedNothing, ValidateFails, InvalidFilters, output
      <2> QED
            BY <2>1 DEF Inv, AskInv
<1>2. node' \in {"generate_sql", "end", "aborted"}
      <2>1. CASE CannotCorrect \/ StillInvalid
            <3>1. \E q, a : Ask(q, RouteAfterValidation(a)) /\ q \in Question
                  <4>1. \A f \in Analysis :
                            /\ f.question \in Question
                            /\ (IF f.clear /\ f.question # "text" THEN "text" ELSE f.question) \in Question
                        BY DEF Analysis, Question
                  <4> QED
                        BY <2>1, <4>1 DEF CannotCorrect, StillInvalid
            <3> QED
                  BY <3>1 DEF Ask, Return, RouteAfterValidation, Question
      <2>2. CASE ValidateNothing \/ AllValid \/ Corrected \/ CorrectedNothing \/ ValidateFails
            <3>1. \E a : Return(RouteAfterValidation(a)) \/ Raise(RouteAfterValidation(a))
                         \/ CallFails(RouteAfterValidation(a))
                  BY <2>2 DEF ValidateNothing, AllValid, Corrected, CorrectedNothing, ValidateFails
            <3> QED
                  BY <3>1 DEF Return, Raise, CallFails, RouteAfterValidation
      <2> QED
            BY <2>1, <2>2
<1>3. SUFFICES ASSUME node' = "generate_sql", Untroubled' PROVE Settled'
      BY <1>1, <1>2 DEF SoundInv
<1>4. Untroubled
      <2>1. Next
            BY DEF Next
      <2> QED
            BY <1>3, <2>1, ErrorsStay
<1>5. CASE AllValid
      <2>1. analysis' = analysis /\ analysis.intent \in Intents /\ Valid(analysis.intent)
            BY <1>5 DEF AllValid, Inv, TypeOK, Analysis
      <2> QED
            BY <1>4, <1>5, <2>1 DEF AllValid, SoundInv, Settled, Sound
<1>6. CASE Corrected
      <2>1. PICK r \in Analysis : /\ r.intent # NoIntent /\ Valid(r.intent) /\ analysis' = r
            BY <1>6 DEF Corrected
      <2>2. Sound(r.intent)
            BY <2>1 DEF Sound, Analysis
      <2>3. madeBy' = "validate_filters"
            BY <1>6 DEF Corrected
      <2> QED
            BY <2>1, <2>2, <2>3 DEF Settled
<1>7. CASE CannotCorrect \/ StillInvalid
      <2>1. \E q : Ask(q, "end") /\ q \in Question
            <3>1. CASE CannotCorrect
                  BY <3>1 DEF CannotCorrect, Analysis, RouteAfterValidation
            <3>2. CASE StillInvalid
                  <4>1. PICK f \in Analysis, q \in Question :
                            /\ analysis' = [f EXCEPT !.clear = FALSE, !.question = q]
                            /\ Ask(q, RouteAfterValidation(analysis'))
                        <5>1. \A f \in Analysis :
                                  (IF f.clear /\ f.question # "text" THEN "text" ELSE f.question)
                                      \in Question
                              BY DEF Analysis, Question
                        <5> QED
                              BY <3>2, <5>1 DEF StillInvalid
                  <4>2. ~analysis'.clear
                        BY <4>1 DEF Analysis
                  <4> QED
                        BY <4>1, <4>2 DEF RouteAfterValidation
            <3> QED
                  BY <1>7, <3>1, <3>2
      <2>2. node' \in {"end", "aborted"}
            BY <1>1, <2>1 DEF Ask, Return, Question
      <2> QED
            BY <1>3, <2>2
<1>8. CASE ValidateNothing \/ CorrectedNothing \/ ValidateFails
      <2>1. "validate_filters" \in errors'
            BY <1>1, <1>8 DEF ValidateNothing, CorrectedNothing, ValidateFails, Raise, CallFails
      <2> QED
            BY <1>3, <2>1 DEF Untroubled
<1> QED
      BY <1>5, <1>6, <1>7, <1>8

LEMMA SoundLastSteps ==
    ASSUME Inv, SoundInv, GenerateSql \/ GenerateSqlFails \/ ExecuteQuery \/ PlanVisualization
                          \/ PlanVisualizationFails \/ DescribeResults \/ DescribeResultsFails
                          \/ CiteSources
    PROVE  SoundInv'
<1>1. /\ node' \in {"execute_query", "plan_visualization", "describe_results", "cite_sources", "end"}
      /\ analysis' = analysis /\ madeBy' = madeBy
      /\ sql' => sql \/ node = "generate_sql"
      BY DEF GenerateSql, GenerateSqlFails, ExecuteQuery, PlanVisualization,
             PlanVisualizationFails, DescribeResults, DescribeResultsFails, CiteSources, Return,
             Raise, CallFails, output
<1>2. Untroubled' => Untroubled
      <2>1. Next
            BY DEF Next
      <2> QED
            BY <2>1, ErrorsStay
<1>3. ASSUME sql', Untroubled' PROVE Settled'
      <2>1. node = "generate_sql" \/ sql
            BY <1>1, <1>3, Zenon
      <2>2. Settled
            BY <1>2, <1>3, <2>1, Zenon DEF SoundInv
      <2> QED
            BY <1>1, <2>2 DEF Settled
<1> QED
      BY <1>1, <1>3 DEF SoundInv

LEMMA SoundStep == Inv /\ SoundInv /\ [Next]_vars => SoundInv'
<1>1. ASSUME SoundInv, UNCHANGED vars PROVE SoundInv'
      BY <1>1 DEF vars, SoundInv, Settled, Untroubled
<1> QED
      BY <1>1, SoundFirstSteps, SoundSpatialSteps, SoundValidationSteps, SoundLastSteps DEF Next

LEMMA AlwaysSound == Spec => []SoundInv
BY WorkflowInv, SoundInit, SoundStep, PTL DEF Spec

\* Whatever the model, PDOK and DuckDB answer, and whatever the data are: a query runs on
\* filters and origins that select something and, as long as no correction replaced the
\* intent, on no place that was not looked up.
THEOREM QueriesAreSound == Spec => []SqlOnSoundFilters
<1>1. SoundInv => SqlOnSoundFilters
      <2> SUFFICES ASSUME Sound(analysis.intent)
                   PROVE  /\ Selective(Checkable(analysis.intent.filters))
                          /\ Selective(Checkable(analysis.intent.origins))
            BY DEF SoundInv, Settled, SqlOnSoundFilters, Untroubled, NoPlaces
      <2> DEFINE i == analysis.intent
      <2>1. i \in Intents /\ Valid(i)
            BY DEF Sound
      <2> HIDE DEF i
      <2>2. i.filters \in Seq(Filter) /\ i.origins \in Seq(Filter)
            BY <2>1, IntentTypes
      <2>3. Verdict[i].invalid =
               CollectInvalid(Categoricals(i.filters)) \cup CollectInvalid(Categoricals(i.origins))
            BY <2>1 DEF Verdict, ValidateAll
      <2>4. /\ CollectInvalid(Categoricals(i.filters)) = {}
            /\ CollectInvalid(Categoricals(i.origins)) = {}
            BY <2>1, <2>3 DEF Valid
      <2>5. Selective(Checkable(i.filters)) /\ Selective(Checkable(i.origins))
            BY <2>2, <2>4, ValidIsSelective
      <2> QED
            BY <2>1, <2>5 DEF i
<1> QED
      BY <1>1, AlwaysSound, PTL

(***************************************************************************)
(* Who is blamed                                                           *)
(***************************************************************************)

\* A filter is blamed by itself, or as the first that breaks the combination.
LEMMA BlamedHow ==
    ASSUME NEW T, NEW fs \in Seq(T), NEW b \in CollectInvalid(Categoricals(fs)),
           NEW s, s = ToCheck(fs)
    PROVE  \/ \E k \in DOMAIN s : /\ b = Blame(s[k], Scope(s, k))
                                  /\ ~ValueExists(s[k], Scope(s, k))
           \/ \E k \in DOMAIN s : Breaks(s, k) /\ b = Blame(s[k], Prefix(s, k - 1))
<1>1. s \in Seq(T)
      BY CheckedFilters
<1>2. b \in IndividuallyInvalid(s) \/ b \in InvalidInCombination(s)
      BY DEF CollectInvalid, ToCheck
<1>3. CASE b \in IndividuallyInvalid(s)
      BY <1>3 DEF IndividuallyInvalid
<1>4. CASE b \in InvalidInCombination(s)
      BY <1>1, <1>4, ConflictBreaks
<1> QED
      BY <1>2, <1>3, <1>4

\* The filters of a table among some filters.
OfTable(fs, t) == {f \in fs : f.table = t}

\* Nothing is left in the table of the filter that breaks the combination.
LEMMA BreakingTable ==
    ASSUME NEW T, NEW s \in Seq(T), NEW k, Breaks(s, k)
    PROVE  /\ s[k].table # NoTable
           /\ \A row \in Data[s[k].table] : ~Where(OfTable(Prefix(s, k), s[k].table), row)
<1>1. DOMAIN s = 1..Len(s) /\ Len(s) \in Nat
      BY ListElements
<1>2. k \in 1..Len(s) /\ k - 1 \in 0..(k - 1)
      BY <1>1 DEF Breaks
<1>3. Prefix(s, k) = Prefix(s, k - 1) \cup {s[k]}
      BY <1>2, PrefixGrows
<1>4. CombinationHasResults(Prefix(s, k - 1)) /\ ~CombinationHasResults(Prefix(s, k))
      BY <1>2 DEF Breaks
<1>5. PICK t \in {f.table : f \in Prefix(s, k)} \ {NoTable} :
          \A row \in Data[t] : ~Where(OfTable(Prefix(s, k), t), row)
      BY <1>4 DEF CombinationHasResults, OfTable
<1>6. t = s[k].table
      <2> SUFFICES ASSUME t # s[k].table PROVE FALSE
            OBVIOUS
      <2>1. OfTable(Prefix(s, k), t) = OfTable(Prefix(s, k - 1), t)
            BY <1>3 DEF OfTable
      <2>2. t \in {f.table : f \in Prefix(s, k - 1)} \ {NoTable}
            BY <1>3, <1>5
      <2>3. PICK row \in Data[t] : Where(OfTable(Prefix(s, k - 1), t), row)
            BY <1>4, <2>2 DEF CombinationHasResults, OfTable
      <2> QED
            BY <1>5, <2>1, <2>3
<1> QED
      BY <1>5, <1>6

\* A location that is blamed although it occurs clashes with other locations.
LEMMA LocationsClash ==
    ASSUME NEW T, NEW fs \in Seq(T), NEW b \in CollectInvalid(Categoricals(fs)),
           IsLocation(b.filter), ValueExists(b.filter, {})
    PROVE  \E clash \in SUBSET {f \in Checkable(fs) : IsLocation(f) /\ f.table = b.filter.table} :
              b.filter \in clash /\ ~Selective(clash)
<1> DEFINE s == ToCheck(fs)
<1>1. /\ s \in Seq(T) /\ Sorted(s)
      /\ Range(s) = {f \in Range(fs) : IsCategorical(f) /\ f.op # "IS NOT NULL"}
      BY CheckedFilters
<1>2. \/ \E k \in DOMAIN s : /\ b = Blame(s[k], Scope(s, k))
                             /\ ~ValueExists(s[k], Scope(s, k))
      \/ \E k \in DOMAIN s : Breaks(s, k) /\ b = Blame(s[k], Prefix(s, k - 1))
      BY BlamedHow
<1> HIDE DEF s
<1>3. ASSUME NEW k, b = Blame(s[k], Scope(s, k)), ~ValueExists(s[k], Scope(s, k))
      PROVE  FALSE
      <2>1. b.filter = s[k]
            BY <1>3 DEF Blame
      <2>2. Scope(s, k) = {}
            BY <2>1 DEF Scope
      <2> QED
            BY <1>3, <2>1, <2>2
<1>4. PICK k \in DOMAIN s : Breaks(s, k) /\ b = Blame(s[k], Prefix(s, k - 1))
      BY <1>2, <1>3
<1>5. /\ b.filter = s[k] /\ s[k].table # NoTable
      /\ \A row \in Data[s[k].table] : ~Where(OfTable(Prefix(s, k), s[k].table), row)
      BY <1>1, <1>4, BreakingTable DEF Blame
<1> DEFINE clash == OfTable(Prefix(s, k), s[k].table)
<1>6. Len(s) \in Nat /\ DOMAIN s = 1..Len(s) /\ Range(s) = {s[j] : j \in 1..Len(s)}
      BY <1>1, ListElements
<1>7. k \in 1..Len(s) /\ k \in 0..Len(s) /\ k \in 1..k
      BY <1>6
<1>8. Prefix(s, k) = {s[j] : j \in 1..k}
      BY <1>1, <1>7, PrefixIs
<1>9. ASSUME NEW f \in clash
      PROVE  f \in Checkable(fs) /\ IsLocation(f) /\ f.table = b.filter.table
      <2>1. PICK j \in 1..k : f = s[j]
            BY <1>8 DEF OfTable
      <2>2. f \in Range(s) /\ f.table = b.filter.table /\ f.table # NoTable
            BY <1>5, <1>6, <1>7, <2>1 DEF OfTable
      <2>3. f \in Checkable(fs)
            BY <1>1, <2>2 DEF IsCategorical, Checkable
      <2>4. PICK m \in 0..Len(s) : /\ \A i \in 1..m : IsLocation(s[i])
                                   /\ \A i \in (m + 1)..Len(s) : ~IsLocation(s[i])
            BY <1>1 DEF Sorted
      <2>5. k <= m
            BY <1>5, <1>6, <1>7, <2>4
      <2>6. j \in 1..m
            BY <1>6, <1>7, <2>1, <2>5
      <2> QED
            BY <2>1, <2>2, <2>3, <2>4, <2>6
<1>10. s[k] \in clash
      BY <1>6, <1>7, <1>8 DEF OfTable
<1>11. ASSUME Selective(clash) PROVE FALSE
      <2>1. s[k].table \in {f.table : f \in clash}
            BY <1>10
      <2>2. PICK row \in Data[s[k].table] :
                \A c \in {f.column : f \in {g \in clash : g.table = s[k].table}} :
                   \E f \in clash : f.table = s[k].table /\ f.column = c /\ Selects(f, row)
            BY <1>11, <2>1 DEF Selective
      <2>3. \A f \in clash : f.table = s[k].table
            BY DEF OfTable
      <2> HIDE DEF clash
      <2>4. Where(clash, row)
            BY <2>2, <2>3 DEF Where
      <2> QED
            BY <1>5, <2>4 DEF clash
<1> HIDE DEF clash
<1>12. clash \in SUBSET {f \in Checkable(fs) : IsLocation(f) /\ f.table = b.filter.table}
      BY <1>9
<1> QED
      BY <1>5, <1>10, <1>11, <1>12

\* For any database, dictionary and intent: a location that occurs in its table is blamed
\* only for what is among the locations.
THEOREM LocationsAreSpared == Spec => []BlameSparesLocations
<1>1. Inv => BlameSparesLocations
      <2> DEFINE i == analysis.intent
      <2> SUFFICES ASSUME Inv, BeingValidated, NEW b \in Verdict[i].invalid,
                          IsLocation(b.filter), b.filter \in Range(i.filters),
                          ValueExists(b.filter, {})
                   PROVE  \/ \E clash \in SUBSET {f \in Checkable(i.filters) :
                                              IsLocation(f) /\ f.table = b.filter.table} :
                                b.filter \in clash /\ ~Selective(clash)
                          \/ b.filter \in Range(i.origins)
            BY DEF BlameSparesLocations
      <2>1. i \in Intents
            BY DEF BeingValidated, Inv, TypeOK, Analysis
      <2> HIDE DEF i
      <2>2. i.filters \in Seq(Filter) /\ i.origins \in Seq(Filter)
            BY <2>1, IntentTypes
      <2>3. \/ b \in CollectInvalid(Categoricals(i.filters))
            \/ b \in CollectInvalid(Categoricals(i.origins))
            BY <2>1 DEF Verdict, ValidateAll
      <2>4. CASE b \in CollectInvalid(Categoricals(i.filters))
            BY <2>2, <2>4, LocationsClash
      <2>5. CASE b \in CollectInvalid(Categoricals(i.origins))
            <3> DEFINE s == ToCheck(i.origins)
            <3>1. /\ s \in Seq(Filter)
                  /\ Range(s) = {f \in Range(i.origins) : IsCategorical(f) /\ f.op # "IS NOT NULL"}
                  BY <2>2, CheckedFilters
            <3>2. \/ \E k \in DOMAIN s : /\ b = Blame(s[k], Scope(s, k))
                                         /\ ~ValueExists(s[k], Scope(s, k))
                  \/ \E k \in DOMAIN s : Breaks(s, k) /\ b = Blame(s[k], Prefix(s, k - 1))
                  BY <2>2, <2>5, BlamedHow
            <3> HIDE DEF s
            <3>3. PICK k \in DOMAIN s : b.filter = s[k]
                  BY <3>2 DEF Blame
            <3>4. s[k] \in Range(s)
                  BY DEF Range
            <3> QED
                  BY <3>1, <3>3, <3>4
      <2> QED
            BY <2>3, <2>4, <2>5
<1> QED
      BY <1>1, WorkflowInv, PTL

(***************************************************************************)
(* Corrections move on                                                     *)
(***************************************************************************)

\* The list with another value, checked as "=", in its k-th place.
Healed(s, k, v) == [s EXCEPT ![k].value = v, ![k].op = "="]

\* h is such a list.
Heals(h, s, k, v) ==
    /\ k \in DOMAIN s /\ h \in Seq(Filter) /\ DOMAIN h = DOMAIN s /\ Len(h) = Len(s)
    /\ h[k] \in Filter /\ h[k].table = s[k].table /\ h[k].column = s[k].column
    /\ h[k].op = "=" /\ h[k].value = v
    /\ \A j \in DOMAIN s : j # k => h[j] = s[j]

LEMMA HealedHeals ==
    ASSUME NEW s \in Seq(Filter), NEW k \in DOMAIN s, NEW v \in Values
    PROVE  Heals(Healed(s, k, v), s, k, v)
<1> DEFINE h == Healed(s, k, v)
           g == [s[k] EXCEPT !.value = v, !.op = "="]
<1>1. DOMAIN s = 1..Len(s) /\ Len(s) \in Nat /\ \A j \in 1..Len(s) : s[j] \in Filter
      BY ListElements
<1>2. /\ g \in Filter /\ g.table = s[k].table /\ g.column = s[k].column
      /\ g.op = "=" /\ g.value = v
      BY <1>1 DEF Filter, Ops
<1>3. h = [s EXCEPT ![k] = g]
      BY DEF Healed
<1> HIDE DEF g, h
<1>4. h \in Seq(Filter) /\ DOMAIN h = DOMAIN s /\ h[k] = g /\ \A j \in DOMAIN s : j # k => h[j] = s[j]
      BY <1>1, <1>2, <1>3
<1>5. Len(h) = Len(s)
      BY <1>1, <1>4
<1> QED
      BY <1>2, <1>4, <1>5 DEF Heals, h

LEMMA HealedSorted ==
    ASSUME NEW s \in Seq(Filter), Sorted(s), NEW h, NEW k, NEW v, Heals(h, s, k, v)
    PROVE  Sorted(h)
<1>1. PICK m \in 0..Len(s) : /\ \A j \in 1..m : IsLocation(s[j])
                             /\ \A j \in (m + 1)..Len(s) : ~IsLocation(s[j])
      BY DEF Sorted
<1>2. /\ DOMAIN s = 1..Len(s) /\ Len(s) \in Nat /\ Len(h) = Len(s)
      /\ \A j \in 1..Len(s) : h[j].column = s[j].column
      BY ListElements DEF Heals
<1>3. /\ \A j \in 1..m : IsLocation(h[j])
      /\ \A j \in (m + 1)..Len(h) : ~IsLocation(h[j])
      BY <1>1, <1>2 DEF IsLocation
<1> QED
      BY <1>1, <1>2, <1>3 DEF Sorted

\* A healed list is validated as it is.
LEMMA HealedIsChecked ==
    ASSUME NEW s \in Seq(Filter), Sorted(s), \A f \in Range(s) : f.op # "IS NOT NULL",
           NEW h, NEW k, NEW v, Heals(h, s, k, v)
    PROVE  CollectInvalid(h) =
               IF IndividuallyInvalid(h) # {} THEN IndividuallyInvalid(h) ELSE InvalidInCombination(h)
<1>1. h \in Seq(Filter) /\ Sorted(h) /\ DOMAIN h = 1..Len(s) /\ Len(h) = Len(s) /\ Len(s) \in Nat
      BY HealedSorted, ListElements DEF Heals
<1> DEFINE checked == {f \in Range(h) : f.op # "IS NOT NULL"}
<1>2. \A j \in 1..Len(h) : h[j] \in checked
      <2> SUFFICES ASSUME NEW j \in 1..Len(h) PROVE h[j] \in checked
            OBVIOUS
      <2>1. h[j] \in Range(h)
            BY <1>1 DEF Range
      <2>2. CASE j = k
            BY <2>1, <2>2 DEF Heals
      <2>3. CASE j # k
            <3>1. h[j] = s[j] /\ s[j] \in Range(s)
                  BY <1>1, <2>3, ListElements DEF Heals
            <3> QED
                  BY <2>1, <3>1
      <2> QED
            BY <2>2, <2>3
<1>3. Validatable(h) = Only(h, checked)
      BY DEF Validatable
<1> HIDE DEF checked
<1>4. Only(h, checked) = h
      BY <1>1, <1>2, OnlyAll
<1>5. SortByHierarchy(h) = h
      BY <1>1, SortedStays
<1> QED
      BY <1>3, <1>4, <1>5 DEF CollectInvalid

\* The locations that scope the others: those that occur.
Anchors(s) == {f \in Range(s) : IsLocation(f) /\ ValueExists(f, {})}

\* In a sorted list, the scope of a filter does not depend on its position.
LEMMA SortedScope ==
    ASSUME NEW T, NEW s \in Seq(T), Sorted(s), NEW k \in DOMAIN s
    PROVE  Scope(s, k) = IF IsLocation(s[k]) THEN {} ELSE Anchors(s)
<1>1. PICK m \in 0..Len(s) : /\ \A j \in 1..m : IsLocation(s[j])
                             /\ \A j \in (m + 1)..Len(s) : ~IsLocation(s[j])
      BY DEF Sorted
<1>2. DOMAIN s = 1..Len(s) /\ Len(s) \in Nat /\ Range(s) = {s[j] : j \in 1..Len(s)}
      BY ListElements
<1>3. CASE IsLocation(s[k])
      BY <1>3 DEF Scope
<1>4. CASE ~IsLocation(s[k])
      <2>1. m < k
            BY <1>1, <1>2, <1>4
      <2>2. \A j \in 1..Len(s) : IsLocation(s[j]) => j \in 1..(k - 1)
            BY <1>1, <1>2, <2>1
      <2>3. \A j \in 1..(k - 1) : j \in 1..Len(s)
            BY <1>2
      <2>4. Scope(s, k) = {s[j] : j \in {j \in 1..(k - 1) : IsLocation(s[j]) /\ ValueExists(s[j], {})}}
            BY <1>4 DEF Scope
      <2>5. ASSUME NEW f \in Anchors(s) PROVE f \in Scope(s, k)
            <3>1. PICK j \in 1..Len(s) : f = s[j]
                  BY <1>2 DEF Anchors
            <3>2. IsLocation(s[j]) /\ ValueExists(s[j], {})
                  BY <3>1 DEF Anchors
            <3>3. j \in 1..(k - 1)
                  BY <2>2, <3>2
            <3> QED
                  BY <2>4, <3>1, <3>2, <3>3
      <2>6. ASSUME NEW f \in Scope(s, k) PROVE f \in Anchors(s)
            <3>1. PICK j \in 1..(k - 1) : f = s[j] /\ IsLocation(s[j]) /\ ValueExists(s[j], {})
                  BY <2>4
            <3>2. s[j] \in Range(s)
                  BY <1>2, <2>3
            <3> QED
                  BY <3>1, <3>2 DEF Anchors
      <2>7. Scope(s, k) = Anchors(s)
            BY <2>5, <2>6
      <2> QED
            BY <1>4, <2>7
<1> QED
      BY <1>3, <1>4

\* What is validated of the filters of an intent with tables.
Proper(s) ==
    /\ s \in Seq(Filter) /\ Sorted(s)
    /\ \A f \in Range(s) : /\ f.table \in Tables /\ f.column \in Columns[f.table]
                           /\ f.table # NoTable /\ f.op # "IS NOT NULL"

LEMMA FilledIsProper ==
    ASSUME NEW i \in Intents, Filled(i)
    PROVE  Proper(ToCheck(i.filters))
<1> DEFINE s == ToCheck(i.filters)
<1>1. i.filters \in Seq(Filter)
      BY IntentTypes
<1>2. /\ s \in Seq(Filter) /\ Sorted(s)
      /\ Range(s) = {f \in Range(i.filters) : IsCategorical(f) /\ f.op # "IS NOT NULL"}
      BY <1>1, CheckedFilters
<1> HIDE DEF s
<1>3. ASSUME NEW f \in Range(s)
      PROVE  /\ f.table \in Tables /\ f.column \in Columns[f.table]
             /\ f.table # NoTable /\ f.op # "IS NOT NULL"
      <2>1. f.table # NoTable /\ IsCategorical(f) /\ f.op # "IS NOT NULL"
            BY <1>2 DEF Filled
      <2>2. <<f.table, f.column>> \in Categorical
            BY <2>1 DEF IsCategorical
      <2> QED
            BY <2>1, <2>2, WorkflowConstants
<1> QED
      BY <1>2, <1>3 DEF Proper, s

\* The row that the new value was taken from.
Fitting(s, k, v, row) ==
    /\ row \in Data[s[k].table]
    /\ Where(SameTable(s[k].table, Prefix(s, k - 1)), row)
    /\ v = row[s[k].column] /\ v # Null

\* A candidate comes from a row that has everything in front of the filter.
LEMMA CandidateFits ==
    ASSUME NEW s, Proper(s), NEW k \in DOMAIN s,
           NEW v \in Candidates(s[k], Prefix(s, k - 1))
    PROVE  /\ \E row : Fitting(s, k, v, row)
           /\ v \in Values
<1>1. /\ s[k].table \in Tables /\ s[k].column \in Columns[s[k].table] /\ s[k].table # NoTable
      BY DEF Proper, Range
<1>2. PICK row \in Data[s[k].table] : /\ Where(SameTable(s[k].table, Prefix(s, k - 1)), row)
                                      /\ v = row[s[k].column] /\ v # Null
      BY <1>1 DEF Candidates, Scoped
<1>3. row \in [Columns[s[k].table] -> Values \cup {Null}]
      BY <1>1, <1>2, FilterConstants
<1>4. v \in Values
      BY <1>1, <1>2, <1>3
<1> QED
      BY <1>2, <1>4 DEF Fitting

\* The new filter selects that row.
LEMMA HealedSelects ==
    ASSUME NEW s, Proper(s), NEW k, NEW v, NEW h, Heals(h, s, k, v), NEW row, Fitting(s, k, v, row)
    PROVE  Selects(h[k], row)
<1>1. /\ k \in DOMAIN s /\ s[k].table \in Tables /\ s[k].column \in Columns[s[k].table]
      BY DEF Proper, Range, Heals
<1>2. row \in [Columns[s[k].table] -> Values \cup {Null}]
      BY <1>1, FilterConstants DEF Fitting
<1> QED
      BY <1>1, <1>2 DEF Heals, Fitting, Selects

\* In front of the healed filter, nothing changes.
LEMMA HealedPrefix ==
    ASSUME NEW s \in Seq(Filter), NEW h, NEW k, NEW v, Heals(h, s, k, v)
    PROVE  /\ \A j \in 0..(k - 1) : Prefix(h, j) = Prefix(s, j)
           /\ Prefix(h, k) = Prefix(s, k - 1) \cup {h[k]}
<1>1. /\ DOMAIN s = 1..Len(s) /\ Len(s) \in Nat /\ Len(h) = Len(s) /\ h \in Seq(Filter)
      /\ k \in 1..Len(s)
      BY ListElements DEF Heals
<1>2. ASSUME NEW j \in 0..(k - 1) PROVE Prefix(h, j) = Prefix(s, j)
      <2>1. j \in 0..Len(s) /\ j \in 0..Len(h)
            BY <1>1
      <2>2. Prefix(s, j) = {s[i] : i \in 1..j}
            BY <2>1, PrefixIs
      <2>3. Prefix(h, j) = {h[i] : i \in 1..j}
            BY <1>1, <2>1, PrefixIs
      <2>4. \A i \in 1..j : h[i] = s[i]
            BY <1>1 DEF Heals
      <2> QED
            BY <2>2, <2>3, <2>4
<1>3. k \in 1..Len(h) /\ k - 1 \in 0..(k - 1)
      BY <1>1
<1>4. Prefix(h, k) = Prefix(h, k - 1) \cup {h[k]}
      BY <1>1, <1>3, PrefixGrows
<1> QED
      BY <1>2, <1>3, <1>4

\* What goes for both lists.
LEMMA HealedList ==
    ASSUME NEW s, Proper(s), NEW h, NEW k, NEW v, Heals(h, s, k, v)
    PROVE  /\ s \in Seq(Filter) /\ Sorted(s) /\ h \in Seq(Filter) /\ Sorted(h)
           /\ DOMAIN s = 1..Len(s) /\ Len(s) \in Nat /\ DOMAIN h = 1..Len(s) /\ k \in 1..Len(s)
<1>1. s \in Seq(Filter) /\ Sorted(s)
      BY DEF Proper
<1>2. DOMAIN s = 1..Len(s) /\ Len(s) \in Nat
      BY <1>1, ListElements
<1>3. Sorted(h)
      BY <1>1, HealedSorted
<1> QED
      BY <1>1, <1>2, <1>3 DEF Heals

\* Up to the healed filter, every filter is valid by itself.
LEMMA HealedIsValid ==
    ASSUME NEW s, Proper(s), IndividuallyInvalid(s) = {}, NEW h, NEW k, NEW v, Heals(h, s, k, v),
           NEW row, Fitting(s, k, v, row), NEW j \in 1..k
    PROVE  j \in DOMAIN h /\ ValueExists(h[j], Scope(h, j))
<1>1. /\ s \in Seq(Filter) /\ Sorted(s) /\ h \in Seq(Filter) /\ Sorted(h)
      /\ DOMAIN s = 1..Len(s) /\ Len(s) \in Nat /\ DOMAIN h = 1..Len(s) /\ k \in 1..Len(s)
      BY HealedList
<1>2. j \in DOMAIN s /\ j \in DOMAIN h /\ k \in DOMAIN s
      BY <1>1
<1>3. Scope(s, j) = IF IsLocation(s[j]) THEN {} ELSE Anchors(s)
      BY <1>1, <1>2, SortedScope
<1>4. Scope(h, j) = IF IsLocation(h[j]) THEN {} ELSE Anchors(h)
      BY <1>1, <1>2, SortedScope
<1>5. \A i \in DOMAIN s : IsLocation(h[i]) <=> IsLocation(s[i])
      BY DEF Heals, IsLocation
<1>6. \A i \in DOMAIN s : ValueExists(s[i], Scope(s, i))
      BY DEF IndividuallyInvalid
<1>7. ASSUME ~IsLocation(s[k]) PROVE Anchors(h) = Anchors(s)
      <2>1. \A i \in DOMAIN s : i # k => h[i] = s[i]
            BY DEF Heals
      <2>2. Range(s) = {s[i] : i \in DOMAIN s} /\ Range(h) = {h[i] : i \in DOMAIN s}
            BY <1>1 DEF Range
      <2>3. ASSUME NEW f, IsLocation(f) PROVE f \in Range(h) <=> f \in Range(s)
            BY <1>5, <1>7, <2>1, <2>2, <2>3
      <2> QED
            BY <2>3 DEF Anchors
<1>8. CASE j # k
      <2>1. h[j] = s[j] /\ ValueExists(s[j], Scope(s, j))
            BY <1>2, <1>6, <1>8 DEF Heals
      <2>2. CASE IsLocation(s[j])
            BY <1>2, <1>3, <1>4, <2>1, <2>2
      <2>3. CASE ~IsLocation(s[j])
            <3>1. PICK m \in 0..Len(s) : /\ \A i \in 1..m : IsLocation(s[i])
                                         /\ \A i \in (m + 1)..Len(s) : ~IsLocation(s[i])
                  BY <1>1 DEF Sorted
            <3>2. m < j
                  BY <1>1, <2>3, <3>1
            <3>3. ~IsLocation(s[k])
                  BY <1>1, <3>1, <3>2
            <3> QED
                  BY <1>2, <1>3, <1>4, <1>7, <2>1, <2>3, <3>3
      <2> QED
            BY <2>2, <2>3
<1>9. CASE j = k
      <2> DEFINE t == s[k].table
      <2>1. h[k].table = t /\ row \in Data[t] /\ Selects(h[k], row)
            BY HealedSelects DEF Heals, Fitting
      <2>2. CASE IsLocation(s[k])
            <3>1. Scope(h, j) = {}
                  BY <1>2, <1>4, <1>5, <1>9, <2>2
            <3>2. row \in Scoped(t, {})
                  BY <2>1 DEF Scoped, SameTable, Where
            <3> QED
                  BY <1>2, <1>9, <2>1, <3>1, <3>2 DEF ValueExists
      <2>3. CASE ~IsLocation(s[k])
            <3>1. Scope(h, j) = Anchors(s) /\ Scope(s, j) = Anchors(s)
                  BY <1>2, <1>3, <1>4, <1>5, <1>7, <1>9, <2>3
            <3>2. Anchors(s) \subseteq Prefix(s, k - 1)
                  <4>1. Scope(s, k) = {s[i] : i \in {i \in 1..(k - 1) :
                                              IsLocation(s[i]) /\ ValueExists(s[i], {})}}
                        BY <2>3 DEF Scope
                  <4>2. k - 1 \in 0..Len(s)
                        BY <1>1
                  <4>3. Prefix(s, k - 1) = {s[i] : i \in 1..(k - 1)}
                        BY <1>1, <4>2, PrefixIs
                  <4> QED
                        BY <1>9, <3>1, <4>1, <4>3
            <3>3. ASSUME NEW f \in SameTable(t, Anchors(s))
                  PROVE  \E g \in SameTable(t, Anchors(s)) : g.column = f.column /\ Selects(g, row)
                  <4>1. f \in SameTable(t, Prefix(s, k - 1)) /\ IsLocation(f)
                        BY <3>2 DEF SameTable, Anchors
                  <4>2. PICK g \in SameTable(t, Prefix(s, k - 1)) :
                            g.column = f.column /\ Selects(g, row)
                        BY <4>1 DEF Fitting, Where
                  <4>3. IsLocation(g) /\ g.table \in {t, NoTable}
                        BY <4>1, <4>2 DEF IsLocation, SameTable
                  <4>4. g \in Prefix(s, k - 1)
                        BY DEF SameTable
                  <4>5. k - 1 \in 0..Len(s)
                        BY <1>1
                  <4>6. Prefix(s, k - 1) = {s[i] : i \in 1..(k - 1)}
                        BY <1>1, <4>5, PrefixIs
                  <4>7. PICK i \in DOMAIN s : g = s[i]
                        BY <1>1, <4>4, <4>6
                  <4>8. Scope(s, i) = {}
                        BY <4>3, <4>7 DEF Scope
                  <4>9. ValueExists(g, {}) /\ g \in Range(s)
                        BY <1>6, <4>7, <4>8 DEF Range
                  <4>10. g \in SameTable(t, Anchors(s))
                        BY <4>3, <4>9 DEF Anchors, SameTable
                  <4> QED
                        BY <4>2, <4>10
            <3>4. row \in Scoped(t, Anchors(s))
                  BY <2>1, <3>3 DEF Scoped, Where
            <3> QED
                  BY <1>2, <1>9, <2>1, <3>1, <3>4 DEF ValueExists
      <2> QED
            BY <2>2, <2>3
<1> QED
      BY <1>8, <1>9

\* The healed filter can be combined with what is in front of it.
LEMMA HealedCombines ==
    ASSUME NEW s, Proper(s), NEW h, NEW k, NEW v, Heals(h, s, k, v), Breaks(s, k),
           NEW row, Fitting(s, k, v, row), NEW j \in 1..k
    PROVE  CombinationHasResults(Prefix(h, j))
<1>1. /\ s \in Seq(Filter) /\ DOMAIN s = 1..Len(s) /\ Len(s) \in Nat /\ k \in 1..Len(s)
      BY ListElements DEF Proper, Heals
<1>2. /\ \A i \in 0..(k - 1) : Prefix(h, i) = Prefix(s, i)
      /\ Prefix(h, k) = Prefix(s, k - 1) \cup {h[k]}
      BY <1>1, HealedPrefix
<1>3. \A i \in 0..(k - 1) : CombinationHasResults(Prefix(s, i))
      BY DEF Breaks
<1>4. CASE j # k
      <2>1. j \in 0..(k - 1)
            BY <1>1, <1>4
      <2> QED
            BY <1>2, <1>3, <2>1
<1>5. CASE j = k
      <2> DEFINE p == Prefix(s, k - 1)
      <2>1. k - 1 \in 0..(k - 1) /\ k - 1 \in 0..Len(s)
            BY <1>1
      <2>2. CombinationHasResults(p) /\ p \subseteq Range(s)
            <3>1. p = {s[i] : i \in 1..(k - 1)}
                  BY <1>1, <2>1, PrefixIs
            <3>2. \A i \in 1..(k - 1) : s[i] \in Range(s)
                  BY <1>1 DEF Range
            <3> QED
                  BY <1>3, <2>1, <3>1, <3>2
      <2>3. Prefix(h, k) = p \cup {h[k]}
            BY <1>2
      <2> HIDE DEF p
      <2>4. h[k].table = s[k].table /\ Selects(h[k], row) /\ row \in Data[s[k].table]
            BY HealedSelects DEF Heals, Fitting
      <2> SUFFICES ASSUME NEW t \in {f.table : f \in Prefix(h, k)} \ {NoTable}
                   PROVE  \E r \in Data[t] : Where(OfTable(Prefix(h, k), t), r)
            BY <1>5 DEF CombinationHasResults, OfTable
      <2>5. CASE t # s[k].table
            <3>1. OfTable(Prefix(h, k), t) = OfTable(p, t)
                  BY <2>3, <2>4, <2>5 DEF OfTable
            <3>2. t \in {f.table : f \in p} \ {NoTable}
                  BY <2>3, <2>4, <2>5
            <3> QED
                  BY <2>2, <3>1, <3>2 DEF CombinationHasResults, OfTable
      <2>6. CASE t = s[k].table
            <3>1. SameTable(t, p) = OfTable(p, t)
                  <4>1. \A f \in p : f.table # NoTable
                        BY <2>2 DEF Proper
                  <4> QED
                        BY <4>1 DEF SameTable, OfTable
            <3>2. Where(OfTable(p, t), row)
                  BY <2>6, <3>1 DEF Fitting, p
            <3>3. OfTable(Prefix(h, k), t) = OfTable(p, t) \cup {h[k]}
                  BY <2>3, <2>4, <2>6 DEF OfTable
            <3>4. Where(OfTable(Prefix(h, k), t), row)
                  BY <2>4, <3>2, <3>3 DEF Where
            <3> QED
                  BY <2>4, <2>6, <3>4
      <2> QED
            BY <2>5, <2>6
<1> QED
      BY <1>4, <1>5

\* What is in a list does not break a combination a second time.
LEMMA OnceIsEnough ==
    ASSUME NEW T, NEW s \in Seq(T), NEW i, Breaks(s, i), NEW j \in 1..(i - 1)
    PROVE  s[j] # s[i]
<1>1. /\ DOMAIN s = 1..Len(s) /\ Len(s) \in Nat
      BY ListElements
<1>2. i \in 1..Len(s) /\ i - 1 \in 0..Len(s) /\ i - 1 \in 0..(i - 1)
      BY <1>1 DEF Breaks
<1>3. Prefix(s, i) = Prefix(s, i - 1) \cup {s[i]}
      BY <1>2, PrefixGrows
<1>4. Prefix(s, i - 1) = {s[n] : n \in 1..(i - 1)}
      BY <1>2, PrefixIs
<1> SUFFICES ASSUME s[j] = s[i] PROVE FALSE
      OBVIOUS
<1>5. Prefix(s, i) = Prefix(s, i - 1)
      BY <1>3, <1>4
<1> QED
      BY <1>2, <1>5 DEF Breaks

\* Whoever is blamed after the correction stands behind it.
LEMMA HealedMovesOn ==
    ASSUME NEW s, Proper(s), IndividuallyInvalid(s) = {}, NEW k, Breaks(s, k), NEW h, NEW v,
           Heals(h, s, k, v), NEW row, Fitting(s, k, v, row),
           NEW next \in CollectInvalid(h), NEW j \in DOMAIN s, h[j] = next.filter
    PROVE  j > k
<1>1. /\ s \in Seq(Filter) /\ Sorted(s) /\ h \in Seq(Filter) /\ Sorted(h)
      /\ DOMAIN s = 1..Len(s) /\ Len(s) \in Nat /\ DOMAIN h = 1..Len(s) /\ k \in 1..Len(s)
      BY HealedList
<1> SUFFICES ASSUME j <= k PROVE FALSE
      BY <1>1
<1>2. j \in 1..k /\ j \in DOMAIN h
      BY <1>1
<1>3. ValueExists(h[j], Scope(h, j))
      BY <1>2, HealedIsValid
<1>4. next \in IndividuallyInvalid(h) \/ next \in InvalidInCombination(h)
      <2>1. \A f \in Range(s) : f.op # "IS NOT NULL"
            BY DEF Proper
      <2> QED
            BY <1>1, <2>1, HealedIsChecked
<1>5. ASSUME next \in IndividuallyInvalid(h) PROVE FALSE
      <2>1. PICK i \in DOMAIN h : /\ next = Blame(h[i], Scope(h, i))
                                  /\ ~ValueExists(h[i], Scope(h, i))
            BY <1>5 DEF IndividuallyInvalid
      <2>2. h[i] = h[j]
            BY <2>1 DEF Blame
      <2>3. Scope(h, i) = IF IsLocation(h[i]) THEN {} ELSE Anchors(h)
            BY <1>1, SortedScope
      <2>4. Scope(h, j) = IF IsLocation(h[j]) THEN {} ELSE Anchors(h)
            BY <1>1, <1>2, SortedScope
      <2> QED
            BY <1>3, <2>1, <2>2, <2>3, <2>4
<1>6. ASSUME next \in InvalidInCombination(h) PROVE FALSE
      <2>1. PICK i \in DOMAIN h : Breaks(h, i) /\ next = Blame(h[i], Prefix(h, i - 1))
            BY <1>1, <1>6, ConflictBreaks
      <2>2. h[i] = h[j] /\ i \in 1..Len(s)
            BY <1>1, <2>1 DEF Blame
      <2>3. CASE i <= k
            <3>1. i \in 1..k
                  BY <1>1, <2>2, <2>3
            <3>2. CombinationHasResults(Prefix(h, i))
                  BY <3>1, HealedCombines
            <3> QED
                  BY <2>1, <3>2 DEF Breaks
      <2>4. CASE i > k
            <3>1. j \in 1..(i - 1)
                  BY <1>1, <1>2, <2>2, <2>4
            <3> QED
                  BY <1>1, <2>1, <2>2, <3>1, OnceIsEnough
      <2> QED
            BY <1>1, <2>2, <2>3, <2>4
<1> QED
      BY <1>4, <1>5, <1>6

\* For any database, dictionary and intent: whatever candidate replaces the filter that broke
\* a combination, the next one to be blamed stands behind it.
THEOREM CorrectionsMoveOn == Spec => []CorrectionMovesOn
<1>1. Inv /\ SoundInv => CorrectionMovesOn
      <2> DEFINE s == ToCheck(analysis.intent.filters)
                 conflict == IF IndividuallyInvalid(s) = {} THEN InvalidInCombination(s) ELSE {}
      <2> SUFFICES ASSUME Inv, SoundInv, BeingValidated, NEW b \in conflict, NEW k \in DOMAIN s,
                          s[k] = b.filter, b.filter \notin Prefix(s, k - 1),
                          NEW v \in Candidates(b.filter, b.scope),
                          NEW next \in CollectInvalid(Healed(s, k, v)), NEW j \in DOMAIN s,
                          Healed(s, k, v)[j] = next.filter
                   PROVE  j > k
            BY DEF CorrectionMovesOn, ToCheck, Healed
      <2>1. Proper(s)
            BY FilledIsProper DEF BeingValidated, SoundInv, Inv, TypeOK, Analysis
      <2>2. IndividuallyInvalid(s) = {} /\ b \in InvalidInCombination(s)
            OBVIOUS
      <2> HIDE DEF s
      <2>3. s \in Seq(Filter) /\ DOMAIN s = 1..Len(s) /\ Len(s) \in Nat
            BY <2>1, ListElements DEF Proper
      <2>4. PICK first \in DOMAIN s : Breaks(s, first) /\ b = Blame(s[first], Prefix(s, first - 1))
            BY <2>2, <2>3, ConflictBreaks
      <2>5. s[first] = s[k]
            BY <2>4 DEF Blame
      <2>6. ~(k \in 1..(first - 1))
            BY <2>3, <2>4, <2>5, OnceIsEnough
      <2>7. ~(first \in 1..(k - 1))
            <3> SUFFICES ASSUME first \in 1..(k - 1) PROVE FALSE
                  OBVIOUS
            <3>1. k - 1 \in 0..Len(s)
                  BY <2>3
            <3>2. Prefix(s, k - 1) = {s[n] : n \in 1..(k - 1)}
                  BY <2>3, <3>1, PrefixIs
            <3> QED
                  BY <2>5, <3>2
      <2>8. first = k
            BY <2>3, <2>6, <2>7
      <2>9. Breaks(s, k) /\ v \in Candidates(s[k], Prefix(s, k - 1))
            BY <2>4, <2>8 DEF Blame
      <2>10. PICK row : Fitting(s, k, v, row)
            BY <2>1, <2>9, CandidateFits
      <2>11. v \in Values
            BY <2>1, <2>9, CandidateFits
      <2>12. Heals(Healed(s, k, v), s, k, v)
            BY <2>3, <2>11, HealedHeals
      <2> QED
            BY <2>1, <2>2, <2>9, <2>10, <2>12, HealedMovesOn
<1> QED
      BY <1>1, WorkflowInv, AlwaysSound, PTL
=================================================================================

------------------------ MODULE ScenarioRequestsProofs -------------------------
(***************************************************************************)
(* For any set of requests, data files and readings of the language model: *)
(* what the engine is made to run by a chat question or a recipe is what   *)
(* the client was shown and what the gate lets through; a stream never     *)
(* ends without an answer, a card, a question or an error; and what the    *)
(* analyses say of several runs is borne out by the runs: the band, the    *)
(* stack, the shock, the buffer, the transitions and the attribution.      *)
(***************************************************************************)
EXTENDS ScenarioRequests, ScoringProofs, SequenceTheorems

(***************************************************************************)
(* The inductive invariant                                                 *)
(***************************************************************************)

\* Whoever is answered from the corpus asked no run.
Answerable(req) ==
    /\ req \in Asks /\ req.question # Blank
    /\ classify_intent(req.question, req.card # "none") # "scenario_run_request"

Requests == Asks \cup Recipes \cup Stacks \cup Sweeps \cup Compares
Working  == {"score", "enrich"}

Sequence(s) == \E S : s \in Seq(S)

\* Which parts of a request there are at which stage.
FlowInv ==
    /\ data \in DataSets /\ steady \in BOOLEAN
    /\ pc \in {"idle", "answer", "score", "enrich", "finish"}
    /\ request \in {None} \cup Requests
    /\ out \in Seq(Events)
    /\ Sequence(jobs) /\ (pc \in Working <=> jobs # <<>>)
    /\ Sequence(runs) /\ (pc = "finish" => runs # <<>>)
    /\ pc = "enrich" \/ current = None
    /\ request = None => pc = "idle" /\ runs = <<>>
    /\ request = None \/ pc # "idle" => result = None /\ captured = FALSE
    /\ pc = "answer" => Answerable(request)
    /\ captured => request.kind = "ask" /\ result.citations # {}

Sound(params) == params # None /\ validate_params(params, 100) = "ok"

\* Everything a stream runs is what the client was shown, and passes the gate.
GateInv ==
    request # None /\ request.kind \in Streams =>
        /\ jobs # <<>> \/ runs # <<>> \/ pc = "enrich" => Sound(confirmed)
        /\ \A i \in 1..Len(jobs) : jobs[i].params = confirmed
        /\ \A i \in 1..Len(runs) : runs[i].params = confirmed
        /\ pc = "enrich" => current.params = confirmed

\* A stream that was read to its end has something final to say, and says that it is done.
Closed(o) ==
    o[Len(o)] \notin {"left", "broken", "422"} =>
        /\ o[Len(o)] = "done"
        /\ Range(o) \cap {"card", "error", "followup", "citations"} # {}

\* How a request ends.
EndInv ==
    request # None /\ pc = "idle" =>
        /\ out # <<>>
        /\ request.kind \in Streams => Closed(out)
        /\ request.kind = "ask" /\ result # None => (result.followup <=> result.citations = {})

IInv == FlowInv /\ GateInv /\ EndInv

(***************************************************************************)
(* The gates                                                               *)
(***************************************************************************)

\* A set of at most ten numbers has a least one.
LEMMA SmallMin ==
    ASSUME NEW S \in SUBSET (1..10), S # {}
    PROVE  Min(S) \in S
<1> DEFINE Least == \E i \in S : \A j \in S : i <= j
           From(k) == \A j \in S : k <= j
<1>1. ASSUME ~Least, NEW k \in 1..10, From(k) PROVE From(k + 1)
      <2>1. k \notin S
            BY <1>1
      <2> QED
            BY <1>1, <2>1
<1>2. From(1)
      OBVIOUS
<1>3. From(11) => S = {}
      OBVIOUS
<1> HIDE DEF From
<1>4. ASSUME ~Least PROVE FALSE
      <2>1. From(2) /\ From(3) /\ From(4)
            <3>1. From(1 + 1)
                  BY <1>1, <1>2, <1>4
            <3>2. From(2 + 1)
                  BY <1>1, <3>1, <1>4
            <3>3. From(3 + 1)
                  BY <1>1, <3>2, <1>4
            <3> QED
                  BY <3>1, <3>2, <3>3
      <2>2. From(5) /\ From(6) /\ From(7)
            <3>1. From(4 + 1)
                  BY <1>1, <2>1, <1>4
            <3>2. From(5 + 1)
                  BY <1>1, <3>1, <1>4
            <3>3. From(6 + 1)
                  BY <1>1, <3>2, <1>4
            <3> QED
                  BY <3>1, <3>2, <3>3
      <2>3. From(8) /\ From(9) /\ From(10) /\ From(11)
            <3>1. From(7 + 1)
                  BY <1>1, <2>2, <1>4
            <3>2. From(8 + 1)
                  BY <1>1, <3>1, <1>4
            <3>3. From(9 + 1)
                  BY <1>1, <3>2, <1>4
            <3>4. From(10 + 1)
                  BY <1>1, <3>3, <1>4
            <3> QED
                  BY <3>1, <3>2, <3>3, <3>4
      <2> QED
            BY <1>3, <2>3
<1> QED
      BY <1>4 DEF Min

\* A chain of early returns lets through what passes each of its checks.
LEMMA FirstOfOk ==
    ASSUME NEW n \in 1..10, NEW checks, DOMAIN checks = 1..n,
           \A i \in 1..n : checks[i][1] # "ok"
    PROVE  FirstOf(checks) = "ok" <=> \A i \in 1..n : ~checks[i][2]
<1> DEFINE failing == {i \in DOMAIN checks : checks[i][2]}
<1>1. failing # {} => Min(failing) \in 1..n
      <2>1. failing \in SUBSET (1..10) /\ failing \in SUBSET (1..n)
            OBVIOUS
      <2> HIDE DEF failing
      <2> QED
            BY <2>1, SmallMin
<1>2. FirstOf(checks) = IF failing = {} THEN "ok" ELSE checks[Min(failing)][1]
      BY DEF FirstOf
<1> QED
      BY <1>1, <1>2

\* What validate_params lets through.
LEMMA GateOk ==
    ASSUME NEW p, NEW confidence
    PROVE  validate_params(p, confidence) = "ok" <=>
           /\ ~(confidence < MIN_CONFIDENCE)
           /\ p.scenario_type \in ALLOWED_SCENARIO_TYPES
           /\ p.knmi_preset \in ALLOWED_KNMI
           /\ p.growth_preset \in ALLOWED_GROWTH
           /\ p.time_horizon \in Horizon
           /\ ~(p.scenario_type = "intake_failure" /\ p.intake_id \notin KnownIntakes)
           /\ ~(p.scenario_type = "drop_pin" /\ p.location_name = NoPlace)
           /\ DOMAIN p.assumption_overrides \subseteq ALLOWED_LEVER_KEYS
           /\ \A k \in DOMAIN p.assumption_overrides \cap WEIGHTS :
                 p.assumption_overrides[k] \in ZeroToOne
<1> DEFINE o == p.assumption_overrides
           checks == <<
            <<"low_confidence",    confidence < MIN_CONFIDENCE>>,
            <<"bad_scenario_type", p.scenario_type \notin ALLOWED_SCENARIO_TYPES>>,
            <<"bad_knmi",          p.knmi_preset \notin ALLOWED_KNMI>>,
            <<"bad_growth",        p.growth_preset \notin ALLOWED_GROWTH>>,
            <<"bad_horizon",       p.time_horizon \notin Horizon>>,
            <<"unknown_intake",    /\ p.scenario_type = "intake_failure"
                                   /\ p.intake_id \notin KnownIntakes>>,
            <<"missing_location",  p.scenario_type = "drop_pin" /\ p.location_name = NoPlace>>,
            <<"unknown_lever",     ~(DOMAIN o \subseteq ALLOWED_LEVER_KEYS)>>,
            <<"weight_out_of_range", \E k \in DOMAIN o \cap WEIGHTS : o[k] \notin ZeroToOne>> >>
<1>1. validate_params(p, confidence) = FirstOf(checks)
      BY DEF validate_params
<1>2. DOMAIN checks = 1..9 /\ \A i \in 1..9 : checks[i][1] # "ok"
      OBVIOUS
<1>3. FirstOf(checks) = "ok" <=> \A i \in 1..9 : ~checks[i][2]
      <2> HIDE DEF checks
      <2> QED
            BY <1>2, FirstOfOk
<1>4. (\A i \in 1..9 : ~checks[i][2]) <=>
        /\ ~checks[1][2] /\ ~checks[2][2] /\ ~checks[3][2] /\ ~checks[4][2] /\ ~checks[5][2]
        /\ ~checks[6][2] /\ ~checks[7][2] /\ ~checks[8][2] /\ ~checks[9][2]
      <2> HIDE DEF checks
      <2> QED
          OBVIOUS
<1> QED
      BY <1>1, <1>3, <1>4

\* What validate_recipe lets through.
LEMMA RecipeOk ==
    ASSUME NEW r, validate_recipe(r) = "ok"
    PROVE  /\ DOMAIN r.weights \subseteq DOMAIN SIGNALS
           /\ \A k \in DOMAIN r.weights : r.weights[k] \in ZeroToOne
           /\ r.knmi_preset \in ALLOWED_KNMI /\ r.growth_preset \in ALLOWED_GROWTH
           /\ r.time_horizon \in Horizon
           /\ r.intake_id # NoIntake => r.intake_id \in KnownIntakes
<1> DEFINE total == Weight(r, "salinity") + Weight(r, "demand") + Weight(r, "flood")
                    + Weight(r, "protection")
           named == {r.weights[k] : k \in DOMAIN r.weights}
           checks == <<
            <<"unknown_signal",      ~(DOMAIN r.weights \subseteq DOMAIN SIGNALS)>>,
            <<"weight_not_number",   NotANumber \in named>>,
            <<"weight_out_of_range", ~(named \ {NotANumber} \subseteq ZeroToOne)>>,
            <<"weights_sum",         total \notin AboutOne>>,
            <<"bad_knmi",            r.knmi_preset \notin ALLOWED_KNMI>>,
            <<"bad_growth",          r.growth_preset \notin ALLOWED_GROWTH>>,
            <<"bad_base",            r.base \notin Bases>>,
            <<"bad_horizon",         r.time_horizon \notin Horizon>>,
            <<"bad_added_homes",     r.added_homes < 0>>,
            <<"unknown_intake",      r.intake_id # NoIntake /\ r.intake_id \notin KnownIntakes>> >>
<1>1. validate_recipe(r) = FirstOf(checks)
      BY DEF validate_recipe
<1>2. DOMAIN checks = 1..10 /\ \A i \in 1..10 : checks[i][1] # "ok"
      OBVIOUS
<1>3. \A i \in 1..10 : ~checks[i][2]
      <2> HIDE DEF checks
      <2> QED
            BY <1>1, <1>2, FirstOfOk
<1>4. /\ ~checks[1][2] /\ ~checks[2][2] /\ ~checks[3][2] /\ ~checks[5][2]
      /\ ~checks[6][2] /\ ~checks[8][2] /\ ~checks[10][2]
      <2> HIDE DEF checks
      <2> QED
            BY <1>3
<1> QED
      BY <1>4

\* What validate_recipe lets through, the gate of the chat lets through.
LEMMA RecipesPassTheGate ==
    ASSUME NEW r, validate_recipe(r) = "ok"
    PROVE  validate_params(RecipeParams(r), 100) = "ok"
<1> DEFINE p == RecipeParams(r)
           o == p.assumption_overrides
<1>1. /\ p.scenario_type = IF r.intake_id # NoIntake THEN "intake_failure"
                           ELSE IF r.location_name # NoPlace THEN "drop_pin" ELSE "multi_hazard"
      /\ p.knmi_preset = r.knmi_preset /\ p.time_horizon = r.time_horizon
      /\ p.growth_preset = r.growth_preset
      /\ p.location_name = r.location_name /\ p.intake_id = r.intake_id
      BY DEF RecipeParams, default_params
<1>2. o = [w \in WEIGHTS \cup (IF r.added_homes = 0 THEN {} ELSE {"added_homes"}) |->
              IF w = "added_homes" THEN r.added_homes
              ELSE Weight(r, CHOOSE k \in DOMAIN SIGNALS : SIGNALS[k] = w)]
      BY DEF RecipeParams, default_params
<1>3. DOMAIN o \subseteq ALLOWED_LEVER_KEYS
      BY <1>2 DEF ALLOWED_LEVER_KEYS
<1>4. ASSUME NEW w \in WEIGHTS PROVE o[w] \in ZeroToOne
      <2> DEFINE k == CHOOSE k \in DOMAIN SIGNALS : SIGNALS[k] = w
      <2>1. o[w] = Weight(r, k)
            BY <1>2 DEF WEIGHTS
      <2> HIDE DEF k
      <2>2. Weight(r, k) \in ZeroToOne
            <3>1. 0 \in ZeroToOne
                  BY DEF ZeroToOne
            <3> QED
                  BY <3>1, RecipeOk DEF Weight
      <2> QED
            BY <2>1, <2>2
<1> HIDE DEF p
<1>5. validate_params(p, 100) = "ok"
      BY <1>1, <1>3, <1>4, GateOk, RecipeOk DEF MIN_CONFIDENCE, ALLOWED_SCENARIO_TYPES
<1> QED
      BY <1>5 DEF p

\* Certainty only helps: what passes with some confidence passes when it is given as sure.
LEMMA SureReading ==
    ASSUME NEW p, NEW c, validate_params(p, c) = "ok"
    PROVE  validate_params(p, 100) = "ok"
BY GateOk DEF MIN_CONFIDENCE

(***************************************************************************)
(* Answers from the corpus                                                 *)
(***************************************************************************)

\* A list of n passages is empty, or there is a first one to cite.
LEMMA FirstIsCited ==
    ASSUME NEW s, NEW n \in Nat, DOMAIN s = 1..n, s # <<>> => n # 0
    PROVE  cites(s) = {} <=> s = <<>>
<1>1. CASE n = 0
      BY <1>1 DEF cites
<1>2. CASE n # 0
      <2>1. 1 \in DOMAIN s /\ 1 \in 1..Cited
            BY <1>2, RequestConstants
      <2>2. s # <<>>
            BY <1>2
      <2> QED
            BY <2>1, <2>2 DEF cites
<1> QED
      BY <1>1, <1>2

\* What an answer may be grounded on is nothing, or it is cited.
LEMMA GroundedIsList ==
    ASSUME NEW q, NEW card, NEW intent, NEW r \in retrieve(q, Corpus \cup passages_from_card(card))
    PROVE  cites(Grounding(intent, card, r)) = {} <=> Grounding(intent, card, r) = <<>>
<1> DEFINE passages == Corpus \cup passages_from_card(card)
           hits == {p \in passages : Terms[p] \cap q.terms # {}}
           k == Min2(TopK, Cardinality(hits))
<1>1. IsFiniteSet(hits) /\ IsFiniteSet(passages_from_card(card))
      <2>1. hits \subseteq Corpus \cup CardPassages
            /\ passages_from_card(card) \subseteq Corpus \cup CardPassages
            BY DEF passages_from_card
      <2> QED
            BY <2>1, FS_Subset, RequestConstants
<1>2. k \in Nat
      BY <1>1, FS_CardinalityType, RequestConstants DEF Min2
<1>3. DOMAIN r = 1..k
      BY DEF retrieve
<1>4. r # <<>> => k # 0
      BY <1>3
<1> HIDE DEF k, hits
<1>5. CASE Grounding(intent, card, r) = r
      BY <1>2, <1>3, <1>4, <1>5, FirstIsCited
<1>6. CASE intent = "explain_scenario" /\ r = <<>>
      <2> DEFINE S == passages_from_card(card)
                 m == Min2(TopK, Cardinality(S))
                 g == SubSeq(SetToSeq(S), 1, m)
      <2>1. m \in Nat /\ m <= Cardinality(S)
            BY <1>1, FS_CardinalityType, RequestConstants DEF Min2
      <2>2. g = Grounding(intent, card, r)
            BY <1>6 DEF Grounding
      <2>3. DOMAIN g = 1..m
            BY <2>1
      <2>4. g # <<>> => m # 0
            BY <2>1, <2>3
      <2> HIDE DEF m, g
      <2> QED
            BY <2>1, <2>2, <2>3, <2>4, FirstIsCited
<1> QED
      BY <1>5, <1>6 DEF Grounding

\* An answer from the corpus cites its sources, or asks back.
LEMMA AnswersStand ==
    ASSUME NEW req, Answerable(req), NEW a \in answers(req.question, req.card)
    PROVE  a.followup <=> a.citations = {}
<1> DEFINE q == req.question
           card == req.card
           intent == classify_intent(q, card \notin {"none", "empty"})
<1>1. intent # "scenario_run_request"
      BY DEF Answerable, classify_intent
<1>2. PICK r \in retrieve(q, Corpus \cup passages_from_card(card)) :
          \E c \in coverage(q, Grounding(intent, card, r)) :
              a = Composed(intent, c, Grounding(intent, card, r))
      BY DEF answers
<1> DEFINE g == Grounding(intent, card, r)
<1>3. cites(g) = {} <=> g = <<>>
      BY GroundedIsList
<1>4. PICK c : a = Composed(intent, c, g)
      BY <1>2
<1> HIDE DEF intent, g
<1> QED
      BY <1>1, <1>3, <1>4 DEF Composed, Answer

(***************************************************************************)
(* Sequences                                                               *)
(***************************************************************************)

\* Sequences whose elements are of no matter.
LEMMA SequenceFacts ==
    /\ Sequence(<<>>)
    /\ \A s, e : Sequence(s) => /\ Sequence(Append(s, e)) /\ Len(Append(s, e)) = Len(s) + 1
                                /\ Append(s, e) # <<>>
                                /\ \A i \in 1..Len(s) : Append(s, e)[i] = s[i]
                                /\ Append(s, e)[Len(s) + 1] = e
    /\ \A s : Sequence(s) => Len(s) \in Nat /\ DOMAIN s = 1..Len(s) /\ (s # <<>> => Len(s) > 0)
    /\ \A s : Sequence(s) /\ s # <<>> =>
          /\ Sequence(Tail(s)) /\ Len(Tail(s)) = Len(s) - 1 /\ Head(s) = s[1]
          /\ \A i \in 1..Len(Tail(s)) : Tail(s)[i] = s[i + 1]
<1>1. Sequence(<<>>)
      BY EmptySeq DEF Sequence
<1>2. ASSUME NEW s, NEW e, Sequence(s)
      PROVE  /\ Sequence(Append(s, e)) /\ Len(Append(s, e)) = Len(s) + 1
             /\ Append(s, e) # <<>>
             /\ \A i \in 1..Len(s) : Append(s, e)[i] = s[i]
             /\ Append(s, e)[Len(s) + 1] = e
      <2>1. PICK S : s \in Seq(S)
            BY <1>2 DEF Sequence
      <2> DEFINE T == S \cup {e}
      <2>2. s \in Seq(T) /\ e \in T
            BY <2>1, SeqMonotonic
      <2> HIDE DEF T
      <2> QED
            BY <2>2, AppendProperties DEF Sequence
<1>3. ASSUME NEW s, Sequence(s)
      PROVE  Len(s) \in Nat /\ DOMAIN s = 1..Len(s) /\ (s # <<>> => Len(s) > 0)
      <2>1. PICK S : s \in Seq(S)
            BY <1>3 DEF Sequence
      <2> QED
            BY <2>1, LenProperties, EmptySeq
<1>4. ASSUME NEW s, Sequence(s), s # <<>>
      PROVE  /\ Sequence(Tail(s)) /\ Len(Tail(s)) = Len(s) - 1 /\ Head(s) = s[1]
             /\ \A i \in 1..Len(Tail(s)) : Tail(s)[i] = s[i + 1]
      <2>1. PICK S : s \in Seq(S)
            BY <1>4 DEF Sequence
      <2> QED
            BY <1>4, <2>1, HeadTailProperties DEF Sequence
<1> QED
      BY <1>1, <1>2, <1>3, <1>4

\* What is sent last, and what was sent at all.
LEMMA JoinFacts ==
    ASSUME NEW s \in Seq(Events), NEW t \in Seq(Events), t # <<>>
    PROVE  /\ s \o t \in Seq(Events) /\ s \o t # <<>>
           /\ (s \o t)[Len(s \o t)] = t[Len(t)]
           /\ Range(t) \subseteq Range(s \o t) /\ Range(s) \subseteq Range(s \o t)
<1>1. /\ s \o t \in Seq(Events) /\ Len(s \o t) = Len(s) + Len(t)
      /\ \A i \in 1..(Len(s) + Len(t)) :
            (s \o t)[i] = IF i <= Len(s) THEN s[i] ELSE t[i - Len(s)]
      BY ConcatProperties
<1>2. Len(s) \in Nat /\ Len(t) \in Nat /\ Len(t) > 0
      BY LenProperties, EmptySeq
<1> DEFINE m == Len(s)
           n == Len(t)
           r == s \o t
<1>3. /\ m \in Nat /\ n \in Nat /\ n > 0 /\ Len(r) = m + n
      /\ \A i \in 1..(m + n) : r[i] = IF i <= m THEN s[i] ELSE t[i - m]
      /\ DOMAIN r = 1..Len(r) /\ DOMAIN t = 1..n /\ DOMAIN s = 1..m
      BY <1>1, <1>2, LenProperties
<1> HIDE DEF m, n, r
<1>4. r[m + n] = t[n]
      BY <1>3
<1>5. ASSUME NEW i \in 1..n PROVE r[m + i] = t[i] /\ m + i \in 1..(m + n)
      BY <1>3
<1>6. Range(t) \subseteq Range(r)
      BY <1>3, <1>5 DEF Range
<1>8. Range(s) \subseteq Range(r)
      BY <1>3 DEF Range
<1>7. r # <<>>
      BY <1>3
<1> QED
      BY <1>1, <1>3, <1>4, <1>6, <1>7, <1>8 DEF m, n, r

\* The events that are sent together.
LEMMA Tuples ==
    /\ \A a \in Events : <<a>> \in Seq(Events) /\ <<a>> # <<>> /\ Len(<<a>>) = 1
    /\ \A a \in Events, b \in Events :
          /\ <<a, b>> \in Seq(Events) /\ <<a, b>> # <<>> /\ Len(<<a, b>>) = 2
          /\ {a, b} \subseteq Range(<<a, b>>)
    /\ <<"text", "citations", "done">> \in Seq(Events)
    /\ "citations" \in Range(<<"text", "citations", "done">>)
<1>1. ASSUME NEW a \in Events, NEW b \in Events PROVE {a, b} \subseteq Range(<<a, b>>)
      <2>1. DOMAIN <<a, b>> = 1..2 /\ <<a, b>>[1] = a /\ <<a, b>>[2] = b
            OBVIOUS
      <2> QED
            BY <2>1 DEF Range
<1>2. "citations" \in Range(<<"text", "citations", "done">>)
      <2> DEFINE s == <<"text", "citations", "done">>
      <2>1. DOMAIN s = 1..3 /\ s[2] = "citations"
            OBVIOUS
      <2> QED
            BY <2>1 DEF Range
<1>3. <<"text", "citations", "done">> \in Seq(Events)
      BY DEF Events
<1> QED
      BY <1>1, <1>2, <1>3

\* A function on 1..n is a sequence of length n.
LEMMA ListIsSequence ==
    ASSUME NEW n \in Nat, NEW f, f = [i \in 1..n |-> f[i]]
    PROVE  Sequence(f) /\ Len(f) = n /\ (n > 0 => f # <<>>)
<1>1. f \in [1..n -> {f[i] : i \in 1..n}]
      OBVIOUS
<1>2. f \in Seq({f[i] : i \in 1..n})
      BY <1>1, SeqDef
<1>3. DOMAIN f = 1..Len(f) /\ DOMAIN f = 1..n /\ Len(f) \in Nat
      BY <1>1, <1>2, LenProperties
<1>4. Len(f) = n
      <2> DEFINE k == Len(f)
      <2>1. k \in Nat /\ 1..k = 1..n
            BY <1>3
      <2> HIDE DEF k
      <2> QED
            BY <2>1 DEF k
<1>5. n > 0 => f # <<>>
      BY <1>2, <1>4, EmptySeq
<1> QED
      BY <1>2, <1>4, <1>5 DEF Sequence

LEMMA JoinSequences ==
    ASSUME NEW s, NEW t, Sequence(s), Sequence(t)
    PROVE  Sequence(s \o t) /\ Len(s \o t) = Len(s) + Len(t)
<1>1. PICK S : s \in Seq(S)
      BY DEF Sequence
<1>2. PICK T : t \in Seq(T)
      BY DEF Sequence
<1> DEFINE U == S \cup T
<1>3. s \in Seq(U) /\ t \in Seq(U)
      BY <1>1, <1>2, SeqMonotonic
<1> HIDE DEF U
<1> QED
      BY <1>3, ConcatProperties DEF Sequence

\* A plan runs what was validated, once or twice.
LEMMA PlanIsList ==
    ASSUME NEW params, NEW levers
    PROVE  /\ Sequence(PlanJobs(params, levers)) /\ PlanJobs(params, levers) # <<>>
           /\ \A i \in 1..Len(PlanJobs(params, levers)) : PlanJobs(params, levers)[i].params = params
<1> DEFINE js == PlanJobs(params, levers)
<1>1. CASE levers = <<>>
      <2>1. js = <<Job(params, Nothing, NoBase)>>
            BY <1>1 DEF PlanJobs
      <2>2. js = [i \in 1..1 |-> js[i]] /\ js[1].params = params
            BY <2>1 DEF Job
      <2> HIDE DEF js
      <2>3. Sequence(js) /\ js # <<>> /\ Len(js) = 1
            BY <2>2, ListIsSequence
      <2> QED
            BY <2>2, <2>3 DEF js
<1>2. CASE levers # <<>>
      <2>1. js = [i \in 1..2 |-> Job(params, levers[i], NoBase)]
            BY <1>2 DEF PlanJobs
      <2>2. js = [i \in 1..2 |-> js[i]] /\ \A i \in 1..2 : js[i].params = params
            BY <2>1 DEF Job
      <2> HIDE DEF js
      <2>3. Sequence(js) /\ js # <<>> /\ Len(js) = 2
            BY <2>2, ListIsSequence
      <2> QED
            BY <2>2, <2>3 DEF js
<1> QED
      BY <1>1, <1>2

LEMMA OneJob ==
    ASSUME NEW job
    PROVE  Sequence(<<job>>) /\ <<job>> # <<>> /\ Len(<<job>>) = 1 /\ <<job>>[1] = job
<1> DEFINE js == <<job>>
<1>1. js = [i \in 1..1 |-> js[i]] /\ js[1] = job
      OBVIOUS
<1> HIDE DEF js
<1>2. Sequence(js) /\ js # <<>> /\ Len(js) = 1
      BY <1>1, ListIsSequence
<1> QED
      BY <1>1, <1>2 DEF js

\* The band and the stack have runs to make.
LEMMA SweepIsList == Sequence(SweepJobs) /\ SweepJobs # <<>>
<1> DEFINE js == SweepJobs
<1>1. DOMAIN KNMI_PRESETS = 1..5
      BY DEF KNMI_PRESETS
<1>2. js = [i \in 1..5 |-> js[i]]
      BY <1>1 DEF SweepJobs
<1> HIDE DEF js
<1>3. Sequence(js) /\ Len(js) = 5 /\ (5 > 0 => js # <<>>)
      BY <1>2, ListIsSequence
<1> QED
      BY <1>3 DEF js

LEMMA StackIsList ==
    ASSUME NEW req \in Stacks
    PROVE  Sequence(StackJobs(req.spec)) /\ StackJobs(req.spec) # <<>>
<1> DEFINE spec == req.spec
           ps == spec.projects
           each == [i \in DOMAIN ps |-> AloneHomes(spec, i)]
           first == <<Committed(spec)>>
           last == <<Committed(spec) + Total(Homes(ps))>>
           homes == StackHomes(spec)
           js == StackJobs(spec)
<1>1. Sequence(ps)
      BY RequestKinds DEF Sequence
<1>2. Sequence(each) /\ Len(each) \in Nat
      <2>1. Len(ps) \in Nat /\ DOMAIN ps = 1..Len(ps)
            BY <1>1, SequenceFacts
      <2> DEFINE n == Len(ps)
      <2>2. n \in Nat /\ each = [i \in 1..n |-> each[i]]
            BY <2>1
      <2> HIDE DEF n, each
      <2> QED
            BY <2>2, ListIsSequence
<1>3. homes = first \o each \o last
      BY DEF StackHomes
<1>4. Sequence(first) /\ Len(first) = 1 /\ Sequence(last) /\ Len(last) = 1
      BY OneJob
<1> HIDE DEF first, last, each
<1>5. Sequence(homes) /\ Len(homes) = 2 + Len(each)
      <2>1. Sequence(first \o each) /\ Len(first \o each) = 1 + Len(each)
            BY <1>2, <1>4, JoinSequences
      <2>2. Sequence((first \o each) \o last) /\ Len((first \o each) \o last) = 1 + Len(each) + 1
            BY <1>4, <2>1, JoinSequences
      <2> QED
            BY <1>2, <1>3, <2>2
<1>6. DOMAIN homes = 1..Len(homes) /\ Len(homes) \in Nat /\ Len(homes) > 0
      BY <1>2, <1>5, SequenceFacts
<1>7. js = [i \in DOMAIN homes |-> js[i]]
      BY DEF StackJobs
<1> HIDE DEF homes, js
<1>8. Sequence(js) /\ js # <<>>
      <2>1. PICK n \in Nat : n = Len(homes)
            BY <1>6
      <2>2. n > 0 /\ js = [i \in 1..n |-> js[i]]
            BY <1>6, <1>7, <2>1
      <2>3. Sequence(js) /\ (n > 0 => js # <<>>)
            BY ONLY <2>2, ListIsSequence, n \in Nat
      <2> QED
            BY <2>2, <2>3
<1> QED
      BY <1>8 DEF js

(***************************************************************************)
(* The steps                                                               *)
(***************************************************************************)

LEMMA RequestsAreSome == \A req \in Requests : req # None
BY RequestKinds DEF Requests

\* A request starts sound if its jobs are, and its first events are all it has said.
LEMMA Started ==
    ASSUME IInv, NEW req \in Requests, NEW to \in {"idle", "answer", "score"},
           NEW js, NEW params, NEW e \in Seq(Events), Start(req, to, js, params, e),
           Sequence(js), to = "score" <=> js # <<>>,
           to = "answer" => Answerable(req),
           to = "idle" => e # <<>> /\ (req.kind \in Streams => Closed(e)),
           req.kind \in Streams /\ js # <<>> =>
               Sound(params) /\ \A i \in 1..Len(js) : js[i].params = params
    PROVE  IInv'
<1>1. /\ request = None /\ pc = "idle" /\ runs = <<>> /\ current = None
      /\ result = None /\ captured = FALSE
      BY DEF IInv, FlowInv, Start
<1>2. /\ request' = req /\ pc' = to /\ jobs' = js /\ confirmed' = params /\ out' = e
      /\ data' = data /\ current' = None /\ runs' = <<>> /\ result' = None
      /\ captured' = FALSE /\ steady' = steady /\ req # None
      BY <1>1, RequestsAreSome DEF Start
<1>3. Len(<<>>) = 0 /\ Sequence(<<>>)
      BY SequenceFacts
<1>4. FlowInv'
      BY <1>2, <1>3 DEF IInv, FlowInv, Working
<1>5. GateInv'
      <2>1. \A i \in 1..Len(js) : js # <<>>
            <3>1. js = <<>> => Len(js) = 0
                  BY <1>3
            <3> QED
                  BY <3>1
      <2> QED
            BY <1>2, <1>3, <2>1 DEF GateInv
<1>6. EndInv'
      BY <1>2 DEF EndInv
<1> QED
      BY <1>4, <1>5, <1>6 DEF IInv

LEMMA Asked ==
    ASSUME IInv, NEW req \in Asks, ChatbotAsk(req)
    PROVE  IInv'
<1>1. req \in Requests /\ req.kind = "ask" /\ Sequence(<<>>)
      BY RequestKinds, SequenceFacts DEF Requests
<1>2. /\ <<"422">> \in Seq(Events) /\ <<"422">> # <<>> /\ Closed(<<"422">>)
      /\ <<"params">> \in Seq(Events) /\ <<>> \in Seq(Events)
      BY EmptySeq DEF Events, Closed
<1>3. /\ <<"followup", "done">> \in Seq(Events) /\ <<"followup", "done">> # <<>>
      /\ Closed(<<"followup", "done">>)
      BY Tuples DEF Events, Closed
<1>4. CASE req.question = Blank
      BY <1>1, <1>2, <1>4, Started DEF ChatbotAsk, Refuse
<1>5. CASE req.question # Blank
           /\ classify_intent(req.question, req.card # "none") = "scenario_run_request"
      <2>1. PICK reading \in Readings(req.question) :
                IF validate_params(reading.params, reading.confidence) = "ok"
                THEN Start(req, "score",
                           PlanJobs(reading.params, detect_comparison(req.question)),
                           reading.params, <<"params">>)
                ELSE Start(req, "idle", <<>>, None, <<"followup", "done">>)
            BY <1>5 DEF ChatbotAsk, AskScenario
      <2>2. CASE validate_params(reading.params, reading.confidence) = "ok"
            <3>1. Sound(reading.params)
                  BY <1>5, <2>2, SureReading, NoneIsNoParams DEF Sound
            <3> DEFINE js == PlanJobs(reading.params, detect_comparison(req.question))
            <3>2. /\ Sequence(js) /\ js # <<>>
                  /\ \A i \in 1..Len(js) : js[i].params = reading.params
                  BY PlanIsList
            <3>3. Start(req, "score", js, reading.params, <<"params">>)
                  BY <2>1, <2>2
            <3> HIDE DEF js
            <3> QED
                  BY <1>1, <1>2, <3>1, <3>2, <3>3, Started
      <2>3. CASE validate_params(reading.params, reading.confidence) # "ok"
            BY <1>1, <1>3, <2>1, <2>3, Started
      <2> QED
            BY <2>2, <2>3
<1>6. CASE req.question # Blank
           /\ classify_intent(req.question, req.card # "none") # "scenario_run_request"
      <2>1. Answerable(req) /\ Start(req, "answer", <<>>, None, <<>>)
            BY <1>6 DEF ChatbotAsk, Answerable
      <2> QED
            BY <1>1, <1>2, <2>1, Started
<1> QED
      BY <1>4, <1>5, <1>6

LEMMA RecipeGiven ==
    ASSUME IInv, NEW req \in Recipes, RecipeRun(req)
    PROVE  IInv'
<1>1. req \in Requests /\ req.kind = "recipe" /\ Sequence(<<>>)
      BY RequestKinds, SequenceFacts DEF Requests
<1>2. <<"params">> \in Seq(Events)
      BY DEF Events
<1>3. /\ <<"followup", "done">> \in Seq(Events) /\ <<"followup", "done">> # <<>>
      /\ Closed(<<"followup", "done">>)
      BY Tuples DEF Events, Closed
<1>4. CASE validate_recipe(req.recipe) = "ok"
      <2> DEFINE params == RecipeParams(req.recipe)
                 job == Job(params, Nothing, req.recipe.base)
      <2>1. Sound(params)
            BY <1>4, RecipesPassTheGate, NoneIsNoParams DEF Sound
      <2>2. Start(req, "score", <<job>>, params, <<"params">>)
            BY <1>4 DEF RecipeRun
      <2>3. job.params = params
            BY DEF Job
      <2> HIDE DEF params, job
      <2>4. /\ Sequence(<<job>>) /\ <<job>> # <<>>
            /\ \A i \in 1..Len(<<job>>) : <<job>>[i].params = params
            BY <2>3, OneJob
      <2> QED
            BY <1>1, <1>2, <2>1, <2>2, <2>4, Started
<1>5. CASE validate_recipe(req.recipe) # "ok"
      BY <1>1, <1>3, <1>5, Started DEF RecipeRun
<1> QED
      BY <1>4, <1>5

\* The JSON endpoints refuse at once, or start without the gate.
LEMMA Refused ==
    ASSUME IInv, NEW req \in Requests, req.kind \notin Streams,
           NEW status \in {"422", "404"}, Refuse(req, status)
    PROVE  IInv'
<1>1. <<status>> \in Seq(Events) /\ <<status>> # <<>> /\ Sequence(<<>>)
      BY SequenceFacts DEF Events
<1> QED
      BY <1>1, Started DEF Refuse

LEMMA Stacked ==
    ASSUME IInv, NEW req \in Stacks, Cumulative(req)
    PROVE  IInv'
<1>1. req \in Requests /\ req.kind \notin Streams
      BY RequestKinds DEF Requests, Streams
<1>2. CASE validate_cumulative(req.spec) = "ok"
      <2> DEFINE js == StackJobs(req.spec)
      <2>1. Sequence(js) /\ js # <<>> /\ <<>> \in Seq(Events)
            BY StackIsList, EmptySeq
      <2>2. Start(req, "score", js, None, <<>>)
            BY <1>2 DEF Cumulative
      <2> HIDE DEF js
      <2> QED
            BY <1>1, <2>1, <2>2, Started
<1>3. CASE validate_cumulative(req.spec) # "ok"
      BY <1>1, <1>3, Refused DEF Cumulative
<1> QED
      BY <1>2, <1>3

LEMMA Swept ==
    ASSUME IInv, NEW req \in Sweeps, Uncertainty(req)
    PROVE  IInv'
<1>1. req \in Requests /\ req.kind \notin Streams
      BY RequestKinds DEF Requests, Streams
<1>2. CASE req.question = Blank
      BY <1>1, <1>2, Refused DEF Uncertainty
<1>3. CASE req.question # Blank
      <2>1. Sequence(SweepJobs) /\ SweepJobs # <<>> /\ <<>> \in Seq(Events)
            BY SweepIsList, EmptySeq
      <2> QED
            BY <1>1, <1>3, <2>1, Started DEF Uncertainty
<1> QED
      BY <1>2, <1>3

LEMMA SidesCompared ==
    ASSUME IInv, NEW req \in Compares, Compare(req)
    PROVE  IInv'
<1>1. req \in Requests /\ req.kind = "compare" /\ req.kind \notin Streams /\ req # None
      BY RequestKinds DEF Requests, Streams
<1>2. CASE Refuse(req, "422") \/ Refuse(req, "404")
      BY <1>1, <1>2, Refused
<1>3. CASE /\ request = None
           /\ request' = req /\ out' = <<"json">>
           /\ UNCHANGED <<data, pc, jobs, current, runs, confirmed, captured, steady>>
      <2>1. <<"json">> \in Seq(Events) /\ <<"json">> # <<>>
            BY DEF Events
      <2>2. pc = "idle" /\ captured = FALSE
            BY <1>3 DEF IInv, FlowInv
      <2>3. FlowInv'
            BY <1>1, <1>3, <2>1, <2>2 DEF IInv, FlowInv, Working
      <2>4. GateInv'
            BY <1>1, <1>3 DEF GateInv
      <2>5. EndInv'
            BY <1>1, <1>3, <2>1 DEF EndInv
      <2> QED
            BY <2>3, <2>4, <2>5 DEF IInv
<1> QED
      BY <1>2, <1>3 DEF Compare

LEMMA Replied ==
    ASSUME IInv, Reply
    PROVE  IInv'
<1>1. PICK answer \in answers(request.question, request.card) :
          /\ result' = answer
          /\ captured' \in {FALSE, should_cache(answer)}
          /\ out' = (IF answer.followup THEN <<"followup">> ELSE <<>>)
                    \o <<"text", "citations", "done">>
      BY DEF Reply
<1>2. /\ pc = "answer" /\ pc' = "idle" /\ Answerable(request) /\ request \in Asks
      /\ request # None /\ request.kind = "ask"
      /\ UNCHANGED <<data, request, jobs, current, runs, confirmed, steady>>
      BY RequestKinds DEF Reply, IInv, FlowInv, Answerable
<1>3. answer.followup <=> answer.citations = {}
      BY <1>2, AnswersStand
<1>4. captured' => answer.citations # {}
      BY <1>1 DEF should_cache
<1> DEFINE first == IF answer.followup THEN <<"followup">> ELSE <<>>
           last  == <<"text", "citations", "done">>
<1>5. first \in Seq(Events) /\ last \in Seq(Events) /\ last # <<>> /\ last[Len(last)] = "done"
      /\ "citations" \in Range(last)
      BY EmptySeq, Tuples DEF Events
<1> HIDE DEF first, last
<1>6. out' \in Seq(Events) /\ out' # <<>> /\ Closed(out')
      <2>1. out' = first \o last
            BY <1>1 DEF first, last
      <2> QED
            BY <1>5, <2>1, JoinFacts DEF Closed
<1>7. FlowInv'
      BY <1>1, <1>2, <1>4, <1>6 DEF IInv, FlowInv, Working
<1>8. GateInv'
      BY <1>2 DEF IInv, GateInv
<1>9. EndInv'
      BY <1>1, <1>2, <1>3, <1>6 DEF EndInv
<1> QED
      BY <1>7, <1>8, <1>9 DEF IInv

LEMMA Scored ==
    ASSUME IInv, ScoreNode
    PROVE  IInv'
<1>1. /\ pc = "score" /\ pc' = "enrich" /\ request # None
      /\ UNCHANGED <<data, request, jobs, runs, confirmed, out, result, captured, steady>>
      BY DEF ScoreNode, IInv, FlowInv
<1>2. jobs # <<>> /\ Sequence(jobs)
      BY <1>1 DEF IInv, FlowInv, Working
<1>3. PICK reading \in Given(Head(jobs)) : current'.params = reading.params
      BY DEF ScoreNode
<1>4. FlowInv'
      BY <1>1, <1>2 DEF IInv, FlowInv, Working
<1>5. GateInv'
      <2> SUFFICES ASSUME request.kind \in Streams
                   PROVE  /\ Sound(confirmed)
                          /\ \A i \in 1..Len(jobs) : jobs[i].params = confirmed
                          /\ \A i \in 1..Len(runs) : runs[i].params = confirmed
                          /\ current'.params = confirmed
            BY <1>1 DEF GateInv
      <2>1. /\ Sound(confirmed)
            /\ \A i \in 1..Len(jobs) : jobs[i].params = confirmed
            /\ \A i \in 1..Len(runs) : runs[i].params = confirmed
            BY <1>1, <1>2 DEF IInv, GateInv
      <2>2. Head(jobs).params = confirmed /\ confirmed # None
            BY <1>2, <2>1, SequenceFacts DEF Sound
      <2>3. current'.params = confirmed
            BY <1>3, <2>2 DEF Given
      <2> QED
            BY <2>1, <2>3
<1>6. EndInv'
      BY <1>1 DEF EndInv
<1> QED
      BY <1>4, <1>5, <1>6 DEF IInv

LEMMA Enriched ==
    ASSUME IInv, EnrichNode
    PROVE  IInv'
<1>1. /\ pc = "enrich" /\ request # None /\ current' = None /\ jobs' = Tail(jobs)
      /\ pc' = IF Tail(jobs) = <<>> THEN "finish" ELSE "score"
      /\ UNCHANGED <<data, request, confirmed, out, result, captured, steady>>
      BY DEF EnrichNode, IInv, FlowInv
<1>2. PICK ranked : runs' = Append(runs, Finished(current, ranked))
      BY DEF EnrichNode
<1> DEFINE r == Finished(current, ranked)
<1>3. r.params = current.params
      BY DEF Finished
<1> HIDE DEF r
<1>4. jobs # <<>> /\ Sequence(jobs) /\ Sequence(runs)
      BY <1>1 DEF IInv, FlowInv, Working
<1>5. /\ Sequence(runs') /\ runs' # <<>> /\ Len(runs') = Len(runs) + 1
      /\ \A i \in 1..Len(runs) : runs'[i] = runs[i]
      /\ runs'[Len(runs) + 1] = r /\ Len(runs) \in Nat
      BY <1>2, <1>4, SequenceFacts DEF r
<1>6. /\ Sequence(jobs') /\ Len(jobs') = Len(jobs) - 1 /\ Len(jobs) \in Nat
      /\ \A i \in 1..Len(jobs') : jobs'[i] = jobs[i + 1]
      BY <1>1, <1>4, SequenceFacts
<1>7. FlowInv'
      BY <1>1, <1>5, <1>6 DEF IInv, FlowInv, Working
<1>8. GateInv'
      <2> SUFFICES ASSUME request.kind \in Streams
                   PROVE  /\ Sound(confirmed)
                          /\ \A i \in 1..Len(jobs') : jobs'[i].params = confirmed
                          /\ \A i \in 1..Len(runs') : runs'[i].params = confirmed
                          /\ pc' # "enrich"
            BY <1>1 DEF GateInv
      <2>1. /\ Sound(confirmed) /\ current.params = confirmed
            /\ \A i \in 1..Len(jobs) : jobs[i].params = confirmed
            /\ \A i \in 1..Len(runs) : runs[i].params = confirmed
            BY <1>1, <1>4 DEF IInv, GateInv
      <2>2. ASSUME NEW i \in 1..Len(jobs') PROVE jobs'[i].params = confirmed
            <3>1. i + 1 \in 1..Len(jobs)
                  BY <1>6
            <3> QED
                  BY <1>6, <2>1, <3>1
      <2>3. ASSUME NEW i \in 1..Len(runs') PROVE runs'[i].params = confirmed
            <3>1. i \in 1..Len(runs) \/ i = Len(runs) + 1
                  BY <1>5
            <3> QED
                  BY <1>3, <1>5, <2>1, <3>1
      <2> QED
            BY <1>1, <2>1, <2>2, <2>3
<1>9. EndInv'
      BY <1>1 DEF EndInv
<1> QED
      BY <1>7, <1>8, <1>9 DEF IInv

\* Whatever ends a request early: no jobs are left, and a stream is told so.
LEMMA CutShort ==
    ASSUME IInv, request # None, pc \in {"score", "enrich", "finish"},
           pc' = "idle", jobs' = <<>>, current' = None,
           UNCHANGED <<data, request, runs, confirmed, result, captured, steady>>,
           out' \in Seq(Events), out' # <<>>,
           request.kind \in Streams => Closed(out')
    PROVE  IInv'
<1>1. Sequence(<<>>) /\ Len(<<>>) = 0
      BY SequenceFacts
<1>2. result = None
      BY DEF IInv, FlowInv
<1>3. FlowInv'
      BY <1>1, <1>2 DEF IInv, FlowInv, Working
<1>4. GateInv'
      <2>1. runs # <<>> /\ request.kind \in Streams =>
                /\ Sound(confirmed)
                /\ \A i \in 1..Len(runs) : runs[i].params = confirmed
            BY DEF IInv, GateInv
      <2>2. \A i \in 1..Len(runs) : runs # <<>>
            BY <1>1
      <2> QED
            BY <1>1, <2>1, <2>2 DEF IInv, GateInv
<1>5. EndInv'
      BY <1>2 DEF EndInv
<1> QED
      BY <1>3, <1>4, <1>5 DEF IInv

LEMMA Failed ==
    ASSUME IInv, EngineFails
    PROVE  IInv'
<1>1. /\ pc \in {"score", "enrich"} /\ request # None /\ out \in Seq(Events)
      /\ pc' = "idle" /\ jobs' = <<>> /\ current' = None
      /\ UNCHANGED <<data, request, runs, confirmed, result, captured, steady>>
      BY DEF EngineFails, IInv, FlowInv
<1>2. CASE request.kind \in Streams
      <2> DEFINE last == <<"error", "done">>
      <2>1. /\ last \in Seq(Events) /\ last # <<>> /\ last[Len(last)] = "done"
            /\ "error" \in Range(last)
            BY Tuples DEF Events
      <2>2. out' = out \o last
            BY <1>2 DEF EngineFails
      <2> HIDE DEF last
      <2>3. out' \in Seq(Events) /\ out' # <<>> /\ Closed(out')
            BY <1>1, <2>1, <2>2, JoinFacts DEF Closed
      <2> QED
            BY <1>1, <2>3, CutShort
<1>3. CASE request.kind \notin Streams
      <2>1. out' = <<"500">> /\ out' \in Seq(Events) /\ out' # <<>>
            BY <1>3 DEF EngineFails, Events
      <2> QED
            BY <1>1, <1>3, <2>1, CutShort
<1> QED
      BY <1>2, <1>3

\* Only the band leaves it to the engine to read the question.
LEMMA AskedBack ==
    ASSUME IInv, NotUnderstood
    PROVE  IInv'
<1>1. /\ pc = "score" /\ request # None /\ Head(jobs).params = None
      /\ out' = <<"500">> /\ pc' = "idle" /\ jobs' = <<>> /\ current' = None
      /\ UNCHANGED <<data, request, runs, confirmed, result, captured, steady>>
      BY DEF NotUnderstood, IInv, FlowInv
<1>2. jobs # <<>> /\ Sequence(jobs)
      BY <1>1 DEF IInv, FlowInv, Working
<1>3. request.kind \notin Streams
      <2>1. Head(jobs) = jobs[1] /\ 1 \in 1..Len(jobs)
            BY <1>2, SequenceFacts
      <2> QED
            BY <1>1, <1>2, <2>1 DEF IInv, GateInv, Sound
<1>4. out' \in Seq(Events) /\ out' # <<>>
      BY <1>1 DEF Events
<1> QED
      BY <1>1, <1>3, <1>4, CutShort

LEMMA ClientLeft ==
    ASSUME IInv, Leave
    PROVE  IInv'
<1>1. /\ pc \in {"score", "enrich", "finish"} /\ request # None /\ out \in Seq(Events)
      /\ pc' = "idle" /\ jobs' = <<>> /\ current' = None /\ out' = Append(out, "left")
      /\ UNCHANGED <<data, request, runs, confirmed, result, captured, steady>>
      BY DEF Leave, IInv, FlowInv
<1>2. "left" \in Events
      BY DEF Events
<1>3. out' \in Seq(Events) /\ out' # <<>> /\ out'[Len(out')] = "left"
      BY <1>1, <1>2, AppendProperties
<1> QED
      BY <1>1, <1>3, CutShort DEF Closed

\* At the end no jobs are left, so the cards may be stored and sent.
LEMMA AtTheEnd ==
    ASSUME IInv, pc = "finish"
    PROVE  jobs = <<>> /\ current = None /\ request # None /\ out \in Seq(Events) /\ result = None
           /\ runs # <<>> /\ Sequence(runs) /\ captured = FALSE
BY DEF IInv, FlowInv, Working

LEMMA CardsSent ==
    ASSUME IInv, StoreAndEmit
    PROVE  IInv'
<1>1. /\ pc = "finish" /\ pc' = "idle"
      /\ UNCHANGED <<data, request, jobs, current, runs, confirmed, result, captured, steady>>
      BY DEF StoreAndEmit
<1> DEFINE cards == [i \in DOMAIN runs |-> "card"]
           last  == IF Len(runs) = 2 THEN <<"delta", "done">> ELSE <<"done">>
<1>2. out' = out \o cards \o last
      BY DEF StoreAndEmit
<1>3. last \in Seq(Events) /\ last # <<>> /\ last[Len(last)] = "done"
      BY Tuples DEF Events
<1>4. cards \in Seq(Events) /\ cards # <<>> /\ "card" \in Range(cards)
      <2>1. PICK n \in Nat : n = Len(runs) /\ n > 0 /\ DOMAIN runs = 1..n
            BY <1>1, AtTheEnd, SequenceFacts
      <2>2. cards = [i \in 1..n |-> "card"]
            BY <2>1
      <2>3. cards \in [1..n -> Events] /\ cards[1] = "card" /\ 1 \in DOMAIN cards
            BY <2>1, <2>2 DEF Events
      <2>4. cards \in Seq(Events)
            BY <2>3, SeqDef
      <2> HIDE DEF cards
      <2> QED
            BY <2>3, <2>4, EmptySeq DEF Range
<1> HIDE DEF cards, last
<1>5. /\ out \o cards \in Seq(Events) /\ Range(cards) \subseteq Range(out \o cards)
      BY <1>1, <1>4, AtTheEnd, JoinFacts
<1>6. /\ out' \in Seq(Events) /\ out' # <<>> /\ out'[Len(out')] = "done"
      /\ Range(out \o cards) \subseteq Range(out')
      BY <1>2, <1>3, <1>5, JoinFacts
<1>7. Closed(out')
      BY <1>4, <1>5, <1>6 DEF Closed
<1> QED
      BY <1>1, <1>6, <1>7, AtTheEnd, CutShort

LEMMA BrokenOff ==
    ASSUME IInv, StoreFails
    PROVE  IInv'
<1>1. /\ pc = "finish" /\ pc' = "idle" /\ out' = Append(out, "broken") /\ out \in Seq(Events)
      /\ UNCHANGED <<data, request, jobs, current, runs, confirmed, result, captured, steady>>
      BY AtTheEnd DEF StoreFails
<1>2. "broken" \in Events
      BY DEF Events
<1>3. out' \in Seq(Events) /\ out' # <<>> /\ out'[Len(out')] = "broken"
      BY <1>1, <1>2, AppendProperties
<1> QED
      BY <1>1, <1>3, AtTheEnd, CutShort DEF Closed

LEMMA Returned ==
    ASSUME IInv, Return
    PROVE  IInv'
<1>1. /\ pc = "finish" /\ pc' = "idle" /\ request.kind \notin Streams /\ out' = <<"json">>
      /\ UNCHANGED <<data, request, jobs, current, runs, confirmed, captured, steady>>
      BY DEF Return
<1>2. /\ jobs = <<>> /\ current = None /\ request # None /\ captured = FALSE
      /\ request.kind # "ask"
      BY <1>1, AtTheEnd DEF Streams
<1>3. <<"json">> \in Seq(Events) /\ <<"json">> # <<>>
      BY DEF Events
<1>4. FlowInv'
      BY <1>1, <1>2, <1>3 DEF IInv, FlowInv, Working
<1>5. GateInv'
      BY <1>1 DEF GateInv
<1>6. EndInv'
      BY <1>1, <1>2, <1>3 DEF EndInv
<1> QED
      BY <1>4, <1>5, <1>6 DEF IInv

LEMMA Forgotten ==
    ASSUME IInv, Taken
    PROVE  IInv'
<1>1. /\ pc = "idle" /\ request' = None /\ runs' = <<>> /\ confirmed' = None /\ out' = <<>>
      /\ result' = None /\ captured' = FALSE /\ steady' = TRUE
      /\ UNCHANGED <<data, pc, jobs, current>>
      BY DEF Taken
<1>2. <<>> \in Seq(Events) /\ Sequence(<<>>)
      BY EmptySeq, SequenceFacts
<1>3. FlowInv'
      BY <1>1, <1>2 DEF IInv, FlowInv, Working
<1> QED
      BY <1>1, <1>3 DEF IInv, GateInv, EndInv

LEMMA Refreshed ==
    ASSUME IInv, Refresh
    PROVE  IInv'
<1>1. /\ data' \in DataSets /\ steady' = FALSE
      /\ UNCHANGED <<request, pc, jobs, current, runs, confirmed, out, result, captured>>
      BY DEF Refresh
<1>2. FlowInv'
      BY <1>1 DEF IInv, FlowInv, Working
<1>3. GateInv' /\ EndInv'
      BY <1>1 DEF IInv, GateInv, EndInv
<1> QED
      BY <1>2, <1>3 DEF IInv

(***************************************************************************)
(* The inductive invariant holds                                           *)
(***************************************************************************)

LEMMA InitHolds == Init => IInv
<1> SUFFICES ASSUME Init PROVE IInv
      OBVIOUS
<1>1. <<>> \in Seq(Events) /\ Sequence(<<>>)
      BY EmptySeq, SequenceFacts
<1>2. FlowInv
      BY <1>1 DEF Init, FlowInv, Working
<1> QED
      BY <1>2 DEF Init, IInv, GateInv, EndInv

LEMMA StepHolds == IInv /\ [Next]_vars => IInv'
<1> SUFFICES ASSUME IInv, [Next]_vars PROVE IInv'
      OBVIOUS
<1>1. CASE \/ \E req \in Asks : ChatbotAsk(req)
           \/ \E req \in Recipes : RecipeRun(req)
           \/ \E req \in Stacks : Cumulative(req)
           \/ \E req \in Sweeps : Uncertainty(req)
           \/ \E req \in Compares : Compare(req)
      BY <1>1, Asked, RecipeGiven, Stacked, Swept, SidesCompared
<1>2. CASE Reply \/ ScoreNode \/ EnrichNode \/ EngineFails \/ NotUnderstood
      BY <1>2, Replied, Scored, Enriched, Failed, AskedBack
<1>3. CASE StoreAndEmit \/ StoreFails \/ Return \/ Leave \/ Taken \/ Refresh
      BY <1>3, CardsSent, BrokenOff, Returned, ClientLeft, Forgotten, Refreshed
<1>4. CASE UNCHANGED vars
      <2>1. FlowInv'
            BY <1>4 DEF vars, IInv, FlowInv, Working
      <2>2. GateInv' /\ EndInv'
            BY <1>4 DEF vars, IInv, GateInv, EndInv
      <2> QED
            BY <2>1, <2>2 DEF IInv
<1> QED
      BY <1>1, <1>2, <1>3, <1>4 DEF Next

(***************************************************************************)
(* What the runs of a request are made of, and by which data               *)
(***************************************************************************)

\* The runs that the request in hand is made of.
AllJobs ==
    IF request.kind = "cumulative" THEN StackJobs(request.spec)
    ELSE IF request.kind = "uncertainty" THEN SweepJobs
    ELSE IF request.kind = "ask" THEN PlanJobs(confirmed, detect_comparison(request.question))
    ELSE <<Job(confirmed, Nothing, request.recipe.base)>>

\* What the endpoint made sure of before it had anything run.
Admitted ==
    /\ request.kind # "compare"
    /\ request.kind = "cumulative"  => validate_cumulative(request.spec) = "ok"
    /\ request.kind = "uncertainty" => request.question # Blank
    /\ request.kind = "ask" => /\ request.question # Blank
                               /\ \E reading \in Readings(request.question) : confirmed = reading.params
    /\ request.kind = "recipe" => /\ validate_recipe(request.recipe) = "ok"
                                  /\ confirmed = RecipeParams(request.recipe)

\* A run is that of a job; one without parameters takes them from some reading.
Fits(r, job) ==
    /\ r.extra = job.extra /\ r.base = job.base
    /\ IF job.params # None THEN r.params = job.params
       ELSE \E reading \in Readings(request.question) : r.params = reading.params

\* The runs are those of the jobs, in their order, and the jobs left are the rest.
JobInv ==
    request # None /\ (jobs # <<>> \/ runs # <<>>) =>
        /\ Admitted
        /\ \A i \in 1..Len(runs) : i <= Len(AllJobs) /\ Fits(runs[i], AllJobs[i])
        /\ pc # "idle" => /\ Len(runs) + Len(jobs) = Len(AllJobs)
                          /\ \A i \in 1..Len(jobs) : jobs[i] = AllJobs[Len(runs) + i]
        /\ pc = "enrich" => Fits(current, jobs[1])

\* A run was scored on the data as they are, and its interventions too.
OnData(r) == r.res = score_node(data, r.params, r.extra, r.base, r.pdok)

RankedOnData(r) ==
    r.ranked = interventions_ranked(data, Full(params_to_assumptions(r.params, r.extra)), r.res)

\* While the data stay, they explain every run.
ScoreInv ==
    steady =>
        /\ pc = "enrich" => OnData(current)
        /\ \A i \in 1..Len(runs) : OnData(runs[i]) /\ RankedOnData(runs[i])

\* What a JSON endpoint returned is made of all its runs, or of the data as they are.
ReturnInv ==
    request # None /\ pc = "idle" /\ result # None =>
        /\ request.kind = "cumulative"  => result = Stack(Results) /\ Len(runs) = Len(AllJobs)
        /\ request.kind = "uncertainty" => result = Band(Results) /\ Len(runs) = Len(AllJobs)
        /\ request.kind = "compare" =>
              /\ Gone \notin {request.a.params, request.b.params}
              /\ \E pdok \in BOOLEAN : result =
                    compare_scenarios(data, request.a, request.b, request.base, request.area, pdok)

\* What is known of the runs.
RunInv == JobInv /\ ScoreInv /\ ReturnInv

\* A request that starts takes up the jobs of its kind, if any, and has no runs.
LEMMA StartedRuns ==
    ASSUME IInv, RunInv, NEW req \in Requests, NEW to \in {"idle", "answer", "score"},
           NEW js, NEW params, NEW e, Start(req, to, js, params, e),
           js # <<>> => Admitted' /\ Sequence(js) /\ js = AllJobs'
    PROVE  RunInv'
<1>1. /\ runs = <<>> /\ result = None /\ current = None
      BY DEF IInv, FlowInv, Start
<1>2. /\ request' = req /\ pc' = to /\ jobs' = js /\ runs' = <<>> /\ result' = None
      /\ pc' # "enrich" /\ Len(<<>>) = 0
      BY <1>1 DEF Start
<1>3. JobInv'
      <2> SUFFICES ASSUME js # <<>> PROVE JobInv'
            BY <1>2 DEF JobInv
      <2>1. Len(js) \in Nat
            BY SequenceFacts
      <2> QED
            BY <1>2, <2>1 DEF JobInv
<1>4. ScoreInv'
      BY <1>2 DEF ScoreInv
<1>5. ReturnInv'
      BY <1>2 DEF ReturnInv
<1> QED
      BY <1>3, <1>4, <1>5 DEF RunInv

\* A question is answered, asked back, or planned from one of its readings.
LEMMA AskedRuns ==
    ASSUME IInv, RunInv, NEW req \in Asks, ChatbotAsk(req)
    PROVE  RunInv'
<1>1. req \in Requests /\ req.kind = "ask"
      BY RequestKinds DEF Requests
<1>2. CASE \E params, e : \E to \in {"idle", "answer"} : Start(req, to, <<>>, params, e)
      BY <1>1, <1>2, StartedRuns
<1>3. CASE req.question # Blank /\ AskScenario(req)
      <2>1. PICK reading \in Readings(req.question) :
                IF validate_params(reading.params, reading.confidence) = "ok"
                THEN Start(req, "score",
                           PlanJobs(reading.params, detect_comparison(req.question)),
                           reading.params, <<"params">>)
                ELSE Start(req, "idle", <<>>, None, <<"followup", "done">>)
            BY <1>3 DEF AskScenario
      <2>2. CASE ~(validate_params(reading.params, reading.confidence) = "ok")
            BY <1>2, <2>1, <2>2
      <2>3. CASE validate_params(reading.params, reading.confidence) = "ok"
            <3> DEFINE js == PlanJobs(reading.params, detect_comparison(req.question))
            <3>1. Start(req, "score", js, reading.params, <<"params">>)
                  BY <2>1, <2>3
            <3>2. request' = req /\ confirmed' = reading.params
                  BY <3>1 DEF Start
            <3>3. js = AllJobs'
                  BY <1>1, <3>2 DEF AllJobs
            <3>4. Sequence(js)
                  BY PlanIsList
            <3>5. Admitted'
                  BY <1>1, <1>3, <3>2 DEF Admitted
            <3> HIDE DEF js
            <3> QED
                  BY <1>1, <3>1, <3>3, <3>4, <3>5, StartedRuns
      <2> QED
            BY <2>2, <2>3
<1> QED
      BY <1>2, <1>3 DEF ChatbotAsk, Refuse

\* A recipe that passes its gate is one job.
LEMMA RecipeRuns ==
    ASSUME IInv, RunInv, NEW req \in Recipes, RecipeRun(req)
    PROVE  RunInv'
<1>1. req \in Requests /\ req.kind = "recipe"
      BY RequestKinds DEF Requests
<1>2. CASE validate_recipe(req.recipe) # "ok"
      BY <1>1, <1>2, StartedRuns DEF RecipeRun
<1>3. CASE validate_recipe(req.recipe) = "ok"
      <2> DEFINE params == RecipeParams(req.recipe)
                 js == <<Job(params, Nothing, req.recipe.base)>>
      <2>1. Start(req, "score", js, params, <<"params">>)
            BY <1>3 DEF RecipeRun
      <2>2. request' = req /\ confirmed' = params
            BY <2>1 DEF Start
      <2>3. js = AllJobs'
            BY <1>1, <2>2 DEF AllJobs
      <2>4. Sequence(js)
            BY OneJob
      <2>5. Admitted'
            BY <1>1, <1>3, <2>2 DEF Admitted
      <2> HIDE DEF js, params
      <2> QED
            BY <1>1, <2>1, <2>3, <2>4, <2>5, StartedRuns
<1> QED
      BY <1>2, <1>3

\* A stack that passes its gate is a job for every level of homes.
LEMMA StackedRuns ==
    ASSUME IInv, RunInv, NEW req \in Stacks, Cumulative(req)
    PROVE  RunInv'
<1>1. req \in Requests /\ req.kind = "cumulative"
      BY RequestKinds DEF Requests
<1>2. CASE validate_cumulative(req.spec) # "ok"
      BY <1>1, <1>2, StartedRuns DEF Cumulative, Refuse
<1>3. CASE validate_cumulative(req.spec) = "ok"
      <2> DEFINE js == StackJobs(req.spec)
      <2>1. Start(req, "score", js, None, <<>>)
            BY <1>3 DEF Cumulative
      <2>2. request' = req
            BY <2>1 DEF Start
      <2>3. js = AllJobs' /\ Sequence(js)
            BY <1>1, <2>2, StackIsList DEF AllJobs
      <2>4. Admitted'
            BY <1>1, <1>3, <2>2 DEF Admitted
      <2> HIDE DEF js
      <2> QED
            BY <1>1, <2>1, <2>3, <2>4, StartedRuns
<1> QED
      BY <1>2, <1>3

\* A question with text is one job for each preset.
LEMMA SweptRuns ==
    ASSUME IInv, RunInv, NEW req \in Sweeps, Uncertainty(req)
    PROVE  RunInv'
<1>1. req \in Requests /\ req.kind = "uncertainty"
      BY RequestKinds DEF Requests
<1>2. CASE req.question = Blank
      BY <1>1, <1>2, StartedRuns DEF Uncertainty, Refuse
<1>3. CASE req.question # Blank
      <2>1. Start(req, "score", SweepJobs, None, <<>>)
            BY <1>3 DEF Uncertainty
      <2>2. request' = req
            BY <2>1 DEF Start
      <2>3. SweepJobs = AllJobs' /\ Sequence(SweepJobs)
            BY <1>1, <2>2, SweepIsList DEF AllJobs
      <2>4. Admitted'
            BY <1>1, <1>3, <2>2 DEF Admitted
      <2> QED
            BY <1>1, <2>1, <2>3, <2>4, StartedRuns
<1> QED
      BY <1>2, <1>3

\* A comparison has its result at once, from the data as they are.
LEMMA ComparedRuns ==
    ASSUME IInv, RunInv, NEW req \in Compares, Compare(req)
    PROVE  RunInv'
<1>1. req \in Requests /\ req.kind = "compare"
      BY RequestKinds DEF Requests
<1>2. CASE Refuse(req, "422") \/ Refuse(req, "404")
      BY <1>1, <1>2, StartedRuns DEF Refuse
<1>3. CASE /\ ~(Gone \in {req.a.params, req.b.params})
           /\ request = None
           /\ \E pdok \in BOOLEAN :
                result' = compare_scenarios(data, req.a, req.b, req.base, req.area, pdok)
           /\ request' = req /\ out' = <<"json">>
           /\ UNCHANGED <<data, pc, jobs, current, runs, confirmed, captured, steady>>
      <2>1. pc = "idle" /\ runs = <<>> /\ jobs = <<>> /\ Len(<<>>) = 0
            BY <1>3 DEF IInv, FlowInv, Working
      <2>2. JobInv'
            BY <1>3, <2>1 DEF JobInv
      <2>3. ScoreInv'
            BY <1>3, <2>1 DEF ScoreInv
      <2>4. ReturnInv'
            BY <1>1, <1>3 DEF ReturnInv
      <2> QED
            BY <2>2, <2>3, <2>4 DEF RunInv
<1> QED
      BY <1>2, <1>3 DEF Compare

\* An answer from the corpus runs nothing.
LEMMA RepliedRuns ==
    ASSUME IInv, RunInv, Reply
    PROVE  RunInv'
<1>1. /\ pc' = "idle" /\ UNCHANGED <<data, request, jobs, current, runs, confirmed, steady>>
      /\ request.kind = "ask"
      BY RequestKinds DEF Reply, IInv, FlowInv, Answerable
<1>2. JobInv'
      BY <1>1 DEF RunInv, JobInv, Admitted, AllJobs, Fits
<1>3. ScoreInv'
      BY <1>1 DEF RunInv, ScoreInv, OnData, RankedOnData
<1>4. ReturnInv'
      BY <1>1 DEF ReturnInv
<1> QED
      BY <1>2, <1>3, <1>4 DEF RunInv

\* What is scored is the first job that is left, on the data as they are.
LEMMA ScoredRuns ==
    ASSUME IInv, RunInv, ScoreNode
    PROVE  RunInv'
<1>1. /\ pc = "score" /\ pc' = "enrich" /\ request # None
      /\ UNCHANGED <<data, request, jobs, runs, confirmed, out, result, captured, steady>>
      BY DEF ScoreNode, IInv, FlowInv
<1>2. jobs # <<>> /\ Sequence(jobs) /\ Head(jobs) = jobs[1]
      BY <1>1, SequenceFacts DEF IInv, FlowInv, Working
<1>3. PICK reading \in Given(Head(jobs)), pdok \in BOOLEAN :
         current' = [params |-> reading.params, extra |-> Head(jobs).extra,
                     base |-> Head(jobs).base, pdok |-> pdok,
                     res |-> score_node(data, reading.params, Head(jobs).extra,
                                        Head(jobs).base, pdok)]
      BY DEF ScoreNode
<1>4. Fits(current', jobs[1])
      BY <1>2, <1>3 DEF Fits, Given
<1>5. JobInv'
      BY <1>1, <1>2, <1>4 DEF RunInv, JobInv, Admitted, AllJobs, Fits
<1>6. ScoreInv'
      <2>1. OnData(current)'
            BY <1>1, <1>3 DEF OnData
      <2> QED
            BY <1>1, <2>1 DEF RunInv, ScoreInv, OnData, RankedOnData
<1>7. ReturnInv'
      BY <1>1 DEF ReturnInv
<1> QED
      BY <1>5, <1>6, <1>7 DEF RunInv

\* What was scored becomes the next run, and its job is done.
LEMMA EnrichedRuns ==
    ASSUME IInv, RunInv, EnrichNode
    PROVE  RunInv'
<1>1. /\ pc = "enrich" /\ request # None /\ jobs' = Tail(jobs) /\ pc' \in {"finish", "score"}
      /\ UNCHANGED <<data, request, confirmed, out, result, captured, steady>>
      BY DEF EnrichNode, IInv, FlowInv
<1> DEFINE a == Full(params_to_assumptions(current.params, current.extra))
           r == Finished(current, interventions_ranked(data, a, current.res))
<1>2. runs' = Append(runs, r)
      BY DEF EnrichNode
<1>3. jobs # <<>> /\ Sequence(jobs) /\ Sequence(runs)
      BY <1>1 DEF IInv, FlowInv, Working
<1>4. /\ r.params = current.params /\ r.extra = current.extra /\ r.base = current.base
      /\ r.pdok = current.pdok /\ r.res = current.res
      /\ r.ranked = interventions_ranked(data, a, current.res)
      BY DEF Finished
<1>9. steady => OnData(r) /\ RankedOnData(r)
      <2>1. steady => OnData(current)
            BY <1>1 DEF RunInv, ScoreInv
      <2> QED
            BY <1>4, <2>1 DEF OnData, RankedOnData
<1> HIDE DEF r
<1>5. /\ Len(runs') = Len(runs) + 1 /\ \A i \in 1..Len(runs) : runs'[i] = runs[i]
      /\ runs'[Len(runs) + 1] = r /\ Len(runs) \in Nat
      BY <1>2, <1>3, SequenceFacts
<1>6. /\ Len(jobs') = Len(jobs) - 1 /\ Len(jobs) \in Nat /\ Len(jobs) > 0
      /\ \A i \in 1..Len(jobs') : jobs'[i] = jobs[i + 1]
      BY <1>1, <1>3, SequenceFacts
<1>7. JobInv'
      <2>1. /\ Admitted
            /\ \A i \in 1..Len(runs) : i <= Len(AllJobs) /\ Fits(runs[i], AllJobs[i])
            /\ Len(runs) + Len(jobs) = Len(AllJobs)
            /\ \A i \in 1..Len(jobs) : jobs[i] = AllJobs[Len(runs) + i]
            /\ Fits(current, jobs[1])
            BY <1>1, <1>3 DEF RunInv, JobInv
      <2>2. Admitted' /\ AllJobs' = AllJobs
            BY <1>1, <2>1 DEF Admitted, AllJobs
      <2>3. \A x, y : Fits(x, y) => Fits(x, y)'
            BY <1>1 DEF Fits
      <2>4. Fits(r, AllJobs[Len(runs) + 1])
            <3>1. Fits(r, jobs[1])
                  BY <1>4, <2>1 DEF Fits
            <3>2. 1 \in 1..Len(jobs)
                  BY <1>6
            <3>3. jobs[1] = AllJobs[Len(runs) + 1]
                  BY <2>1, <3>2
            <3> QED
                  BY <3>1, <3>3
      <2>5. ASSUME NEW i \in 1..Len(runs')
            PROVE  i <= Len(AllJobs) /\ Fits(runs'[i], AllJobs[i])
            <3>1. CASE i \in 1..Len(runs)
                  BY <1>5, <2>1, <3>1
            <3>2. CASE i = Len(runs) + 1
                  BY <1>5, <1>6, <2>1, <2>4, <3>2
            <3> QED
                  BY <1>5, <3>1, <3>2
      <2>6. ASSUME NEW i \in 1..Len(jobs')
            PROVE  jobs'[i] = AllJobs[Len(runs') + i]
            <3>1. i + 1 \in 1..Len(jobs) /\ Len(runs) + (i + 1) = Len(runs') + i
                  BY <1>5, <1>6
            <3> QED
                  BY <1>6, <2>1, <3>1
      <2>7. Len(runs') + Len(jobs') = Len(AllJobs)
            <3>1. PICK m \in Nat, n \in Nat : m = Len(runs) /\ n = Len(jobs)
                  BY <1>5, <1>6
            <3>2. m + n = Len(AllJobs)
                  BY <2>1, <3>1
            <3>3. Len(runs') = m + 1 /\ Len(jobs') = n - 1
                  BY <1>5, <1>6, <2>1, <3>1
            <3> QED
                  BY <3>2, <3>3
      <2>8. ASSUME NEW i \in 1..Len(runs')
            PROVE  i <= Len(AllJobs') /\ Fits(runs[i], AllJobs[i])'
            BY <2>2, <2>3, <2>5 DEF Fits
      <2> QED
            BY <1>1, <2>2, <2>6, <2>7, <2>8 DEF JobInv
<1>8. ScoreInv'
      <2> SUFFICES ASSUME steady, NEW i \in 1..Len(runs')
                   PROVE  OnData(runs[i])' /\ RankedOnData(runs[i])'
            BY <1>1 DEF ScoreInv
      <2>1. OnData(runs'[i]) /\ RankedOnData(runs'[i])
            <3>1. CASE i \in 1..Len(runs)
                  BY <1>5, <3>1 DEF RunInv, ScoreInv
            <3>2. CASE i = Len(runs) + 1
                  BY <1>5, <1>9, <3>2
            <3> QED
                  BY <1>5, <3>1, <3>2
      <2> QED
            BY <1>1, <2>1 DEF OnData, RankedOnData
<1>10. ReturnInv'
      BY <1>1 DEF ReturnInv
<1> QED
      BY <1>7, <1>8, <1>10 DEF RunInv

\* A request that is cut short has no result.
LEMMA CutRuns ==
    ASSUME IInv, RunInv, request # None, pc \in {"score", "enrich", "finish"},
           pc' = "idle", jobs' = <<>>,
           UNCHANGED <<data, request, runs, confirmed, result, steady>>
    PROVE  RunInv'
<1>1. result' = None
      BY DEF IInv, FlowInv
<1>2. JobInv'
      BY DEF RunInv, JobInv, Admitted, AllJobs, Fits
<1>3. ScoreInv'
      BY DEF RunInv, ScoreInv, OnData, RankedOnData
<1>4. ReturnInv'
      BY <1>1 DEF ReturnInv
<1> QED
      BY <1>2, <1>3, <1>4 DEF RunInv

\* An error, a client that leaves and a stream that is finished give no result.
LEMMA CutShortRuns ==
    ASSUME IInv, RunInv, EngineFails \/ NotUnderstood \/ StoreAndEmit \/ StoreFails \/ Leave
    PROVE  RunInv'
<1>1. request # None /\ pc \in {"score", "enrich", "finish"} /\ pc' = "idle"
      /\ UNCHANGED <<data, request, runs, confirmed, result, steady>>
      BY DEF EngineFails, NotUnderstood, StoreAndEmit, StoreFails, Leave, IInv, FlowInv
<1>2. jobs' = <<>>
      BY AtTheEnd DEF EngineFails, NotUnderstood, StoreAndEmit, StoreFails, Leave
<1> QED
      BY <1>1, <1>2, CutRuns

\* What is returned is made of all runs.
LEMMA ReturnedRuns ==
    ASSUME IInv, RunInv, Return
    PROVE  RunInv'
<1>1. /\ pc = "finish" /\ pc' = "idle" /\ request.kind \notin Streams
      /\ result' = IF request.kind = "cumulative" THEN Stack(Results) ELSE Band(Results)
      /\ UNCHANGED <<data, request, jobs, current, runs, confirmed, captured, steady>>
      BY DEF Return
<1>2. jobs = <<>> /\ request # None /\ runs # <<>> /\ Sequence(runs)
      BY <1>1, AtTheEnd
<1>3. Len(runs) = Len(AllJobs) /\ Admitted
      <2>1. Len(jobs) = 0 /\ Len(runs) \in Nat
            BY <1>2, SequenceFacts
      <2> QED
            BY <1>1, <1>2, <2>1 DEF RunInv, JobInv
<1>4. JobInv'
      BY <1>1 DEF RunInv, JobInv, Admitted, AllJobs, Fits
<1>5. ScoreInv'
      BY <1>1 DEF RunInv, ScoreInv, OnData, RankedOnData
<1>6. ReturnInv'
      <2>1. Results' = Results /\ AllJobs' = AllJobs
            BY <1>1 DEF Results, AllJobs
      <2>2. request.kind # "compare"
            BY <1>3 DEF Admitted
      <2> QED
            BY <1>1, <1>3, <2>1, <2>2 DEF ReturnInv
<1> QED
      BY <1>4, <1>5, <1>6 DEF RunInv

\* Nothing has run at first.
LEMMA InitRuns == Init => RunInv
BY DEF Init, RunInv, JobInv, ScoreInv, ReturnInv

\* Every step keeps it.
LEMMA StepRuns == IInv /\ RunInv /\ [Next]_vars => RunInv'
<1> SUFFICES ASSUME IInv, RunInv, [Next]_vars PROVE RunInv'
      OBVIOUS
<1>1. CASE \/ \E req \in Asks : ChatbotAsk(req)
           \/ \E req \in Recipes : RecipeRun(req)
           \/ \E req \in Stacks : Cumulative(req)
           \/ \E req \in Sweeps : Uncertainty(req)
           \/ \E req \in Compares : Compare(req)
      BY <1>1, AskedRuns, RecipeRuns, StackedRuns, SweptRuns, ComparedRuns
<1>2. CASE Reply \/ ScoreNode \/ EnrichNode \/ Return
      BY <1>2, RepliedRuns, ScoredRuns, EnrichedRuns, ReturnedRuns
<1>3. CASE EngineFails \/ NotUnderstood \/ StoreAndEmit \/ StoreFails \/ Leave
      BY <1>3, CutShortRuns
<1>4. CASE Taken
      <2>1. request' = None /\ runs' = <<>> /\ Len(<<>>) = 0 /\ pc' = "idle"
            BY <1>4 DEF Taken
      <2> QED
            BY <2>1 DEF RunInv, JobInv, ScoreInv, ReturnInv
<1>5. CASE Refresh
      <2>1. steady' = FALSE /\ pc # "idle"
            /\ UNCHANGED <<request, pc, jobs, current, runs, confirmed, out, result, captured>>
            BY <1>5 DEF Refresh
      <2>2. JobInv'
            BY <2>1 DEF RunInv, JobInv, Admitted, AllJobs, Fits
      <2>3. ScoreInv' /\ ReturnInv'
            BY <2>1 DEF ScoreInv, ReturnInv
      <2> QED
            BY <2>2, <2>3 DEF RunInv
<1>6. CASE UNCHANGED vars
      <2>1. JobInv'
            BY <1>6 DEF vars, RunInv, JobInv, Admitted, AllJobs, Fits
      <2>2. ScoreInv'
            BY <1>6 DEF vars, RunInv, ScoreInv, OnData, RankedOnData
      <2>3. ReturnInv'
            BY <1>6 DEF vars, RunInv, ReturnInv, AllJobs, Results
      <2> QED
            BY <2>1, <2>2, <2>3 DEF RunInv
<1> QED
      BY <1>1, <1>2, <1>3, <1>4, <1>5, <1>6 DEF Next

\* Both parts of the inductive invariant always hold.
LEMMA Always == Spec => [](IInv /\ RunInv)
BY InitHolds, StepHolds, InitRuns, StepRuns, PTL DEF Spec

(***************************************************************************)
(* What a run is scored on                                                 *)
(***************************************************************************)

\* The area and the universe that score_node scores.
NodeArea(d, p, base, pdok) == IF use_populated(p, base) THEN Cells ELSE select_h3_area(d, p, pdok)
NodeBase(p, base) == IF use_populated(p, base) THEN "populated" ELSE "salinity"

\* The area of a scenario is a set of cells.
LEMMA AreaIsOfCells ==
    ASSUME NEW d \in DataSet, NEW p, NEW pdok, p.location_name \in Places \cup {NoPlace}
    PROVE  select_h3_area(d, p, pdok) \in SUBSET Cells
<1>1. CASE p.scenario_type = "intake_failure"
      <2>1. select_h3_area(d, p, pdok) = zes_cells(d, p.intake_id)
            BY <1>1 DEF select_h3_area
      <2>2. d.zone \in SUBSET Cells
            BY DEF DataSet
      <2> QED
            BY <2>1, <2>2 DEF zes_cells
<1>2. CASE p.scenario_type = "drop_pin"
      <2>1. select_h3_area(d, p, pdok) =
                IF pdok /\ p.location_name \in Places THEN Near[p.location_name]
                                                     ELSE NearFallback[p.location_name]
            BY <1>2 DEF select_h3_area
      <2> QED
            BY <2>1, ScoringConstants
<1>3. CASE p.scenario_type # "intake_failure" /\ p.scenario_type # "drop_pin"
      <2>1. select_h3_area(d, p, pdok) = Cells
            BY <1>3 DEF select_h3_area
      <2> QED
            BY <2>1
<1> QED
      BY <1>1, <1>2, <1>3

\* The area and the universe of a run do not depend on the levers that it is made with.
LEMMA NodeIsArea ==
    ASSUME NEW d \in DataSet, NEW p, NEW x, NEW base, NEW pdok,
           p.location_name \in Places \cup {NoPlace}
    PROVE  /\ score_node(d, p, x, base, pdok) =
                  score_h3_area(d, params_to_assumptions(p, x), NodeArea(d, p, base, pdok),
                                NodeBase(p, base))
           /\ NodeArea(d, p, base, pdok) \in SUBSET Cells /\ NodeBase(p, base) \in Bases
<1>1. NodeArea(d, p, base, pdok) \in SUBSET Cells
      BY AreaIsOfCells DEF NodeArea
<1> QED
      BY <1>1 DEF score_node, NodeArea, NodeBase, Bases

\* Two results of which the second is in no respect the milder one.
NotMilder(r, q) ==
    /\ r.n_cells = q.n_cells /\ r.n_stop <= q.n_stop
    /\ r.stop_share \in Int /\ q.stop_share \in Int /\ r.stop_share <= q.stop_share
    /\ r.score_avg \in Int /\ q.score_avg \in Int /\ r.score_avg <= q.score_avg
    /\ r.area_verdict \in Verdicts /\ q.area_verdict \in Verdicts
    /\ RANK[r.area_verdict] <= RANK[q.area_verdict]

\* There are three verdicts.
LEMMA VerdictNames == Verdicts = {"GO", "CAUTION", "STOP"}
BY DEF Verdicts, RANK

\* A verdict can be told by its rank.
LEMMA Ranks ==
    ASSUME NEW v \in Verdicts, NEW w
    PROVE  /\ RANK[v] \in Int /\ v \in {"STOP", "CAUTION", "GO"}
           /\ RANK["GO"] = 0 /\ RANK["CAUTION"] = 1 /\ RANK["STOP"] = 2
           /\ w \in Verdicts /\ RANK[v] = RANK[w] => v = w
BY VerdictNames DEF RANK

\* Where no cell scores lower, the area is not milder.
LEMMA NoLowerIsNotMilder ==
    ASSUME NEW d \in DataSet, NEW x, NEW y, NoLower(d, Full(x), Full(y)),
           NEW area \in SUBSET Cells, NEW base \in Bases
    PROVE  NotMilder(score_h3_area(d, x, area, base), score_h3_area(d, y, area, base))
<1> DEFINE r == score_h3_area(d, x, area, base)
           q == score_h3_area(d, y, area, base)
<1>1. /\ r.n_cells = q.n_cells /\ r.n_stop <= q.n_stop
      /\ r.stop_share \in Int /\ q.stop_share \in Int /\ r.stop_share <= q.stop_share
      /\ r.score_avg \in Int /\ q.score_avg \in Int /\ r.score_avg <= q.score_avg
      /\ r.area_verdict \in {"GO", "CAUTION", "STOP"}
      /\ r.area_verdict = "STOP" => q.area_verdict = "STOP"
      /\ q.area_verdict = "GO" => r.area_verdict = "GO"
      BY AreaIsNeverMilder
<1>2. q.area_verdict \in {"GO", "CAUTION", "STOP"}
      BY DEF score_h3_area, AreaVerdict
<1> HIDE DEF r, q
<1>3. RANK[r.area_verdict] <= RANK[q.area_verdict]
      BY <1>1, <1>2 DEF RANK
<1> QED
      BY <1>1, <1>2, <1>3, VerdictNames DEF NotMilder, r, q

\* The levers of a question that was read, with nothing or a preset on top.
LEMMA ReadLevers ==
    ASSUME NEW p, Read(p), NEW extra, extra = Nothing \/ \E x : extra = knmi(x)
    PROVE  LET a == Full(params_to_assumptions(p, extra))
           IN  Numeric(a) /\ a.knmi_dryness_multiplier >= 10
<1> DEFINE a == Full(params_to_assumptions(p, extra))
<1>1. \A x : dryness(x) \in {10, 12, 13, 15, 18} /\ growth(x) \in {40, 65, 90}
      BY DEF dryness, growth, KNMI_DRYNESS, GROWTH_PCT
<1>5. DOMAIN extra \subseteq {"knmi_dryness_multiplier"} /\ DOMAIN p.assumption_overrides = {}
      BY DEF Read, Nothing, knmi
<1> DEFINE top == p.assumption_overrides ++ extra
<1>6. DOMAIN top \subseteq {"knmi_dryness_multiplier"}
      BY <1>5 DEF ++
<1>2. /\ a.weight_salinity \in {1500, 4000} /\ a.weight_demand \in {3000, 6000}
      /\ a.weight_flood = 2000 /\ a.weight_protection \in {500, 1000}
      /\ a.demand_ref_m3_per_cell \in {15, 20}
      <2> DEFINE rest == top ++ (IF p.housing THEN housing_weights ELSE Nothing)
      <2>1. CASE p.housing
            <3>1. /\ rest.weight_salinity = 1500 /\ rest.weight_demand = 6000
                  /\ rest.weight_flood = 2000 /\ rest.weight_protection = 500
                  /\ rest.demand_ref_m3_per_cell = 20
                  /\ DOMAIN housing_weights \subseteq DOMAIN rest
                  BY <1>6, <2>1 DEF ++, housing_weights
            <3> DEFINE homes == IF p.development_units # 0
                                THEN [added_homes |-> p.development_units] ELSE Nothing
                       preset == [knmi_dryness_multiplier |-> dryness(p.knmi_preset),
                                  population_growth_pct   |-> growth(p.growth_preset)]
            <3>2. a = ((rest ++ homes) ++ preset) ++ DEFAULT_ASSUMPTIONS
                  BY DEF Full, params_to_assumptions
            <3>3. {"weight_salinity", "weight_demand", "weight_flood", "weight_protection",
                   "demand_ref_m3_per_cell"} \subseteq DOMAIN rest
                  BY <3>1 DEF housing_weights
            <3> HIDE DEF a, rest, homes, preset
            <3>4. \A k \in DOMAIN rest : a[k] = rest[k]
                  BY <3>2 DEF ++
            <3> QED
                  BY <3>1, <3>3, <3>4
      <2>2. CASE ~p.housing
            <3>1. DOMAIN params_to_assumptions(p, extra) \cap {"weight_salinity", "weight_demand",
                     "weight_flood", "weight_protection", "demand_ref_m3_per_cell"} = {}
                  BY <2>2, <1>5 DEF params_to_assumptions, ++, Nothing
            <3> QED
                  BY <3>1 DEF Full, ++, DEFAULT_ASSUMPTIONS
      <2> QED
            BY <2>1, <2>2
<1>3. /\ a.population_growth_pct \in {40, 65, 90}
      /\ a.knmi_dryness_multiplier \in {10, 12, 13, 15, 18}
      BY <1>1 DEF Full, params_to_assumptions, ++, Read, Nothing, knmi, housing_weights,
             DEFAULT_ASSUMPTIONS
<1>7. DOMAIN params_to_assumptions(p, extra) \cap {"pop_min_built_up", "verdict_caution",
         "verdict_stop", "area_stop_share"} = {}
      BY <1>5 DEF params_to_assumptions, ++, Nothing, housing_weights
<1>4. /\ a.pop_min_built_up = 0
      /\ a.verdict_caution = 33 * point /\ a.verdict_stop = 66 * point /\ a.area_stop_share = 20
      BY <1>7 DEF Full, ++, DEFAULT_ASSUMPTIONS
<1>8. a.added_homes \in Int
      BY <1>5 DEF Full, params_to_assumptions, ++, Read, Nothing, housing_weights,
             DEFAULT_ASSUMPTIONS
<1> HIDE DEF a
<1> QED
      BY <1>2, <1>3, <1>4, <1>8, LeverNames DEF Numeric, a, point

\* Two dictionaries that say the same of a key.
Agree(f, g, k) == (k \in DOMAIN f <=> k \in DOMAIN g) /\ (k \in DOMAIN f => f[k] = g[k])

\* Dictionaries that agree on a key still do with the same defaults.
LEMMA StillAgree ==
    ASSUME NEW f, NEW g, NEW h, NEW k, Agree(f, g, k)
    PROVE  Agree(f ++ h, g ++ h, k)
BY DEF Agree, ++

\* A preset on top says how dry it is, and nothing else.
LEMMA PresetWins ==
    ASSUME NEW p, Read(p), NEW x
    PROVE  Full(params_to_assumptions(p, knmi(x))).knmi_dryness_multiplier = dryness(x)
BY DEF Full, params_to_assumptions, ++, Read, Nothing, knmi

\* The other levers are those of the scenario without the preset.
LEMMA PresetOnly ==
    ASSUME NEW p, Read(p), NEW x, NEW k \in Levers \ {"knmi_dryness_multiplier"}
    PROVE  Full(params_to_assumptions(p, knmi(x)))[k] = Full(params_to_assumptions(p, Nothing))[k]
<1> DEFINE f == p.assumption_overrides ++ knmi(x)
           g == p.assumption_overrides ++ Nothing
<1>1. Agree(f, g, k)
      BY DEF Agree, ++, Read, Nothing, knmi
<1> HIDE DEF f, g
<1>2. \A h : Agree(f ++ h, g ++ h, k)
      BY <1>1, StillAgree
<1>3. \A h, i : Agree(f ++ h ++ i, g ++ h ++ i, k)
      BY <1>2, StillAgree
<1>4. \A h, i, j : Agree(f ++ h ++ i ++ j, g ++ h ++ i ++ j, k)
      BY <1>3, StillAgree
<1>5. \A h, i, j, l : Agree(f ++ h ++ i ++ j ++ l, g ++ h ++ i ++ j ++ l, k)
      BY <1>4, StillAgree
<1>6. Agree(Full(params_to_assumptions(p, knmi(x))), Full(params_to_assumptions(p, Nothing)), k)
      BY <1>5 DEF Full, params_to_assumptions, f, g
<1>7. k \in DOMAIN Full(params_to_assumptions(p, Nothing))
      BY DEF Full, Levers, ++
<1> QED
      BY <1>6, <1>7 DEF Agree

\* Of two presets the drier one makes the drier scenario.
LEMMA PresetOnTop ==
    ASSUME NEW p, Read(p), NEW x, NEW y, dryness(x) <= dryness(y)
    PROVE  Drier(Full(params_to_assumptions(p, knmi(x))), Full(params_to_assumptions(p, knmi(y))))
BY PresetWins, PresetOnly DEF Drier

\* The same scenario in a drier preset is never milder.
LEMMA DrierPreset ==
    ASSUME NEW d \in DataSet, NEW p, Read(p), NEW x, NEW y, dryness(x) <= dryness(y),
           NEW base, NEW pdok
    PROVE  NotMilder(score_node(d, p, knmi(x), base, pdok), score_node(d, p, knmi(y), base, pdok))
<1> DEFINE a == params_to_assumptions(p, knmi(x))
           b == params_to_assumptions(p, knmi(y))
<1>1. Numeric(Full(a)) /\ Numeric(Full(b))
      BY ReadLevers
<1>2. NoLower(d, Full(a), Full(b))
      BY <1>1, PresetOnTop, DrierIsNoLower
<1>3. p.location_name \in Places \cup {NoPlace}
      BY DEF Read
<1> QED
      BY <1>2, <1>3, NodeIsArea, NoLowerIsNotMilder

(***************************************************************************)
(* The band                                                                *)
(***************************************************************************)

\* Five results, none milder than the one before it.
LEMMA BandOfRising ==
    ASSUME NEW rs, DOMAIN rs = 1..5, \A i \in 1..4 : NotMilder(rs[i], rs[i + 1])
    PROVE  LET band == Band(rs)
           IN  /\ \A i \in 1..5 : band.presets[i] = rs[i].area_verdict
               /\ \A i \in 1..4 : RANK[band.presets[i]] <= RANK[band.presets[i + 1]]
               /\ band.best_case = band.presets[1] /\ band.worst_case = band.presets[5]
               /\ band.score_min = rs[1].score_avg /\ band.score_max = rs[5].score_avg
               /\ (band.robustness = "robuust") <=> (band.presets[1] = band.presets[5])
<1> DEFINE v == [i \in 1..5 |-> rs[i].area_verdict]
           seen == {v[i] : i \in 1..5}
           scores == {rs[i].score_avg : i \in 1..5}
           band == Band(rs)
<1>1. /\ band.presets = v
      /\ band.score_min = Min(scores) /\ band.score_max = Max(scores)
      /\ band.worst_case = Worst(seen) /\ band.best_case = Best(seen)
      /\ band.robustness = IF Cardinality(seen) = 1 THEN "robuust"
                           ELSE IF {"GO", "STOP"} \subseteq seen THEN "wankel"
                           ELSE "matig robuust"
      BY DEF Band
<1>2. /\ NotMilder(rs[1], rs[2]) /\ NotMilder(rs[2], rs[3])
      /\ NotMilder(rs[3], rs[4]) /\ NotMilder(rs[4], rs[5])
      <2>1. 1 + 1 = 2 /\ 2 + 1 = 3 /\ 3 + 1 = 4 /\ 4 + 1 = 5
            OBVIOUS
      <2> QED
            BY <2>1
<1>3. /\ v[1] \in Verdicts /\ v[2] \in Verdicts /\ v[3] \in Verdicts /\ v[4] \in Verdicts
      /\ v[5] \in Verdicts
      /\ RANK[v[1]] <= RANK[v[2]] /\ RANK[v[2]] <= RANK[v[3]] /\ RANK[v[3]] <= RANK[v[4]]
      /\ RANK[v[4]] <= RANK[v[5]]
      BY <1>2 DEF NotMilder
<1>4. \A i \in 1..5 : v[i] = rs[i].area_verdict
      OBVIOUS
<1> HIDE DEF v
<1>5. \A i \in 1..5 : v[i] \in Verdicts /\ RANK[v[1]] <= RANK[v[i]] /\ RANK[v[i]] <= RANK[v[5]]
      BY <1>3, Ranks
<1>6. Best(seen) = v[1]
      <2>1. v[1] \in seen /\ \A w \in seen : RANK[v[1]] <= RANK[w]
            BY <1>5
      <2>2. ASSUME NEW u \in seen, \A w \in seen : RANK[u] <= RANK[w] PROVE u = v[1]
            BY <1>5, <2>1, <2>2, Ranks
      <2> HIDE DEF seen
      <2> QED
            BY <2>1, <2>2 DEF Best
<1>7. Worst(seen) = v[5]
      <2>1. v[5] \in seen /\ \A w \in seen : RANK[w] <= RANK[v[5]]
            BY <1>5
      <2>2. ASSUME NEW u \in seen, \A w \in seen : RANK[w] <= RANK[u] PROVE u = v[5]
            BY <1>5, <2>1, <2>2, Ranks
      <2> HIDE DEF seen
      <2> QED
            BY <2>1, <2>2 DEF Worst
<1>8. \A i \in 1..5 : /\ rs[i].score_avg \in Int /\ rs[1].score_avg <= rs[i].score_avg
                      /\ rs[i].score_avg <= rs[5].score_avg
      <2> DEFINE s == [i \in 1..5 |-> rs[i].score_avg]
      <2>1. /\ s[1] \in Int /\ s[2] \in Int /\ s[3] \in Int /\ s[4] \in Int /\ s[5] \in Int
            /\ s[1] <= s[2] /\ s[2] <= s[3] /\ s[3] <= s[4] /\ s[4] <= s[5]
            BY <1>2 DEF NotMilder
      <2>2. \A i \in 1..5 : s[i] = rs[i].score_avg
            OBVIOUS
      <2> HIDE DEF s
      <2>3. \A i \in 1..5 : s[i] \in Int /\ s[1] <= s[i] /\ s[i] <= s[5]
            BY <2>1
      <2> QED
            BY <2>2, <2>3
<1>9. Min(scores) = rs[1].score_avg
      <2>1. rs[1].score_avg \in scores /\ \A s \in scores : s \in Int /\ rs[1].score_avg <= s
            BY <1>8
      <2> HIDE DEF scores
      <2> QED
            BY <2>1 DEF Min
<1>10. Max(scores) = rs[5].score_avg
      <2>1. rs[5].score_avg \in scores /\ \A s \in scores : s \in Int /\ rs[5].score_avg >= s
            BY <1>8
      <2> HIDE DEF scores
      <2> QED
            BY <2>1 DEF Max
<1>11. Cardinality(seen) = 1 <=> v[1] = v[5]
      <2>1. CASE v[1] = v[5]
            <3>1. \A i \in 1..5 : v[i] = v[1]
                  BY <1>3, <1>5, <2>1, Ranks
            <3>2. seen = {v[1]}
                  BY <3>1
            <3> QED
                  BY <2>1, <3>2, FS_Singleton
      <2>2. CASE v[1] # v[5]
            <3>1. v[1] \in seen /\ v[5] \in seen
                  OBVIOUS
            <3> HIDE DEF seen
            <3>2. ASSUME Cardinality(seen) = 1 PROVE FALSE
                  <4>1. IsFiniteSet(seen)
                        <5>1. seen = {v[1], v[2], v[3], v[4], v[5]}
                              BY DEF seen
                        <5>2. seen \subseteq Verdicts
                              BY <1>5 DEF seen
                        <5>3. IsFiniteSet(Verdicts)
                              <6>1. IsFiniteSet({"GO"} \cup {"CAUTION"} \cup {"STOP"})
                                    BY FS_Singleton, FS_Union, Zenon
                              <6> QED
                                    BY <6>1, VerdictNames
                        <5> QED
                              BY <5>2, <5>3, FS_Subset
                  <4>2. \E x : seen = {x}
                        BY <3>2, <4>1, FS_Singleton
                  <4> QED
                        BY <2>2, <3>1, <4>2
            <3> QED
                  BY <2>2, <3>2
      <2> QED
            BY <2>1, <2>2
<1>12. (band.robustness = "robuust") <=> (v[1] = v[5])
      <2> HIDE DEF seen, band
      <2> QED
            BY <1>1, <1>11
<1>13. \A i \in 1..4 : RANK[v[i]] <= RANK[v[i + 1]]
      BY <1>3
<1> HIDE DEF seen, scores, band
<1>14. /\ \A i \in 1..5 : band.presets[i] = rs[i].area_verdict
       /\ \A i \in 1..4 : RANK[band.presets[i]] <= RANK[band.presets[i + 1]]
       BY <1>1, <1>4, <1>13
<1>15. /\ band.best_case = band.presets[1] /\ band.worst_case = band.presets[5]
       /\ band.score_min = rs[1].score_avg /\ band.score_max = rs[5].score_avg
       /\ (band.robustness = "robuust") <=> (band.presets[1] = band.presets[5])
       BY <1>1, <1>6, <1>7, <1>9, <1>10, <1>12
<1> QED
      BY <1>14, <1>15 DEF band

\* The kind of a request tells its endpoint.
LEMMA KindsTell ==
    ASSUME FlowInv, request # None
    PROVE  /\ request.kind = "ask" => request \in Asks
           /\ request.kind = "recipe" => request \in Recipes
           /\ request.kind = "cumulative" => request \in Stacks
           /\ request.kind = "uncertainty" => request \in Sweeps
           /\ request.kind = "compare" => request \in Compares
           /\ request.kind \in {"ask", "recipe", "cumulative", "uncertainty", "compare"}
BY RequestKinds DEF FlowInv, Requests

\* The sweep runs the five presets from mild to harsh.
LEMMA SweepOrder ==
    /\ Len(SweepJobs) = 5
    /\ \A i \in 1..5 : SweepJobs[i] = Job(None, knmi(KNMI_PRESETS[i]), NoBase)
    /\ \A i \in 1..4 : dryness(KNMI_PRESETS[i]) <= dryness(KNMI_PRESETS[i + 1])
<1>1. DOMAIN KNMI_PRESETS = 1..5
      BY DEF KNMI_PRESETS
<1>2. \A i \in 1..5 : SweepJobs[i] = Job(None, knmi(KNMI_PRESETS[i]), NoBase)
      BY <1>1 DEF SweepJobs
<1>3. Len(SweepJobs) = 5
      <2> DEFINE js == SweepJobs
      <2>1. js = [i \in 1..5 |-> js[i]]
            BY <1>1 DEF SweepJobs
      <2> HIDE DEF js
      <2>2. Len(js) = 5
            BY <2>1, ListIsSequence
      <2> QED
            BY <2>2 DEF js
<1>4. \A i \in 1..4 : dryness(KNMI_PRESETS[i]) <= dryness(KNMI_PRESETS[i + 1])
      <2>1. /\ KNMI_PRESETS[1] = "B" /\ KNMI_PRESETS[2] = "Ln" /\ KNMI_PRESETS[3] = "Hn"
            /\ KNMI_PRESETS[4] = "Ld" /\ KNMI_PRESETS[5] = "Hd"
            BY DEF KNMI_PRESETS
      <2>2. /\ dryness("B") = 10 /\ dryness("Ln") = 12 /\ dryness("Hn") = 13
            /\ dryness("Ld") = 15 /\ dryness("Hd") = 18
            BY DEF dryness, KNMI_DRYNESS
      <2> QED
            BY <2>1, <2>2
<1> QED
      BY <1>2, <1>3, <1>4

\* The band is that of five runs, each at least as harsh as the one before.
LEMMA WorstIsHarshestHolds ==
    ASSUME IInv, RunInv
    PROVE  WorstIsHarshest
<1> SUFFICES ASSUME Ended("uncertainty"), result # None, Alike
             PROVE  /\ \A i \in 1..4 : RANK[result.presets[i]] <= RANK[result.presets[i + 1]]
                    /\ result.best_case = result.presets[1] /\ result.worst_case = result.presets[5]
                    /\ result.score_min = runs[1].res.score_avg
                    /\ result.score_max = runs[5].res.score_avg
                    /\ (result.robustness = "robuust") <=> (result.presets[1] = result.presets[5])
      BY DEF WorstIsHarshest
<1>1. /\ request # None /\ pc = "idle" /\ request.kind = "uncertainty" /\ request \in Sweeps
      /\ steady /\ data \in DataSet
      BY KindsTell, RequestConstants DEF Ended, Alike, IInv, FlowInv
<1>2. /\ AllJobs = SweepJobs /\ result = Band(Results) /\ Len(runs) = 5
      BY <1>1, SweepOrder DEF RunInv, ReturnInv, AllJobs
<1>3. Sequence(runs) /\ DOMAIN runs = 1..5 /\ runs # <<>>
      <2>1. Sequence(runs) /\ DOMAIN runs = 1..Len(runs) /\ Len(<<>>) = 0
            BY SequenceFacts DEF IInv, FlowInv
      <2> QED
            BY <1>2, <2>1
<1>4. /\ Admitted /\ \A i \in 1..5 : Fits(runs[i], SweepJobs[i]) /\ OnData(runs[i])
      BY <1>1, <1>2, <1>3 DEF RunInv, JobInv, ScoreInv
<1> DEFINE p == runs[1].params
           pdok == runs[1].pdok
           node(i) == score_node(data, p, knmi(KNMI_PRESETS[i]), NoBase, pdok)
<1>5. Read(p)
      <2>1. request.question # Blank /\ Fits(runs[1], SweepJobs[1])
            BY <1>1, <1>4 DEF Admitted
      <2>2. \E reading \in Readings(request.question) : p = reading.params
            BY <2>1, SweepOrder DEF Fits, Job
      <2> QED
            BY <1>1, <2>1, <2>2, RequestTypes
<1>6. ASSUME NEW i \in 1..5 PROVE runs[i].res = node(i)
      <2>1. runs[i].params = p /\ runs[i].pdok = pdok
            BY <1>3 DEF Alike
      <2>2. runs[i].extra = knmi(KNMI_PRESETS[i]) /\ runs[i].base = NoBase
            BY <1>4, SweepOrder DEF Fits, Job
      <2>3. OnData(runs[i])
            BY <1>4
      <2> QED
            BY <2>1, <2>2, <2>3 DEF OnData
<1> HIDE DEF p, pdok
<1>7. \A i \in 1..4 : NotMilder(node(i), node(i + 1))
      BY <1>1, <1>5, SweepOrder, DrierPreset
<1> HIDE DEF node
<1> DEFINE rs == Results
<1>8. DOMAIN rs = 1..5 /\ \A i \in 1..5 : rs[i] = node(i) /\ rs[i] = runs[i].res
      BY <1>3, <1>6 DEF Results
<1>9. \A i \in 1..4 : NotMilder(rs[i], rs[i + 1])
      <2>1. \A i \in 1..4 : i \in 1..5 /\ i + 1 \in 1..5
            OBVIOUS
      <2> HIDE DEF rs
      <2> QED
            BY <1>7, <1>8, <2>1
<1> HIDE DEF rs
<1>10. /\ \A i \in 1..4 : RANK[result.presets[i]] <= RANK[result.presets[i + 1]]
       /\ result.best_case = result.presets[1] /\ result.worst_case = result.presets[5]
       /\ result.score_min = rs[1].score_avg /\ result.score_max = rs[5].score_avg
       /\ (result.robustness = "robuust") <=> (result.presets[1] = result.presets[5])
       <2>1. result = Band(rs)
             BY <1>2 DEF rs
       <2> QED
             BY <1>8, <1>9, <2>1, BandOfRising
<1> QED
      BY <1>8, <1>10

(***************************************************************************)
(* The comparison from the chat                                            *)
(***************************************************************************)

\* The levers of a comparison go from mild to harsh.
LEMMA LeversRise ==
    ASSUME NEW q, detect_comparison(q) # <<>>
    PROVE  \E x, y : detect_comparison(q) = <<knmi(x), knmi(y)>> /\ dryness(x) <= dryness(y)
<1>1. CASE Cardinality(Named(q)) >= 2
      <2> DEFINE S == Named(q)
                 x == Mildest(S)
                 y == Harshest(S)
      <2>1. S \subseteq {"B", "Ln", "Hn", "Ld", "Hd"}
            BY DEF Named, ALLOWED_KNMI, KNMI_DRYNESS
      <2>2. S # {}
            BY <1>1, FS_EmptySet
      <2> HIDE DEF S
      <2>3. x \in S /\ \A o \in S : KNMI_DRYNESS[x] <= KNMI_DRYNESS[o]
            <3>1. \E p \in S : \A o \in S : KNMI_DRYNESS[p] <= KNMI_DRYNESS[o]
                  <4>1. CASE "B" \in S
                        BY <2>1, <4>1 DEF KNMI_DRYNESS
                  <4>2. CASE "B" \notin S /\ "Ln" \in S
                        BY <2>1, <4>2 DEF KNMI_DRYNESS
                  <4>3. CASE S \subseteq {"Hn", "Ld", "Hd"} /\ "Hn" \in S
                        BY <4>3 DEF KNMI_DRYNESS
                  <4>4. CASE S \subseteq {"Ld", "Hd"} /\ "Ld" \in S
                        BY <4>4 DEF KNMI_DRYNESS
                  <4>5. CASE S = {"Hd"}
                        BY <4>5 DEF KNMI_DRYNESS
                  <4> QED
                        BY <2>1, <2>2, <4>1, <4>2, <4>3, <4>4, <4>5
            <3> QED
                  BY <3>1 DEF Mildest
      <2>4. y \in S
            <3>1. \E p \in S : \A o \in S : KNMI_DRYNESS[p] >= KNMI_DRYNESS[o]
                  <4>1. CASE "Hd" \in S
                        BY <2>1, <4>1 DEF KNMI_DRYNESS
                  <4>2. CASE "Hd" \notin S /\ "Ld" \in S
                        BY <2>1, <4>2 DEF KNMI_DRYNESS
                  <4>3. CASE S \subseteq {"B", "Ln", "Hn"} /\ "Hn" \in S
                        BY <4>3 DEF KNMI_DRYNESS
                  <4>4. CASE S \subseteq {"B", "Ln"} /\ "Ln" \in S
                        BY <4>4 DEF KNMI_DRYNESS
                  <4>5. CASE S = {"B"}
                        BY <4>5 DEF KNMI_DRYNESS
                  <4> QED
                        BY <2>1, <2>2, <4>1, <4>2, <4>3, <4>4, <4>5
            <3> QED
                  BY <3>1 DEF Harshest
      <2> HIDE DEF x, y
      <2>5. dryness(x) <= dryness(y)
            <3>1. dryness(x) = KNMI_DRYNESS[x] /\ dryness(y) = KNMI_DRYNESS[y]
                  BY <2>1, <2>3, <2>4 DEF dryness, KNMI_DRYNESS
            <3> QED
                  BY <2>3, <2>4, <3>1
      <2>6. detect_comparison(q) = <<knmi(x), knmi(y)>>
            BY <1>1 DEF detect_comparison, S, x, y
      <2> QED
            BY <2>5, <2>6
<1>2. CASE ~(Cardinality(Named(q)) >= 2)
      <2>1. detect_comparison(q) = <<knmi("B"), knmi("Hd")>>
            BY <1>2 DEF detect_comparison
      <2>2. dryness("B") <= dryness("Hd")
            BY DEF dryness, KNMI_DRYNESS
      <2> QED
            BY <2>1, <2>2
<1> QED
      BY <1>1, <1>2

\* The two runs of a comparison differ in the preset only.
LEMMA ShockIsHarsherHolds ==
    ASSUME IInv, RunInv
    PROVE  ShockIsHarsher
<1> SUFFICES ASSUME Ended("ask"), Len(runs) = 2, Alike
             PROVE  /\ runs[1].res.n_cells = runs[2].res.n_cells
                    /\ runs[1].res.n_stop <= runs[2].res.n_stop
                    /\ runs[1].res.score_avg <= runs[2].res.score_avg
                    /\ RANK[runs[1].res.area_verdict] <= RANK[runs[2].res.area_verdict]
      BY DEF ShockIsHarsher
<1> DEFINE levers == detect_comparison(request.question)
<1>1. /\ request # None /\ pc = "idle" /\ request.kind = "ask" /\ request \in Asks
      /\ steady /\ data \in DataSet
      BY KindsTell, RequestConstants DEF Ended, Alike, IInv, FlowInv
<1>2. DOMAIN runs = 1..2 /\ runs # <<>>
      <2>1. DOMAIN runs = 1..Len(runs) /\ Len(<<>>) = 0
            BY SequenceFacts DEF IInv, FlowInv
      <2> QED
            BY <2>1
<1>3. /\ Admitted /\ AllJobs = PlanJobs(confirmed, levers)
      /\ \A i \in 1..2 : i <= Len(AllJobs) /\ Fits(runs[i], AllJobs[i]) /\ OnData(runs[i])
      BY <1>1, <1>2 DEF RunInv, JobInv, ScoreInv, AllJobs
<1>4. Read(confirmed) /\ confirmed # None
      BY <1>1, <1>3, RequestTypes, NoneIsNoParams DEF Admitted
<1>5. levers # <<>>
      <2> SUFFICES ASSUME levers = <<>> PROVE FALSE
            OBVIOUS
      <2>1. AllJobs = <<Job(confirmed, Nothing, NoBase)>>
            BY <1>3 DEF PlanJobs
      <2>2. Len(AllJobs) = 1
            BY <2>1, OneJob
      <2>3. 2 <= Len(AllJobs)
            BY <1>3
      <2> QED
            BY <2>2, <2>3
<1>6. PICK x, y : levers = <<knmi(x), knmi(y)>> /\ dryness(x) <= dryness(y)
      BY <1>5, LeversRise
<1>7. AllJobs[1] = Job(confirmed, knmi(x), NoBase) /\ AllJobs[2] = Job(confirmed, knmi(y), NoBase)
      BY <1>3, <1>5, <1>6 DEF PlanJobs
<1> HIDE DEF levers
<1>8. Fits(runs[1], AllJobs[1]) /\ Fits(runs[2], AllJobs[2]) /\ OnData(runs[1]) /\ OnData(runs[2])
      BY <1>3
<1>9. /\ runs[1].params = confirmed /\ runs[1].extra = knmi(x) /\ runs[1].base = NoBase
      /\ runs[2].params = confirmed /\ runs[2].extra = knmi(y) /\ runs[2].base = NoBase
      BY <1>4, <1>7, <1>8 DEF Fits, Job
<1>10. runs[1].pdok = runs[2].pdok
       BY <1>2 DEF Alike
<1>11. /\ runs[1].res = score_node(data, confirmed, knmi(x), NoBase, runs[1].pdok)
       /\ runs[2].res = score_node(data, confirmed, knmi(y), NoBase, runs[1].pdok)
       BY <1>8, <1>9, <1>10 DEF OnData
<1>12. NotMilder(runs[1].res, runs[2].res)
       BY <1>1, <1>4, <1>6, <1>11, DrierPreset
<1> QED
      BY <1>12 DEF NotMilder

(***************************************************************************)
(* The stack                                                               *)
(***************************************************************************)

\* What passes the gate of a stack has a preset, a growth and numbers of homes.
LEMMA CumulativeOk ==
    ASSUME NEW spec, validate_cumulative(spec) = "ok"
    PROVE  /\ spec.knmi_preset \in ALLOWED_KNMI /\ spec.growth_preset \in ALLOWED_GROWTH
           /\ spec.projects # <<>>
           /\ \A i \in DOMAIN spec.projects : ~(homes_equiv(spec.projects[i]) < 0)
           /\ \A i \in DOMAIN spec.committed : ~(spec.committed[i] < 0)
<1> DEFINE checks == <<
        <<"bad_knmi",    spec.knmi_preset \notin ALLOWED_KNMI>>,
        <<"bad_growth",  spec.growth_preset \notin ALLOWED_GROWTH>>,
        <<"no_projects", spec.projects = <<>> >>,
        <<"too_many",    Len(spec.projects) > MAX_PROJECTS>>,
        <<"negative_demand",    \E i \in DOMAIN spec.projects : homes_equiv(spec.projects[i]) < 0>>,
        <<"negative_committed", \E i \in DOMAIN spec.committed : spec.committed[i] < 0>> >>
<1>1. validate_cumulative(spec) = FirstOf(checks)
      BY DEF validate_cumulative
<1>2. DOMAIN checks = 1..6 /\ \A i \in 1..6 : checks[i][1] # "ok"
      OBVIOUS
<1>3. \A i \in 1..6 : ~checks[i][2]
      <2> HIDE DEF checks
      <2> QED
            BY <1>1, <1>2, FirstOfOk
<1>4. ~checks[1][2] /\ ~checks[2][2] /\ ~checks[3][2] /\ ~checks[5][2] /\ ~checks[6][2]
      <2> HIDE DEF checks
      <2> QED
            BY <1>3
<1> QED
      BY <1>4

\* More homes on the same stack are never milder.
LEMMA MoreHomes ==
    ASSUME NEW d \in DataSet, NEW spec, NEW h \in Nat, NEW k \in Nat, h <= k, NEW pdok
    PROVE  NotMilder(score_node(d, CumulativeParams(spec, h), Nothing, "populated", pdok),
                     score_node(d, CumulativeParams(spec, k), Nothing, "populated", pdok))
<1> DEFINE p(n) == CumulativeParams(spec, n)
           a(n) == params_to_assumptions(p(n), Nothing)
<1>1. ASSUME NEW n \in Nat
      PROVE  /\ Full(a(n)) = [added_homes |-> n]
                    ++ ([knmi_dryness_multiplier |-> dryness(spec.knmi_preset),
                         population_growth_pct |-> growth(spec.growth_preset)]
                        ++ DEFAULT_ASSUMPTIONS)
             /\ p(n).location_name = NoPlace
      <2>1. /\ p(n).assumption_overrides = [added_homes |-> n] /\ ~p(n).housing
            /\ p(n).development_units = 0 /\ p(n).knmi_preset = spec.knmi_preset
            /\ p(n).growth_preset = spec.growth_preset /\ p(n).location_name = NoPlace
            BY DEF CumulativeParams, default_params
      <2> HIDE DEF p
      <2>2. \A f : f ++ Nothing = [x \in DOMAIN f |-> f[x]]
            BY DEF ++, Nothing
      <2> DEFINE o == [added_homes |-> n]
                 base == [knmi_dryness_multiplier |-> dryness(spec.knmi_preset),
                          population_growth_pct |-> growth(spec.growth_preset)]
      <2>3. o ++ Nothing = o
            BY DEF ++, Nothing
      <2>4. params_to_assumptions(p(n), Nothing) = o ++ base
            BY <2>1, <2>3 DEF params_to_assumptions
      <2>5. (o ++ base) ++ DEFAULT_ASSUMPTIONS = o ++ (base ++ DEFAULT_ASSUMPTIONS)
            BY DEF ++
      <2> QED
            BY <2>1, <2>4, <2>5 DEF Full
<1>2. \A x : dryness(x) \in Nat /\ growth(x) \in Nat
      BY DEF dryness, growth, KNMI_DRYNESS, GROWTH_PCT
<1>3. ASSUME NEW n \in Nat
      PROVE  /\ Full(a(n)).weight_salinity = 4000 /\ Full(a(n)).weight_demand = 3000
             /\ Full(a(n)).weight_flood = 2000 /\ Full(a(n)).weight_protection = 1000
             /\ Full(a(n)).demand_ref_m3_per_cell = 15 /\ Full(a(n)).added_homes = n
             /\ Full(a(n)).pop_min_built_up = 0 /\ Full(a(n)).verdict_caution = 33 * point
             /\ Full(a(n)).verdict_stop = 66 * point /\ Full(a(n)).area_stop_share = 20
             /\ Full(a(n)).knmi_dryness_multiplier = dryness(spec.knmi_preset)
             /\ Full(a(n)).population_growth_pct = growth(spec.growth_preset)
      <2> DEFINE base == [knmi_dryness_multiplier |-> dryness(spec.knmi_preset),
                          population_growth_pct |-> growth(spec.growth_preset)]
                           ++ DEFAULT_ASSUMPTIONS
      <2>1. Full(a(n)) = [added_homes |-> n] ++ base
            BY <1>1
      <2>2. /\ base.weight_salinity = 4000 /\ base.weight_demand = 3000
            /\ base.weight_flood = 2000 /\ base.weight_protection = 1000
            /\ base.demand_ref_m3_per_cell = 15
            /\ base.pop_min_built_up = 0 /\ base.verdict_caution = 33 * point
            /\ base.verdict_stop = 66 * point /\ base.area_stop_share = 20
            /\ DOMAIN base = Levers
            BY DEF ++, DEFAULT_ASSUMPTIONS, Levers
      <2>3. /\ base.knmi_dryness_multiplier = dryness(spec.knmi_preset)
            /\ base.population_growth_pct = growth(spec.growth_preset)
            BY DEF ++
      <2> HIDE DEF base, a
      <2> QED
            BY <2>1, <2>2, <2>3, LeverNames DEF ++
<1>4. Sane(Full(a(h))) /\ Sane(Full(a(k))) /\ Harsher(Full(a(h)), Full(a(k)))
      <2> HIDE DEF a
      <2> QED
            BY <1>2, <1>3 DEF Sane, Harsher, point
<1>5. NoLower(d, Full(a(h)), Full(a(k)))
      BY <1>4, HarsherIsNoLower
<1>6. /\ NodeArea(d, p(h), "populated", pdok) = Cells /\ NodeArea(d, p(k), "populated", pdok) = Cells
      /\ NodeBase(p(h), "populated") = "populated" /\ NodeBase(p(k), "populated") = "populated"
      BY DEF NodeArea, NodeBase, use_populated
<1>7. /\ score_node(d, p(h), Nothing, "populated", pdok) = score_h3_area(d, a(h), Cells, "populated")
      /\ score_node(d, p(k), Nothing, "populated", pdok) = score_h3_area(d, a(k), Cells, "populated")
      <2>1. p(h).location_name \in Places \cup {NoPlace} /\ p(k).location_name \in Places \cup {NoPlace}
            BY <1>1
      <2> HIDE DEF p
      <2> QED
            BY <1>6, <2>1, NodeIsArea
<1> QED
      BY <1>5, <1>7, NoLowerIsNotMilder DEF Bases

\* What is committed, what each project adds to it, and what all of them add.
LEMMA StackRises ==
    ASSUME NEW req \in Stacks, validate_cumulative(req.spec) = "ok"
    PROVE  LET spec == req.spec
               ps   == spec.projects
               c    == Committed(spec)
               t    == c + Total(Homes(ps))
           IN  /\ c \in Nat /\ t \in Nat
               /\ \A i \in DOMAIN ps : /\ AloneHomes(spec, i) \in Nat
                                       /\ c <= AloneHomes(spec, i) /\ AloneHomes(spec, i) <= t
               /\ DOMAIN ps = {1} => t = AloneHomes(spec, 1)
<1> DEFINE spec == req.spec
           ps   == spec.projects
           cs   == spec.committed
           water == [i \in DOMAIN cs |-> FromWater(cs[i])]
           homes == Homes(ps)
<1>1. cs \in Seq(Int) /\ \A i \in DOMAIN ps : homes_equiv(ps[i]) \in Int
      BY RequestTypes
<1>2. /\ \A i \in DOMAIN ps : ~(homes_equiv(ps[i]) < 0)
      /\ \A i \in DOMAIN cs : ~(cs[i] < 0)
      BY CumulativeOk
<1>3. IsFiniteSet(DOMAIN ps) /\ IsFiniteSet(DOMAIN cs)
      <2>1. ps \in Seq(Range(ps))
            BY RequestKinds
      <2>2. /\ DOMAIN ps = 1..Len(ps) /\ Len(ps) \in Nat
            /\ DOMAIN cs = 1..Len(cs) /\ Len(cs) \in Nat
            BY <1>1, <2>1, LenProperties
      <2>3. PICK m \in Int, k \in Int : m = Len(ps) /\ k = Len(cs)
            BY <2>2
      <2>4. 1 \in Int
            OBVIOUS
      <2>5. IsFiniteSet(1..m) /\ IsFiniteSet(1..k)
            BY <2>4, FS_Interval, Zenon
      <2> QED
            BY <2>2, <2>3, <2>5
<1>4. Committed(spec) = Total(water)
      BY DEF Committed
<1>5. water \in [DOMAIN cs -> Int] /\ \A i \in DOMAIN cs : water[i] >= 0
      <2>1. ASSUME NEW i \in DOMAIN cs PROVE FromWater(cs[i]) \in Nat
            <3>1. cs[i] \in Int /\ cs[i] >= 0
                  BY <1>1, <1>2, ElementOfSeq
            <3> DEFINE m == 100 * cs[i]
            <3>2. m \in Nat
                  BY <3>1
            <3>3. FromWater(cs[i]) = m \div 35
                  BY <3>1 DEF FromWater, VEWIN_HOUSEHOLD_DAY_M3
            <3> HIDE DEF m
            <3> QED
                  BY <3>2, <3>3, DivMono
      <2> QED
            BY <2>1
<1>6. homes \in [DOMAIN ps -> Int] /\ \A i \in DOMAIN ps : homes[i] >= 0
      BY <1>1, <1>2 DEF Homes
<1>7. \A i \in DOMAIN ps : AloneHomes(spec, i) = Committed(spec) + homes[i]
      BY DEF AloneHomes
<1> HIDE DEF water, homes
<1>8. Total(water) \in Nat
      BY <1>3, <1>5, TotalOfNaturals
<1>9. Total(homes) \in Nat /\ \A i \in DOMAIN ps : homes[i] <= Total(homes)
      BY <1>3, <1>6, TotalOfNaturals
<1>10. DOMAIN ps = {1} => Total(homes) = homes[1]
       BY <1>6, TotalOfOne
<1> DEFINE c == Committed(spec)
           t == c + Total(homes)
<1>11. c \in Nat
       BY <1>4, <1>8
<1>12. /\ t \in Nat
       /\ \A i \in DOMAIN ps : AloneHomes(spec, i) \in Nat /\ c <= AloneHomes(spec, i)
                               /\ AloneHomes(spec, i) <= t
       /\ DOMAIN ps = {1} => t = AloneHomes(spec, 1)
       <2> HIDE DEF c
       <2>1. \A i \in DOMAIN ps : AloneHomes(spec, i) = c + homes[i]
             BY <1>7 DEF c
       <2> QED
             BY <1>6, <1>9, <1>10, <1>11, <2>1
<1> QED
      BY <1>11, <1>12 DEF homes

\* The runs of a stack: as committed, each project on top of that, all of them.
LEMMA StackOrder ==
    ASSUME NEW req \in Stacks, validate_cumulative(req.spec) = "ok"
    PROVE  LET spec == req.spec
               n    == Len(spec.projects)
               job(h) == Job(CumulativeParams(spec, h), Nothing, "populated")
               js   == StackJobs(spec)
           IN  /\ n \in Nat \ {0} /\ DOMAIN spec.projects = 1..n /\ Len(js) = n + 2
               /\ js[1] = job(Committed(spec))
               /\ \A i \in 1..n : js[i + 1] = job(AloneHomes(spec, i))
               /\ js[n + 2] = job(Committed(spec) + Total(Homes(spec.projects)))
               /\ \A i \in 1..(n + 2) : js[i].params # None
<1> DEFINE spec == req.spec
           ps   == spec.projects
           first == <<Committed(spec)>>
           each  == [i \in DOMAIN ps |-> AloneHomes(spec, i)]
           last  == <<Committed(spec) + Total(Homes(ps))>>
           homes == StackHomes(spec)
           job(h) == Job(CumulativeParams(spec, h), Nothing, "populated")
           js == StackJobs(spec)
<1>1. PICK n \in Nat : n = Len(ps) /\ DOMAIN ps = 1..n /\ n > 0
      <2>1. ps \in Seq(Range(ps)) /\ ps # <<>>
            BY RequestKinds, CumulativeOk
      <2> QED
            BY <2>1, LenProperties, EmptySeq
<1>2. /\ Committed(spec) \in Nat /\ Committed(spec) + Total(Homes(ps)) \in Nat
      /\ \A i \in 1..n : AloneHomes(spec, i) \in Nat
      BY <1>1, StackRises
<1>3. first \in Seq(Nat) /\ Len(first) = 1 /\ first[1] = Committed(spec)
      BY <1>2
<1>4. /\ last \in Seq(Nat) /\ Len(last) = 1
      /\ last[1] = Committed(spec) + Total(Homes(ps))
      BY <1>2
<1>5. each \in Seq(Nat) /\ Len(each) = n /\ \A i \in 1..n : each[i] = AloneHomes(spec, i)
      <2>1. each \in [1..n -> Nat]
            BY <1>1, <1>2
      <2>2. each \in Seq(Nat)
            BY <2>1, SeqDef
      <2>3. Len(each) = n
            <3>1. each = [i \in 1..n |-> each[i]]
                  BY <2>1
            <3> HIDE DEF each
            <3> QED
                  BY <3>1, ListIsSequence
      <2> QED
            BY <1>1, <2>2, <2>3
<1>6. homes = (first \o each) \o last
      BY DEF StackHomes
<1> HIDE DEF first, each, last
<1>7. /\ first \o each \in Seq(Nat) /\ Len(first \o each) = n + 1
      /\ \A i \in 1..(n + 1) : (first \o each)[i] = IF i <= 1 THEN first[i] ELSE each[i - 1]
      <2>1. /\ first \o each \in Seq(Nat) /\ Len(first \o each) = Len(first) + Len(each)
            /\ \A i \in 1..(Len(first) + Len(each)) :
                  (first \o each)[i] = IF i <= Len(first) THEN first[i] ELSE each[i - Len(first)]
            BY <1>3, <1>5, ConcatProperties
      <2> QED
            BY <1>3, <1>5, <2>1
<1> DEFINE front == first \o each
<1>8. /\ homes \in Seq(Nat) /\ Len(homes) = n + 2
      /\ \A i \in 1..(n + 2) : homes[i] = IF i <= n + 1 THEN front[i] ELSE last[i - (n + 1)]
      <2> HIDE DEF front, homes
      <2>1. /\ homes \in Seq(Nat) /\ Len(homes) = Len(front) + Len(last)
            /\ \A i \in 1..(Len(front) + Len(last)) :
                  homes[i] = IF i <= Len(front) THEN front[i] ELSE last[i - Len(front)]
            <3>1. homes = front \o last /\ front \in Seq(Nat)
                  BY <1>6, <1>7 DEF front
            <3> QED
                  BY <1>4, <3>1, ConcatProperties
      <2>2. Len(front) = n + 1 /\ Len(last) = 1
            BY <1>4, <1>7 DEF front
      <2> QED
            BY <2>1, <2>2
<1> HIDE DEF front, homes
<1>9. \A i \in 1..(n + 1) : front[i] = IF i <= 1 THEN first[i] ELSE each[i - 1]
      BY <1>7 DEF front
<1>10. homes[1] = Committed(spec)
       BY <1>1, <1>3, <1>8, <1>9
<1>11. ASSUME NEW i \in 1..n PROVE homes[i + 1] = AloneHomes(spec, i)
       <2>1. i + 1 \in 1..(n + 1) /\ i + 1 \in 1..(n + 2) /\ ~(i + 1 <= 1) /\ (i + 1) - 1 = i
             /\ i + 1 <= n + 1
             OBVIOUS
       <2>2. homes[i + 1] = front[i + 1]
             BY <1>8, <2>1
       <2>3. front[i + 1] = each[i]
             BY <1>9, <2>1
       <2> QED
             BY <1>5, <2>2, <2>3
<1>12. homes[n + 2] = Committed(spec) + Total(Homes(ps))
       <2>1. n + 2 \in 1..(n + 2) /\ ~(n + 2 <= n + 1) /\ (n + 2) - (n + 1) = 1
             OBVIOUS
       <2> QED
             BY <1>4, <1>8, <2>1
<1>13. DOMAIN homes = 1..(n + 2)
       BY <1>8, LenProperties
<1>14. js = [i \in 1..(n + 2) |-> job(homes[i])]
       BY <1>13 DEF StackJobs, homes
<1>15. Len(js) = n + 2
       <2>1. PICK m \in Nat : m = n + 2
             OBVIOUS
       <2>2. js = [i \in 1..m |-> js[i]]
             BY <1>14, <2>1
       <2> HIDE DEF js
       <2> QED
             BY <2>1, <2>2, ListIsSequence
<1>16. /\ js[1] = job(homes[1]) /\ js[n + 2] = job(homes[n + 2])
       /\ \A i \in 1..n : js[i + 1] = job(homes[i + 1])
       BY <1>1, <1>14
<1>18. \A i \in 1..(n + 2) : js[i].params # None
       <2>1. \A i \in 1..(n + 2) : CumulativeParams(spec, homes[i]) # None
             BY <1>13, NoneIsNoParams DEF homes
       <2> QED
             BY <1>14, <2>1 DEF Job
<1> HIDE DEF js, job
<1>17. /\ js[1] = job(Committed(spec)) /\ js[n + 2] = job(Committed(spec) + Total(Homes(ps)))
       /\ \A i \in 1..n : js[i + 1] = job(AloneHomes(spec, i))
       BY <1>10, <1>11, <1>12, <1>16
<1> QED
      BY <1>1, <1>15, <1>17, <1>18 DEF js, job

\* What a stack is made of.
StackOf(s, rs, n) ==
    /\ s.baseline = rs[1].area_verdict /\ s.combined = rs[n + 2].area_verdict
    /\ DOMAIN s.alone = 1..n /\ \A i \in 1..n : s.alone[i] = rs[i + 1].area_verdict
    /\ s.stacking_flips => /\ \A i \in 1..n : s.alone[i] # "STOP"
                           /\ rs[n + 2].area_verdict = "STOP"

\* The parts of a stack are verdicts of its runs.
LEMMA StackParts ==
    ASSUME NEW rs, NEW n \in Nat, n > 0, rs = [i \in 1..(n + 2) |-> rs[i]]
    PROVE  StackOf(Stack(rs), rs, n)
<1>1. Len(rs) = n + 2
      <2>1. PICK m \in Nat : m = n + 2
            OBVIOUS
      <2> QED
            BY <2>1, ListIsSequence
<1> DEFINE alone == SubSeq(rs, 2, Len(rs) - 1)
<1>2. DOMAIN alone = 1..n /\ \A i \in 1..n : alone[i] = rs[i + 1]
      <2>1. PICK m \in Int : m = n + 1
            OBVIOUS
      <2> DEFINE sub == SubSeq(rs, 2, m)
      <2>2. DOMAIN sub = 1..(m - 1)
            BY <2>1
      <2>3. \A i \in 1..(m - 1) : sub[i] = rs[i + 1]
            BY <2>1
      <2>4. alone = sub
            BY <1>1, <2>1
      <2> HIDE DEF alone, sub
      <2> QED
            BY <2>1, <2>2, <2>3, <2>4
<1> DEFINE s == Stack(rs)
<1>3. /\ s.baseline = rs[1].area_verdict /\ s.combined = rs[Len(rs)].area_verdict
      /\ s.alone = [i \in DOMAIN alone |-> alone[i].area_verdict]
      BY DEF Stack
<1>4. s.stacking_flips => /\ \A i \in DOMAIN alone : alone[i].area_verdict # "STOP"
                          /\ rs[Len(rs)].area_verdict = "STOP"
      BY DEF Stack
<1> HIDE DEF alone, s
<1>5. DOMAIN s.alone = 1..n /\ \A i \in 1..n : s.alone[i] = rs[i + 1].area_verdict
      BY <1>2, <1>3
<1>6. s.stacking_flips => /\ \A i \in 1..n : s.alone[i] # "STOP"
                          /\ rs[n + 2].area_verdict = "STOP"
      BY <1>1, <1>2, <1>4, <1>5
<1> QED
      BY <1>1, <1>3, <1>5, <1>6 DEF s, StackOf

\* The runs of a stack differ in the homes only.
LEMMA StackOnlyWorsensHolds ==
    ASSUME IInv, RunInv
    PROVE  StackOnlyWorsens
<1> SUFFICES ASSUME Ended("cumulative"), result # None, steady
             PROVE  /\ \A i \in DOMAIN result.alone :
                          /\ RANK[result.baseline] <= RANK[result.alone[i]]
                          /\ RANK[result.alone[i]] <= RANK[result.combined]
                    /\ result.stacking_flips => Len(request.spec.projects) >= 2
                                                /\ result.baseline # "STOP"
      BY DEF StackOnlyWorsens
<1> DEFINE spec == request.spec
           c == Committed(spec)
           t == c + Total(Homes(spec.projects))
           node(h) == score_node(data, CumulativeParams(spec, h), Nothing, "populated", TRUE)
<1>1. /\ request # None /\ pc = "idle" /\ request.kind = "cumulative" /\ request \in Stacks
      /\ data \in DataSet
      BY KindsTell, RequestConstants DEF Ended, IInv, FlowInv
<1>2. AllJobs = StackJobs(spec) /\ result = Stack(Results) /\ Len(runs) = Len(AllJobs)
      BY <1>1 DEF RunInv, ReturnInv, AllJobs
<1>3. Sequence(runs) /\ DOMAIN runs = 1..Len(runs) /\ Len(<<>>) = 0
      BY SequenceFacts DEF IInv, FlowInv
<1>4. runs # <<>>
      <2>1. Len(AllJobs) > 0
            <3>1. Sequence(AllJobs) /\ AllJobs # <<>>
                  BY <1>1, <1>2, StackIsList
            <3> QED
                  BY <3>1, SequenceFacts
      <2> QED
            BY <1>2, <1>3, <2>1
<1>5. /\ validate_cumulative(spec) = "ok"
      /\ \A i \in 1..Len(runs) : Fits(runs[i], AllJobs[i]) /\ OnData(runs[i])
      BY <1>1, <1>4 DEF RunInv, JobInv, ScoreInv, Admitted
<1>6. PICK n \in Nat \ {0} : /\ n = Len(spec.projects) /\ DOMAIN spec.projects = 1..n
                             /\ Len(AllJobs) = n + 2
      BY <1>1, <1>2, <1>5, StackOrder
<1>7. /\ AllJobs[1] = Job(CumulativeParams(spec, c), Nothing, "populated")
      /\ \A i \in 1..n : AllJobs[i + 1] =
             Job(CumulativeParams(spec, AloneHomes(spec, i)), Nothing, "populated")
      /\ AllJobs[n + 2] = Job(CumulativeParams(spec, t), Nothing, "populated")
      /\ \A i \in 1..(n + 2) : AllJobs[i].params # None
      BY <1>1, <1>2, <1>5, <1>6, StackOrder
<1>8. /\ c \in Nat /\ t \in Nat
      /\ \A i \in 1..n : /\ AloneHomes(spec, i) \in Nat
                         /\ c <= AloneHomes(spec, i) /\ AloneHomes(spec, i) <= t
      /\ DOMAIN spec.projects = {1} => t = AloneHomes(spec, 1)
      BY <1>1, <1>5, <1>6, StackRises
<1> HIDE DEF c, t
<1>9. ASSUME NEW i \in 1..(n + 2), NEW h, AllJobs[i] = Job(CumulativeParams(spec, h), Nothing, "populated")
      PROVE  runs[i].res = node(h)
      <2>1. Fits(runs[i], AllJobs[i]) /\ OnData(runs[i])
            BY <1>2, <1>5, <1>6
      <2>2. CumulativeParams(spec, h) # None
            BY <1>7, <1>9 DEF Job
      <2>3. /\ runs[i].params = CumulativeParams(spec, h) /\ runs[i].extra = Nothing
            /\ runs[i].base = "populated"
            BY <1>9, <2>1, <2>2 DEF Fits, Job
      <2>4. runs[i].res = score_node(data, CumulativeParams(spec, h), Nothing, "populated", runs[i].pdok)
            BY <2>1, <2>3 DEF OnData
      <2> QED
            BY <2>4 DEF score_node, use_populated
<1> DEFINE rs == Results
           alone(i) == node(AloneHomes(spec, i))
<1>10. /\ rs = [i \in 1..(n + 2) |-> rs[i]]
       /\ \A i \in 1..(n + 2) : rs[i] = runs[i].res
       BY <1>2, <1>3, <1>6 DEF Results
<1> HIDE DEF rs, node
<1>11. /\ rs[1] = node(c) /\ rs[n + 2] = node(t)
       /\ \A i \in 1..n : rs[i + 1] = alone(i)
       BY <1>7, <1>9, <1>10
<1>12. \A i \in 1..n : NotMilder(node(c), alone(i)) /\ NotMilder(alone(i), node(t))
       BY <1>1, <1>8, MoreHomes DEF node
<1> DEFINE s == Stack(rs)
<1>13. /\ s.baseline = node(c).area_verdict /\ s.combined = node(t).area_verdict
       /\ DOMAIN s.alone = 1..n /\ \A i \in 1..n : s.alone[i] = alone(i).area_verdict
       /\ s.stacking_flips => /\ \A i \in 1..n : s.alone[i] # "STOP"
                              /\ node(t).area_verdict = "STOP"
       <2>1. StackOf(s, rs, n)
             BY <1>10, StackParts
       <2> HIDE DEF s, alone
       <2> QED
             BY <1>11, <2>1 DEF StackOf
<1>14. result = s
       BY <1>2 DEF rs
<1> HIDE DEF s, alone
<1>15. \A i \in 1..n : /\ RANK[s.baseline] <= RANK[s.alone[i]]
                       /\ RANK[s.alone[i]] <= RANK[s.combined]
                       /\ s.baseline \in Verdicts /\ s.alone[i] \in Verdicts
       BY <1>12, <1>13 DEF NotMilder
<1>16. ASSUME s.stacking_flips PROVE n >= 2 /\ s.baseline # "STOP"
       <2>1. n # 1
             <3> SUFFICES ASSUME n = 1 PROVE FALSE
                 OBVIOUS
             <3>3. 1..1 = {1}
                   OBVIOUS
             <3>1. DOMAIN spec.projects = {1}
                   BY <1>6, <3>3
             <3>2. alone(1) = node(t)
                   BY <1>8, <3>1 DEF alone
             <3> QED
                   BY <1>13, <1>16, <3>2
       <2>2. 1 \in 1..n /\ s.alone[1] # "STOP"
             BY <1>13, <1>16
       <2>3. s.baseline # "STOP"
             BY <1>15, <2>2, Ranks
       <2> QED
             BY <2>1, <2>3
<1> QED
      BY <1>6, <1>13, <1>14, <1>15, <1>16

(***************************************************************************)
(* The drought buffer                                                      *)
(***************************************************************************)

\* The levers of a recipe.
LEMMA RecipeLevers ==
    ASSUME NEW r, validate_recipe(r) = "ok", r.added_homes \in Int
    PROVE  LET a == Full(params_to_assumptions(RecipeParams(r), Nothing))
           IN  Numeric(a) /\ a.knmi_dryness_multiplier >= 10
<1> DEFINE p == RecipeParams(r)
           o == p.assumption_overrides
           base == [knmi_dryness_multiplier |-> dryness(p.knmi_preset),
                    population_growth_pct   |-> growth(p.growth_preset)]
           a == Full(params_to_assumptions(p, Nothing))
<1>1. /\ DOMAIN o \subseteq WEIGHTS \cup {"added_homes"}
      /\ WEIGHTS \subseteq DOMAIN o
      /\ "added_homes" \in DOMAIN o => o.added_homes = r.added_homes
      /\ ~p.housing /\ p.development_units = 0
      BY DEF RecipeParams, default_params, WEIGHTS
<1>2. \A w \in WEIGHTS : o[w] \in ZeroToOne
      <2> HIDE DEF p
      <2>1. validate_params(p, 100) = "ok"
            BY RecipesPassTheGate DEF p
      <2> QED
            BY <1>1, <2>1, GateOk
<1>3. \A x : dryness(x) \in {10, 12, 13, 15, 18} /\ growth(x) \in {40, 65, 90}
      BY DEF dryness, growth, KNMI_DRYNESS, GROWTH_PCT
<1> HIDE DEF p
<1> DEFINE top == o ++ Nothing ++ Nothing ++ Nothing
<1>4. DOMAIN top = DOMAIN o /\ \A k \in DOMAIN o : top[k] = o[k]
      BY DEF ++, Nothing
<1>5. a = (top ++ base) ++ DEFAULT_ASSUMPTIONS
      BY <1>1 DEF Full, params_to_assumptions
<1> HIDE DEF top, o
<1>6. /\ a.weight_salinity = o.weight_salinity /\ a.weight_demand = o.weight_demand
      /\ a.weight_flood = o.weight_flood /\ a.weight_protection = o.weight_protection
      BY <1>1, <1>4, <1>5 DEF ++, WEIGHTS
<1>7. /\ a.knmi_dryness_multiplier = dryness(p.knmi_preset)
      /\ a.population_growth_pct = growth(p.growth_preset)
      BY <1>1, <1>4, <1>5 DEF ++, WEIGHTS
<1>8. /\ a.pop_min_built_up = 0 /\ a.demand_ref_m3_per_cell = 15
      /\ a.verdict_caution = 33 * point /\ a.verdict_stop = 66 * point /\ a.area_stop_share = 20
      BY <1>1, <1>4, <1>5 DEF ++, WEIGHTS, DEFAULT_ASSUMPTIONS
<1>9. a.added_homes \in Int
      BY <1>1, <1>4, <1>5 DEF ++, DEFAULT_ASSUMPTIONS
<1> HIDE DEF a
<1>10. /\ a.weight_salinity \in ZeroToOne /\ a.weight_demand \in ZeroToOne
       /\ a.weight_flood \in ZeroToOne /\ a.weight_protection \in ZeroToOne
       BY <1>2, <1>6 DEF WEIGHTS
<1>11. a.knmi_dryness_multiplier \in {10, 12, 13, 15, 18}
       /\ a.population_growth_pct \in {40, 65, 90}
       BY <1>3, <1>7
<1>12. /\ a.weight_salinity \in Nat /\ a.weight_demand \in Nat
       /\ a.weight_flood \in Nat /\ a.weight_protection \in Nat
       <2>1. \A x \in ZeroToOne : x \in Nat
             BY DEF ZeroToOne
       <2> QED
             BY <1>10, <2>1
<1>13. /\ a.verdict_caution \in Int /\ a.verdict_stop \in Int
       /\ a.verdict_caution <= a.verdict_stop
       BY <1>8 DEF point
<1>14. \A k \in Levers : a[k] \in Int
       <2>1. /\ a.knmi_dryness_multiplier \in Int /\ a.population_growth_pct \in Int
             BY <1>11
       <2>2. /\ a.demand_ref_m3_per_cell \in Int /\ a.pop_min_built_up \in Int
             /\ a.area_stop_share \in Int
             BY <1>8
       <2>3. /\ a.weight_salinity \in Int /\ a.weight_demand \in Int
             /\ a.weight_flood \in Int /\ a.weight_protection \in Int
             BY <1>12
       <2> QED
             BY <1>9, <1>13, <2>1, <2>2, <2>3, LeverNames
<1> HIDE DEF p
<1> QED
       BY <1>8, <1>11, <1>12, <1>13, <1>14 DEF Numeric, a, p

\* Whatever is run outside the housing universe is run on numbers, and on no drought or some.
LEMMA RunLevers ==
    ASSUME IInv, RunInv, NEW i \in 1..Len(runs), runs[i].base # "populated"
    PROVE  LET a == Full(params_to_assumptions(runs[i].params, runs[i].extra))
           IN  Numeric(a) /\ a.knmi_dryness_multiplier >= 10
<1> DEFINE r == runs[i]
<1>1. runs # <<>> /\ request # None
      <2>1. Len(<<>>) = 0
            BY SequenceFacts
      <2> QED
            BY <2>1 DEF IInv, FlowInv
<1>2. Admitted /\ i <= Len(AllJobs) /\ Fits(r, AllJobs[i])
      BY <1>1 DEF RunInv, JobInv
<1>3. CASE request.kind = "cumulative"
      <2>1. request \in Stacks /\ validate_cumulative(request.spec) = "ok"
            BY <1>1, <1>2, <1>3, KindsTell DEF IInv, Admitted
      <2>2. AllJobs = StackJobs(request.spec)
            BY <1>3 DEF AllJobs
      <2>3. /\ Sequence(AllJobs) /\ AllJobs = [j \in DOMAIN StackHomes(request.spec) |->
                  Job(CumulativeParams(request.spec, StackHomes(request.spec)[j]), Nothing, "populated")]
            BY <2>1, <2>2, StackIsList DEF StackJobs
      <2>4. i \in DOMAIN AllJobs
            BY <1>2, <2>3, SequenceFacts
      <2>5. AllJobs[i].base = "populated"
            BY <2>3, <2>4 DEF Job
      <2> QED
            BY <1>2, <2>5 DEF Fits
<1>4. CASE request.kind = "uncertainty"
      <2>1. request \in Sweeps /\ request.question # Blank
            BY <1>1, <1>2, <1>4, KindsTell DEF IInv, Admitted
      <2>2. i \in 1..5 /\ AllJobs[i] = Job(None, knmi(KNMI_PRESETS[i]), NoBase)
            <3>1. AllJobs = SweepJobs
                  BY <1>4 DEF AllJobs
            <3>2. i <= 5
                  BY <1>2, <3>1, SweepOrder
            <3> QED
                  BY <3>1, <3>2, SweepOrder
      <2>3. Read(r.params) /\ r.extra = knmi(KNMI_PRESETS[i])
            BY <1>2, <2>1, <2>2, RequestTypes DEF Fits, Job
      <2> QED
            BY <2>3, ReadLevers
<1>5. CASE request.kind = "ask"
      <2>1. request \in Asks /\ request.question # Blank /\ Read(confirmed) /\ confirmed # None
            BY <1>1, <1>2, <1>5, KindsTell, RequestTypes, NoneIsNoParams DEF IInv, Admitted
      <2> DEFINE levers == detect_comparison(request.question)
      <2>2. AllJobs = PlanJobs(confirmed, levers)
            BY <1>5 DEF AllJobs
      <2>3. \E extra : /\ (extra = Nothing \/ \E x : extra = knmi(x))
                       /\ AllJobs[i] = Job(confirmed, extra, NoBase)
            <3>1. CASE levers = <<>>
                  <4>1. AllJobs = <<Job(confirmed, Nothing, NoBase)>>
                        BY <2>2, <3>1 DEF PlanJobs
                  <4>2. i = 1
                        BY <1>2, <4>1, OneJob
                  <4> QED
                        BY <4>1, <4>2, OneJob
            <3>2. CASE levers # <<>>
                  <4>1. PICK x, y : levers = <<knmi(x), knmi(y)>>
                        BY <3>2, LeversRise
                  <4>2. AllJobs = [j \in 1..2 |-> Job(confirmed, levers[j], NoBase)]
                        BY <2>2, <3>2 DEF PlanJobs
                  <4>3. Len(AllJobs) = 2
                        <5> DEFINE js == AllJobs
                        <5>1. js = [j \in 1..2 |-> js[j]]
                              BY <4>2
                        <5> HIDE DEF js
                        <5>2. Len(js) = 2
                              BY <5>1, ListIsSequence
                        <5> QED
                              BY <5>2 DEF js
                  <4>4. i = 1 \/ i = 2
                        BY <1>2, <4>3
                  <4>5. /\ AllJobs[1] = Job(confirmed, knmi(x), NoBase)
                        /\ AllJobs[2] = Job(confirmed, knmi(y), NoBase)
                        BY <4>1, <4>2
                  <4> QED
                        BY <4>4, <4>5
            <3> QED
                  BY <3>1, <3>2
      <2>4. /\ r.params = confirmed
            /\ (r.extra = Nothing \/ \E x : r.extra = knmi(x))
            BY <1>2, <2>1, <2>3 DEF Fits, Job
      <2> QED
            BY <2>1, <2>4, ReadLevers
<1>6. CASE request.kind = "recipe"
      <2>1. /\ request \in Recipes /\ validate_recipe(request.recipe) = "ok"
            /\ confirmed = RecipeParams(request.recipe) /\ confirmed # None
            /\ request.recipe.added_homes \in Int
            BY <1>1, <1>2, <1>6, KindsTell, RequestTypes, NoneIsNoParams DEF IInv, Admitted
      <2>2. AllJobs = <<Job(confirmed, Nothing, request.recipe.base)>>
            BY <1>6 DEF AllJobs
      <2>3. i = 1
            BY <1>2, <2>2, OneJob
      <2>4. r.params = RecipeParams(request.recipe) /\ r.extra = Nothing
            BY <1>2, <2>1, <2>2, <2>3, OneJob DEF Fits, Job
      <2> QED
            BY <2>1, <2>4, RecipeLevers
<1> QED
      BY <1>1, <1>2, <1>3, <1>4, <1>5, <1>6, KindsTell DEF Admitted, IInv

\* Three numbers can be put in a falling order.
LEMMA ThreeInOrder ==
    ASSUME NEW f \in [1..3 -> Int]
    PROVE  \E s \in [1..3 -> 1..3] : \A i, j \in 1..3 :
               i < j => f[s[i]] > f[s[j]] \/ (f[s[i]] = f[s[j]] /\ s[i] < s[j])
<1> DEFINE before(i, j) == f[i] > f[j] \/ (f[i] = f[j] /\ i < j)
           perm(x, y, z) == [k \in 1..3 |-> IF k = 1 THEN x ELSE IF k = 2 THEN y ELSE z]
           Sorts(s) == \A i, j \in 1..3 : i < j => before(s[i], s[j])
<1>1. ASSUME NEW x \in 1..3, NEW y \in 1..3, NEW z \in 1..3,
             before(x, y), before(y, z), before(x, z)
      PROVE  \E s \in [1..3 -> 1..3] : Sorts(s)
      <2> DEFINE s == perm(x, y, z)
      <2>1. s \in [1..3 -> 1..3] /\ s[1] = x /\ s[2] = y /\ s[3] = z
            OBVIOUS
      <2> HIDE DEF s, before
      <2>2. Sorts(s)
            BY <1>1, <2>1
      <2> QED
            BY <2>1, <2>2
<1>2. f[1] \in Int /\ f[2] \in Int /\ f[3] \in Int
      OBVIOUS
<1>3. \E x, y, z \in 1..3 : before(x, y) /\ before(y, z) /\ before(x, z)
      <2>1. CASE before(1, 2) /\ before(2, 3)
            BY <1>2, <2>1
      <2>2. CASE before(1, 3) /\ before(3, 2)
            BY <1>2, <2>2
      <2>3. CASE before(2, 1) /\ before(1, 3)
            BY <1>2, <2>3
      <2>4. CASE before(2, 3) /\ before(3, 1)
            BY <1>2, <2>4
      <2>5. CASE before(3, 1) /\ before(1, 2)
            BY <1>2, <2>5
      <2>6. CASE before(3, 2) /\ before(2, 1)
            BY <1>2, <2>6
      <2> QED
            BY <1>2, <2>1, <2>2, <2>3, <2>4, <2>5, <2>6
<1> HIDE DEF before
<1>4. \E s \in [1..3 -> 1..3] : Sorts(s)
      BY <1>1, <1>3
<1> QED
      BY <1>4 DEF before

\* The share of STOP cells is a number.
LEMMA ShareIsNumber ==
    ASSUME NEW d \in DataSet, NEW x, NEW area, NEW base
    PROVE  score_h3_area(d, x, area, base).stop_share \in Int
<1> DEFINE U == Universe(d, Full(x), area, base)
           S == Klasse(d, Full(x), area, base, "STOP")
           r == score_h3_area(d, x, area, base)
           n == Cardinality(U)
           s == Cardinality(S)
<1>1. r.stop_share = IF n = 0 THEN 0 ELSE (2000 * s + n) \div (2 * n)
      BY DEF score_h3_area
<1>2. IsFiniteSet(U) /\ IsFiniteSet(S)
      <2>1. U \subseteq Cells
            BY DEF Universe, DataSet
      <2>2. S \subseteq U
            BY DEF Klasse
      <2> HIDE DEF U, S
      <2> QED
            BY <2>1, <2>2, ScoringConstants, FS_Subset
<1> HIDE DEF U, S, r
<1>3. n \in Nat /\ s \in Nat
      BY <1>2, FS_CardinalityType
<1> HIDE DEF n, s
<1>4. ASSUME n = 0 PROVE r.stop_share \in Int
      <2>1. 0 \in Int
            OBVIOUS
      <2> QED
            BY <1>1, <1>4, <2>1
<1>5. ASSUME n # 0 PROVE r.stop_share \in Int
      <2> DEFINE u == 2000 * s + n
                 k == 2 * n
      <2>1. u \in Nat /\ k \in Nat \ {0} /\ r.stop_share = u \div k
            BY <1>1, <1>3, <1>5
      <2> HIDE DEF u, k
      <2> QED
            BY <2>1
<1>6. r.stop_share \in Int
      BY <1>4, <1>5
<1> QED
      BY <1>6 DEF r

\* The interventions are ranked: each in the list is one of the three, with its reduction.
LEMMA RankedAre ==
    ASSUME NEW d \in DataSet, NEW a, NEW res, res.stop_share \in Int,
           NEW k \in DOMAIN interventions_ranked(d, a, res)
    PROVE  \E i \in 1..3 : interventions_ranked(d, a, res)[k] = Reductions(d, a, res)[i]
<1> DEFINE R == Reductions(d, a, res)
           f == [i \in 1..3 |-> R[i].reduction]
           Sorted(s) == \A i, j \in 1..3 :
                i < j => f[s[i]] > f[s[j]] \/ (f[s[i]] = f[s[j]] /\ s[i] < s[j])
           order == CHOOSE s \in [1..3 -> 1..3] : \A i, j \in 1..3 :
                i < j => \/ R[s[i]].reduction > R[s[j]].reduction
                         \/ R[s[i]].reduction = R[s[j]].reduction /\ s[i] < s[j]
<1>1. DOMAIN R = 1..3
      BY DEF Reductions, INTERVENTIONS
<1>2. f \in [1..3 -> Int]
      <2> SUFFICES ASSUME NEW i \in 1..3 PROVE R[i].reduction \in Int
            OBVIOUS
      <2>1. R[i].reduction = res.stop_share - Rescored(d, a, INTERVENTIONS[i]).stop_share
            BY DEF Reductions, INTERVENTIONS
      <2>2. Rescored(d, a, INTERVENTIONS[i]).stop_share \in Int
            BY ShareIsNumber DEF Rescored
      <2> HIDE DEF R
      <2> QED
            BY <2>1, <2>2
<1>3. \A i \in 1..3 : f[i] = R[i].reduction
      OBVIOUS
<1> HIDE DEF f
<1>4. PICK s \in [1..3 -> 1..3] : Sorted(s)
      BY <1>2, ThreeInOrder
<1>5. res.area_verdict # "GO"
      <2> SUFFICES ASSUME res.area_verdict = "GO" PROVE FALSE
            OBVIOUS
      <2>1. interventions_ranked(d, a, res) = <<>>
            BY DEF interventions_ranked
      <2> QED
            BY <2>1
<1>6. interventions_ranked(d, a, res) = [n \in DOMAIN order |-> R[order[n]]]
      <2> HIDE DEF R
      <2> QED
            BY <1>1, <1>5 DEF interventions_ranked, R
<1>7. order \in [1..3 -> 1..3]
      <2> HIDE DEF R
      <2>1. \A i, j \in 1..3 :
                i < j => \/ R[s[i]].reduction > R[s[j]].reduction
                         \/ R[s[i]].reduction = R[s[j]].reduction /\ s[i] < s[j]
            BY <1>3, <1>4
      <2> QED
            BY <2>1
<1> HIDE DEF order, R
<1>8. interventions_ranked(d, a, res)[k] = R[order[k]] /\ order[k] \in 1..3
      BY <1>6, <1>7
<1> QED
      BY <1>8 DEF R

\* Without the drought no area has a larger share of STOP cells.
LEMMA BufferHelps ==
    ASSUME NEW d \in DataSet, NEW x, Numeric(Full(x)), Full(x).knmi_dryness_multiplier >= 10
    PROVE  Rescored(d, Full(x), INTERVENTIONS[2]).stop_share
              <= score_h3_area(d, x, Cells, "salinity").stop_share
<1> DEFINE a == Full(x)
           y == [knmi_dryness_multiplier |-> 10] ++ a
<1>1. DOMAIN a = DOMAIN a \cup Levers
      BY DEF Full, ++, Levers
<1>2. INTERVENTIONS[2].delta = [knmi_dryness_multiplier |-> 10]
      BY DEF INTERVENTIONS
<1>3. Rescored(d, a, INTERVENTIONS[2]) = score_h3_area(d, y, Cells, "salinity")
      BY <1>2 DEF Rescored
<1> HIDE DEF a
<1>4. /\ Full(y).knmi_dryness_multiplier = 10
      /\ \A k \in Levers \ {"knmi_dryness_multiplier"} : Full(y)[k] = a[k]
      BY <1>1 DEF Full, ++
<1>5. Numeric(Full(y)) /\ Drier(Full(y), a)
      <2> HIDE DEF y
      <2>1. Numeric(a) /\ a.knmi_dryness_multiplier >= 10
            BY DEF a
      <2>2. \A k \in Levers : Full(y)[k] \in Int
            BY <1>4, <2>1 DEF Numeric
      <2> QED
            BY <1>4, <2>1, <2>2, LeverNames DEF Numeric, Drier
<1>6. NoLower(d, Full(y), Full(x))
      BY <1>5, DrierIsNoLower DEF a
<1> HIDE DEF y
<1>7. NotMilder(score_h3_area(d, y, Cells, "salinity"), score_h3_area(d, x, Cells, "salinity"))
      BY <1>6, NoLowerIsNotMilder DEF Bases
<1> QED
      BY <1>3, <1>7 DEF NotMilder, a

\* A run over the whole region is compared with itself without the drought.
LEMMA DroughtBufferHelpsHolds ==
    ASSUME IInv, RunInv
    PROVE  DroughtBufferHelps
<1> SUFFICES ASSUME NEW i \in DOMAIN runs, WholeRegion(runs[i]), steady,
                    NEW k \in DOMAIN runs[i].ranked, runs[i].ranked[k].id = "droogtebuffer"
             PROVE  runs[i].ranked[k].reduction >= 0
      BY DEF DroughtBufferHelps
<1> DEFINE r == runs[i]
           x == params_to_assumptions(r.params, r.extra)
           a == Full(x)
<1>1. i \in 1..Len(runs) /\ data \in DataSet
      BY SequenceFacts, RequestConstants DEF IInv, FlowInv
<1>2. OnData(r) /\ RankedOnData(r)
      BY <1>1 DEF RunInv, ScoreInv
<1>3. ~use_populated(r.params, r.base) /\ r.base # "populated"
      BY DEF WholeRegion, use_populated
<1>4. Numeric(a) /\ a.knmi_dryness_multiplier >= 10
      BY <1>1, <1>3, RunLevers
<1>5. r.res = score_h3_area(data, x, Cells, "salinity")
      <2>1. r.params.scenario_type # "intake_failure" /\ r.params.scenario_type # "drop_pin"
            BY DEF WholeRegion
      <2>2. select_h3_area(data, r.params, r.pdok) = Cells
            BY <2>1 DEF select_h3_area
      <2> QED
            BY <1>2, <1>3, <2>2 DEF OnData, score_node
<1>6. r.ranked = interventions_ranked(data, a, r.res)
      BY <1>2 DEF RankedOnData
<1>7. r.res.stop_share \in Int
      BY <1>1, <1>5, ShareIsNumber
<1> HIDE DEF x, r
<1>8. PICK j \in 1..3 : r.ranked[k] = Reductions(data, a, r.res)[j]
      BY <1>1, <1>6, <1>7, RankedAre DEF r
<1>9. /\ Reductions(data, a, r.res)[j].id = INTERVENTIONS[j].id
      /\ Reductions(data, a, r.res)[j].reduction =
            r.res.stop_share - Rescored(data, a, INTERVENTIONS[j]).stop_share
      BY DEF Reductions, INTERVENTIONS
<1>10. INTERVENTIONS[j].id = "droogtebuffer"
       BY <1>8, <1>9 DEF r
<1>11. j = 2
       BY <1>10 DEF INTERVENTIONS
<1>12. /\ Rescored(data, a, INTERVENTIONS[2]).stop_share <= r.res.stop_share
       BY <1>1, <1>4, <1>5, BufferHelps
<1>13. Rescored(data, a, INTERVENTIONS[2]).stop_share \in Int
       BY <1>1, ShareIsNumber DEF Rescored
<1>14. r.ranked[k].reduction >= 0
       BY <1>7, <1>8, <1>9, <1>11, <1>12, <1>13
<1> QED
       BY <1>14 DEF r

(***************************************************************************)
(* The attribution of a comparison                                         *)
(***************************************************************************)

\* What the four terms of a cell come to.
Parts(x) == x.salinity + x.flood + x.protection + x.demand

\* A cell's parts are numbers, and its score is their sum up to rounding and clamping.
Explained(cells) ==
    \A c \in DOMAIN cells :
        LET x == cells[c]
        IN  /\ x.salinity \in Int /\ x.flood \in Int /\ x.protection \in Int /\ x.demand \in Int
            /\ x.score \in Int /\ x.score <= Parts(x) + 700
            /\ x.score < 100 * point => Parts(x) <= x.score + 700

\* A score is at most 0.05 point from what it is rounded to.
LEMMA RoundedIsNear ==
    ASSUME NEW s \in Int
    PROVE  /\ Rounded(s) \in Int /\ Rounded(s) <= s + 500 /\ s <= Rounded(s) + 500
           /\ Rounded(100 * point) = 100 * point
<1> DEFINE q == (s + 500) \div 1000
<1>1. q \in Int /\ 1000 * q <= s + 500 /\ s + 500 < 1000 * q + 1000
      OBVIOUS
<1>2. (100 * 10000 + 500) \div 1000 = 1000
      OBVIOUS
<1>3. Rounded(s) = 1000 * q /\ Rounded(100 * point) = 100 * point
      BY <1>2 DEF Rounded, point
<1> HIDE DEF q
<1> QED
      BY <1>1, <1>3

\* A factor is at most 0.005 point from what it is rounded to.
LEMMA FactorIsNear ==
    ASSUME NEW t \in Int
    PROVE  Rounded2(t) \in Int /\ Rounded2(t) <= t + 50 /\ t <= Rounded2(t) + 50
<1> DEFINE q == (t + 50) \div 100
<1>1. q \in Int /\ 100 * q <= t + 50 /\ t + 50 < 100 * q + 100
      OBVIOUS
<1>2. Rounded2(t) = 100 * q
      BY DEF Rounded2
<1> HIDE DEF q
<1> QED
      BY <1>1, <1>2

\* The terms of a cell add up to its score.
LEMMA CellsExplained ==
    ASSUME NEW d \in DataSet, NEW x, Measured(Full(x)), NEW u
    PROVE  Explained(score_cells_components(d, x, u))
<1> DEFINE a == Full(x)
           cells == score_cells_components(d, x, u)
<1> SUFFICES ASSUME NEW c \in DOMAIN cells
             PROVE  /\ cells[c].salinity \in Int /\ cells[c].flood \in Int
                    /\ cells[c].protection \in Int /\ cells[c].demand \in Int
                    /\ cells[c].score \in Int /\ cells[c].score <= Parts(cells[c]) + 700
                    /\ cells[c].score < 100 * point => Parts(cells[c]) <= cells[c].score + 700
      BY DEF Explained
<1> DEFINE sum == term_salinity(d, a, c) + term_flood(d, a, c) + term_protection(d, a, c)
                      + a.weight_demand * demand_norm(d.pop[c], a)
           s == score(d, a, c)
<1>1. c \in Cells
      BY DEF score_cells_components, Universe, DataSet
<1>2. /\ a.weight_salinity \in Int /\ a.weight_demand \in Int /\ a.weight_flood \in Int
      /\ a.weight_protection \in Int /\ a.knmi_dryness_multiplier \in Int
      /\ a.population_growth_pct \in Int /\ a.added_homes \in Int
      /\ a.demand_ref_m3_per_cell \in Nat \ {0}
      BY LeverNames DEF Measured
<1>3. /\ cells[c].score = Rounded(s)
      /\ cells[c].salinity = Rounded2(term_salinity(d, a, c))
      /\ cells[c].flood = Rounded2(term_flood(d, a, c))
      /\ cells[c].protection = Rounded2(term_protection(d, a, c))
      /\ cells[c].demand = Rounded2(term_demand(d, a, c))
      BY DEF score_cells_components
<1> HIDE DEF a
<1>4. /\ term_salinity(d, a, c) \in Int /\ term_flood(d, a, c) \in Int
      /\ term_protection(d, a, c) \in Int /\ term_demand(d, a, c) \in Int
      /\ term_demand(d, a, c) = a.weight_demand * demand_norm(d.pop[c], a)
      /\ sum \in Int /\ s = Min2(100 * point, sum) /\ s \in Int
      BY <1>1, <1>2, TermsAreNumbers
<1>5. /\ cells[c].salinity \in Int /\ cells[c].flood \in Int
      /\ cells[c].protection \in Int /\ cells[c].demand \in Int
      /\ Parts(cells[c]) <= sum + 200 /\ sum <= Parts(cells[c]) + 200
      <2> DEFINE ts == term_salinity(d, a, c)
                 tf == term_flood(d, a, c)
                 tp == term_protection(d, a, c)
                 td == term_demand(d, a, c)
      <2>1. /\ Rounded2(ts) \in Int /\ Rounded2(ts) <= ts + 50 /\ ts <= Rounded2(ts) + 50
            /\ Rounded2(tf) \in Int /\ Rounded2(tf) <= tf + 50 /\ tf <= Rounded2(tf) + 50
            /\ Rounded2(tp) \in Int /\ Rounded2(tp) <= tp + 50 /\ tp <= Rounded2(tp) + 50
            /\ Rounded2(td) \in Int /\ Rounded2(td) <= td + 50 /\ td <= Rounded2(td) + 50
            BY <1>4, FactorIsNear
      <2>2. /\ ts \in Int /\ tf \in Int /\ tp \in Int /\ td \in Int /\ sum = ts + tf + tp + td
            BY <1>4
      <2>3. Parts(cells[c]) = Rounded2(ts) + Rounded2(tf) + Rounded2(tp) + Rounded2(td)
            BY <1>3 DEF Parts
      <2> HIDE DEF ts, tf, tp, td, sum, cells
      <2>4. Parts(cells[c]) <= sum + 200 /\ sum <= Parts(cells[c]) + 200
            BY <2>1, <2>2, <2>3
      <2> QED
            BY <1>3, <2>1, <2>4 DEF ts, tf, tp, td
<1> HIDE DEF sum, s
<1>6. /\ cells[c].score \in Int /\ cells[c].score <= s + 500 /\ s <= cells[c].score + 500
      /\ s = 100 * point => cells[c].score = 100 * point
      BY <1>3, <1>4, RoundedIsNear
<1>7. s <= sum /\ (s = 100 * point \/ s = sum)
      BY <1>4 DEF Min2, point
<1>8. Parts(cells[c]) \in Int
      BY <1>5 DEF Parts
<1> HIDE DEF cells
<1> QED
      BY <1>4, <1>5, <1>6, <1>7, <1>8 DEF point

\* The factors of a side explain its scores.
LEMMA FactorsExplain ==
    ASSUME NEW cells, IsFiniteSet(DOMAIN cells), Explained(cells)
    PROVE  LET n == Cardinality(DOMAIN cells)
               factors == FactorSum(cells, "salinity") + FactorSum(cells, "flood")
                             + FactorSum(cells, "protection") + FactorSum(cells, "demand")
               scores == Total([c \in DOMAIN cells |-> cells[c].score])
           IN  /\ factors - scores >= -700 * n
               /\ ~Clamped(cells) => factors - scores <= 700 * n
<1> DEFINE C  == DOMAIN cells
           fs == [c \in C |-> cells[c].salinity]
           ff == [c \in C |-> cells[c].flood]
           fp == [c \in C |-> cells[c].protection]
           fd == [c \in C |-> cells[c].demand]
           sc == [c \in C |-> cells[c].score]
           slack == [c \in C |-> 700]
           sf == [c \in C |-> fs[c] + ff[c]]
           pd == [c \in C |-> fp[c] + fd[c]]
           all == [c \in C |-> sf[c] + pd[c]]
           n == Cardinality(C)
<1>1. /\ FactorSum(cells, "salinity") = Total(fs) /\ FactorSum(cells, "flood") = Total(ff)
      /\ FactorSum(cells, "protection") = Total(fp) /\ FactorSum(cells, "demand") = Total(fd)
      BY DEF FactorSum
<1>2. /\ fs \in [C -> Int] /\ ff \in [C -> Int] /\ fp \in [C -> Int] /\ fd \in [C -> Int]
      /\ sc \in [C -> Int] /\ slack \in [C -> Int]
      BY DEF Explained
<1>3. \A c \in C : all[c] = Parts(cells[c])
      BY DEF Explained, Parts
<1>4. \A c \in C : sc[c] <= all[c] + slack[c]
      BY <1>3 DEF Explained
<1>5. ASSUME ~Clamped(cells) PROVE \A c \in C : all[c] <= sc[c] + slack[c]
      BY <1>3, <1>5 DEF Explained, Clamped, point
<1>6. IsFiniteSet(C)
      OBVIOUS
<1>7. Total(slack) = 700 * n /\ n \in Nat
      <2> HIDE DEF C
      <2>1. 700 \in Int
            OBVIOUS
      <2>2. Total(slack) = 700 * n
            BY <1>6, <2>1, TotalOfConstant, Zenon
      <2> QED
            BY <1>6, <2>2, FS_CardinalityType
<1> HIDE DEF C, fs, ff, fp, fd, sc, slack, n
<1>8. sf \in [C -> Int] /\ pd \in [C -> Int]
      BY <1>2
<1>9. Total(sf) = Total(fs) + Total(ff) /\ Total(pd) = Total(fp) + Total(fd)
      BY <1>2, <1>6, TotalAddsUp
<1> HIDE DEF sf, pd
<1>10. all \in [C -> Int] /\ Total(all) = Total(sf) + Total(pd)
       BY <1>6, <1>8, TotalAddsUp
<1> HIDE DEF all
<1>11. /\ Total(fs) \in Int /\ Total(ff) \in Int /\ Total(fp) \in Int /\ Total(fd) \in Int
       /\ Total(sc) \in Int /\ Total(all) \in Int
       BY <1>2, <1>6, <1>10, TotalSteps
<1> DEFINE more == [c \in C |-> all[c] + slack[c]]
           most == [c \in C |-> sc[c] + slack[c]]
<1>12. /\ more \in [C -> Int] /\ most \in [C -> Int]
       /\ Total(more) = Total(all) + 700 * n /\ Total(most) = Total(sc) + 700 * n
       BY <1>2, <1>6, <1>7, <1>10, TotalAddsUp
<1>13. \A c \in C : sc[c] <= more[c]
       BY <1>4
<1>14. ASSUME ~Clamped(cells) PROVE \A c \in C : all[c] <= most[c]
       BY <1>5, <1>14
<1> HIDE DEF more, most
<1>15. Total(sc) <= Total(more)
       BY <1>2, <1>6, <1>12, <1>13, TotalIsMonotone
<1>16. ASSUME ~Clamped(cells) PROVE Total(all) <= Total(most)
       BY <1>6, <1>10, <1>12, <1>14, <1>16, TotalIsMonotone
<1>17. Total(all) = Total(fs) + Total(ff) + Total(fp) + Total(fd)
       BY <1>9, <1>10, <1>11
<1>18. Total(all) - Total(sc) >= -700 * n
       BY <1>7, <1>11, <1>12, <1>15
<1>19. ASSUME ~Clamped(cells) PROVE Total(all) - Total(sc) <= 700 * n
       BY <1>7, <1>11, <1>12, <1>16, <1>19
<1> QED
       BY <1>1, <1>17, <1>18, <1>19 DEF sc, n, C

\* The result is that of comparing two sides with these assumptions on these cells.
Sides(x, y, u) ==
    LET ca == score_cells_components(data, x, u)
        cb == score_cells_components(data, y, u)
        common == DOMAIN ca \cap DOMAIN cb
        klasse == [c \in common |-> <<verdict_from_score(ca[c].score, Full(x)),
                                      verdict_from_score(cb[c].score, Full(y))>>]
    IN  /\ result.cells_a = ca /\ result.cells_b = cb
        /\ result.factors = [f \in FACTORS |-> <<FactorSum(ca, f), FactorSum(cb, f)>>]
        /\ result.a = Aggregate(ca, Full(x)) /\ result.b = Aggregate(cb, Full(y))
        /\ result.transitions = [move \in Verdicts \X Verdicts |->
                                    Cardinality({c \in common : klasse[c] = move})]

\* What a finished comparison was made of.
LEMMA ComparedSides ==
    ASSUME IInv, RunInv, Compared
    PROVE  \E x, y, u : Measured(Full(x)) /\ Measured(Full(y)) /\ Sides(x, y, u)
<1>1. request # None /\ request.kind = "compare" /\ pc = "idle" /\ result # None
      BY DEF Compared, Ended
<1>2. request \in Compares
      BY <1>1, KindsTell DEF IInv
<1>3. PICK pdok \in BOOLEAN :
         /\ Gone \notin {request.a.params, request.b.params}
         /\ result = compare_scenarios(data, request.a, request.b, request.base, request.area, pdok)
      BY <1>1 DEF RunInv, ReturnInv
<1> DEFINE u == resolve_universe(data, request.a.params, request.base, request.area, pdok)
           x == side_assumptions(request.a)
           y == side_assumptions(request.b)
<1>4. Measured(Full(x)) /\ Measured(Full(y))
      <2>1. \A side \in {request.a, request.b} :
               side.params = Gone \/ Measured(Full(side_assumptions(side)))
            BY <1>2, RequestTypes
      <2> QED
            BY <1>3, <2>1
<1>5. Sides(x, y, u)
      BY <1>3 DEF compare_scenarios, klasse_b, Sides
<1> HIDE DEF u, x, y
<1> QED
      BY <1>4, <1>5

\* A side has finitely many cells.
LEMMA CellsAreFinite ==
    ASSUME NEW d \in DataSet, NEW x, NEW u
    PROVE  IsFiniteSet(DOMAIN score_cells_components(d, x, u))
<1> DEFINE C == DOMAIN score_cells_components(d, x, u)
<1>1. C \subseteq Cells
      BY DEF score_cells_components, Universe, DataSet
<1> HIDE DEF C
<1>2. IsFiniteSet(C)
      BY <1>1, ScoringConstants, FS_Subset
<1> QED
      BY <1>2 DEF C

\* Each side is explained by its factors.
LEMMA AttributionExplainsHolds ==
    ASSUME IInv, RunInv
    PROVE  AttributionExplains
<1> SUFFICES ASSUME Compared
             PROVE  AttributionExplains
      BY DEF AttributionExplains
<1> DEFINE ca == result.cells_a
           cb == result.cells_b
           sum(cells) == FactorSum(cells, "salinity") + FactorSum(cells, "flood")
                            + FactorSum(cells, "protection") + FactorSum(cells, "demand")
           near(cells) == LET drift == sum(cells) - Total([c \in DOMAIN cells |-> cells[c].score])
                          IN  /\ drift >= -700 * Cardinality(DOMAIN cells)
                              /\ ~Clamped(cells) => drift <= 700 * Cardinality(DOMAIN cells)
<1>1. data \in DataSet
      BY RequestConstants DEF IInv, FlowInv
<1>2. /\ Explained(ca) /\ IsFiniteSet(DOMAIN ca) /\ Explained(cb) /\ IsFiniteSet(DOMAIN cb)
      /\ result.factors = [f \in FACTORS |-> <<FactorSum(ca, f), FactorSum(cb, f)>>]
      <2>1. PICK x, y, u : Measured(Full(x)) /\ Measured(Full(y)) /\ Sides(x, y, u)
            BY ComparedSides
      <2>2. /\ ca = score_cells_components(data, x, u) /\ cb = score_cells_components(data, y, u)
            /\ result.factors = [f \in FACTORS |-> <<FactorSum(ca, f), FactorSum(cb, f)>>]
            BY <2>1 DEF Sides
      <2> QED
            BY <1>1, <2>1, <2>2, CellsExplained, CellsAreFinite
<1> HIDE DEF ca, cb
<1>3. near(ca) /\ near(cb)
      BY <1>2, FactorsExplain
<1>4. Sum4(result.factors, 1) = sum(ca) /\ Sum4(result.factors, 2) = sum(cb)
      BY <1>2 DEF Sum4, FACTORS
<1> HIDE DEF sum
<1> QED
      BY <1>3, <1>4 DEF AttributionExplains, ca, cb

(***************************************************************************)
(* The transitions of a comparison                                         *)
(***************************************************************************)

\* The cells that make a move, by their verdict on both sides.
Movers(C, k, move) == {c \in C : k[c] = move}

\* How many move from v to w.
Moved(C, k, v, w) == Cardinality(Movers(C, k, <<v, w>>))

\* How many have the verdict v on the first side, and on the second.
From(C, k, v) == Cardinality({c \in C : k[c][1] = v})
Unto(C, k, v) == Cardinality({c \in C : k[c][2] = v})

\* S is divided into three parts.
Divided(S, A, B, D) ==
    S = A \cup B \cup D /\ A \cap B = {} /\ A \cap D = {} /\ B \cap D = {}

\* The size of a set is that of its three parts together.
LEMMA ThreeParts ==
    ASSUME NEW S, IsFiniteSet(S), NEW A, NEW B, NEW D, Divided(S, A, B, D)
    PROVE  /\ Cardinality(S) = Cardinality(A) + Cardinality(B) + Cardinality(D)
           /\ Cardinality(A) \in Nat /\ Cardinality(B) \in Nat /\ Cardinality(D) \in Nat
<1>0. S = A \cup B \cup D /\ A \cap B = {} /\ A \cap D = {} /\ B \cap D = {}
      BY DEF Divided
<1>1. IsFiniteSet(A) /\ IsFiniteSet(B) /\ IsFiniteSet(D) /\ IsFiniteSet(A \cup B)
      <2>1. A \in SUBSET S /\ B \in SUBSET S /\ D \in SUBSET S /\ A \cup B \in SUBSET S
            BY <1>0
      <2> QED
            BY <2>1, FS_Subset, Zenon
<1>2. /\ Cardinality(A) \in Nat /\ Cardinality(B) \in Nat /\ Cardinality(D) \in Nat
      /\ Cardinality(A \cup B) \in Nat
      BY <1>1, FS_CardinalityType
<1>3. Cardinality(A \cup B) = Cardinality(A) + Cardinality(B)
      <2>1. Cardinality(A \cup B) = Cardinality(A) + Cardinality(B) - Cardinality(A \cap B)
            BY <1>1, FS_Union
      <2>2. A \cap B = {}
            BY <1>0
      <2>3. Cardinality(A \cap B) = 0
            BY <2>2, FS_EmptySet
      <2> QED
            BY <1>2, <2>1, <2>3
<1>4. Cardinality(S) = Cardinality(A \cup B) + Cardinality(D)
      <2>1. Cardinality((A \cup B) \cup D) =
               Cardinality(A \cup B) + Cardinality(D) - Cardinality((A \cup B) \cap D)
            BY <1>1, FS_Union
      <2>2. (A \cup B) \cap D = {} /\ S = (A \cup B) \cup D
            BY <1>0
      <2>3. Cardinality((A \cup B) \cap D) = 0
            BY <2>2, FS_EmptySet
      <2>4. Cardinality(S) = Cardinality((A \cup B) \cup D)
            BY <2>2
      <2> QED
            BY <1>2, <2>1, <2>3, <2>4
<1> QED
      BY <1>2, <1>3, <1>4

\* The verdict v is left and reached by the moves to and from the two others.
LEMMA MovesBalance ==
    ASSUME NEW C, IsFiniteSet(C), NEW k, NEW v, NEW x, NEW y, v # x, v # y, x # y,
           \A c \in C : \E p, q \in {v, x, y} : k[c] = <<p, q>>
    PROVE  /\ Unto(C, k, v) - From(C, k, v) =
                  (Moved(C, k, x, v) + Moved(C, k, y, v)) - (Moved(C, k, v, x) + Moved(C, k, v, y))
           /\ Moved(C, k, x, v) \in Nat /\ Moved(C, k, y, v) \in Nat
           /\ Moved(C, k, v, x) \in Nat /\ Moved(C, k, v, y) \in Nat
<1> DEFINE from == {c \in C : k[c][1] = v}
           unto == {c \in C : k[c][2] = v}
           M(p, q) == Movers(C, k, <<p, q>>)
<1>1. IsFiniteSet(from) /\ IsFiniteSet(unto)
      <2>1. from \in SUBSET C /\ unto \in SUBSET C
            OBVIOUS
      <2> HIDE DEF from, unto
      <2> QED
            BY <2>1, FS_Subset
<1>2. /\ from = M(v, v) \cup M(v, x) \cup M(v, y)
      /\ unto = M(v, v) \cup M(x, v) \cup M(y, v)
      BY DEF Movers
<1>3. /\ M(v, v) \cap M(v, x) = {} /\ M(v, v) \cap M(v, y) = {} /\ M(v, x) \cap M(v, y) = {}
      /\ M(v, v) \cap M(x, v) = {} /\ M(v, v) \cap M(y, v) = {} /\ M(x, v) \cap M(y, v) = {}
      BY DEF Movers
<1>4. From(C, k, v) = Cardinality(from) /\ Unto(C, k, v) = Cardinality(unto)
      BY DEF From, Unto
<1> HIDE DEF from, unto, M
<1> DEFINE vv == M(v, v)
           vx == M(v, x)
           vy == M(v, y)
           xv == M(x, v)
           yv == M(y, v)
<1>5. Divided(from, vv, vx, vy) /\ Divided(unto, vv, xv, yv)
      BY <1>2, <1>3 DEF Divided
<1> HIDE DEF vv, vx, vy, xv, yv
<1>6. /\ Cardinality(from) = Cardinality(vv) + Cardinality(vx) + Cardinality(vy)
      /\ Cardinality(unto) = Cardinality(vv) + Cardinality(xv) + Cardinality(yv)
      /\ Cardinality(vv) \in Nat /\ Cardinality(vx) \in Nat /\ Cardinality(vy) \in Nat
      /\ Cardinality(xv) \in Nat /\ Cardinality(yv) \in Nat
      BY <1>1, <1>5, ThreeParts
<1>7. /\ Moved(C, k, x, v) = Cardinality(M(x, v)) /\ Moved(C, k, y, v) = Cardinality(M(y, v))
      /\ Moved(C, k, v, x) = Cardinality(M(v, x)) /\ Moved(C, k, v, y) = Cardinality(M(v, y))
      BY DEF Moved, M
<1> QED
      BY <1>4, <1>6, <1>7 DEF vv, vx, vy, xv, yv

\* How many cells of a side have the verdict v.
Having(cells, a, v) == Cardinality({c \in DOMAIN cells : verdict_from_score(cells[c].score, a) = v})

\* The counts of a side are those of the verdicts of its cells.
LEMMA AggregateCounts ==
    ASSUME NEW cells, IsFiniteSet(DOMAIN cells), Explained(cells), NEW a, Measured(a)
    PROVE  /\ Aggregate(cells, a).n_stop = Having(cells, a, "STOP")
           /\ Aggregate(cells, a).n_caution = Having(cells, a, "CAUTION")
           /\ Aggregate(cells, a).n_go = Having(cells, a, "GO")
<1> DEFINE C == DOMAIN cells
           S(v) == {c \in C : verdict_from_score(cells[c].score, a) = v}
<1>1. a.verdict_stop \in Int /\ a.verdict_caution \in Int
      BY LeverNames DEF Measured
<1>2. \A c \in C : cells[c].score \in Int
      BY DEF Explained
<1>3. /\ {c \in C : cells[c].score >= a.verdict_stop} = S("STOP")
      /\ {c \in C : cells[c].score >= a.verdict_caution /\ cells[c].score < a.verdict_stop}
            = S("CAUTION")
      BY <1>1, <1>2 DEF verdict_from_score
<1>4. C = S("STOP") \cup S("CAUTION") \cup S("GO")
      BY DEF verdict_from_score
<1>5. Divided(C, S("STOP"), S("CAUTION"), S("GO"))
      BY <1>4 DEF Divided
<1>6. /\ Aggregate(cells, a).n_stop = Cardinality(S("STOP"))
      /\ Aggregate(cells, a).n_caution = Cardinality(S("CAUTION"))
      /\ Aggregate(cells, a).n_go =
             Cardinality(C) - Cardinality(S("STOP")) - Cardinality(S("CAUTION"))
      BY <1>3 DEF Aggregate
<1>7. IsFiniteSet(C)
      OBVIOUS
<1> HIDE DEF C, S
<1>8. /\ Cardinality(C) = Cardinality(S("STOP")) + Cardinality(S("CAUTION")) + Cardinality(S("GO"))
      /\ Cardinality(S("STOP")) \in Nat /\ Cardinality(S("CAUTION")) \in Nat
      /\ Cardinality(S("GO")) \in Nat
      BY <1>5, <1>7, ThreeParts
<1>9. Aggregate(cells, a).n_go = Cardinality(S("GO"))
      BY <1>6, <1>8
<1> QED
      BY <1>6, <1>8, <1>9 DEF S, C, Having

\* The transitions are the moves between the verdicts of the common cells.
LEMMA TransitionsBalanceHolds ==
    ASSUME IInv, RunInv
    PROVE  TransitionsBalance
<1> SUFFICES ASSUME Compared, SameCells
             PROVE  TransitionsBalance
      BY DEF TransitionsBalance
<1>1. data \in DataSet
      BY RequestConstants DEF IInv, FlowInv
<1>2. PICK x, y, u : Measured(Full(x)) /\ Measured(Full(y)) /\ Sides(x, y, u)
      BY ComparedSides
<1> DEFINE ca == score_cells_components(data, x, u)
           cb == score_cells_components(data, y, u)
           C  == DOMAIN ca
           p(c) == verdict_from_score(ca[c].score, Full(x))
           q(c) == verdict_from_score(cb[c].score, Full(y))
           k == [c \in C |-> <<p(c), q(c)>>]
           into(v) == [w \in Verdicts \ {v} |-> result.transitions[<<w, v>>]]
           outof(v) == [w \in Verdicts \ {v} |-> result.transitions[<<v, w>>]]
<1>3. /\ Explained(ca) /\ Explained(cb) /\ IsFiniteSet(C) /\ DOMAIN cb = C
      /\ result.a = Aggregate(ca, Full(x)) /\ result.b = Aggregate(cb, Full(y))
      BY <1>1, <1>2, CellsExplained, CellsAreFinite DEF Sides, SameCells
<1>4. \A v, w \in Verdicts : result.transitions[<<v, w>>] = Moved(C, k, v, w)
      BY <1>2, <1>3 DEF Sides, Moved, Movers
<1> HIDE DEF ca, cb
<1>5. \A c \in C : p(c) \in Verdicts /\ q(c) \in Verdicts
      BY VerdictNames DEF verdict_from_score
<1>6. \A c \in C : k[c] = <<p(c), q(c)>>
      OBVIOUS
<1>7. \A v : /\ From(C, k, v) = Having(ca, Full(x), v)
             /\ Unto(C, k, v) = Having(cb, Full(y), v)
      <2> TAKE v
      <2>1. {c \in C : k[c][1] = v} = {c \in C : p(c) = v}
            BY <1>6
      <2>2. {c \in C : k[c][2] = v} = {c \in C : q(c) = v}
            BY <1>6
      <2> QED
            BY <1>3, <2>1, <2>2 DEF From, Unto, Having
<1>8. /\ result.a.n_stop = From(C, k, "STOP") /\ result.b.n_stop = Unto(C, k, "STOP")
      /\ result.a.n_caution = From(C, k, "CAUTION") /\ result.b.n_caution = Unto(C, k, "CAUTION")
      /\ result.a.n_go = From(C, k, "GO") /\ result.b.n_go = Unto(C, k, "GO")
      BY <1>2, <1>3, <1>7, AggregateCounts
<1> HIDE DEF C, p, q, k
<1>9. ASSUME NEW v, NEW w, NEW z, {v, w, z} = Verdicts, v # w, v # z, w # z
      PROVE  Unto(C, k, v) - From(C, k, v) = Into(v) - OutOf(v)
      <2>1. \A c \in C : \E m, n \in {v, w, z} : k[c] = <<m, n>>
            BY <1>5, <1>6, <1>9
      <2>2. /\ Unto(C, k, v) - From(C, k, v) =
                  (Moved(C, k, w, v) + Moved(C, k, z, v)) - (Moved(C, k, v, w) + Moved(C, k, v, z))
            /\ Moved(C, k, w, v) \in Nat /\ Moved(C, k, z, v) \in Nat
            /\ Moved(C, k, v, w) \in Nat /\ Moved(C, k, v, z) \in Nat
            BY <1>3, <1>9, <2>1, MovesBalance
      <2>3. Verdicts \ {v} = {w, z}
            BY <1>9
      <2>4. /\ into(v)[w] = Moved(C, k, w, v) /\ into(v)[z] = Moved(C, k, z, v)
            /\ outof(v)[w] = Moved(C, k, v, w) /\ outof(v)[z] = Moved(C, k, v, z)
            /\ into(v) = [m \in {w, z} |-> into(v)[m]] /\ outof(v) = [m \in {w, z} |-> outof(v)[m]]
            BY <1>4, <1>9, <2>3
      <2>5. Into(v) = Total(into(v)) /\ OutOf(v) = Total(outof(v))
            BY DEF Into, OutOf
      <2> HIDE DEF into, outof
      <2>6. into(v) \in [{w, z} -> Int] /\ outof(v) \in [{w, z} -> Int]
            BY <2>2, <2>4
      <2>7. /\ Total(into(v)) = into(v)[w] + into(v)[z]
            /\ Total(outof(v)) = outof(v)[w] + outof(v)[z]
            BY <1>9, <2>6, TotalOfTwo
      <2> QED
            BY <2>2, <2>4, <2>5, <2>7
<1>10. /\ Unto(C, k, "STOP") - From(C, k, "STOP") = Into("STOP") - OutOf("STOP")
       /\ Unto(C, k, "CAUTION") - From(C, k, "CAUTION") = Into("CAUTION") - OutOf("CAUTION")
       /\ Unto(C, k, "GO") - From(C, k, "GO") = Into("GO") - OutOf("GO")
       <2>1. Verdicts = {"STOP", "CAUTION", "GO"} /\ Verdicts = {"CAUTION", "STOP", "GO"}
             /\ Verdicts = {"GO", "STOP", "CAUTION"}
             BY VerdictNames
       <2> QED
             BY <1>9, <2>1
<1> QED
       BY <1>8, <1>10 DEF TransitionsBalance

(***************************************************************************)
(* The theorems                                                            *)
(***************************************************************************)

\* A request always has the parts that its stage needs, and no others: the router starts no
\* engine without a job, and nothing is left of a job when the client has its answer.
THEOREM TypeCorrect == Spec => []TypeOK
<1>1. IInv => TypeOK
      <2> SUFFICES ASSUME IInv PROVE TypeOK
            OBVIOUS
      <2>1. Range(out) \subseteq Events
            BY LenProperties DEF IInv, FlowInv, Range
      <2> QED
            BY <2>1 DEF IInv, FlowInv, EndInv, TypeOK, Working, Requests
<1> QED
      BY <1>1, InitHolds, StepHolds, PTL DEF Spec

\* Whatever the language model reads, and however often: every run that a chat question or
\* a recipe leads to is the run that the client was shown, and validate_params lets it
\* through, although a recipe never meets validate_params.
THEOREM ConfirmedIsRun == Spec => []NothingRunsUnchecked
<1>1. IInv => NothingRunsUnchecked
      <2> SUFFICES ASSUME IInv, request # None, request.kind \in Streams, NEW i \in DOMAIN runs
                   PROVE  runs[i].params = confirmed /\ validate_params(runs[i].params, 100) = "ok"
            BY DEF NothingRunsUnchecked
      <2>1. Sequence(runs) /\ DOMAIN runs = 1..Len(runs) /\ Len(<<>>) = 0
            BY SequenceFacts DEF IInv, FlowInv
      <2>2. runs # <<>>
            BY <2>1
      <2> QED
            BY <2>1, <2>2 DEF IInv, GateInv, Sound
<1> QED
      BY <1>1, InitHolds, StepHolds, PTL DEF Spec

\* Whatever is asked, and whatever the engine, the retrieval and the corpus make of it: a
\* stream that is read to its end holds a card, an error, a question or cited sources.
THEOREM StreamsEndWell == Spec => []NoDeadEnd
<1>1. IInv => NoDeadEnd
      BY DEF IInv, EndInv, Closed, NoDeadEnd, Ended, Streams
<1> QED
      BY <1>1, InitHolds, StepHolds, PTL DEF Spec

\* For every question, every reading the model gives of it and all data files: as long as
\* the five runs are about the same scenario on the same data, the band of run_uncertainty
\* runs from the mildest preset to the harshest, its ends are the first and the last run,
\* and it is robust exactly when those two agree.
THEOREM BandIsOrdered == Spec => []WorstIsHarshest
BY Always, WorstIsHarshestHolds, PTL

\* For every pair of presets that a question can name, in either order: the second card of
\* a comparison from the chat is at least as harsh as the first.
THEOREM ShockNeverMilder == Spec => []ShockIsHarsher
BY Always, ShockIsHarsherHolds, PTL

\* For every list of projects and commitments that passes the gate, with homes, water or
\* megawatts: no project makes the region look better, all of them no better than any of
\* them, and a stacking effect takes two projects and room that was left.
THEOREM StackNeverHelps == Spec => []StackOnlyWorsens
BY Always, StackOnlyWorsensHolds, PTL

\* For every scenario over the whole region: the drought buffer that enrich_node offers
\* never comes with a negative reduction.
THEOREM BufferNeverHurts == Spec => []DroughtBufferHelps
BY Always, DroughtBufferHelpsHolds, PTL

\* For any two sides, stored or inline, with thresholds of their own: the transitions of
\* compare_scenarios account for the change of all three counts.
THEOREM DiffAddsUp == Spec => []TransitionsBalance
BY Always, TransitionsBalanceHolds, PTL

\* For any weights, also negative ones, and any number of cells: the factors of
\* compare_scenarios add up to the scores, up to half a point a cell.
THEOREM FactorsAddUp == Spec => []AttributionExplains
BY Always, AttributionExplainsHolds, PTL
================================================================================

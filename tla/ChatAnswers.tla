------------------------------ MODULE ChatAnswers ------------------------------
(***************************************************************************)
(* answer_question (services/chatbot/service.py): what a question that     *)
(* runs nothing is answered with, from the corpus and the scenario card    *)
(* that came with it.  Passages are sets of terms.  BM25 decides the order *)
(* of the passages that share a term with the question; the model leaves   *)
(* that order open, and the share of a question that is covered in part.   *)
(***************************************************************************)
EXTENDS ScenarioGate

CONSTANTS
    Corpus, CardPassages,   \* passage ids; those of a card that has results
    Terms,                  \* per passage its terms
    TopK, Cited             \* how many passages are retrieved, and cited

\* scenario_card: absent, {}, one without results and question, or a stored card.
Cards == {"none", "empty", "bare", "full"}

passages_from_card(card) == IF card = "full" THEN CardPassages ELSE {}

CONFIDENCE_THRESHOLD == 34

\* Every order of the best TopK passages that share a term with the question.
retrieve(q, passages) ==
    LET hits == {p \in passages : Terms[p] \cap q.terms # {}}
        k == Min2(TopK, Cardinality(hits))
    IN  {s \in [1..k -> hits] : IsInjective(s)}

\* In hundredths; all or nothing where the retrieved passages have all terms or none.
coverage(q, retrieved) ==
    LET found == q.terms \cap UNION {Terms[retrieved[i]] : i \in DOMAIN retrieved}
    IN  IF found = {} THEN {0} ELSE IF found = q.terms THEN {100} ELSE {20, 50, 80}

Answer(intent, confidence, citations, asks) ==
    [intent |-> intent, confidence |-> confidence, citations |-> citations, followup |-> asks]

\* Explain-mode falls back on the card, but only when nothing at all was found.
Grounding(intent, card, retrieved) ==
    IF intent = "explain_scenario" /\ retrieved = <<>>
    THEN SubSeq(SetToSeq(passages_from_card(card)), 1,
                Min2(TopK, Cardinality(passages_from_card(card))))
    ELSE retrieved

cites(retrieved) == {retrieved[i] : i \in DOMAIN retrieved \cap 1..Cited}

\* Faulty variant: an answer is composed from whatever was found, also from nothing.
ComposedAnyway(intent, confidence, retrieved) ==
    Answer(intent, confidence, cites(retrieved), confidence < CONFIDENCE_THRESHOLD /\ retrieved # <<>>)

\* Below the threshold, or with nothing to stand on, the chatbot asks back.
Composed(intent, confidence, retrieved) ==
    IF intent = "scenario_run_request"
    THEN Answer(intent, confidence, cites(retrieved), TRUE)
    ELSE IF \/ retrieved = <<>>
            \/ confidence < CONFIDENCE_THRESHOLD /\ intent # "explain_scenario"
    THEN Answer(intent, confidence, {}, TRUE)
    ELSE Answer(intent, confidence, cites(retrieved), FALSE)

\* An empty card counts as none here, although the router took it for one.
answers(q, card) ==
    LET intent == classify_intent(q, card \notin {"none", "empty"})
    IN  UNION {LET grounded == Grounding(intent, card, r)
               IN  {Composed(intent, c, grounded) : c \in coverage(q, grounded)} :
               r \in retrieve(q, Corpus \cup passages_from_card(card))}

CACHE_MIN_CONFIDENCE == 60
CACHEABLE_INTENTS == {"knowledge", "data_limits"}

should_cache(answer) ==
    /\ answer.intent \in CACHEABLE_INTENTS
    /\ ~answer.followup
    /\ answer.confidence >= CACHE_MIN_CONFIDENCE
    /\ answer.citations # {}
================================================================================

-------------------------- MODULE ChatSessionsProofs --------------------------
(***************************************************************************)
(* Theorems about ChatSessions, for any sets of turns, sessions and users. *)
(***************************************************************************)
EXTENDS ChatSessions, SequenceTheorems, TLAPS

\* One case per action: every proof about a step starts from this split.
LEMMA StepCases ==
    ASSUME Next
    PROVE  \/ \E t \in Turns, u \in Users, s \in Sessions :
                  Resolve(t, u, s) \/ Refuse(t, u, s) \/ Create(t, u, s)
           \/ \E t \in Turns :
                  \/ Refresh(t) \/ SaveQuestion(t) \/ SaveQuestionFails(t) \/ Announce(t)
                  \/ Produce(t) \/ StreamEnds(t) \/ Persist(t) \/ SkipPersist(t)
                  \/ Finish(t) \/ Cancel(t) \/ Leave(t)
           \/ \E u \in Users, s \in Sessions : Delete(u, s)
           \/ Crash
BY DEF Next, Request, Serve

\* The messages a turn adds are messages.
LEMMA MessageType ==
    ASSUME NEW t \in Turns
    PROVE  Question(t) \in Message /\ Answer(t) \in Message
BY DEF Question, Answer, Message

\* Every entry of an array belongs to a turn.
LEMMA EntryTurn ==
    ASSUME NEW q \in Seq(Message), NEW i \in 1..Len(q)
    PROVE  q[i].turn \in Turns
<1>1. q[i] \in Message
      OBVIOUS
<1> QED
      BY <1>1 DEF Message

-------------------------------------------------------------------------------
LEMMA TypeInit == Init => TypeOK
BY ChatConstants DEF Init, TypeOK, InFlight, Generating, Phase, Terminal

LEMMA TypeStep == TypeOK /\ [Next]_vars => TypeOK'
<1> SUFFICES ASSUME TypeOK, [Next]_vars PROVE TypeOK'
    OBVIOUS
<1> USE DEF TypeOK, table
<1>1. ASSUME NEW t \in Turns, NEW u \in Users, NEW s \in Sessions, Resolve(t, u, s)
      PROVE  TypeOK'
      BY <1>1 DEF Resolve, Enter, Phase, InFlight, Generating
<1>2. ASSUME NEW t \in Turns, NEW u \in Users, NEW s \in Sessions, Refuse(t, u, s)
      PROVE  TypeOK'
      BY <1>2 DEF Refuse, Phase, InFlight, Generating, Terminal
<1>3. ASSUME NEW t \in Turns, NEW u \in Users, NEW s \in Sessions, Create(t, u, s)
      PROVE  TypeOK'
      BY <1>3 DEF Create, Enter, Phase, InFlight, Generating
<1>4. ASSUME NEW t \in Turns, Refresh(t) PROVE TypeOK'
      BY <1>4 DEF Refresh, Phase, InFlight, Generating
<1>5. ASSUME NEW t \in Turns, SaveQuestion(t) PROVE TypeOK'
      <2>1. Append(base[t], Question(t)) \in Seq(Message)
            BY MessageType, AppendProperties
      <2> QED
            BY <1>5, <2>1 DEF SaveQuestion, Phase, InFlight, Generating
<1>6. ASSUME NEW t \in Turns, Persist(t) PROVE TypeOK'
      <2>1. Append(base[t], Answer(t)) \in Seq(Message)
            BY MessageType, AppendProperties
      <2> QED
            BY <1>6, <2>1 DEF Persist, Phase, InFlight, Generating
<1>7. ASSUME NEW t \in Turns,
             \/ SaveQuestionFails(t) \/ Announce(t) \/ Produce(t) \/ StreamEnds(t)
             \/ SkipPersist(t) \/ Finish(t) \/ Cancel(t) \/ Leave(t)
      PROVE  TypeOK'
      BY <1>7 DEF SaveQuestionFails, Announce, Produce, StreamEnds, SkipPersist, Finish,
                  Cancel, Leave, Phase, InFlight, Generating, Terminal
<1>8. ASSUME NEW u \in Users, NEW s \in Sessions, Delete(u, s) PROVE TypeOK'
      BY <1>8 DEF Delete
<1>9. CASE Crash
      BY <1>9 DEF Crash, Phase, InFlight, Generating, Terminal
<1>10. CASE UNCHANGED vars
      BY <1>10 DEF vars
<1> QED
      BY <1>1, <1>2, <1>3, <1>4, <1>5, <1>6, <1>7, <1>8, <1>9, <1>10, StepCases

\* Every variable keeps its type: in particular a turn in flight always has a
\* session, and the arrays stay sequences of messages of the known turns.
THEOREM TypeCorrect == Spec => []TypeOK
BY TypeInit, TypeStep, PTL DEF Spec

-------------------------------------------------------------------------------
(***************************************************************************)
(* Order: an answer stands behind its question.  The arrays held by the    *)
(* coroutines must be well formed too, since they are what gets written,   *)
(* and a generator's copy ends with its own question.                      *)
(***************************************************************************)
GoodLog(q) == \A i \in 1..Len(q) :
    q[i].role = "assistant" => i > 1 /\ q[i - 1] = Question(q[i].turn)

OrderInv ==
    /\ \A s \in Sessions : GoodLog(messages[s])
    /\ \A t \in Turns : GoodLog(base[t])
    /\ \A t \in Turns : pc[t] \in Generating =>
          base[t] # <<>> /\ base[t][Len(base[t])] = Question(t)

\* Appending a question keeps an array well formed, and ends it with it.
LEMMA AppendQuestion ==
    ASSUME NEW q \in Seq(Message), GoodLog(q), NEW t \in Turns
    PROVE  LET r == Append(q, Question(t)) IN
           GoodLog(r) /\ r # <<>> /\ r[Len(r)] = Question(t)
<1> DEFINE r == Append(q, Question(t))
<1>1. /\ r \in Seq(Message) /\ r # <<>> /\ Len(r) = Len(q) + 1
      /\ \A i \in 1..Len(q) : r[i] = q[i]
      /\ r[Len(q) + 1] = Question(t)
      BY MessageType, AppendProperties
<1>2. Question(t).role = "user"
      BY DEF Question
<1>3. Len(q) \in Nat
      OBVIOUS
<1> HIDE DEF r
<1>4. GoodLog(r)
      BY <1>1, <1>2, <1>3 DEF GoodLog
<1> QED
      BY <1>1, <1>4 DEF r

\* Appending an answer to an array that ends with its question keeps it well formed.
LEMMA AppendAnswer ==
    ASSUME NEW q \in Seq(Message), GoodLog(q), NEW t \in Turns,
           q # <<>>, q[Len(q)] = Question(t)
    PROVE  GoodLog(Append(q, Answer(t)))
<1> DEFINE r == Append(q, Answer(t))
<1>1. /\ r \in Seq(Message) /\ Len(r) = Len(q) + 1
      /\ \A i \in 1..Len(q) : r[i] = q[i]
      /\ r[Len(q) + 1] = Answer(t)
      BY MessageType, AppendProperties
<1>2. Len(q) \in Nat /\ Len(q) > 0
      BY EmptySeq
<1>3. Answer(t).turn = t
      BY DEF Answer
<1> HIDE DEF r
<1>4. GoodLog(r)
      BY <1>1, <1>2, <1>3 DEF GoodLog
<1> QED
      BY <1>4 DEF r

LEMMA OrderInit == Init => OrderInv
<1> SUFFICES ASSUME Init PROVE OrderInv
    OBVIOUS
<1>1. GoodLog(<<>>)
      BY DEF GoodLog
<1> QED
      BY <1>1 DEF Init, OrderInv, Generating

LEMMA OrderStep == TypeOK /\ OrderInv /\ [Next]_vars => OrderInv'
<1> SUFFICES ASSUME TypeOK, OrderInv, [Next]_vars PROVE OrderInv'
    OBVIOUS
<1> USE DEF TypeOK, table
<1>0. ASSUME UNCHANGED messages, UNCHANGED base,
             \A t \in Turns : pc'[t] \in Generating => pc[t] \in Generating
      PROVE  OrderInv'
      BY <1>0 DEF OrderInv, GoodLog
<1>1. ASSUME NEW t \in Turns, NEW u \in Users, NEW s \in Sessions,
             Resolve(t, u, s) \/ Refuse(t, u, s) \/ Create(t, u, s)
      PROVE  OrderInv'
      <2>1. CASE Resolve(t, u, s)
            BY <2>1 DEF Resolve, Generating, OrderInv, GoodLog
      <2>2. CASE Refuse(t, u, s) \/ Create(t, u, s)
            BY <2>2, <1>0 DEF Refuse, Create, Generating
      <2> QED
            BY <1>1, <2>1, <2>2
<1>2. ASSUME NEW t \in Turns, Refresh(t) PROVE OrderInv'
      <2>1. target[t] \in Sessions
            BY <1>2 DEF Refresh, InFlight
      <2> QED
            BY <1>2, <2>1 DEF Refresh, Generating, OrderInv, GoodLog
<1>3. ASSUME NEW t \in Turns, SaveQuestion(t) PROVE OrderInv'
      <2> DEFINE r == Append(base[t], Question(t))
      <2>1. GoodLog(r) /\ r # <<>> /\ r[Len(r)] = Question(t)
            BY AppendQuestion DEF OrderInv
      <2>2. /\ base' = [base EXCEPT ![t] = r]
            /\ messages' = [messages EXCEPT ![target[t]] = r]
            /\ pc' = [pc EXCEPT ![t] = "saved"]
            BY <1>3 DEF SaveQuestion
      <2> HIDE DEF r
      <2>3. \A s \in Sessions : GoodLog(messages'[s])
            BY <2>1, <2>2 DEF OrderInv
      <2>4. \A x \in Turns : GoodLog(base'[x])
            BY <2>1, <2>2 DEF OrderInv
      <2>5. \A x \in Turns : pc'[x] \in Generating =>
                base'[x] # <<>> /\ base'[x][Len(base'[x])] = Question(x)
            BY <2>1, <2>2 DEF OrderInv
      <2> QED
            BY <2>3, <2>4, <2>5 DEF OrderInv, GoodLog
<1>4. ASSUME NEW t \in Turns, Persist(t) PROVE OrderInv'
      <2> DEFINE r == Append(base[t], Answer(t))
      <2>1. GoodLog(r)
            <3>1. pc[t] \in Generating
                  BY <1>4 DEF Persist, Generating
            <3> QED
                  BY <3>1, AppendAnswer DEF OrderInv
      <2>2. /\ messages' = [messages EXCEPT ![target[t]] = r]
            /\ pc' = [pc EXCEPT ![t] = "closing"] /\ pc[t] = "ended"
            /\ base' = base
            BY <1>4 DEF Persist
      <2> HIDE DEF r
      <2>3. \A s \in Sessions : GoodLog(messages'[s])
            BY <2>1, <2>2 DEF OrderInv
      <2>4. \A x \in Turns : pc'[x] \in Generating => pc[x] \in Generating
            BY <2>2 DEF Generating
      <2> QED
            BY <2>2, <2>3, <2>4 DEF OrderInv, GoodLog
<1>5. ASSUME NEW t \in Turns,
             \/ SaveQuestionFails(t) \/ Announce(t) \/ Produce(t) \/ StreamEnds(t)
             \/ SkipPersist(t) \/ Finish(t) \/ Cancel(t) \/ Leave(t)
      PROVE  OrderInv'
      BY <1>5, <1>0 DEF SaveQuestionFails, Announce, Produce, StreamEnds, SkipPersist,
                        Finish, Cancel, Leave, Generating
<1>6. ASSUME NEW u \in Users, NEW s \in Sessions, Delete(u, s) PROVE OrderInv'
      BY <1>6, <1>0 DEF Delete
<1>7. CASE Crash
      BY <1>7, <1>0 DEF Crash, Generating
<1>8. CASE UNCHANGED vars
      BY <1>8, <1>0 DEF vars
<1> QED
      BY <1>1, <1>2, <1>3, <1>4, <1>5, <1>6, <1>7, <1>8, StepCases

\* Whatever overlaps, crashes or is cancelled: a stored answer directly follows
\* the question of its own turn.
THEOREM AnswersFollowQuestions == Spec => []AnswerFollowsQuestion
<1>1. OrderInv => AnswerFollowsQuestion
      BY DEF OrderInv, GoodLog, AnswerFollowsQuestion
<1> QED
      BY OrderInit, OrderStep, TypeCorrect, <1>1, PTL DEF Spec

-------------------------------------------------------------------------------
(***************************************************************************)
(* Ownership: both writes go by the session id the coroutine kept.  What a *)
(* coroutine holds must therefore come from that session alone.            *)
(***************************************************************************)
From(q, s) == \A i \in 1..Len(q) : target[q[i].turn] = s

OwnInv ==
    /\ \A t \in Turns : target[t] \in Sessions =>
          who[t] \in Users /\ who[t] = owner[target[t]]
    /\ \A t \in Turns : pc[t] \in {"idle", "refused"} => target[t] = NoSession
    /\ \A t \in Turns : target[t] \notin Sessions => base[t] = <<>>
    /\ \A t \in Turns : From(base[t], target[t])
    /\ \A s \in Sessions : From(messages[s], s)

LEMMA OwnInit == Init => OwnInv
<1> SUFFICES ASSUME Init PROVE OwnInv
    OBVIOUS
<1> QED
    BY ChatConstants DEF Init, OwnInv, From

\* A step that enters no turn, and writes no array that is not one of the session's.
LEMMA OwnWrite ==
    ASSUME TypeOK, OwnInv, UNCHANGED <<owner, who, target>>,
           \A t \in Turns : pc'[t] \in {"idle", "refused"} =>
               pc[t] \in {"idle", "refused"},
           \A t \in Turns : target[t] \notin Sessions => base'[t] = base[t],
           \A t \in Turns : From(base'[t], target[t]),
           \A s \in Sessions : From(messages'[s], s)
    PROVE  OwnInv'
BY DEF OwnInv, From, TypeOK

\* A turn's own messages may be appended to what it holds.
LEMMA OwnAppend ==
    ASSUME TypeOK, NEW q \in Seq(Message), NEW t \in Turns, From(q, target[t]),
           NEW m \in {Question(t), Answer(t)}
    PROVE  From(Append(q, m), target[t])
<1> DEFINE r == Append(q, m)
<1>1. m \in Message
      BY MessageType
<1>2. m.turn = t
      BY DEF Question, Answer
<1>3. /\ Len(r) = Len(q) + 1 /\ Len(q) \in Nat
      /\ \A i \in 1..Len(q) : r[i] = q[i]
      /\ r[Len(q) + 1] = m
      BY <1>1, AppendProperties
<1> HIDE DEF r
<1>4. From(r, target[t])
      BY <1>2, <1>3 DEF From
<1> QED
      BY <1>4 DEF r

LEMMA OwnStep == TypeOK /\ OwnInv /\ [Next]_vars => OwnInv'
<1> SUFFICES ASSUME TypeOK, OwnInv, [Next]_vars PROVE OwnInv'
    OBVIOUS
<1> USE DEF table
<1>0. ASSUME UNCHANGED <<owner, who, target, base, messages>>,
             \A t \in Turns : pc'[t] \in {"idle", "refused"} => pc[t] \in {"idle", "refused"}
      PROVE  OwnInv'
      BY <1>0, OwnWrite DEF OwnInv
<1>1. ASSUME NEW t \in Turns, NEW u \in Users, NEW s \in Sessions,
             Resolve(t, u, s) \/ Refuse(t, u, s) \/ Create(t, u, s)
      PROVE  OwnInv'
      <2> USE ChatConstants DEF TypeOK
      <2>1. pc[t] = "idle" /\ target[t] = NoSession /\ base[t] = <<>>
            BY <1>1 DEF Resolve, Refuse, Create, MaySend, OwnInv
      <2>2. /\ \A r \in Sessions : \A i \in 1..Len(messages[r]) : messages[r][i].turn # t
            /\ \A x \in Turns : x # t => \A i \in 1..Len(base[x]) :
                 target[x] \in Sessions => base[x][i].turn # t
            BY <2>1 DEF OwnInv, From
      <2>3. CASE Resolve(t, u, s) \/ Create(t, u, s)
            <3>1. /\ target' = [target EXCEPT ![t] = s]
                  /\ who' = [who EXCEPT ![t] = u]
                  /\ UNCHANGED messages
                  BY <2>3 DEF Resolve, Create, Enter
            <3>2. /\ owner'[s] = u
                  /\ \A r \in Sessions : owner[r] \in Users => owner'[r] = owner[r]
                  BY <2>3 DEF Resolve, Create, CanAccess
            <3>3. base'[t] \in {<<>>, messages[s]} /\ \A x \in Turns : x # t => base'[x] = base[x]
                  BY <2>1, <2>3 DEF Resolve, Create
            <3>4. \A x \in Turns : x # t => pc'[x] = pc[x]
                  BY <2>3 DEF Resolve, Create
            <3>5. pc'[t] \in {"resolved", "created"}
                  BY <2>3 DEF Resolve, Create
            <3>6. \A r \in Sessions : From(messages[r], r)'
                  BY <2>2, <3>1 DEF OwnInv, From
            <3>7. \A x \in Turns : From(base[x], target[x])'
                  <4>1. From(base[t], target[t])'
                        <5>1. target'[t] = s
                              BY <3>1
                        <5>2. CASE base'[t] = <<>>
                              BY <5>2 DEF From
                        <5>3. CASE base'[t] = messages[s]
                              BY <5>1, <5>3, <3>6, <3>1 DEF From
                        <5> QED
                              BY <3>3, <5>2, <5>3
                  <4>2. ASSUME NEW x \in Turns, x # t PROVE From(base[x], target[x])'
                        <5>1. target'[x] = target[x] /\ base'[x] = base[x]
                              BY <3>1, <3>3, <4>2
                        <5>2. \A i \in 1..Len(base[x]) : base[x][i].turn \in Turns
                              BY EntryTurn
                        <5>3. CASE target[x] \in Sessions
                              BY <5>1, <5>2, <5>3, <2>2, <3>1, <4>2 DEF OwnInv, From
                        <5>4. CASE target[x] \notin Sessions
                              <6>1. base[x] = <<>>
                                    BY <5>4 DEF OwnInv
                              <6> QED
                                    BY <5>1, <6>1 DEF From
                        <5> QED
                              BY <5>3, <5>4
                  <4> QED
                        BY <4>1, <4>2
            <3> QED
                  BY <3>1, <3>2, <3>3, <3>4, <3>5, <3>6, <3>7 DEF OwnInv
      <2>4. CASE Refuse(t, u, s)
            BY <2>4, <2>1 DEF Refuse, OwnInv, From
      <2> QED
            BY <1>1, <2>3, <2>4
<1>2. ASSUME NEW t \in Turns, Refresh(t) PROVE OwnInv'
      <2>1. target[t] \in Sessions
            BY <1>2 DEF Refresh, TypeOK, InFlight
      <2>2. /\ base' = [base EXCEPT ![t] = messages[target[t]]]
            /\ UNCHANGED <<owner, who, target, messages>>
            /\ pc' = [pc EXCEPT ![t] = "resolved"]
            BY <1>2 DEF Refresh
      <2>3. \A x \in Turns : From(base'[x], target[x])
            BY <2>1, <2>2 DEF OwnInv, TypeOK
      <2>4. \A x \in Turns : pc'[x] \in {"idle", "refused"} => pc[x] \in {"idle", "refused"}
            BY <2>2 DEF TypeOK
      <2>5. \A x \in Turns : target[x] \notin Sessions => base'[x] = base[x]
            BY <2>1, <2>2 DEF TypeOK
      <2> QED
            BY <2>2, <2>3, <2>4, <2>5, OwnWrite DEF OwnInv
<1>3. ASSUME NEW t \in Turns, SaveQuestion(t) PROVE OwnInv'
      <2> DEFINE r == Append(base[t], Question(t))
      <2>1. target[t] \in Sessions
            BY <1>3 DEF SaveQuestion, TypeOK, InFlight
      <2>2. From(r, target[t])
            BY OwnAppend DEF OwnInv, TypeOK
      <2>3. /\ base' = [base EXCEPT ![t] = r]
            /\ messages' = [messages EXCEPT ![target[t]] = r]
            /\ UNCHANGED <<owner, who, target>>
            /\ pc' = [pc EXCEPT ![t] = "saved"]
            BY <1>3 DEF SaveQuestion, TypeOK
      <2> HIDE DEF r
      <2>4. \A x \in Turns : From(base'[x], target[x])
            BY <2>2, <2>3 DEF OwnInv, TypeOK
      <2>5. \A s \in Sessions : From(messages'[s], s)
            BY <2>2, <2>3 DEF OwnInv, TypeOK
      <2>6. \A x \in Turns : pc'[x] \in {"idle", "refused"} => pc[x] \in {"idle", "refused"}
            BY <2>3 DEF TypeOK
      <2>7. \A x \in Turns : target[x] \notin Sessions => base'[x] = base[x]
            BY <2>1, <2>3 DEF TypeOK
      <2> QED
            BY <2>3, <2>4, <2>5, <2>6, <2>7, OwnWrite
<1>4. ASSUME NEW t \in Turns, Persist(t) PROVE OwnInv'
      <2> DEFINE r == Append(base[t], Answer(t))
      <2>1. From(r, target[t])
            BY OwnAppend DEF OwnInv, TypeOK
      <2>2. /\ messages' = [messages EXCEPT ![target[t]] = r]
            /\ UNCHANGED <<owner, who, target, base>>
            /\ pc' = [pc EXCEPT ![t] = "closing"]
            BY <1>4 DEF Persist
      <2> HIDE DEF r
      <2>3. \A s \in Sessions : From(messages'[s], s)
            BY <2>1, <2>2 DEF OwnInv, TypeOK
      <2>4. \A x \in Turns : pc'[x] \in {"idle", "refused"} => pc[x] \in {"idle", "refused"}
            BY <2>2 DEF TypeOK
      <2> QED
            BY <2>2, <2>3, <2>4, OwnWrite DEF OwnInv
<1>5. ASSUME NEW t \in Turns,
             \/ SaveQuestionFails(t) \/ Announce(t) \/ Produce(t) \/ StreamEnds(t)
             \/ SkipPersist(t) \/ Finish(t) \/ Cancel(t) \/ Leave(t)
      PROVE  OwnInv'
      BY <1>5, <1>0 DEF SaveQuestionFails, Announce, Produce, StreamEnds, SkipPersist,
                        Finish, Cancel, Leave, TypeOK
<1>6. ASSUME NEW u \in Users, NEW s \in Sessions, Delete(u, s) PROVE OwnInv'
      BY <1>6, <1>0 DEF Delete
<1>7. CASE Crash
      BY <1>7, <1>0 DEF Crash
<1>8. CASE UNCHANGED vars
      BY <1>8, <1>0 DEF vars
<1> QED
      BY <1>1, <1>2, <1>3, <1>4, <1>5, <1>6, <1>7, <1>8, StepCases

\* A session only ever holds turns that were sent to it by its owner.
THEOREM SessionsHoldOwnTurns == Spec => []OnlyOwnTurns
<1>1. TypeOK /\ OwnInv => OnlyOwnTurns
      BY EntryTurn DEF OwnInv, From, OnlyOwnTurns, TypeOK
<1> QED
      BY OwnInit, OwnStep, TypeCorrect, <1>1, PTL DEF Spec

-------------------------------------------------------------------------------
(***************************************************************************)
(* Company: what a turn without company holds is what the table holds, so  *)
(* its writes replace the array by an extension of it.                     *)
(***************************************************************************)
Holding == {"resolved", "saved", "streaming", "ended"}

CompanyInv ==
    /\ \A t, x \in Turns :
          t # x /\ pc[t] \in InFlight /\ pc[x] \in InFlight /\ target[t] = target[x]
          => ~alone[t]
    /\ \A t \in Turns :
          pc[t] \in Holding /\ alone[t] => base[t] = messages[target[t]]

LEMMA CompanyInit == Init => CompanyInv
BY DEF Init, CompanyInv, Holding, InFlight, Generating

LEMMA CompanyStep == TypeOK /\ CompanyInv /\ [Next]_vars => CompanyInv'
<1> SUFFICES ASSUME TypeOK, CompanyInv, [Next]_vars PROVE CompanyInv'
    OBVIOUS
<1> USE DEF TypeOK, table
<1>0. ASSUME UNCHANGED <<target, base, alone, messages>>,
             \A t \in Turns : pc'[t] \in InFlight => pc[t] \in InFlight,
             \A t \in Turns : pc'[t] \in Holding => pc[t] \in Holding
      PROVE  CompanyInv'
      BY <1>0 DEF CompanyInv
<1>1. ASSUME NEW t \in Turns, NEW u \in Users, NEW s \in Sessions,
             Resolve(t, u, s) \/ Create(t, u, s)
      PROVE  CompanyInv'
      <2>1. /\ pc[t] = "idle" /\ pc[t] \notin InFlight
            /\ target' = [target EXCEPT ![t] = s]
            /\ alone' = [x \in Turns |-> IF x = t THEN Rivals(s) = {}
                                         ELSE alone[x] /\ x \notin Rivals(s)]
            /\ UNCHANGED messages
            BY <1>1 DEF Resolve, Create, MaySend, Enter, InFlight, Generating
      <2>2. /\ \A x \in Turns : x # t => pc'[x] = pc[x] /\ base'[x] = base[x]
            /\ pc'[t] \in Holding => base'[t] = messages[s]
            BY <1>1 DEF Resolve, Create, Holding
      <2>3. ASSUME NEW x \in Turns, NEW y \in Turns, x # y,
                   pc'[x] \in InFlight, pc'[y] \in InFlight, target'[x] = target'[y]
            PROVE  ~alone'[x]
            <3>1. CASE x = t
                  <4>1. y \in Rivals(s)
                        BY <2>1, <2>2, <2>3, <3>1 DEF Rivals
                  <4> QED
                        BY <2>1, <3>1, <4>1
            <3>2. CASE y = t
                  <4>1. x \in Rivals(s)
                        BY <2>1, <2>2, <2>3, <3>2 DEF Rivals
                  <4> QED
                        BY <2>1, <2>3, <3>2, <4>1
            <3>3. CASE x # t /\ y # t
                  BY <2>1, <2>2, <2>3, <3>3 DEF CompanyInv
            <3> QED
                  BY <3>1, <3>2, <3>3
      <2>4. ASSUME NEW x \in Turns, pc'[x] \in Holding, alone'[x]
            PROVE  base'[x] = messages'[target'[x]]
            <3>1. CASE x = t
                  BY <2>1, <2>2, <2>4, <3>1
            <3>2. CASE x # t
                  BY <2>1, <2>2, <2>4, <3>2 DEF CompanyInv
            <3> QED
                  BY <3>1, <3>2
      <2> QED
            BY <2>3, <2>4 DEF CompanyInv
<1>2. ASSUME NEW t \in Turns, NEW u \in Users, NEW s \in Sessions, Refuse(t, u, s)
      PROVE  CompanyInv'
      BY <1>2, <1>0 DEF Refuse, InFlight, Generating, Holding
<1>3. ASSUME NEW t \in Turns, Refresh(t) PROVE CompanyInv'
      BY <1>3 DEF Refresh, CompanyInv, InFlight, Generating, Holding
<1>4. ASSUME NEW t \in Turns, SaveQuestion(t) PROVE CompanyInv'
      <2> DEFINE r == Append(base[t], Question(t))
      <2>1. /\ base' = [base EXCEPT ![t] = r]
            /\ messages' = [messages EXCEPT ![target[t]] = r]
            /\ pc[t] = "resolved" /\ pc' = [pc EXCEPT ![t] = "saved"]
            /\ UNCHANGED <<target, alone>>
            BY <1>4 DEF SaveQuestion
      <2> HIDE DEF r
      <2>2. /\ pc[t] \in InFlight /\ target[t] \in Sessions
            /\ \A x \in Turns : pc'[x] \in InFlight => pc[x] \in InFlight
            BY <2>1 DEF InFlight, Generating
      <2>3. ASSUME NEW x \in Turns, pc'[x] \in Holding, alone'[x]
            PROVE  base'[x] = messages'[target'[x]]
            <3>1. CASE x = t
                  BY <2>1, <2>2, <3>1
            <3>2. CASE x # t
                  <4>1. pc[x] \in Holding /\ pc[x] \in InFlight /\ alone[x]
                        BY <2>1, <2>3, <3>2 DEF Holding, InFlight, Generating
                  <4>2. target[x] # target[t]
                        BY <2>2, <3>2, <4>1 DEF CompanyInv
                  <4> QED
                        BY <2>1, <3>2, <4>1, <4>2 DEF CompanyInv
            <3> QED
                  BY <3>1, <3>2
      <2> QED
            BY <2>1, <2>2, <2>3 DEF CompanyInv
<1>5. ASSUME NEW t \in Turns, Persist(t) PROVE CompanyInv'
      <2> DEFINE r == Append(base[t], Answer(t))
      <2>1. /\ messages' = [messages EXCEPT ![target[t]] = r]
            /\ pc[t] = "ended" /\ pc' = [pc EXCEPT ![t] = "closing"]
            /\ UNCHANGED <<target, alone, base>>
            BY <1>5 DEF Persist
      <2> HIDE DEF r
      <2>2. /\ pc[t] \in InFlight
            /\ \A x \in Turns : pc'[x] \in InFlight => pc[x] \in InFlight
            BY <2>1 DEF InFlight, Generating
      <2>3. ASSUME NEW x \in Turns, pc'[x] \in Holding, alone'[x]
            PROVE  base'[x] = messages'[target'[x]]
            <3>1. x # t /\ pc[x] \in Holding /\ pc[x] \in InFlight /\ alone[x]
                  BY <2>1, <2>3 DEF Holding, InFlight, Generating
            <3>2. target[x] # target[t]
                  BY <2>2, <3>1 DEF CompanyInv
            <3> QED
                  BY <2>1, <3>1, <3>2 DEF CompanyInv
      <2> QED
            BY <2>1, <2>2, <2>3 DEF CompanyInv
<1>6. ASSUME NEW t \in Turns,
             \/ SaveQuestionFails(t) \/ Announce(t) \/ Produce(t) \/ StreamEnds(t)
             \/ SkipPersist(t) \/ Finish(t) \/ Cancel(t) \/ Leave(t)
      PROVE  CompanyInv'
      BY <1>6, <1>0 DEF SaveQuestionFails, Announce, Produce, StreamEnds, SkipPersist,
                        Finish, Cancel, Leave, InFlight, Generating, Holding
<1>7. ASSUME NEW u \in Users, NEW s \in Sessions, Delete(u, s) PROVE CompanyInv'
      BY <1>7, <1>0 DEF Delete
<1>8. CASE Crash
      BY <1>8, <1>0 DEF Crash, InFlight, Generating, Holding
<1>9. CASE UNCHANGED vars
      BY <1>9, <1>0 DEF vars
<1> QED
      BY <1>1, <1>2, <1>3, <1>4, <1>5, <1>6, <1>7, <1>8, <1>9, StepCases

\* An array is kept by itself plus one entry.
LEMMA AppendKeeps ==
    ASSUME NEW q \in Seq(Message), NEW m \in Message
    PROVE  \A i \in 1..Len(q) : \E j \in 1..Len(Append(q, m)) : Append(q, m)[j] = q[i]
<1>1. /\ Len(Append(q, m)) = Len(q) + 1 /\ Len(q) \in Nat
      /\ \A i \in 1..Len(q) : Append(q, m)[i] = q[i]
      BY AppendProperties
<1> SUFFICES ASSUME NEW i \in 1..Len(q)
             PROVE  \E j \in 1..Len(Append(q, m)) : Append(q, m)[j] = q[i]
    OBVIOUS
<1>2. i \in 1..Len(Append(q, m))
      BY <1>1
<1> QED
      BY <1>1, <1>2

LEMMA KeepsSame ==
    ASSUME TypeOK, UNCHANGED messages, NEW s \in Sessions PROVE Keeps(s)
BY DEF Keeps

\* Lost messages take company: a turn that never had another turn of its session
\* beside it only ever adds to what is stored there.
THEOREM AloneKeepsAll == Spec => AloneLosesNothing
<1> DEFINE Harmless == \A t \in Turns :
               pc'[t] # pc[t] /\ alone[t] /\ target[t] \in Sessions => Keeps(target[t])
<1>1. TypeOK /\ CompanyInv /\ [Next]_vars => [Harmless]_vars
      <2> SUFFICES ASSUME TypeOK, CompanyInv, Next,
                          NEW t \in Turns, pc'[t] # pc[t], alone[t], target[t] \in Sessions
                   PROVE  Keeps(target[t])
          OBVIOUS
      <2>1. CASE UNCHANGED messages
            BY <2>1, KeepsSame
      <2>2. ASSUME NEW x \in Turns, SaveQuestion(x) \/ Persist(x) PROVE Keeps(target[t])
            <3>1. x = t
                  BY <2>2 DEF SaveQuestion, Persist, TypeOK
            <3>2. base[t] = messages[target[t]]
                  BY <2>2, <3>1 DEF SaveQuestion, Persist, CompanyInv, Holding
            <3>3. PICK m \in Message : messages'[target[t]] = Append(messages[target[t]], m)
                  <4>1. CASE SaveQuestion(t)
                        BY <4>1, <3>2, MessageType DEF SaveQuestion, TypeOK
                  <4>2. CASE Persist(t)
                        BY <4>2, <3>2, MessageType DEF Persist, TypeOK
                  <4> QED
                        BY <2>2, <3>1, <4>1, <4>2
            <3> QED
                  BY <3>3, AppendKeeps DEF Keeps, TypeOK
      <2> QED
            BY <2>1, <2>2, StepCases DEF Resolve, Refuse, Create, Refresh, SaveQuestionFails,
               Announce, Produce, StreamEnds, SkipPersist, Finish, Cancel, Leave, Delete,
               Crash, table
<1> QED
      BY CompanyInit, CompanyStep, TypeCorrect, <1>1, PTL DEF Spec, AloneLosesNothing

-------------------------------------------------------------------------------
(***************************************************************************)
(* Once: until its question is saved no array has a message of a turn, and *)
(* a generator's copy has no answer of its own.                            *)
(***************************************************************************)
Distinct(q) == \A i, j \in 1..Len(q) : q[i] = q[j] => i = j
Free(q, t)  == \A i \in 1..Len(q) : q[i].turn # t

Unsaved == {"idle", "created", "resolved"}

OnceInv ==
    /\ \A s \in Sessions : Distinct(messages[s])
    /\ \A t \in Turns : Distinct(base[t])
    /\ \A t \in Turns : pc[t] \in Unsaved =>
          /\ \A s \in Sessions : Free(messages[s], t)
          /\ \A x \in Turns : Free(base[x], t)
    /\ \A t \in Turns : pc[t] \in Generating \ {"closing"} =>
          \A i \in 1..Len(base[t]) : base[t][i] # Answer(t)

\* Appending what is not there keeps an array free of repetitions.
LEMMA AppendDistinct ==
    ASSUME NEW q \in Seq(Message), Distinct(q), NEW m \in Message,
           \A i \in 1..Len(q) : q[i] # m
    PROVE  /\ Distinct(Append(q, m))
           /\ \A x \in Turns : Free(q, x) /\ m.turn # x => Free(Append(q, m), x)
           /\ \A n : n # m /\ (\A i \in 1..Len(q) : q[i] # n) =>
                 \A i \in 1..Len(Append(q, m)) : Append(q, m)[i] # n
<1> DEFINE r == Append(q, m)
<1>1. /\ Len(r) = Len(q) + 1 /\ Len(q) \in Nat
      /\ \A i \in 1..Len(q) : r[i] = q[i]
      /\ r[Len(q) + 1] = m
      BY AppendProperties
<1>2. \A i \in 1..Len(r) : i \in 1..Len(q) \/ i = Len(q) + 1
      BY <1>1
<1> HIDE DEF r
<1>3. Distinct(r)
      BY <1>1, <1>2 DEF Distinct
<1>4. \A x \in Turns : Free(q, x) /\ m.turn # x => Free(r, x)
      BY <1>1, <1>2 DEF Free
<1>5. \A n : n # m /\ (\A i \in 1..Len(q) : q[i] # n) => \A i \in 1..Len(r) : r[i] # n
      BY <1>1, <1>2
<1> QED
      BY <1>3, <1>4, <1>5 DEF r

LEMMA OnceInit == Init => OnceInv
<1>1. Distinct(<<>>) /\ \A t \in Turns : Free(<<>>, t)
      BY DEF Distinct, Free
<1> QED
      BY <1>1 DEF Init, OnceInv, Unsaved, Generating

LEMMA OnceStep == TypeOK /\ OnceInv /\ [Next]_vars => OnceInv'
<1> SUFFICES ASSUME TypeOK, OnceInv, [Next]_vars PROVE OnceInv'
    OBVIOUS
<1> USE DEF TypeOK, table
<1>0. ASSUME UNCHANGED <<messages, base>>,
             \A t \in Turns : pc'[t] \in Unsaved => pc[t] \in Unsaved,
             \A t \in Turns : pc'[t] \in Generating \ {"closing"} =>
                 pc[t] \in Generating \ {"closing"}
      PROVE  OnceInv'
      BY <1>0 DEF OnceInv, Distinct, Free
\* A copy of the session's array is as good as the array.
<1>1. ASSUME NEW t \in Turns, NEW s \in Sessions, UNCHANGED messages,
             base' = [base EXCEPT ![t] = messages[s]], pc[t] \in Unsaved,
             pc' = [pc EXCEPT ![t] = "resolved"]
      PROVE  OnceInv'
      <2>1. \A x \in Turns : base'[x] = IF x = t THEN messages[s] ELSE base[x]
            BY <1>1
      <2>2. \A x \in Turns : pc'[x] \in Unsaved => pc[x] \in Unsaved
            BY <1>1
      <2>3. \A x \in Turns : pc'[x] \in Generating => x # t /\ pc'[x] = pc[x]
            BY <1>1 DEF Generating
      <2>4. /\ \A x \in Turns : Distinct(base'[x])
            /\ \A y \in Turns : pc'[y] \in Unsaved => \A x \in Turns : Free(base'[x], y)
            BY <2>1, <2>2 DEF OnceInv
      <2>5. \A x \in Turns : pc'[x] \in Generating \ {"closing"} =>
                \A i \in 1..Len(base'[x]) : base'[x][i] # Answer(x)
            BY <2>1, <2>3 DEF OnceInv
      <2> QED
            BY <1>1, <2>2, <2>4, <2>5 DEF OnceInv, Distinct, Free
<1>2. ASSUME NEW t \in Turns, NEW u \in Users, NEW s \in Sessions,
             Resolve(t, u, s) \/ Refuse(t, u, s) \/ Create(t, u, s)
      PROVE  OnceInv'
      <2>1. CASE Resolve(t, u, s)
            BY <1>1, <2>1 DEF Resolve, MaySend, Unsaved
      <2>2. CASE Refuse(t, u, s) \/ Create(t, u, s)
            BY <1>0, <2>2 DEF Refuse, Create, MaySend, Unsaved, Generating
      <2> QED
            BY <1>2, <2>1, <2>2
<1>3. ASSUME NEW t \in Turns, Refresh(t) PROVE OnceInv'
      <2>1. target[t] \in Sessions
            BY <1>3 DEF Refresh, InFlight
      <2> QED
            BY <1>1, <1>3, <2>1 DEF Refresh, Unsaved
<1>4. ASSUME NEW t \in Turns, SaveQuestion(t) PROVE OnceInv'
      <2> DEFINE r == Append(base[t], Question(t))
      <2>1. /\ Free(base[t], t) /\ pc[t] \in Unsaved
            /\ Question(t) \in Message /\ Question(t).turn = t /\ Question(t) # Answer(t)
            BY <1>4, MessageType DEF SaveQuestion, OnceInv, Unsaved, Question, Answer
      <2>2. \A i \in 1..Len(base[t]) : base[t][i] # Question(t) /\ base[t][i] # Answer(t)
            BY <2>1 DEF Free, Question, Answer
      <2>3. /\ Distinct(r)
            /\ \A x \in Turns : Free(base[t], x) /\ x # t => Free(r, x)
            /\ \A i \in 1..Len(r) : r[i] # Answer(t)
            <3>1. base[t] \in Seq(Message) /\ Distinct(base[t])
                  BY DEF OnceInv
            <3>2. \A x \in Turns : x # t => Question(t).turn # x
                  BY <2>1
            <3>3. \A n : n # Question(t) /\ (\A i \in 1..Len(base[t]) : base[t][i] # n) =>
                      \A i \in 1..Len(r) : r[i] # n
                  BY <2>1, <2>2, <3>1, AppendDistinct
            <3>4. /\ Distinct(r)
                  /\ \A x \in Turns : Free(base[t], x) /\ Question(t).turn # x => Free(r, x)
                  BY <2>1, <2>2, <3>1, AppendDistinct
            <3> HIDE DEF r
            <3>5. \A i \in 1..Len(r) : r[i] # Answer(t)
                  BY <2>1, <2>2, <3>3
            <3> QED
                  BY <3>2, <3>4, <3>5
      <2>4. /\ base' = [base EXCEPT ![t] = r]
            /\ messages' = [messages EXCEPT ![target[t]] = r]
            /\ pc' = [pc EXCEPT ![t] = "saved"]
            BY <1>4 DEF SaveQuestion
      <2> HIDE DEF r
      <2>5. /\ \A x \in Turns : base'[x] = IF x = t THEN r ELSE base[x]
            /\ \A s \in Sessions : messages'[s] \in {r, messages[s]}
            /\ \A x \in Turns : pc'[x] \in Unsaved => x # t /\ pc[x] \in Unsaved
            /\ \A x \in Turns : x # t => pc'[x] = pc[x]
            BY <2>4 DEF Unsaved
      <2>6. /\ \A s \in Sessions : Distinct(messages'[s])
            /\ \A x \in Turns : Distinct(base'[x])
            BY <2>3, <2>5 DEF OnceInv
      <2>7. \A y \in Turns : pc'[y] \in Unsaved =>
                /\ \A s \in Sessions : Free(messages'[s], y)
                /\ \A x \in Turns : Free(base'[x], y)
            BY <2>3, <2>5 DEF OnceInv
      <2>8. \A x \in Turns : pc'[x] \in Generating \ {"closing"} =>
                \A i \in 1..Len(base'[x]) : base'[x][i] # Answer(x)
            BY <2>3, <2>5 DEF OnceInv
      <2> QED
            BY <2>6, <2>7, <2>8 DEF OnceInv, Distinct, Free
<1>5. ASSUME NEW t \in Turns, Persist(t) PROVE OnceInv'
      <2> DEFINE r == Append(base[t], Answer(t))
      <2>1. /\ \A i \in 1..Len(base[t]) : base[t][i] # Answer(t)
            /\ Answer(t) \in Message /\ Answer(t).turn = t /\ pc[t] = "ended"
            BY <1>5, MessageType DEF Persist, OnceInv, Generating, Answer
      <2>2. /\ Distinct(r)
            /\ \A x \in Turns : Free(base[t], x) /\ x # t => Free(r, x)
            BY <2>1, AppendDistinct DEF OnceInv
      <2>3. /\ base' = base
            /\ messages' = [messages EXCEPT ![target[t]] = r]
            /\ pc' = [pc EXCEPT ![t] = "closing"]
            BY <1>5 DEF Persist
      <2> HIDE DEF r
      <2>4. /\ \A s \in Sessions : messages'[s] \in {r, messages[s]}
            /\ \A x \in Turns : pc'[x] \in Unsaved => x # t /\ pc[x] \in Unsaved
            /\ \A x \in Turns : pc'[x] \in Generating \ {"closing"} => pc'[x] = pc[x]
            BY <2>3 DEF Unsaved
      <2>5. \A s \in Sessions : Distinct(messages'[s])
            BY <2>2, <2>4 DEF OnceInv
      <2>6. \A y \in Turns : pc'[y] \in Unsaved => \A s \in Sessions : Free(messages'[s], y)
            BY <2>2, <2>4 DEF OnceInv
      <2> QED
            BY <2>3, <2>4, <2>5, <2>6 DEF OnceInv, Distinct, Free
<1>6. ASSUME NEW t \in Turns,
             \/ SaveQuestionFails(t) \/ Announce(t) \/ Produce(t) \/ StreamEnds(t)
             \/ SkipPersist(t) \/ Finish(t) \/ Cancel(t) \/ Leave(t)
      PROVE  OnceInv'
      BY <1>0, <1>6 DEF SaveQuestionFails, Announce, Produce, StreamEnds, SkipPersist,
                        Finish, Cancel, Leave, Unsaved, Generating
<1>7. CASE Crash
      BY <1>0, <1>7 DEF Crash, Unsaved, Generating, InFlight
<1>8. CASE (\E u \in Users, s \in Sessions : Delete(u, s)) \/ UNCHANGED vars
      BY <1>0, <1>8 DEF Delete, vars
<1> QED
      BY <1>2, <1>3, <1>4, <1>5, <1>6, <1>7, <1>8, StepCases

\* However turns overlap, crash or write stale copies, an array never holds the same
\* message twice.
THEOREM MessagesAreUnique == Spec => []NoMessageTwice
<1>1. OnceInv => NoMessageTwice
      BY DEF OnceInv, Distinct, NoMessageTwice
<1> QED
      BY <1>1, OnceInit, OnceStep, TypeCorrect, PTL DEF Spec

-------------------------------------------------------------------------------
(***************************************************************************)
(* Deletion                                                                *)
(***************************************************************************)
DeletedInv == \A s \in Sessions : deleted[s] => owner[s] # NoUser

LEMMA DeletedStep == TypeOK /\ DeletedInv /\ [Next]_vars => DeletedInv'
<1> SUFFICES ASSUME TypeOK, DeletedInv, [Next]_vars PROVE DeletedInv'
    OBVIOUS
<1> USE ChatConstants DEF TypeOK, table, DeletedInv
<1>1. ASSUME NEW t \in Turns, NEW u \in Users, NEW s \in Sessions,
             Resolve(t, u, s) \/ Refuse(t, u, s) \/ Create(t, u, s)
      PROVE  DeletedInv'
      BY <1>1 DEF Resolve, Refuse, Create
<1>2. ASSUME NEW t \in Turns,
             \/ Refresh(t) \/ SaveQuestion(t) \/ SaveQuestionFails(t) \/ Announce(t)
             \/ Produce(t) \/ StreamEnds(t) \/ Persist(t) \/ SkipPersist(t)
             \/ Finish(t) \/ Cancel(t) \/ Leave(t)
      PROVE  DeletedInv'
      BY <1>2 DEF Refresh, SaveQuestion, SaveQuestionFails, Announce, Produce, StreamEnds,
                  Persist, SkipPersist, Finish, Cancel, Leave
<1>3. ASSUME NEW u \in Users, NEW s \in Sessions, Delete(u, s) PROVE DeletedInv'
      BY <1>3 DEF Delete, CanAccess
<1>4. CASE Crash \/ UNCHANGED vars
      BY <1>4 DEF Crash, vars
<1> QED
      BY <1>1, <1>2, <1>3, <1>4, StepCases

LEMMA FrozenStep ==
    ASSUME TypeOK, DeletedInv, [Next]_vars, NEW s \in Sessions, deleted[s], Rivals(s) = {}
    PROVE  /\ deleted'[s] /\ messages'[s] = messages[s]
           /\ \A t \in Turns : target'[t] = s => pc'[t] \notin InFlight
<1> DEFINE Frozen == /\ deleted'[s] /\ messages'[s] = messages[s]
                     /\ \A t \in Turns : target'[t] = s => pc'[t] \notin InFlight
<1> USE ChatConstants DEF TypeOK, table
<1>1. \A t \in Turns : target[t] = s => pc[t] \notin InFlight
      BY DEF Rivals
<1>2. ASSUME NEW t \in Turns, NEW u \in Users, NEW r \in Sessions,
             Resolve(t, u, r) \/ Create(t, u, r)
      PROVE  Frozen
      <2>1. r # s
            BY <1>2 DEF Resolve, Create, CanAccess, DeletedInv
      <2>2. /\ UNCHANGED <<deleted, messages>> /\ target' = [target EXCEPT ![t] = r]
            /\ \A x \in Turns : x # t => pc'[x] = pc[x]
            BY <1>2 DEF Resolve, Create, Enter
      <2> QED
            BY <1>1, <2>1, <2>2
<1>3. ASSUME NEW t \in Turns, SaveQuestion(t) \/ Persist(t) PROVE Frozen
      <2>1. target[t] # s
            BY <1>1, <1>3 DEF SaveQuestion, Persist, InFlight, Generating
      <2>2. /\ UNCHANGED <<deleted, target>> /\ messages'[s] = messages[s]
            /\ \A x \in Turns : x # t => pc'[x] = pc[x]
            BY <1>3, <2>1 DEF SaveQuestion, Persist
      <2> QED
            BY <1>1, <2>1, <2>2
<1>4. ASSUME UNCHANGED <<messages, target>>, deleted'[s],
             \A t \in Turns : pc'[t] \in InFlight => pc[t] \in InFlight
      PROVE  Frozen
      BY <1>1, <1>4
<1>5. ASSUME NEW t \in Turns, NEW u \in Users, NEW r \in Sessions, Refuse(t, u, r)
      PROVE  Frozen
      BY <1>4, <1>5 DEF Refuse, InFlight, Generating
<1>6. ASSUME NEW t \in Turns,
             \/ Refresh(t) \/ SaveQuestionFails(t) \/ Announce(t) \/ Produce(t) \/ StreamEnds(t)
             \/ SkipPersist(t) \/ Finish(t) \/ Cancel(t) \/ Leave(t)
      PROVE  Frozen
      BY <1>4, <1>6 DEF Refresh, SaveQuestionFails, Announce, Produce, StreamEnds, SkipPersist,
                        Finish, Cancel, Leave, InFlight, Generating
<1>7. ASSUME NEW u \in Users, NEW r \in Sessions, Delete(u, r) PROVE Frozen
      BY <1>4, <1>7 DEF Delete
<1>8. CASE Crash
      BY <1>4, <1>8 DEF Crash, InFlight, Generating
<1>9. CASE UNCHANGED vars
      BY <1>4, <1>9 DEF vars
<1> QED
      BY <1>2, <1>3, <1>5, <1>6, <1>7, <1>8, <1>9, StepCases

\* A deleted session that no turn in flight belongs to is never written again.
THEOREM DeletedStaysDeleted == Spec => DeletedIsFrozen
<1>1. Init => DeletedInv
      BY DEF Init, DeletedInv
<1>2. TypeOK /\ DeletedInv /\ [Next]_vars =>
          [\A s \in Sessions : deleted[s] /\ Rivals(s) = {} =>
              /\ deleted'[s]
              /\ messages'[s] = messages[s]
              /\ \A t \in Turns : target'[t] = s => pc'[t] \notin InFlight]_vars
      BY FrozenStep
<1> QED
      BY <1>1, <1>2, TypeCorrect, DeletedStep, PTL DEF Spec, DeletedIsFrozen

-------------------------------------------------------------------------------
(***************************************************************************)
(* One tab: with `isStreaming` in the way there is never a second turn in  *)
(* flight, so no turn has company, and the table is a log.                 *)
(***************************************************************************)
TabInv ==
    OneTab => /\ \A t, x \in Turns : pc[t] \in InFlight /\ pc[x] \in InFlight => t = x
              /\ \A t \in Turns : pc[t] \in InFlight => alone[t]

LEMMA TabInit == Init => TabInv
BY DEF Init, TabInv, InFlight, Generating

LEMMA TabStep == TypeOK /\ TabInv /\ [Next]_vars => TabInv'
<1> SUFFICES ASSUME TypeOK, TabInv, [Next]_vars, OneTab PROVE TabInv'
    BY DEF TabInv
<1> USE DEF TypeOK, table
<1>1. ASSUME UNCHANGED alone, \A t \in Turns : pc'[t] \in InFlight => pc[t] \in InFlight
      PROVE  TabInv'
      BY <1>1 DEF TabInv
<1>2. ASSUME NEW t \in Turns, NEW u \in Users, NEW s \in Sessions,
             Resolve(t, u, s) \/ Create(t, u, s)
      PROVE  TabInv'
      <2>1. \A x \in Turns : pc[x] \notin InFlight
            BY <1>2 DEF Resolve, Create, MaySend
      <2>2. \A x \in Turns : x # t => pc'[x] = pc[x]
            BY <1>2 DEF Resolve, Create
      <2>3. Rivals(s) = {}
            BY <2>1 DEF Rivals
      <2>4. Enter(t, s)
            BY <1>2 DEF Resolve, Create
      <2>5. alone'[t]
            BY <2>3, <2>4 DEF Enter
      <2> QED
            BY <2>1, <2>2, <2>5 DEF TabInv
<1>3. ASSUME NEW t \in Turns, NEW u \in Users, NEW s \in Sessions, Refuse(t, u, s)
      PROVE  TabInv'
      BY <1>1, <1>3 DEF Refuse, InFlight, Generating
<1>4. ASSUME NEW t \in Turns,
             \/ Refresh(t) \/ SaveQuestion(t) \/ SaveQuestionFails(t) \/ Announce(t)
             \/ Produce(t) \/ StreamEnds(t) \/ Persist(t) \/ SkipPersist(t)
             \/ Finish(t) \/ Cancel(t) \/ Leave(t)
      PROVE  TabInv'
      BY <1>1, <1>4 DEF Refresh, SaveQuestion, SaveQuestionFails, Announce, Produce, StreamEnds,
         Persist, SkipPersist, Finish, Cancel, Leave, InFlight, Generating
<1>5. CASE (\E u \in Users, s \in Sessions : Delete(u, s)) \/ UNCHANGED vars
      BY <1>1, <1>5 DEF Delete, vars
<1>6. CASE Crash
      BY <1>1, <1>6 DEF Crash, InFlight, Generating
<1> QED
      BY <1>2, <1>3, <1>4, <1>5, <1>6, StepCases

\* What the turn of the tab holds is what the table holds.
LEMMA TabHolds ==
    ASSUME TypeOK, CompanyInv, TabInv, OneTab, NEW t \in Turns, pc[t] \in Holding
    PROVE  /\ target[t] \in Sessions /\ base[t] = messages[target[t]]
           /\ base[t] \in Seq(Message)
<1>1. pc[t] \in InFlight
      BY DEF Holding, InFlight, Generating
<1> QED
      BY <1>1 DEF TypeOK, CompanyInv, TabInv

\* Saving a question is asking it.
LEMMA QuestionIsAsked ==
    ASSUME TypeOK, CompanyInv, OnceInv, TabInv, OneTab, NEW t \in Turns, SaveQuestion(t)
    PROVE  Log!Ask(target[t], t)
<1>1. /\ target[t] \in Sessions /\ base[t] = messages[target[t]]
      BY TabHolds DEF SaveQuestion, Holding
<1>2. messages' = [messages EXCEPT ![target[t]] = Append(messages[target[t]], Question(t))]
      BY <1>1 DEF SaveQuestion, TypeOK
<1>3. ASSUME NEW r \in Sessions PROVE ~Log!Contains(r, Question(t))
      BY DEF SaveQuestion, OnceInv, Unsaved, Free, Log!Contains, Question
<1>4. Log!Question(t) = Question(t)
      BY DEF Log!Question, Question
<1> QED
      BY <1>2, <1>3, <1>4 DEF Log!Ask, Log!Contains

\* Saving an answer is replying.
LEMMA AnswerIsReply ==
    ASSUME TypeOK, OrderInv, CompanyInv, TabInv, OneTab, NEW t \in Turns, Persist(t)
    PROVE  Log!Reply(target[t], t)
<1>1. /\ target[t] \in Sessions /\ base[t] = messages[target[t]]
      BY TabHolds DEF Persist, Holding
<1>2. base[t] # <<>> /\ base[t][Len(base[t])] = Question(t)
      BY DEF Persist, OrderInv, Generating
<1>3. messages' = [messages EXCEPT ![target[t]] = Append(messages[target[t]], Answer(t))]
      BY <1>1 DEF Persist
<1>4. Log!Question(t) = Question(t) /\ Log!Answer(t) = Answer(t)
      BY DEF Log!Question, Question, Log!Answer, Answer
<1> QED
      BY <1>1, <1>2, <1>3, <1>4 DEF Log!Reply

LEMMA LogStep ==
    TypeOK /\ OrderInv /\ CompanyInv /\ OnceInv /\ TabInv /\ OneTab /\ [Next]_vars =>
        [Log!LogNext]_messages
<1> SUFFICES ASSUME TypeOK, OrderInv, CompanyInv, OnceInv, TabInv, OneTab, [Next]_vars
             PROVE  Log!LogNext \/ UNCHANGED messages
    OBVIOUS
<1>1. ASSUME NEW t \in Turns, SaveQuestion(t) PROVE Log!LogNext
      BY <1>1, QuestionIsAsked, TabHolds DEF SaveQuestion, Holding, Log!LogNext
<1>2. ASSUME NEW t \in Turns, Persist(t) PROVE Log!LogNext
      BY <1>2, AnswerIsReply, TabHolds DEF Persist, Holding, Log!LogNext
<1>3. CASE UNCHANGED vars
      BY <1>3 DEF vars
<1> QED
      BY <1>1, <1>2, <1>3, StepCases DEF Resolve, Refuse, Create, Refresh, SaveQuestionFails,
         Announce, Produce, StreamEnds, SkipPersist, Finish, Cancel, Leave, Delete, Crash, table

\* One tab that waits for `done` before it sends again sees what a session promises: every
\* step of the server, a restart or a delete among them, logs a question, logs the answer
\* right behind its question, or leaves the log alone.
THEOREM OneTabSeesALog ==
    ASSUME OneTab
    PROVE  Spec => ImplementsChatLog
<1>1. Init => Log!LogInit
      BY DEF Init, Log!LogInit
<1>2. Init /\ [][Next]_vars => []OrderInv /\ []CompanyInv /\ []OnceInv /\ []TabInv /\ []TypeOK
      BY OrderInit, OrderStep, CompanyInit, CompanyStep, OnceInit, OnceStep, TabInit, TabStep,
         TypeCorrect, PTL DEF Spec
<1>3. TypeOK /\ OrderInv /\ CompanyInv /\ OnceInv /\ TabInv /\ [Next]_vars => [Log!LogNext]_messages
      BY LogStep
<1> QED
      BY <1>1, <1>2, <1>3, PTL DEF Spec, ImplementsChatLog, Log!LogSpec
===============================================================================

----------------------------- MODULE ChatSessions -----------------------------
(***************************************************************************)
(* Chat sessions: routers/chat.py and routers/sessions.py over the table   *)
(* `sessions`.  Every turn runs as its own coroutine and reads the whole   *)
(* `messages` array once, when the session is resolved; both of its writes *)
(* (the question, and after the stream the answer) replace the array with  *)
(* that copy plus one entry.  An action is the code between two awaits at  *)
(* which the database or the client can be seen by another coroutine.      *)
(***************************************************************************)
EXTENDS ChatMessages

CONSTANTS
    Sessions,       \* session ids (uuid4)
    Users,          \* authenticated user ids (oid)
    NoUser,         \* owner of a session id that has no row yet
    NoSession,      \* target of a turn that has not reached a session
    OneTab          \* TRUE: one browser tab that waits for `done` before it sends again

ASSUME ChatConstants ==
    /\ NoUser \notin Users
    /\ NoSession \notin Sessions
    /\ OneTab \in BOOLEAN

VARIABLES
    owner,          \* sessions.user_id
    deleted,        \* sessions.deleted_at is set
    messages,       \* sessions.messages
    pc,             \* how far each turn got
    who,            \* the user a turn authenticated as
    target,         \* the session a turn resolved to
    base,           \* session.messages, later current_messages, of the coroutine
    content,        \* has_content of the turn's answer
    connected,      \* the SSE client is still there
    alone           \* history: no other turn of its session was in flight beside it

table == <<owner, deleted, messages>>
vars == <<owner, deleted, messages, pc, who, target, base, content, connected, alone>>

\* The generator runs from `saved` on; before that the request handler does.
Generating == {"saved", "streaming", "ended", "closing"}
InFlight   == {"created", "resolved"} \cup Generating
Terminal   == {"refused", "failed", "done", "cut"}
Phase      == {"idle"} \cup InFlight \cup Terminal

TypeOK ==
    /\ owner     \in [Sessions -> Users \cup {NoUser}]
    /\ deleted   \in [Sessions -> BOOLEAN]
    /\ messages  \in [Sessions -> Seq(Message)]
    /\ pc        \in [Turns -> Phase]
    /\ who       \in [Turns -> Users \cup {NoUser}]
    /\ target    \in [Turns -> Sessions \cup {NoSession}]
    /\ base      \in [Turns -> Seq(Message)]
    /\ content   \in [Turns -> BOOLEAN]
    /\ connected \in [Turns -> BOOLEAN]
    /\ alone     \in [Turns -> BOOLEAN]
    /\ \A t \in Turns : pc[t] \in InFlight => target[t] \in Sessions

Init ==
    /\ owner     = [s \in Sessions |-> NoUser]
    /\ deleted   = [s \in Sessions |-> FALSE]
    /\ messages  = [s \in Sessions |-> <<>>]
    /\ pc        = [t \in Turns |-> "idle"]
    /\ who       = [t \in Turns |-> NoUser]
    /\ target    = [t \in Turns |-> NoSession]
    /\ base      = [t \in Turns |-> <<>>]
    /\ content   = [t \in Turns |-> FALSE]
    /\ connected = [t \in Turns |-> TRUE]
    /\ alone     = [t \in Turns |-> TRUE]

\* Faulty variants of the access check, for the mutation checks.
CanAccessAnyUser(u, s)    == owner[s] # NoUser /\ ~deleted[s]
CanAccessDeletedToo(u, s) == owner[s] = u

\* require_session_access: the row exists, is the caller's and is not deleted.
CanAccess(u, s) == owner[s] = u /\ ~deleted[s]

\* Faulty variant: no `isStreaming` guard.
MaySendAnytime(t) == pc[t] = "idle"

\* useChat.sendMessage returns early while `isStreaming`.
MaySend(t) ==
    /\ pc[t] = "idle"
    /\ OneTab => \A x \in Turns : pc[x] \notin InFlight

Rivals(s) == {x \in Turns : pc[x] \in InFlight /\ target[x] = s}

\* Faulty variant: the session id is not kept for the generator.
EnterForgetful(t, s) == UNCHANGED <<target, alone>>

\* The turn keeps the session (session_id); the rest is bookkeeping for `alone`.
Enter(t, s) ==
    /\ target' = [target EXCEPT ![t] = s]
    /\ alone'  = [x \in Turns |-> IF x = t THEN Rivals(s) = {}
                                  ELSE alone[x] /\ x \notin Rivals(s)]

-------------------------------------------------------------------------------
(***************************************************************************)
(* _resolve_session                                                        *)
(***************************************************************************)

\* An existing session: one SELECT, and the array it returns is kept.
Resolve(t, u, s) ==
    /\ MaySend(t)
    /\ CanAccess(u, s)
    /\ Enter(t, s)
    /\ pc'   = [pc EXCEPT ![t] = "resolved"]
    /\ who'  = [who EXCEPT ![t] = u]
    /\ base' = [base EXCEPT ![t] = messages[s]]
    /\ UNCHANGED <<table, content, connected>>

\* 404 for an unknown id, another user's session or a deleted one.
Refuse(t, u, s) ==
    /\ MaySend(t)
    /\ ~CanAccess(u, s)
    /\ pc'  = [pc EXCEPT ![t] = "refused"]
    /\ who' = [who EXCEPT ![t] = u]
    /\ UNCHANGED <<table, target, base, content, connected, alone>>

\* No session_id: insert an empty session and commit it on its own.
Create(t, u, s) ==
    /\ MaySend(t)
    /\ owner[s] = NoUser
    /\ owner' = [owner EXCEPT ![s] = u]
    /\ Enter(t, s)
    /\ pc'  = [pc EXCEPT ![t] = "created"]
    /\ who' = [who EXCEPT ![t] = u]
    /\ UNCHANGED <<deleted, messages, base, content, connected>>

\* db.refresh: the committed row is already visible to others and is read again.
Refresh(t) ==
    /\ pc[t] = "created"
    /\ pc'   = [pc EXCEPT ![t] = "resolved"]
    /\ base' = [base EXCEPT ![t] = messages[target[t]]]
    /\ UNCHANGED <<table, who, target, content, connected, alone>>

(***************************************************************************)
(* chat: save the question                                                 *)
(***************************************************************************)

\* Faulty variant: current_messages is taken before the question is added.
SaveQuestionStaleCopy(t) ==
    /\ pc[t] = "resolved"
    /\ pc'       = [pc EXCEPT ![t] = "saved"]
    /\ messages' = [messages EXCEPT ![target[t]] = Append(base[t], Question(t))]
    /\ UNCHANGED <<owner, deleted, who, target, base, content, connected, alone>>

\* session.messages = session.messages + [question]; commit.  Only the changed
\* columns are in the UPDATE, so a concurrent deleted_at survives.
SaveQuestion(t) ==
    /\ pc[t] = "resolved"
    /\ pc'       = [pc EXCEPT ![t] = "saved"]
    /\ base'     = [base EXCEPT ![t] = Append(@, Question(t))]
    /\ messages' = [messages EXCEPT ![target[t]] = base'[t]]
    /\ UNCHANGED <<owner, deleted, who, target, content, connected, alone>>

\* The commit raises: the request is answered with a 500 and nothing is saved.
SaveQuestionFails(t) ==
    /\ pc[t] = "resolved"
    /\ pc' = [pc EXCEPT ![t] = "failed"]
    /\ UNCHANGED <<table, who, target, base, content, connected, alone>>

(***************************************************************************)
(* event_generator                                                         *)
(***************************************************************************)

\* The `meta` event tells the client the session id and the answer's id.
Announce(t) ==
    /\ pc[t] = "saved"
    /\ pc' = [pc EXCEPT ![t] = "streaming"]
    /\ UNCHANGED <<table, who, target, base, content, connected, alone>>

\* A model chunk, an SQL block, a map block or a follow-up question.
Produce(t) ==
    /\ pc[t] = "streaming"
    /\ ~content[t]
    /\ content' = [content EXCEPT ![t] = TRUE]
    /\ UNCHANGED <<table, pc, who, target, base, connected, alone>>

\* The workflow is exhausted, raises (an `error` event follows), or the client
\* is found gone after an event and the loop is left: all go on to the save.
StreamEnds(t) ==
    /\ pc[t] = "streaming"
    /\ pc' = [pc EXCEPT ![t] = "ended"]
    /\ UNCHANGED <<table, who, target, base, content, connected, alone>>

\* Faulty variants: the answer goes to the array as it is now, and the question
\* is added once more with the answer.
PersistReread(t) ==
    /\ pc[t] = "ended"
    /\ content[t]
    /\ messages' = [messages EXCEPT ![target[t]] = Append(@, Answer(t))]
    /\ pc' = [pc EXCEPT ![t] = "closing"]
    /\ UNCHANGED <<owner, deleted, who, target, base, content, connected, alone>>

PersistWholeTurn(t) ==
    /\ pc[t] = "ended"
    /\ content[t]
    /\ messages' = [messages EXCEPT ![target[t]] = base[t] \o <<Question(t), Answer(t)>>]
    /\ pc' = [pc EXCEPT ![t] = "closing"]
    /\ UNCHANGED <<owner, deleted, who, target, base, content, connected, alone>>

\* The answer is appended to the array captured when the question was saved.
\* No look at deleted_at: only the existence of the row is checked.
Persist(t) ==
    /\ pc[t] = "ended"
    /\ content[t]
    /\ messages' = [messages EXCEPT ![target[t]] = Append(base[t], Answer(t))]
    /\ pc' = [pc EXCEPT ![t] = "closing"]
    /\ UNCHANGED <<owner, deleted, who, target, base, content, connected, alone>>

\* Faulty variant: a turn without content is never closed.
SkipPersistOnFailureOnly(t) ==
    /\ pc[t] = "ended"
    /\ content[t]
    /\ pc' = [pc EXCEPT ![t] = "closing"]
    /\ UNCHANGED <<table, who, target, base, content, connected, alone>>

\* Nothing of value was produced, or the save failed and was only logged.
SkipPersist(t) ==
    /\ pc[t] = "ended"
    /\ pc' = [pc EXCEPT ![t] = "closing"]
    /\ UNCHANGED <<table, who, target, base, content, connected, alone>>

\* The `done` event.
Finish(t) ==
    /\ pc[t] = "closing"
    /\ pc' = [pc EXCEPT ![t] = "done"]
    /\ UNCHANGED <<table, who, target, base, content, connected, alone>>

\* sse_starlette cancels the generator of a client that left; CancelledError is
\* not an Exception, so the save is skipped.
Cancel(t) ==
    /\ ~connected[t]
    /\ pc[t] \in Generating
    /\ pc' = [pc EXCEPT ![t] = "cut"]
    /\ UNCHANGED <<table, who, target, base, content, connected, alone>>

(***************************************************************************)
(* Clients and the environment                                             *)
(***************************************************************************)

\* A reload, a closed tab or a dropped connection.
Leave(t) ==
    /\ ~OneTab
    /\ connected[t]
    /\ pc[t] \in InFlight
    /\ connected' = [connected EXCEPT ![t] = FALSE]
    /\ UNCHANGED <<table, pc, who, target, base, content, alone>>

\* The backend process restarts: every coroutine is gone, the table is not.
Crash ==
    /\ \E t \in Turns : pc[t] \in InFlight
    /\ pc' = [t \in Turns |-> IF pc[t] \in InFlight THEN "cut" ELSE pc[t]]
    /\ UNCHANGED <<table, who, target, base, content, connected, alone>>

\* DELETE /api/sessions/{id}: a soft delete, also while turns are in flight.
Delete(u, s) ==
    /\ CanAccess(u, s)
    /\ deleted' = [deleted EXCEPT ![s] = TRUE]
    /\ UNCHANGED <<owner, messages, pc, who, target, base, content, connected, alone>>

Request(t) == \E u \in Users, s \in Sessions :
    Resolve(t, u, s) \/ Refuse(t, u, s) \/ Create(t, u, s)

\* What the server does for a turn by itself.
Serve(t) ==
    \/ Refresh(t) \/ SaveQuestion(t) \/ SaveQuestionFails(t)
    \/ Announce(t) \/ StreamEnds(t) \/ Persist(t) \/ SkipPersist(t) \/ Finish(t)

Next ==
    \/ \E t \in Turns : Request(t) \/ Serve(t) \/ Produce(t) \/ Cancel(t) \/ Leave(t)
    \/ \E u \in Users, s \in Sessions : Delete(u, s)
    \/ Crash

Spec == Init /\ [][Next]_vars

\* asyncio runs every ready coroutine, and the workflow's calls are bounded in
\* time; nothing makes a client send, leave or delete, or the model produce.
FairSpec == Spec /\ \A t \in Turns : WF_vars(Serve(t))

-------------------------------------------------------------------------------
(***************************************************************************)
(* Properties                                                              *)
(***************************************************************************)

\* Whatever turns overlap, crash or are cancelled, a stored answer stands
\* directly behind the question it answers: the history that get_session_detail
\* returns never shows an answer under somebody else's question.
AnswerFollowsQuestion ==
    \A s \in Sessions : \A i \in 1..Len(messages[s]) :
        messages[s][i].role = "assistant" =>
            i > 1 /\ messages[s][i - 1] = Question(messages[s][i].turn)

\* No message is stored twice: post_feedback takes the first entry with an id.
NoMessageTwice ==
    \A s \in Sessions : \A i, j \in 1..Len(messages[s]) :
        messages[s][i] = messages[s][j] => i = j

\* A session holds only turns of its owner that were sent to it, although both
\* writes go by session id alone, long after the access check.
OnlyOwnTurns ==
    \A s \in Sessions : \A i \in 1..Len(messages[s]) :
        LET t == messages[s][i].turn IN target[t] = s /\ who[t] = owner[s]

\* Once the turns that were in flight at its delete are gone, a deleted session
\* is frozen: nobody gets in again, and it neither changes nor comes back.
DeletedIsFrozen ==
    [][\A s \in Sessions : deleted[s] /\ Rivals(s) = {} =>
        /\ deleted'[s]
        /\ messages'[s] = messages[s]
        /\ \A t \in Turns : target'[t] = s => pc'[t] \notin InFlight]_vars

Keeps(s) == \A i \in 1..Len(messages[s]) :
    \E j \in 1..Len(messages'[s]) : messages'[s][j] = messages[s][i]

\* The stale copy only hurts turns that overlap: a turn that never had company
\* in its session drops nothing another turn stored there.
AloneLosesNothing ==
    [][\A t \in Turns :
        pc'[t] # pc[t] /\ alone[t] /\ target[t] \in Sessions => Keeps(target[t])]_vars

\* A stored answer stays stored, so that post_feedback finds it (the comment on
\* the save: without a stored message the buttons would answer 404).
AnswersStay ==
    [][\A s \in Sessions : \A i \in 1..Len(messages[s]) :
        messages[s][i].role = "assistant" =>
            \E j \in 1..Len(messages'[s]) : messages'[s][j] = messages[s][i]]_messages

\* One tab that waits for `done` sees the promise of a session kept.
Log == INSTANCE ChatLog WITH log <- messages
ImplementsChatLog == Log!LogSpec

\* Every accepted turn comes to an end, so the tab's `isStreaming` is released.
EveryTurnEnds == \A t \in Turns : pc[t] \in InFlight ~> pc[t] \in Terminal
===============================================================================

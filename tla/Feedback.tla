------------------------------- MODULE Feedback -------------------------------
(***************************************************************************)
(* Thumbs on an answer: routers/feedback.py, the table message_feedback,   *)
(* the downstream `user_thumbs` assessment in MLflow, and the Postgres     *)
(* advisory lock that is to serialise clicks on one (message, user).       *)
(*                                                                         *)
(* A session-level advisory lock belongs to a connection.  The handler's   *)
(* AsyncSession gives its connection back to the engine's pool at every    *)
(* commit and takes one again at its next statement, so the pool is part   *)
(* of the model.  The engine is made with SQLAlchemy's defaults: a queue   *)
(* pool hands out the connection that has been idle longest, opens one     *)
(* when none is idle (up to pool_size + max_overflow), lets a request wait *)
(* 30 seconds for one, and closes a connection that is returned when       *)
(* pool_size of them are idle already.  Closing it, or losing it, frees    *)
(* its advisory locks in Postgres.                                         *)
(***************************************************************************)
EXTENDS Naturals, Sequences, FiniteSets

CONSTANTS
    Clicks,         \* POST .../feedback requests, each made at most once
    Keys,           \* (message_id, user_id) pairs, one advisory key each
    Conns,          \* connections the pool may open (pool_size + max_overflow)
    PoolSize,       \* connections it keeps idle (pool_size)
    NoClick,
    NoConn

ASSUME FeedbackConstants ==
    /\ NoClick \notin Clicks /\ NoConn \notin Conns
    /\ IsFiniteSet(Clicks) /\ IsFiniteSet(Conns)
    /\ PoolSize \in Nat

Ratings == {"up", "down"}

VARIABLES
    idle,           \* connections waiting in the pool, longest idle first
    opened,         \* connections that are open: idle, a click's, or another request's
    dead,           \* open ones that are broken, which their next statement will notice
    holder, depth,  \* who holds a key's advisory lock, and how many times
    rowId,          \* the click whose INSERT made the feedback row, or NoClick
    rating,         \* message_feedback.rating, "none" without a row
    thumbs,         \* user_thumbs assessments on the answer's trace
    pc, key, want,  \* progress, key and body.rating of a click ("none" clears)
    conn,           \* the connection the click's AsyncSession has checked out
    existing,       \* id of the row that the SELECT returned
    seen,           \* row.rating as the request's object has it
    prior,          \* the assessment that the trace search returned
    lockedOn,       \* history: the connection on which the lock was taken
    stripped,       \* history: keys that lost the connection a click inside locked on
    met,            \* history: keys where two clicks were inside together
    missed          \* history: keys for which an MLflow sync failed or was not reached

pool  == <<idle, opened, dead>>
lock  == <<holder, depth>>
store == <<rowId, rating>>
mine  == <<existing, seen, prior>>
vars  == <<idle, opened, dead, holder, depth, rowId, rating, thumbs, pc, key, want, conn,
           existing, seen, prior, lockedOn, stripped, met, missed>>

\* Between pg_advisory_lock and pg_advisory_unlock.
Critical == {"locked", "read", "committed", "sync", "found", "unlock"}
Phase    == {"idle", "looked", "closing", "done"} \cup Critical

Inside(k) == {r \in Clicks : key[r] = k /\ pc[r] \in Critical}

Thumb == [id : Clicks, value : Ratings]

TypeOK ==
    /\ idle     \in Seq(Conns)
    /\ opened   \in SUBSET Conns
    /\ dead     \in SUBSET Conns
    /\ holder   \in [Keys -> Conns \cup {NoConn}]
    /\ depth    \in [Keys -> Nat]
    /\ rowId    \in [Keys -> Clicks \cup {NoClick}]
    /\ rating   \in [Keys -> Ratings \cup {"none"}]
    /\ thumbs   \in [Keys -> Seq(Thumb)]
    /\ pc       \in [Clicks -> Phase]
    /\ key      \in [Clicks -> Keys]
    /\ want     \in [Clicks -> Ratings \cup {"none"}]
    /\ conn     \in [Clicks -> Conns \cup {NoConn}]
    /\ existing \in [Clicks -> Clicks \cup {NoClick}]
    /\ seen     \in [Clicks -> Ratings \cup {"none"}]
    /\ prior    \in [Clicks -> Clicks \cup {NoClick}]
    /\ lockedOn \in [Clicks -> Conns \cup {NoConn}]
    /\ stripped \in SUBSET Keys
    /\ met      \in SUBSET Keys
    /\ missed   \in SUBSET Keys
    /\ \A r \in Clicks : pc[r] = "found" /\ want[r] # "none" => seen[r] \in Ratings
    /\ \A r \in Clicks : pc[r] \in {"looked", "locked", "read"} => conn[r] \in Conns

Init ==
    /\ idle = <<>> /\ opened = {} /\ dead = {}
    /\ holder = [k \in Keys |-> NoConn] /\ depth = [k \in Keys |-> 0]
    /\ rowId  = [k \in Keys |-> NoClick] /\ rating = [k \in Keys |-> "none"]
    /\ thumbs = [k \in Keys |-> <<>>]
    /\ pc = [r \in Clicks |-> "idle"]
    /\ key \in [Clicks -> Keys]
    /\ want \in [Clicks -> Ratings \cup {"none"}]
    /\ conn = [r \in Clicks |-> NoConn]
    /\ existing = [r \in Clicks |-> NoClick]
    /\ seen = [r \in Clicks |-> "none"]
    /\ prior = [r \in Clicks |-> NoClick]
    /\ lockedOn = [r \in Clicks |-> NoConn]
    /\ stripped = {} /\ met = {} /\ missed = {}

-------------------------------------------------------------------------------
(***************************************************************************)
(* The pool (SQLAlchemy) and the lock (Postgres)                           *)
(***************************************************************************)

Checkout(c) ==
    /\ \/ idle # <<>> /\ c = Head(idle) /\ idle' = Tail(idle) /\ UNCHANGED opened
       \/ idle = <<>> /\ c \in Conns \ opened /\ opened' = opened \cup {c} /\ UNCHANGED idle
    /\ UNCHANGED dead

Exhausted == idle = <<>> /\ opened = Conns

\* c is gone, and with it every advisory lock it holds.
Free(c) ==
    /\ holder' = [k \in Keys |-> IF holder[k] = c THEN NoConn ELSE holder[k]]
    /\ depth'  = [k \in Keys |-> IF holder[k] = c THEN 0 ELSE depth[k]]
    /\ stripped' = stripped \cup
           {key[x] : x \in {y \in Clicks : pc[y] \in Critical /\ lockedOn[y] = c}}

\* A broken connection is replaced, one too many is closed.
GiveBack(c) ==
    /\ dead' = dead \ {c}
    /\ IF Len(idle) < PoolSize
       THEN idle' = Append(idle, c) /\ UNCHANGED <<opened, lock, stripped>>
       ELSE opened' = opened \ {c} /\ Free(c) /\ UNCHANGED idle

Idle == {idle[i] : i \in 1..Len(idle)}

\* Any other database request takes a connection and later returns it.
ElsewhereTakes ==
    /\ \E c \in Conns : Checkout(c)
    /\ UNCHANGED <<lock, store, thumbs, pc, key, want, conn, mine, lockedOn, stripped, met,
                   missed>>

ElsewhereReturns ==
    /\ \E c \in opened \ Idle : (\A r \in Clicks : conn[r] # c) /\ GiveBack(c)
    /\ UNCHANGED <<store, thumbs, pc, key, want, conn, mine, lockedOn, met, missed>>

Elsewhere == ElsewhereTakes \/ ElsewhereReturns

\* A connection breaks.  When a request notices, the pool replaces its idle ones
\* before they are used again.
Break ==
    /\ \E c \in opened \ dead :
          /\ Free(c)
          /\ \/ dead' = dead \cup {c}
             \/ c \in Idle /\ UNCHANGED dead
    /\ UNCHANGED <<idle, opened, store, thumbs, pc, key, want, conn, mine, lockedOn, met,
                   missed>>

\* Faulty variant: pg_try_advisory_lock with its answer ignored.
AcquireTry(k, c) ==
    IF holder[k] \in {NoConn, c}
    THEN /\ holder' = [holder EXCEPT ![k] = c]
         /\ depth'  = [depth EXCEPT ![k] = @ + 1]
    ELSE UNCHANGED lock

\* pg_advisory_lock waits for other connections, and nests on its own.
Acquire(k, c) ==
    /\ holder[k] \in {NoConn, c}
    /\ holder' = [holder EXCEPT ![k] = c]
    /\ depth'  = [depth EXCEPT ![k] = @ + 1]

\* pg_advisory_unlock on a connection that does not hold the lock only warns.
Release(k, c) ==
    IF holder[k] = c
    THEN /\ depth'  = [depth EXCEPT ![k] = @ - 1]
         /\ holder' = [holder EXCEPT ![k] = IF depth[k] = 1 THEN NoConn ELSE c]
    ELSE UNCHANGED lock

(***************************************************************************)
(* post_feedback                                                           *)
(***************************************************************************)

\* db.get(Session): the AsyncSession takes its first connection.
Look(r) ==
    /\ pc[r] = "idle"
    /\ \E c \in Conns : Checkout(c) /\ conn' = [conn EXCEPT ![r] = c]
    /\ pc' = [pc EXCEPT ![r] = "looked"]
    /\ UNCHANGED <<lock, store, thumbs, key, want, mine, lockedOn, stripped, met, missed>>

\* 404: no access to the session, or no assistant message with this id; or the
\* database fails before the lock is taken.
Refuse(r) ==
    /\ pc[r] = "looked"
    /\ GiveBack(conn[r])
    /\ conn' = [conn EXCEPT ![r] = NoConn]
    /\ pc' = [pc EXCEPT ![r] = "done"]
    /\ UNCHANGED <<store, thumbs, key, want, mine, lockedOn, met, missed>>

\* The next statement of the click finds its connection in order.
Live(r) == conn[r] \notin dead

Lock(r) ==
    /\ pc[r] = "looked" /\ Live(r)
    /\ Acquire(key[r], conn[r])
    /\ lockedOn' = [lockedOn EXCEPT ![r] = conn[r]]
    /\ met' = IF Inside(key[r]) = {} THEN met ELSE met \cup {key[r]}
    /\ pc' = [pc EXCEPT ![r] = "locked"]
    /\ UNCHANGED <<pool, store, thumbs, key, want, conn, mine, stripped, missed>>

(***************************************************************************)
(* _apply_feedback                                                         *)
(***************************************************************************)

Read(r) ==
    /\ pc[r] = "locked" /\ Live(r)
    /\ existing' = [existing EXCEPT ![r] = rowId[key[r]]]
    /\ seen' = [seen EXCEPT ![r] = rating[key[r]]]
    /\ pc' = [pc EXCEPT ![r] = "read"]
    /\ UNCHANGED <<pool, lock, store, thumbs, key, want, conn, prior, lockedOn, stripped,
                   met, missed>>

\* Clearing a rating that is not there: no commit, so the connection is kept.
ClearNothing(r) ==
    /\ pc[r] = "read" /\ want[r] = "none" /\ existing[r] = NoClick
    /\ pc' = [pc EXCEPT ![r] = "sync"]
    /\ UNCHANGED <<pool, lock, store, thumbs, key, want, conn, mine, lockedOn, stripped,
                   met, missed>>

\* Faulty variant: MLflow is not told of a cleared rating.
ClearRowOnly(r) ==
    /\ pc[r] = "read" /\ want[r] = "none" /\ existing[r] # NoClick
    /\ rowId'  = [rowId EXCEPT ![key[r]] = NoClick]
    /\ rating' = [rating EXCEPT ![key[r]] = "none"]
    /\ GiveBack(conn[r])
    /\ conn' = [conn EXCEPT ![r] = NoConn]
    /\ pc' = [pc EXCEPT ![r] = "unlock"]
    /\ UNCHANGED <<thumbs, key, want, mine, lockedOn, met, missed>>

\* DELETE by id and commit; a row that is gone meanwhile is only warned about.
Cleared(r) ==
    IF rowId[key[r]] = existing[r]
    THEN /\ rowId'  = [rowId EXCEPT ![key[r]] = NoClick]
         /\ rating' = [rating EXCEPT ![key[r]] = "none"]
    ELSE UNCHANGED store

ClearRow(r) ==
    /\ pc[r] = "read" /\ want[r] = "none" /\ existing[r] # NoClick /\ Live(r)
    /\ Cleared(r)
    /\ GiveBack(conn[r])
    /\ conn' = [conn EXCEPT ![r] = NoConn]
    /\ pc' = [pc EXCEPT ![r] = "sync"]
    /\ UNCHANGED <<thumbs, key, want, mine, lockedOn, met, missed>>

\* Faulty variant: a transaction-level lock, gone with the commit.
StoreXactLock(r) ==
    /\ pc[r] = "read" /\ want[r] # "none" /\ existing[r] = rowId[key[r]]
    /\ rowId'  = [rowId EXCEPT ![key[r]] = IF existing[r] = NoClick THEN r ELSE @]
    /\ rating' = [rating EXCEPT ![key[r]] = want[r]]
    /\ Release(key[r], conn[r])
    /\ idle' = Append(idle, conn[r]) /\ UNCHANGED <<opened, dead>>
    /\ conn' = [conn EXCEPT ![r] = NoConn]
    /\ pc' = [pc EXCEPT ![r] = "committed"]
    /\ UNCHANGED <<thumbs, key, want, mine, lockedOn, stripped, met, missed>>

\* The rating that was read is the one that is asked for: no UPDATE of it.
Unchanged(r) == existing[r] # NoClick /\ seen[r] = want[r]

\* INSERT, or UPDATE of the row that was read if it differs, and commit.  The
\* flush would raise if another click had inserted or deleted the row since: that
\* it cannot is RowIsAsRead.
Stored(r) ==
    /\ existing[r] = rowId[key[r]]
    /\ rowId'  = [rowId EXCEPT ![key[r]] = IF existing[r] = NoClick THEN r ELSE @]
    /\ rating' = [rating EXCEPT ![key[r]] = IF Unchanged(r) THEN @ ELSE want[r]]

Store(r) ==
    /\ pc[r] = "read" /\ want[r] # "none" /\ Live(r)
    /\ Stored(r)
    /\ GiveBack(conn[r])
    /\ conn' = [conn EXCEPT ![r] = NoConn]
    /\ pc' = [pc EXCEPT ![r] = "committed"]
    /\ UNCHANGED <<thumbs, key, want, mine, lockedOn, met, missed>>

\* The SELECT, the flush or the commit raises.  The session's transaction is
\* broken then, so the release in `finally` raises as well and is swallowed: the
\* lock stays on the connection.
StatementFails(r) ==
    /\ \/ pc[r] = "locked"
       \/ pc[r] = "read" /\ (want[r] # "none" \/ existing[r] # NoClick)
    /\ missed' = missed \cup {key[r]}
    /\ pc' = [pc EXCEPT ![r] = "closing"]
    /\ UNCHANGED <<pool, lock, store, thumbs, key, want, conn, mine, lockedOn, stripped, met>>

\* The connection breaks after Postgres has committed and before it has said so.
CommitLost(r) ==
    /\ pc[r] = "read" /\ Live(r)
    /\ \/ want[r] = "none" /\ existing[r] # NoClick /\ Cleared(r)
       \/ want[r] # "none" /\ Stored(r)
    /\ Free(conn[r])
    /\ dead' = dead \cup {conn[r]}
    /\ missed' = missed \cup {key[r]}
    /\ pc' = [pc EXCEPT ![r] = "closing"]
    /\ UNCHANGED <<idle, opened, thumbs, key, want, conn, mine, lockedOn, met>>

\* Faulty variant: the row is taken to be still there.
RefreshUnchecked(r) ==
    /\ pc[r] = "committed"
    /\ \E c \in Conns : Checkout(c) /\ conn' = [conn EXCEPT ![r] = c]
    /\ pc' = [pc EXCEPT ![r] = "sync"]
    /\ seen' = [seen EXCEPT ![r] = rating[key[r]]]
    /\ UNCHANGED <<lock, store, thumbs, key, want, existing, prior, lockedOn, stripped,
                   met, missed>>

OwnRow(r) == IF existing[r] = NoClick THEN r ELSE existing[r]

\* db.refresh(row): a connection again, perhaps another one.
Refresh(r) ==
    /\ pc[r] = "committed"
    /\ \E c \in Conns \ dead : Checkout(c) /\ conn' = [conn EXCEPT ![r] = c]
    /\ IF rowId[key[r]] # OwnRow(r)
       THEN /\ pc' = [pc EXCEPT ![r] = "unlock"]      \* the row is gone: it raises
            /\ UNCHANGED seen
       ELSE /\ pc' = [pc EXCEPT ![r] = "sync"]
            /\ seen' = [seen EXCEPT ![r] = rating[key[r]]]
    /\ UNCHANGED <<lock, store, thumbs, key, want, existing, prior, lockedOn, stripped,
                   met, missed>>

\* The refresh raises: again the release fails with it.
RefreshFails(r) ==
    /\ pc[r] = "committed"
    /\ \E c \in Conns : Checkout(c) /\ conn' = [conn EXCEPT ![r] = c]
    /\ missed' = missed \cup {key[r]}
    /\ pc' = [pc EXCEPT ![r] = "closing"]
    /\ UNCHANGED <<lock, store, thumbs, key, want, mine, lockedOn, stripped, met>>

\* Faulty variant: the release waits until it gets a connection.
PoolTimeoutAtRefresh(r) ==
    /\ pc[r] = "committed" /\ Exhausted
    /\ missed' = missed \cup {key[r]}
    /\ pc' = [pc EXCEPT ![r] = "unlock"]
    /\ UNCHANGED <<pool, lock, store, thumbs, key, want, conn, mine, lockedOn, stripped, met>>

\* No connection within 30 seconds, for the refresh or for the release.
PoolTimeout(r) ==
    /\ pc[r] \in {"committed", "unlock"} /\ conn[r] = NoConn /\ Exhausted
    /\ IF pc[r] = "committed"
       THEN missed' = missed \cup {key[r]} /\ pc' = [pc EXCEPT ![r] = "unlock"]
       ELSE UNCHANGED missed /\ pc' = [pc EXCEPT ![r] = "closing"]
    /\ UNCHANGED <<pool, lock, store, thumbs, key, want, conn, mine, lockedOn, stripped, met>>

(***************************************************************************)
(* log_feedback_to_mlflow, in a worker thread                              *)
(***************************************************************************)

\* Faulty variant: no look at the assessments that are already there.
SearchNothing(r) ==
    /\ pc[r] = "sync"
    /\ prior' = [prior EXCEPT ![r] = NoClick]
    /\ pc' = [pc EXCEPT ![r] = "found"]
    /\ UNCHANGED <<pool, lock, store, thumbs, key, want, conn, existing, seen, lockedOn,
                   stripped, met, missed>>

\* search_traces and _find_user_thumbs: the first assessment of this user.
Search(r) ==
    /\ pc[r] = "sync"
    /\ prior' = [prior EXCEPT ![r] =
           IF thumbs[key[r]] = <<>> THEN NoClick ELSE thumbs[key[r]][1].id]
    /\ pc' = [pc EXCEPT ![r] = "found"]
    /\ UNCHANGED <<pool, lock, store, thumbs, key, want, conn, existing, seen, lockedOn,
                   stripped, met, missed>>

WithId(k, id) == {i \in 1..Len(thumbs[k]) : thumbs[k][i].id = id}

\* The assessments of k after the call: log, update in place or delete.
Without(q, i) == SubSeq(q, 1, i - 1) \o SubSeq(q, i + 1, Len(q))
Synced(r) ==
    LET k == key[r]
        q == thumbs[k]
    IN  CASE prior[r] = NoClick /\ want[r] = "none" -> {q}
          [] prior[r] = NoClick /\ want[r] # "none" ->
               {Append(q, [id |-> r, value |-> seen[r]])}
          [] prior[r] # NoClick /\ WithId(k, prior[r]) = {} -> {q}
          [] prior[r] # NoClick /\ want[r] = "none" ->
               {Without(q, i) : i \in WithId(k, prior[r])}
          [] OTHER ->
               {[q EXCEPT ![i].value = seen[r]] : i \in WithId(k, prior[r])}

Write(r) ==
    /\ pc[r] = "found"
    /\ \E q \in Synced(r) : thumbs' = [thumbs EXCEPT ![key[r]] = q]
    /\ pc' = [pc EXCEPT ![r] = "unlock"]
    /\ UNCHANGED <<pool, lock, store, key, want, conn, mine, lockedOn, stripped, met, missed>>

\* MLflow is disabled, has no such trace or is unreachable: swallowed.
SyncFails(r) ==
    /\ pc[r] \in {"sync", "found"}
    /\ missed' = missed \cup {key[r]}
    /\ pc' = [pc EXCEPT ![r] = "unlock"]
    /\ UNCHANGED <<pool, lock, store, thumbs, key, want, conn, mine, lockedOn, stripped, met>>

(***************************************************************************)
(* finally, and the end of get_session                                     *)
(***************************************************************************)

\* The release runs on whatever connection the session has, or now gets.
OnItsConnection(r, c) ==
    \/ c = conn[r] /\ UNCHANGED <<pool, conn>>
    \/ conn[r] = NoConn /\ Checkout(c) /\ conn' = [conn EXCEPT ![r] = c]

Unlock(r) ==
    /\ pc[r] = "unlock"
    /\ \E c \in Conns \ dead : OnItsConnection(r, c) /\ Release(key[r], c)
    /\ pc' = [pc EXCEPT ![r] = "closing"]
    /\ UNCHANGED <<store, thumbs, key, want, mine, lockedOn, stripped, met, missed>>

\* The release raises, which is logged and swallowed.
UnlockFails(r) ==
    /\ pc[r] = "unlock"
    /\ \E c \in Conns : OnItsConnection(r, c)
    /\ pc' = [pc EXCEPT ![r] = "closing"]
    /\ UNCHANGED <<lock, store, thumbs, key, want, mine, lockedOn, stripped, met, missed>>

\* The request's AsyncSession is closed: the pool rolls back, which frees no
\* session-level lock.  The handler's variables are gone.
Close(r) ==
    /\ pc[r] = "closing"
    /\ IF conn[r] = NoConn THEN UNCHANGED <<pool, lock, stripped>> ELSE GiveBack(conn[r])
    /\ conn' = [conn EXCEPT ![r] = NoConn]
    /\ existing' = [existing EXCEPT ![r] = NoClick] /\ prior' = [prior EXCEPT ![r] = NoClick]
    /\ seen' = [seen EXCEPT ![r] = "none"] /\ lockedOn' = [lockedOn EXCEPT ![r] = NoConn]
    /\ pc' = [pc EXCEPT ![r] = "done"]
    /\ UNCHANGED <<store, thumbs, key, want, met, missed>>

\* The backend restarts: Postgres frees the locks of every closed connection.
Restart ==
    /\ opened # {}
    /\ idle' = <<>> /\ opened' = {} /\ dead' = {}
    /\ holder' = [k \in Keys |-> NoConn] /\ depth' = [k \in Keys |-> 0]
    /\ pc' = [r \in Clicks |-> IF pc[r] = "idle" THEN "idle" ELSE "done"]
    /\ conn' = [r \in Clicks |-> NoConn]
    /\ existing' = [r \in Clicks |-> NoClick] /\ prior' = [r \in Clicks |-> NoClick]
    /\ seen' = [r \in Clicks |-> "none"] /\ lockedOn' = [r \in Clicks |-> NoConn]
    /\ missed' = missed \cup {k \in Keys : Inside(k) # {}}
    /\ UNCHANGED <<store, thumbs, key, want, stripped, met>>

\* What a click inside does next, as planned or not.
Serve(r) ==
    \/ Read(r) \/ ClearNothing(r) \/ ClearRow(r) \/ Store(r) \/ Refresh(r)
    \/ Search(r) \/ Write(r) \/ Unlock(r)

Trouble(r) ==
    \/ StatementFails(r) \/ CommitLost(r) \/ RefreshFails(r) \/ PoolTimeout(r)
    \/ SyncFails(r) \/ UnlockFails(r)

Next ==
    \/ \E r \in Clicks : Look(r) \/ Refuse(r) \/ Lock(r) \/ Serve(r) \/ Trouble(r) \/ Close(r)
    \/ Elsewhere \/ Break
    \/ Restart

\* Nothing inside waits without end: a statement and an MLflow call answer or
\* raise, and the pool's queue has its timeout.  pg_advisory_lock has none.
Fairness == \A r \in Clicks : WF_vars(Serve(r) \/ Trouble(r))

Spec == Init /\ [][Next]_vars /\ Fairness

-------------------------------------------------------------------------------
(***************************************************************************)
(* Properties                                                              *)
(***************************************************************************)

\* What the lock still gives although the unlock may run elsewhere: unless the
\* pool closed or lost a connection under a click, nobody inside loses it.  The key
\* stays locked on the connection it was taken on, at least once per click inside,
\* so an outsider's unlock never lets a third in.
InsideIsCovered ==
    \A r \in Clicks : pc[r] \in Critical /\ key[r] \notin stripped =>
        /\ holder[key[r]] = lockedOn[r]
        /\ Cardinality(Inside(key[r])) <= depth[key[r]]

\* Two clicks that are inside together share one connection's lock: as long as no
\* connection is closed under a click the lock fails only by nesting on one that was
\* given back, never across two.
TogetherByNesting ==
    \A r, x \in Clicks :
        pc[r] \in Critical /\ pc[x] \in Critical /\ key[r] = key[x] /\ key[r] \notin stripped
        => lockedOn[r] = lockedOn[x]

\* Whatever happens to the lock, no click's row is changed between its SELECT and
\* its commit: the click keeps the connection it locked on until then, and a click
\* that nests needs that connection.  The unique constraint is never hit.
RowIsAsRead ==
    \A r \in Clicks : pc[r] = "read" /\ Live(r) =>
        existing[r] = rowId[key[r]] /\ seen[r] = rating[key[r]]

\* Each (trace, user) carries at most one assessment as long as no two clicks
\* on it were ever inside together.
OneThumbUnlessMet == \A k \in Keys : k \notin met => Len(thumbs[k]) <= 1

\* Postgres is the source of truth and MLflow follows it: once nobody is inside,
\* the assessment is the row's rating, unless clicks met or a sync was missed.
MLflowFollows ==
    \A k \in Keys : k \notin met \cup missed /\ Inside(k) = {} =>
        IF rating[k] = "none" THEN thumbs[k] = <<>>
        ELSE Len(thumbs[k]) = 1 /\ thumbs[k][1].value = rating[k]

\* A click inside comes out again, although it needs a connection twice more while
\* the clicks that wait for its lock, and other requests, may hold every one.
InsideEnds == \A r \in Clicks : pc[r] \in Critical ~> pc[r] \notin Critical

\* Each (trace, user) carries at most one user_thumbs assessment (the promise in
\* the docstring of mlflow_monitoring/feedback.py).
OneThumb == \A k \in Keys : Len(thumbs[k]) <= 1
===============================================================================

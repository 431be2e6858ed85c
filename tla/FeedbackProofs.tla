---------------------------- MODULE FeedbackProofs ----------------------------
(***************************************************************************)
(* Theorems about Feedback, for any numbers of clicks, keys and            *)
(* connections.                                                            *)
(***************************************************************************)
EXTENDS Feedback, FiniteSetTheorems, SequenceTheorems, TLAPS

\* The steps of a click that is inside and stays there.
Inner(r) ==
    \/ Read(r) \/ ClearNothing(r) \/ ClearRow(r) \/ Store(r) \/ Refresh(r)
    \/ Search(r) \/ Write(r)

\* What the click missed by: MLflow does not hear of it.
Missing(r) ==
    \/ SyncFails(r) \/ StatementFails(r) \/ CommitLost(r) \/ RefreshFails(r)
    \/ PoolTimeout(r) /\ pc[r] = "committed"

\* The end of the section: the release, or its failure.
Ending(r) == Unlock(r) \/ UnlockFails(r) \/ (PoolTimeout(r) /\ pc[r] = "unlock")

\* The steps that happen outside, with the pool only.
Outer(r) == Look(r) \/ Refuse(r) \/ Close(r)

LEMMA StepCases ==
    ASSUME Next
    PROVE  \/ \E r \in Clicks : Inner(r) \/ Missing(r) \/ Ending(r) \/ Outer(r) \/ Lock(r)
           \/ Elsewhere \/ Break \/ Restart
<1>1. \A r \in Clicks : PoolTimeout(r) => pc[r] = "committed" \/ pc[r] = "unlock"
      BY DEF PoolTimeout
<1> QED
      BY <1>1 DEF Next, Serve, Trouble, Inner, Missing, Ending, Outer

-------------------------------------------------------------------------------
(***************************************************************************)
(* The pool: a connection is idle or checked out, and never twice          *)
(***************************************************************************)
PoolInv ==
    /\ \A r \in Clicks : conn[r] # NoConn =>
          /\ conn[r] \in opened
          /\ \A x \in Clicks : conn[x] = conn[r] => x = r
          /\ \A i \in 1..Len(idle) : idle[i] # conn[r]
    /\ \A i, j \in 1..Len(idle) : idle[i] = idle[j] => i = j
    /\ \A i \in 1..Len(idle) : idle[i] \in opened

PoolTypes ==
    /\ idle \in Seq(Conns) /\ opened \in SUBSET Conns /\ dead \in SUBSET Conns
    /\ conn \in [Clicks -> Conns \cup {NoConn}]

\* A connection that is checked out belonged to nobody.
LEMMA Taken ==
    ASSUME PoolTypes, PoolInv, NEW c \in Conns, Checkout(c)
    PROVE  /\ idle' \in Seq(Conns) /\ opened' \in SUBSET Conns
           /\ opened \subseteq opened' /\ c \in opened' /\ dead' = dead
           /\ \A r \in Clicks : conn[r] # c
           /\ \A i \in 1..Len(idle') : idle'[i] # c
           /\ \A i \in 1..Len(idle') : i + 1 \in 1..Len(idle) /\ idle'[i] = idle[i + 1]
           /\ c \notin opened \/ (idle # <<>> /\ opened' = opened)
<1> USE DEF PoolTypes
<1>0. dead' = dead
      BY DEF Checkout
<1>1. CASE idle # <<>> /\ c = Head(idle) /\ idle' = Tail(idle) /\ UNCHANGED opened
      <2>1. /\ idle' \in Seq(Conns) /\ Len(idle') = Len(idle) - 1
            /\ \A i \in 1..Len(idle') : idle'[i] = idle[i + 1]
            BY <1>1, HeadTailProperties
      <2>2. Len(idle) \in Nat /\ Len(idle) >= 1 /\ c = idle[1]
            BY <1>1, EmptySeq
      <2>3. \A i \in 1..Len(idle') : i + 1 \in 1..Len(idle) /\ i + 1 # 1
            BY <2>1, <2>2
      <2>4. \A i \in 1..Len(idle') : idle'[i] # c
            BY <2>1, <2>2, <2>3 DEF PoolInv
      <2>5. c \in opened /\ opened' = opened /\ \A r \in Clicks : conn[r] # c
            BY <1>1, <2>2, FeedbackConstants DEF PoolInv
      <2> QED
            BY <1>0, <1>1, <2>1, <2>3, <2>4, <2>5
<1>2. CASE idle = <<>> /\ c \in Conns \ opened /\ opened' = opened \cup {c} /\ UNCHANGED idle
      BY <1>0, <1>2, FeedbackConstants DEF PoolInv
<1> QED
      BY <1>1, <1>2 DEF Checkout

LEMMA PoolTake ==
    ASSUME PoolTypes, PoolInv, NEW r \in Clicks, NEW c \in Conns, Checkout(c),
           conn' = [conn EXCEPT ![r] = c]
    PROVE  PoolTypes' /\ PoolInv'
<1>1. PoolTypes'
      BY Taken DEF PoolTypes
<1>2. \A x \in Clicks : conn'[x] = IF x = r THEN c ELSE conn[x]
      BY DEF PoolTypes
<1>3. \A x \in Clicks : conn'[x] # NoConn =>
          /\ conn'[x] \in opened'
          /\ \A y \in Clicks : conn'[y] = conn'[x] => y = x
          /\ \A i \in 1..Len(idle') : idle'[i] # conn'[x]
      BY <1>2, Taken DEF PoolInv
<1>4. /\ \A i, j \in 1..Len(idle') : idle'[i] = idle'[j] => i = j
      /\ \A i \in 1..Len(idle') : idle'[i] \in opened'
      BY Taken DEF PoolInv
<1> QED
      BY <1>1, <1>3, <1>4 DEF PoolInv

\* Another request takes one.
LEMMA PoolTakenElsewhere ==
    ASSUME PoolTypes, PoolInv, NEW c \in Conns, Checkout(c), conn' = conn
    PROVE  PoolTypes' /\ PoolInv'
<1>1. PoolTypes'
      BY Taken DEF PoolTypes
<1>2. PoolInv'
      BY Taken DEF PoolInv
<1> QED
      BY <1>1, <1>2

\* A connection that is given back: queued, or closed.
LEMMA PoolReturn ==
    ASSUME PoolTypes, PoolInv, NEW c \in Conns, c \in opened, GiveBack(c),
           \A i \in 1..Len(idle) : idle[i] # c,
           conn' \in [Clicks -> Conns \cup {NoConn}],
           \A x \in Clicks : conn'[x] = IF conn[x] = c THEN NoConn ELSE conn[x]
    PROVE  PoolTypes' /\ PoolInv'
<1> USE DEF PoolTypes
<1>1. CASE idle' = Append(idle, c) /\ opened' = opened
      <2>1. /\ idle' \in Seq(Conns) /\ Len(idle') = Len(idle) + 1 /\ Len(idle) \in Nat
            /\ \A i \in 1..Len(idle) : idle'[i] = idle[i]
            /\ idle'[Len(idle) + 1] = c
            BY <1>1, AppendProperties
      <2>2. ASSUME NEW x \in Clicks, conn'[x] # NoConn
            PROVE  /\ conn'[x] \in opened'
                   /\ \A y \in Clicks : conn'[y] = conn'[x] => y = x
                   /\ conn'[x] = conn[x] /\ conn[x] # c
            BY <1>1, <2>2 DEF PoolInv
      <2>3. ASSUME NEW x \in Clicks, conn'[x] # NoConn, NEW i \in 1..Len(idle')
            PROVE  idle'[i] # conn'[x]
            <3>1. CASE i = Len(idle) + 1
                  BY <2>1, <2>2, <2>3, <3>1
            <3>2. CASE i \in 1..Len(idle)
                  BY <2>1, <2>2, <2>3, <3>2 DEF PoolInv
            <3> QED
                  BY <2>1, <3>1, <3>2
      <2>4. ASSUME NEW i \in 1..Len(idle'), NEW j \in 1..Len(idle'), idle'[i] = idle'[j]
            PROVE  i = j
            <3>1. CASE i \in 1..Len(idle) /\ j \in 1..Len(idle)
                  BY <2>1, <2>4, <3>1 DEF PoolInv
            <3>2. CASE i = Len(idle) + 1 \/ j = Len(idle) + 1
                  BY <2>1, <2>4, <3>2
            <3> QED
                  BY <2>1, <3>1, <3>2
      <2>5. \A i \in 1..Len(idle') : idle'[i] \in opened'
            BY <1>1, <2>1 DEF PoolInv
      <2>6. PoolTypes'
            BY <1>1, <2>1 DEF GiveBack
      <2> QED
            BY <2>2, <2>3, <2>4, <2>5, <2>6 DEF PoolInv
<1>2. CASE idle' = idle /\ opened' = opened \ {c}
      <2>1. PoolTypes'
            BY <1>2 DEF GiveBack
      <2> QED
            BY <1>2, <2>1 DEF PoolInv
<1> QED
      BY <1>1, <1>2 DEF GiveBack

\* The connection of a click, given back by it.
LEMMA PoolReturned ==
    ASSUME PoolTypes, PoolInv, NEW r \in Clicks, conn[r] \in Conns, GiveBack(conn[r]),
           conn' = [conn EXCEPT ![r] = NoConn]
    PROVE  PoolTypes' /\ PoolInv'
<1>1. /\ conn[r] \in opened /\ \A i \in 1..Len(idle) : idle[i] # conn[r]
      /\ conn' \in [Clicks -> Conns \cup {NoConn}]
      /\ \A x \in Clicks : conn'[x] = IF conn[x] = conn[r] THEN NoConn ELSE conn[x]
      BY FeedbackConstants DEF PoolInv, PoolTypes
<1> QED
      BY <1>1, PoolReturn

-------------------------------------------------------------------------------
(***************************************************************************)
(* Assessments                                                             *)
(***************************************************************************)
LEMMA WithoutType ==
    ASSUME NEW S, NEW q \in Seq(S), NEW i \in 1..Len(q)
    PROVE  /\ Without(q, i) \in Seq(S) /\ Len(Without(q, i)) = Len(q) - 1
<1>1. Len(q) \in Nat /\ \A j \in 1..Len(q) : q[j] \in S
      BY LenProperties
<1>2. /\ SubSeq(q, 1, i - 1) \in Seq(S) /\ Len(SubSeq(q, 1, i - 1)) = i - 1
      BY <1>1, SubSeqProperties
<1>3. /\ SubSeq(q, i + 1, Len(q)) \in Seq(S) /\ Len(SubSeq(q, i + 1, Len(q))) = Len(q) - i
      BY <1>1, SubSeqProperties
<1>4. /\ Without(q, i) \in Seq(S)
      /\ Len(Without(q, i)) = Len(SubSeq(q, 1, i - 1)) + Len(SubSeq(q, i + 1, Len(q)))
      BY <1>2, <1>3, ConcatProperties DEF Without
<1> DEFINE n == Len(q)
           w == Len(Without(q, i))
<1>5. n \in Nat /\ i \in 1..n /\ w = (i - 1) + (n - i)
      BY <1>1, <1>2, <1>3, <1>4
<1>6. w = n - 1
      <2> HIDE DEF n, w
      <2> QED
            BY <1>5
<1> QED
      BY <1>4, <1>6

LEMMA SyncedType ==
    ASSUME TypeOK, NEW r \in Clicks, pc[r] = "found", NEW q \in Synced(r)
    PROVE  q \in Seq(Thumb)
<1> DEFINE t == thumbs[key[r]]
<1>1. t \in Seq(Thumb) /\ WithId(key[r], prior[r]) \subseteq 1..Len(t)
      BY DEF TypeOK, WithId
<1>2. CASE prior[r] = NoClick /\ want[r] = "none"
      BY <1>1, <1>2 DEF Synced
<1>3. CASE prior[r] = NoClick /\ want[r] # "none"
      <2>1. q = Append(t, [id |-> r, value |-> seen[r]])
            BY <1>3 DEF Synced
      <2>2. [id |-> r, value |-> seen[r]] \in Thumb
            BY <1>3 DEF TypeOK, Thumb
      <2> QED
            BY <1>1, <2>1, <2>2, AppendProperties
<1>4. CASE prior[r] # NoClick /\ WithId(key[r], prior[r]) = {}
      BY <1>1, <1>4 DEF Synced
<1>5. CASE prior[r] # NoClick /\ WithId(key[r], prior[r]) # {} /\ want[r] = "none"
      <2>1. PICK i \in WithId(key[r], prior[r]) : q = Without(t, i)
            BY <1>5 DEF Synced
      <2> QED
            BY <1>1, <2>1, WithoutType
<1>6. CASE prior[r] # NoClick /\ WithId(key[r], prior[r]) # {} /\ want[r] # "none"
      <2>1. PICK i \in WithId(key[r], prior[r]) : q = [t EXCEPT ![i].value = seen[r]]
            BY <1>6 DEF Synced
      <2>2. i \in 1..Len(t) /\ t[i] \in Thumb /\ seen[r] \in Ratings
            BY <1>1, <1>6, <2>1, ElementOfSeq DEF TypeOK
      <2>3. [t[i] EXCEPT !.value = seen[r]] \in Thumb
            BY <2>2 DEF Thumb
      <2>4. q = [t EXCEPT ![i] = [t[i] EXCEPT !.value = seen[r]]]
            BY <2>1
      <2> HIDE DEF t
      <2> QED
            BY <1>1, <2>2, <2>3, <2>4, ExceptSeq
<1> QED
      BY <1>2, <1>3, <1>4, <1>5, <1>6

-------------------------------------------------------------------------------
(***************************************************************************)
(* Types.  RowInv: a row has a rating, and what is sent to MLflow is one.  *)
(* LockInv: a key is locked as often as its holder took it.                *)
(***************************************************************************)
RowInv ==
    /\ \A k \in Keys : rowId[k] # NoClick => rating[k] \in Ratings
    /\ \A r \in Clicks : pc[r] = "sync" /\ want[r] # "none" => seen[r] \in Ratings

LockInv ==
    \A k \in Keys : IF holder[k] = NoConn THEN depth[k] = 0 ELSE depth[k] > 0

TypeInv == TypeOK /\ PoolInv /\ RowInv /\ LockInv

LEMMA PoolTyped == TypeOK => PoolTypes
BY DEF TypeOK, PoolTypes

LEMMA TypeInit == Init => TypeInv
BY FeedbackConstants
   DEF Init, TypeInv, TypeOK, PoolInv, RowInv, LockInv, Phase, Critical, Ratings

\* What a step may do to the locks without being a Lock or an Unlock.
Kept == UNCHANGED <<holder, depth, stripped>> \/ \E c \in Conns : Free(c)

LEMMA KeptTypes ==
    ASSUME TypeInv, Kept
    PROVE  /\ holder' \in [Keys -> Conns \cup {NoConn}] /\ depth' \in [Keys -> Nat]
           /\ stripped' \in SUBSET Keys /\ LockInv'
<1>1. CASE UNCHANGED <<holder, depth, stripped>>
      BY <1>1 DEF TypeInv, TypeOK, LockInv
<1>2. ASSUME NEW c \in Conns, Free(c)
      PROVE  /\ holder' \in [Keys -> Conns \cup {NoConn}] /\ depth' \in [Keys -> Nat]
             /\ stripped' \in SUBSET Keys /\ LockInv'
      <2>1. holder' \in [Keys -> Conns \cup {NoConn}] /\ depth' \in [Keys -> Nat]
            BY <1>2 DEF Free, TypeInv, TypeOK
      <2>2. stripped' \in SUBSET Keys
            BY <1>2 DEF Free, TypeInv, TypeOK
      <2>3. LockInv'
            BY <1>2 DEF Free, TypeInv, TypeOK, LockInv
      <2> QED
            BY <2>1, <2>2, <2>3
<1> QED
      BY <1>1, <1>2 DEF Kept

LEMMA GiveBackKeeps == ASSUME NEW c \in Conns, GiveBack(c) PROVE Kept
BY DEF GiveBack, Kept, lock

\* The steps that touch neither the pool nor the lock.
LEMMA QuietStep ==
    ASSUME TypeInv, NEW r \in Clicks,
           \/ Read(r) \/ ClearNothing(r) \/ Search(r) \/ Write(r) \/ SyncFails(r)
           \/ StatementFails(r) \/ PoolTimeout(r)
    PROVE  TypeInv'
<1> USE DEF TypeInv, TypeOK, pool, lock, store, mine
<1>1. PoolInv' /\ LockInv' /\ PoolTypes'
      BY PoolTyped
         DEF PoolInv, LockInv, PoolTypes, Read, ClearNothing, Search, Write, SyncFails,
             StatementFails, PoolTimeout
<1>2. CASE Read(r)
      BY <1>1, <1>2 DEF Read, RowInv, PoolTypes, Phase, Critical
<1>3. CASE ClearNothing(r)
      BY <1>1, <1>3 DEF ClearNothing, RowInv, PoolTypes, Phase, Critical
<1>4. CASE Search(r)
      <2>1. prior'[r] \in Clicks \cup {NoClick}
            <3>1. thumbs[key[r]] # <<>> => thumbs[key[r]][1] \in Thumb
                  BY EmptySeq, ElementOfSeq
            <3> QED
                  BY <1>4, <3>1 DEF Search, Thumb
      <2> QED
            BY <1>1, <1>4, <2>1 DEF Search, RowInv, PoolTypes, Phase, Critical
<1>5. CASE Write(r)
      <2>1. thumbs' \in [Keys -> Seq(Thumb)]
            BY <1>5, SyncedType DEF Write
      <2> QED
            BY <1>1, <1>5, <2>1 DEF Write, RowInv, PoolTypes, Phase, Critical
<1>6. CASE SyncFails(r)
      BY <1>1, <1>6 DEF SyncFails, RowInv, PoolTypes, Phase, Critical
<1>7. CASE StatementFails(r)
      BY <1>1, <1>7 DEF StatementFails, RowInv, PoolTypes, Phase, Critical
<1>8. CASE PoolTimeout(r)
      <2>1. CASE pc[r] = "committed"
            <3>1. /\ pc' = [pc EXCEPT ![r] = "unlock"] /\ missed' = missed \cup {key[r]}
                  /\ UNCHANGED <<lock, store, thumbs, key, want, conn, mine, lockedOn, stripped, met>>
                  BY <1>8, <2>1 DEF PoolTimeout
            <3> QED
                  BY <1>1, <2>1, <3>1 DEF RowInv, PoolTypes, Phase, Critical
      <2>2. CASE pc[r] # "committed"
            BY <1>1, <1>8, <2>2 DEF PoolTimeout, RowInv, PoolTypes, Phase, Critical
      <2> QED
            BY <2>1, <2>2
<1> QED
      BY <1>2, <1>3, <1>4, <1>5, <1>6, <1>7, <1>8

\* The rows after a commit.
LEMMA Commits ==
    ASSUME TypeInv, NEW r \in Clicks, Cleared(r) \/ (want[r] # "none" /\ Stored(r))
    PROVE  /\ rowId' \in [Keys -> Clicks \cup {NoClick}]
           /\ rating' \in [Keys -> Ratings \cup {"none"}]
           /\ \A k \in Keys : rowId'[k] # NoClick => rating'[k] \in Ratings
<1> USE DEF TypeInv, TypeOK, RowInv, store
<1>1. CASE Cleared(r)
      BY <1>1, FeedbackConstants DEF Cleared
<1>2. CASE want[r] # "none" /\ Stored(r)
      BY <1>2 DEF Stored, Unchanged
<1> QED
      BY <1>1, <1>2

\* The steps that take a connection or give it back.
LEMMA PoolStep ==
    ASSUME TypeInv, NEW r \in Clicks,
           \/ Look(r) \/ Refuse(r) \/ Close(r) \/ ClearRow(r) \/ Store(r) \/ Refresh(r)
           \/ RefreshFails(r)
    PROVE  TypeInv'
<1> USE DEF TypeInv, TypeOK, pool, lock, store, mine
<1>1. Kept
      <2>1. CASE Look(r) \/ Refresh(r) \/ RefreshFails(r)
            BY <2>1 DEF Look, Refresh, RefreshFails, Kept
      <2>2. CASE Refuse(r) \/ ClearRow(r) \/ Store(r)
            BY <2>2, GiveBackKeeps DEF Refuse, ClearRow, Store
      <2>3. CASE Close(r)
            BY <2>3, GiveBackKeeps DEF Close, Kept
      <2> QED
            BY <2>1, <2>2, <2>3
<1>2. PoolInv' /\ PoolTypes'
      <2>1. CASE Look(r) \/ Refresh(r) \/ RefreshFails(r)
            BY <2>1, PoolTyped, PoolTake DEF Look, Refresh, RefreshFails
      <2>2. CASE Refuse(r) \/ ClearRow(r) \/ Store(r)
            BY <2>2, PoolTyped, PoolReturned DEF Refuse, ClearRow, Store
      <2>3. CASE Close(r) /\ conn[r] # NoConn
            BY <2>3, PoolTyped, PoolReturned DEF Close
      <2>4. CASE Close(r) /\ conn[r] = NoConn
            <3>1. conn' = conn /\ UNCHANGED pool
                  BY <2>4 DEF Close
            <3> QED
                  BY <3>1, PoolTyped DEF PoolTypes, PoolInv
      <2> QED
            BY <2>1, <2>2, <2>3, <2>4
<1>3. /\ holder' \in [Keys -> Conns \cup {NoConn}] /\ depth' \in [Keys -> Nat]
      /\ stripped' \in SUBSET Keys /\ LockInv'
      BY <1>1, KeptTypes
<1> HIDE DEF pool, lock
<1>4. CASE Look(r)
      <2>1. conn'[r] \in Conns
            BY <1>4 DEF Look
      <2> QED
            BY <1>2, <1>3, <1>4, <2>1 DEF Look, RowInv, PoolTypes, Phase, Critical
<1>5. CASE Refuse(r)
      BY <1>2, <1>3, <1>5 DEF Refuse, RowInv, PoolTypes, Phase, Critical
<1>6. CASE Close(r)
      BY <1>2, <1>3, <1>6 DEF Close, RowInv, PoolTypes, Phase, Critical
<1>7. CASE ClearRow(r)
      BY <1>2, <1>3, <1>7, Commits DEF ClearRow, RowInv, PoolTypes, Phase, Critical
<1>8. CASE Store(r)
      BY <1>2, <1>3, <1>8, Commits DEF Store, RowInv, PoolTypes, Phase, Critical
<1>9. CASE Refresh(r)
      <2>1. rowId[key[r]] = OwnRow(r) => rating[key[r]] \in Ratings
            BY FeedbackConstants DEF OwnRow, RowInv
      <2>2. CASE rowId[key[r]] # OwnRow(r)
            <3>1. pc' = [pc EXCEPT ![r] = "unlock"] /\ seen' = seen
                  BY <1>9, <2>2 DEF Refresh
            <3>2. \E c \in Conns : conn' = [conn EXCEPT ![r] = c]
                  BY <1>9 DEF Refresh
            <3>3. UNCHANGED <<store, thumbs, key, want, existing, prior, lockedOn, met, missed>>
                  BY <1>9 DEF Refresh
            <3> QED
                  BY <1>2, <1>3, <1>9, <3>1, <3>2, <3>3 DEF RowInv, PoolTypes, Phase, Critical
      <2>3. CASE rowId[key[r]] = OwnRow(r)
            <3>1. /\ pc' = [pc EXCEPT ![r] = "sync"]
                  /\ seen' = [seen EXCEPT ![r] = rating[key[r]]]
                  BY <1>9, <2>3 DEF Refresh
            <3>2. \E c \in Conns : conn' = [conn EXCEPT ![r] = c]
                  BY <1>9 DEF Refresh
            <3>3. rating[key[r]] \in Ratings
                  BY <2>1, <2>3
            <3> QED
                  BY <1>2, <1>3, <1>9, <3>1, <3>2, <3>3
                     DEF Refresh, RowInv, PoolTypes, Phase, Critical
      <2> QED
            BY <2>2, <2>3
<1>10. CASE RefreshFails(r)
      <2>1. \E c \in Conns : conn' = [conn EXCEPT ![r] = c]
            BY <1>10 DEF RefreshFails
      <2> QED
            BY <1>2, <1>3, <1>10, <2>1 DEF RefreshFails, RowInv, PoolTypes, Phase, Critical
<1> QED
      BY <1>4, <1>5, <1>6, <1>7, <1>8, <1>9, <1>10

LEMMA PoolUnlock ==
    ASSUME TypeInv, NEW r \in Clicks, NEW c \in Conns, OnItsConnection(r, c)
    PROVE  PoolInv' /\ PoolTypes' /\ conn'[r] = c
           /\ \A x \in Clicks : x # r => conn'[x] = conn[x]
<1>1. CASE c = conn[r] /\ UNCHANGED <<pool, conn>>
      BY <1>1, PoolTyped DEF PoolInv, PoolTypes, pool, TypeInv
<1>2. CASE Checkout(c) /\ conn' = [conn EXCEPT ![r] = c]
      <2>1. PoolInv' /\ PoolTypes'
            BY <1>2, PoolTyped, PoolTake DEF TypeInv
      <2> QED
            BY <1>2, <2>1 DEF TypeInv, TypeOK
<1> QED
      BY <1>1, <1>2 DEF OnItsConnection

LEMMA Releases ==
    ASSUME TypeInv, NEW k \in Keys, NEW c \in Conns, Release(k, c)
    PROVE  /\ holder' \in [Keys -> Conns \cup {NoConn}] /\ depth' \in [Keys -> Nat]
           /\ LockInv'
<1> USE DEF TypeInv, TypeOK
<1>1. CASE holder[k] = c
      <2>1. /\ depth' = [depth EXCEPT ![k] = @ - 1]
            /\ holder' = [holder EXCEPT ![k] = IF depth[k] = 1 THEN NoConn ELSE c]
            /\ depth[k] > 0
            BY <1>1, FeedbackConstants DEF Release, LockInv
      <2> QED
            BY <2>1, FeedbackConstants DEF LockInv
<1>2. CASE holder[k] # c
      BY <1>2 DEF Release, LockInv, lock
<1> QED
      BY <1>1, <1>2

\* The steps on the lock, and those that fail instead.
LEMMA LockStep ==
    ASSUME TypeInv, NEW r \in Clicks, Lock(r) \/ Unlock(r) \/ UnlockFails(r) \/ CommitLost(r)
    PROVE  TypeInv'
<1> USE DEF TypeInv, TypeOK, pool, lock, store, mine
<1>1. CASE Lock(r)
      <2>1. /\ holder' = [holder EXCEPT ![key[r]] = conn[r]] /\ conn[r] \in Conns
            /\ depth' = [depth EXCEPT ![key[r]] = @ + 1]
            BY <1>1 DEF Lock, Acquire
      <2>2. LockInv'
            BY <2>1, FeedbackConstants DEF LockInv
      <2>3. PoolInv'
            BY <1>1 DEF Lock, PoolInv
      <2> QED
            BY <1>1, <2>1, <2>2, <2>3 DEF Lock, RowInv, Phase, Critical
<1>2. CASE Unlock(r)
      <2>1. PICK c \in Conns : OnItsConnection(r, c) /\ Release(key[r], c)
            BY <1>2 DEF Unlock
      <2>2. PoolInv' /\ PoolTypes' /\ conn'[r] = c
            /\ \A x \in Clicks : x # r => conn'[x] = conn[x]
            BY <2>1, PoolUnlock
      <2>3. /\ holder' \in [Keys -> Conns \cup {NoConn}] /\ depth' \in [Keys -> Nat]
            /\ LockInv'
            BY <2>1, Releases
      <2> QED
            BY <1>2, <2>2, <2>3 DEF Unlock, PoolTypes, RowInv, Phase, Critical
<1>3. CASE UnlockFails(r)
      <2>0. PICK c \in Conns : OnItsConnection(r, c)
            BY <1>3 DEF UnlockFails
      <2>1. PoolInv' /\ PoolTypes' /\ conn'[r] = c
            /\ \A x \in Clicks : x # r => conn'[x] = conn[x]
            BY <2>0, PoolUnlock
      <2> QED
            BY <1>3, <2>1 DEF UnlockFails, PoolTypes, RowInv, LockInv, Phase, Critical
<1>4. CASE CommitLost(r)
      <2>1. conn[r] \in Conns /\ Free(conn[r])
            BY <1>4 DEF CommitLost
      <2>2. /\ holder' \in [Keys -> Conns \cup {NoConn}] /\ depth' \in [Keys -> Nat]
            /\ stripped' \in SUBSET Keys /\ LockInv'
            BY <2>1, KeptTypes DEF Kept
      <2>3. PoolInv' /\ dead' \in SUBSET Conns
            BY <1>4, <2>1 DEF CommitLost, PoolInv
      <2>4. /\ rowId' \in [Keys -> Clicks \cup {NoClick}]
            /\ rating' \in [Keys -> Ratings \cup {"none"}]
            /\ \A k \in Keys : rowId'[k] # NoClick => rating'[k] \in Ratings
            BY <1>4, Commits DEF CommitLost
      <2> QED
            BY <1>4, <2>2, <2>3, <2>4 DEF CommitLost, RowInv, Phase, Critical
<1> QED
      BY <1>1, <1>2, <1>3, <1>4

\* Steps that leave every click where it is, and the restart.
LEMMA OtherStep ==
    ASSUME TypeInv, Elsewhere \/ Break \/ Restart \/ UNCHANGED vars
    PROVE  TypeInv'
<1> USE DEF TypeInv, TypeOK, lock, store, mine
<1>1. CASE ElsewhereTakes
      <2>1. PoolInv' /\ PoolTypes'
            BY <1>1, PoolTyped, PoolTakenElsewhere DEF ElsewhereTakes
      <2> QED
            BY <1>1, <2>1 DEF ElsewhereTakes, PoolTypes, RowInv, LockInv
<1>2. CASE ElsewhereReturns
      <2>1. PICK c \in opened : c \notin Idle /\ (\A r \in Clicks : conn[r] # c) /\ GiveBack(c)
            BY <1>2 DEF ElsewhereReturns
      <2>2. /\ c \in Conns /\ \A i \in 1..Len(idle) : idle[i] # c
            /\ conn' = conn
            BY <1>2, <2>1 DEF ElsewhereReturns, Idle
      <2>3. PoolInv' /\ PoolTypes'
            BY <2>1, <2>2, PoolTyped, PoolReturn
      <2>4. /\ holder' \in [Keys -> Conns \cup {NoConn}] /\ depth' \in [Keys -> Nat]
            /\ stripped' \in SUBSET Keys /\ LockInv'
            BY <2>1, <2>2, GiveBackKeeps, KeptTypes
      <2> QED
            BY <1>2, <2>3, <2>4 DEF ElsewhereReturns, PoolTypes, RowInv
<1>3. CASE Break
      <2>1. PICK c \in opened : Free(c) /\ dead' \in {dead, dead \cup {c}}
            BY <1>3 DEF Break
      <2>2. /\ holder' \in [Keys -> Conns \cup {NoConn}] /\ depth' \in [Keys -> Nat]
            /\ stripped' \in SUBSET Keys /\ LockInv'
            BY <2>1, KeptTypes DEF Kept
      <2>3. dead' \in SUBSET Conns
            BY <2>1
      <2> QED
            BY <1>3, <2>2, <2>3 DEF Break, PoolInv, RowInv
<1>4. CASE Restart
      <2>1. /\ pc' \in [Clicks -> Phase]
            /\ \A x \in Clicks : pc'[x] \in {"idle", "done"}
            BY <1>4 DEF Restart, Phase, Critical
      <2>2. PoolInv' /\ LockInv' /\ RowInv'
            BY <1>4, <2>1, FeedbackConstants DEF Restart, PoolInv, LockInv, RowInv
      <2> QED
            BY <1>4, <2>1, <2>2, FeedbackConstants DEF Restart, Ratings
<1>5. CASE UNCHANGED vars
      BY <1>5 DEF vars, PoolInv, RowInv, LockInv
<1> QED
      BY <1>1, <1>2, <1>3, <1>4, <1>5 DEF Elsewhere

LEMMA TypeStep == TypeInv /\ [Next]_vars => TypeInv'
BY StepCases, QuietStep, PoolStep, LockStep, OtherStep DEF Inner, Missing, Ending, Outer

\* Every record of the handler keeps its type, the connection of a click that is
\* yet to commit and the rating that is sent to MLflow among them: a refresh whose
\* row is gone never gets as far as the sync.
THEOREM FeedbackTypeCorrect == Spec => []TypeOK
<1>1. Init => TypeInv
      BY TypeInit
<1>2. TypeInv /\ [Next]_vars => TypeInv'
      BY TypeStep
<1>3. TypeInv => TypeOK
      BY DEF TypeInv
<1> QED
      BY <1>1, <1>2, <1>3, PTL DEF Spec

-------------------------------------------------------------------------------
(***************************************************************************)
(* The lock: what it covers although an unlock may run on another          *)
(* connection                                                              *)
(***************************************************************************)

\* As long as no connection was closed under a click inside, the key is locked on
\* the connection it was taken on, at least once per click inside.
Covered(k) ==
    /\ \A r \in Inside(k) : holder[k] = lockedOn[r]
    /\ Cardinality(Inside(k)) <= depth[k]

CoverInv == \A k \in Keys : k \notin stripped => Covered(k)

\* Until its commit a click has the connection it locked on, which holds the lock
\* unless it is broken.
HoldInv ==
    \A r \in Clicks : pc[r] \in {"locked", "read"} /\ Live(r) => holder[key[r]] = conn[r]

LEMMA InsideFinite ==
    \A k : /\ IsFiniteSet(Inside(k)) /\ Inside(k) \subseteq Clicks
           /\ Cardinality(Inside(k)) \in Nat
           /\ Cardinality(Inside(k)) = 0 <=> Inside(k) = {}
<1>1. ASSUME NEW k
      PROVE  IsFiniteSet(Inside(k)) /\ Inside(k) \subseteq Clicks
      BY FeedbackConstants, FS_Subset DEF Inside
<1> QED
      BY <1>1, FS_CardinalityType, FS_EmptySet

\* Nobody comes in, and the lock is at most taken away with its connection.
Moving ==
    /\ key' = key
    /\ \A x \in Clicks : pc'[x] \in Critical => pc[x] \in Critical /\ lockedOn'[x] = lockedOn[x]
    /\ \A x \in Clicks : pc'[x] \in {"locked", "read"} =>
          pc[x] \in {"locked", "read"} /\ conn'[x] = conn[x]
    /\ \/ UNCHANGED <<holder, depth, stripped, dead>>
       \/ \E c \in Conns :
             /\ \A x \in Clicks : pc'[x] \in {"locked", "read"} /\ conn[x] = c => c \in dead'
             /\ dead \ {c} \subseteq dead'
             /\ Free(c) \/ UNCHANGED <<holder, depth, stripped>>

LEMMA MoveInside == ASSUME Moving PROVE \A k : Inside(k)' \subseteq Inside(k)
BY DEF Moving, Inside

\* A click that gives its connection back has committed, or was not inside.
LEMMA GivingMoves ==
    ASSUME TypeInv, NEW r \in Clicks, conn[r] \in Conns, GiveBack(conn[r]),
           conn' = [conn EXCEPT ![r] = NoConn], key' = key,
           \A x \in Clicks : x # r => pc'[x] = pc[x] /\ lockedOn'[x] = lockedOn[x],
           pc'[r] \notin {"locked", "read"},
           pc'[r] \in Critical => pc[r] \in Critical /\ lockedOn'[r] = lockedOn[r]
    PROVE  Moving
<1> DEFINE c == conn[r]
<1>1. \A x \in Clicks : conn[x] = c => x = r
      BY FeedbackConstants DEF TypeInv, PoolInv
<1>2. \A x \in Clicks : pc'[x] \in {"locked", "read"} => x # r /\ pc[x] = pc'[x] /\ conn'[x] = conn[x]
      BY DEF TypeInv, TypeOK
<1>3. \A x \in Clicks : pc'[x] \in {"locked", "read"} /\ conn[x] = c => c \in dead'
      BY <1>1, <1>2
<1>4. dead \ {c} \subseteq dead' /\ (Free(c) \/ UNCHANGED <<holder, depth, stripped>>)
      BY DEF GiveBack, lock
<1>5. \A x \in Clicks : pc'[x] \in Critical => pc[x] \in Critical /\ lockedOn'[x] = lockedOn[x]
      OBVIOUS
<1> QED
      BY <1>2, <1>3, <1>4, <1>5 DEF Moving

LEMMA Moves ==
    ASSUME TypeInv, NEW r \in Clicks,
           \/ Inner(r) \/ Missing(r) \/ UnlockFails(r) \/ PoolTimeout(r) \/ Outer(r)
           \/ Elsewhere \/ Break \/ UNCHANGED vars
    PROVE  Moving
<1> USE DEF TypeInv, TypeOK, lock, store, mine
<1>1. CASE Look(r) \/ Refresh(r) \/ RefreshFails(r)
      <2>1. dead' = dead
            BY <1>1, Taken, PoolTyped DEF Look, Refresh, RefreshFails
      <2>2. CASE Look(r)
            BY <2>1, <2>2 DEF Look, Moving, Critical
      <2>3. CASE Refresh(r)
            BY <2>1, <2>3 DEF Refresh, Moving, Critical
      <2>4. CASE RefreshFails(r)
            BY <2>1, <2>4 DEF RefreshFails, Moving, Critical
      <2> QED
            BY <1>1, <2>2, <2>3, <2>4
<1>2. CASE Refuse(r)
      BY <1>2, GivingMoves DEF Refuse, Critical
<1>3. CASE ClearRow(r)
      BY <1>3, GivingMoves DEF ClearRow, Critical
<1>4. CASE Store(r)
      BY <1>4, GivingMoves DEF Store, Critical
<1>5. CASE Close(r)
      <2>1. /\ pc' = [pc EXCEPT ![r] = "done"] /\ conn' = [conn EXCEPT ![r] = NoConn]
            /\ lockedOn' = [lockedOn EXCEPT ![r] = NoConn] /\ key' = key
            BY <1>5 DEF Close
      <2>2. CASE conn[r] = NoConn
            BY <1>5, <2>1, <2>2 DEF Close, pool, Moving, Critical
      <2>3. CASE conn[r] # NoConn
            <3>1. GiveBack(conn[r]) /\ conn[r] \in Conns
                  BY <1>5, <2>3 DEF Close
            <3> QED
                  BY <2>1, <3>1, GivingMoves DEF Critical
      <2> QED
            BY <2>2, <2>3
<1>6. CASE Read(r) \/ ClearNothing(r) \/ Search(r)
      BY <1>6 DEF Read, ClearNothing, Search, pool, Moving, Critical
<1>7. CASE Write(r) \/ SyncFails(r) \/ StatementFails(r)
      BY <1>7 DEF Write, SyncFails, StatementFails, pool, Moving, Critical
<1>8. CASE PoolTimeout(r)
      <2>1. /\ \E to \in {"unlock", "closing"} : pc' = [pc EXCEPT ![r] = to]
            /\ UNCHANGED <<pool, lock, key, conn, lockedOn, stripped>> /\ pc[r] \in Critical
            BY <1>8 DEF PoolTimeout, Critical
      <2> QED
            BY <2>1 DEF pool, Moving, Critical
<1>9. CASE UnlockFails(r)
      <2>1. PICK c \in Conns : OnItsConnection(r, c)
            BY <1>9 DEF UnlockFails
      <2>2. dead' = dead /\ \A x \in Clicks : x # r => conn'[x] = conn[x]
            <3>1. dead' = dead
                  BY <2>1 DEF OnItsConnection, Checkout, pool
            <3>2. \A x \in Clicks : x # r => conn'[x] = conn[x]
                  BY <2>1, PoolUnlock
            <3> QED
                  BY <3>1, <3>2
      <2> QED
            BY <1>9, <2>2 DEF UnlockFails, Moving, Critical
<1>10. CASE CommitLost(r)
      <2>1. /\ conn[r] \in Conns /\ Free(conn[r]) /\ dead' = dead \cup {conn[r]}
            /\ pc' = [pc EXCEPT ![r] = "closing"] /\ UNCHANGED <<key, conn, lockedOn>>
            BY <1>10 DEF CommitLost
      <2> QED
            BY <2>1 DEF Moving, Critical
<1>11. CASE ElsewhereTakes
      <2>1. dead' = dead
            BY <1>11 DEF ElsewhereTakes, Checkout
      <2> QED
            BY <1>11, <2>1 DEF ElsewhereTakes, Moving
<1>12. CASE ElsewhereReturns
      <2>1. PICK c \in opened : (\A x \in Clicks : conn[x] # c) /\ GiveBack(c)
            BY <1>12 DEF ElsewhereReturns
      <2>2. c \in Conns /\ UNCHANGED <<pc, key, conn, lockedOn>>
            BY <1>12 DEF ElsewhereReturns
      <2>3. dead \ {c} \subseteq dead' /\ (Free(c) \/ UNCHANGED <<holder, depth, stripped>>)
            BY <2>1 DEF GiveBack
      <2> QED
            BY <2>1, <2>2, <2>3 DEF Moving
<1>13. CASE Break
      <2>1. PICK c \in opened : /\ Free(c)
                                /\ dead' = dead \cup {c} \/ (c \in Idle /\ dead' = dead)
            BY <1>13 DEF Break
      <2>2. c \in Conns /\ UNCHANGED <<pc, key, conn, lockedOn>>
            BY <1>13 DEF Break
      <2>3. \A x \in Clicks : pc'[x] \in {"locked", "read"} /\ conn[x] = c => c \in dead'
            <3>1. ASSUME c \in Idle, NEW x \in Clicks, conn[x] = c PROVE FALSE
                  <4>1. PICK i \in 1..Len(idle) : idle[i] = c
                        BY <3>1 DEF Idle
                  <4>2. conn[x] # NoConn
                        BY <2>2, <3>1, FeedbackConstants
                  <4> QED
                        BY <3>1, <4>1, <4>2 DEF PoolInv
            <3> QED
                  BY <2>1, <3>1
      <2>4. dead \ {c} \subseteq dead'
            BY <2>1
      <2> QED
            BY <2>1, <2>2, <2>3, <2>4 DEF Moving
<1>14. CASE UNCHANGED vars
      BY <1>14 DEF vars, Moving
<1> QED
      BY <1>1, <1>2, <1>3, <1>4, <1>5, <1>6, <1>7, <1>8, <1>9, <1>10, <1>11, <1>12, <1>13, <1>14
         DEF Inner, Missing, Outer, Elsewhere

\* Lock and Unlock move one click in and out.
LEMMA ComeIn ==
    ASSUME TypeInv, NEW r \in Clicks, Lock(r), NEW k, k = key[r]
    PROVE  /\ r \notin Inside(k) /\ Inside(k)' = Inside(k) \cup {r}
           /\ Cardinality(Inside(k)') = Cardinality(Inside(k)) + 1
           /\ \A j : j # k => Inside(j)' = Inside(j)
<1>1. /\ r \notin Inside(k) /\ Inside(k)' = Inside(k) \cup {r}
      /\ \A j : j # k => Inside(j)' = Inside(j)
      BY DEF TypeInv, TypeOK, Lock, Inside, Critical
<1> QED
      BY <1>1, InsideFinite, FS_AddElement

LEMMA GoOut ==
    ASSUME TypeInv, NEW r \in Clicks, Ending(r), NEW k, k = key[r]
    PROVE  /\ r \in Inside(k) /\ Inside(k)' = Inside(k) \ {r}
           /\ Cardinality(Inside(k)') = Cardinality(Inside(k)) - 1
           /\ Cardinality(Inside(k)') \in Nat
           /\ Cardinality(Inside(k)') = 0 <=> Inside(k)' = {}
           /\ \A j : j # k => Inside(j)' = Inside(j)
<1>1. pc[r] = "unlock" /\ pc' = [pc EXCEPT ![r] = "closing"] /\ key' = key
      BY DEF Ending, Unlock, UnlockFails, PoolTimeout
<1>2. /\ r \in Inside(k) /\ Inside(k)' = Inside(k) \ {r}
      /\ \A j : j # k => Inside(j)' = Inside(j)
      BY <1>1 DEF TypeInv, TypeOK, Inside, Critical
<1>3. /\ IsFiniteSet(Inside(k)') /\ Cardinality(Inside(k)') = Cardinality(Inside(k)) - 1
      BY <1>2, InsideFinite, FS_RemoveElement, FS_Subset
<1> QED
      BY <1>2, <1>3, FS_CardinalityType, FS_EmptySet

\* What an unlock does, on whatever connection c it runs.
LEMMA UnlockEffect ==
    ASSUME TypeInv, NEW r \in Clicks, Unlock(r)
    PROVE  \E c \in Conns :
              /\ Release(key[r], c) /\ dead' = dead /\ conn'[r] = c
              /\ \A x \in Clicks : x # r => conn'[x] = conn[x] /\ (c # NoConn => conn[x] # c)
<1>1. PICK c \in Conns : OnItsConnection(r, c) /\ Release(key[r], c)
      BY DEF Unlock
<1>2. dead' = dead
      BY <1>1 DEF OnItsConnection, Checkout, pool
<1>3. PoolInv' /\ conn'[r] = c /\ \A x \in Clicks : x # r => conn'[x] = conn[x]
      BY <1>1, PoolUnlock
<1>4. \A x \in Clicks : x # r => conn[x] # c
      BY <1>3, FeedbackConstants DEF PoolInv
<1> QED
      BY <1>1, <1>2, <1>3, <1>4

LEMMA CoverMove == ASSUME TypeInv, CoverInv, Moving PROVE CoverInv'
<1> SUFFICES ASSUME NEW k \in Keys, k \notin stripped' PROVE Covered(k)'
    BY DEF CoverInv
<1>1. /\ Inside(k)' \subseteq Inside(k) /\ Inside(k) \subseteq Clicks
      /\ Cardinality(Inside(k)') <= Cardinality(Inside(k))
      /\ Cardinality(Inside(k)) \in Nat /\ Cardinality(Inside(k)') \in Nat
      /\ depth[k] \in Nat
      <2>1. Inside(k)' \subseteq Inside(k)
            BY MoveInside
      <2>2. IsFiniteSet(Inside(k)) /\ Inside(k) \subseteq Clicks /\ Cardinality(Inside(k)) \in Nat
            BY InsideFinite
      <2>3. IsFiniteSet(Inside(k)') /\ Cardinality(Inside(k)') <= Cardinality(Inside(k))
            BY <2>1, <2>2, FS_Subset
      <2>4. Cardinality(Inside(k)') \in Nat
            BY <2>3, FS_CardinalityType
      <2>5. depth[k] \in Nat
            BY DEF TypeInv, TypeOK
      <2> QED
            BY <2>1, <2>2, <2>3, <2>4, <2>5
<1>2. \A r \in Inside(k)' : lockedOn'[r] = lockedOn[r]
      BY DEF Moving, Inside
<1>3. k \notin stripped
      BY DEF Moving, Free
<1>4. Covered(k)
      BY <1>3 DEF CoverInv
<1>5. CASE UNCHANGED <<holder, depth, stripped>>
      <2>1. Cardinality(Inside(k)') <= depth'[k]
            BY <1>1, <1>4, <1>5 DEF Covered
      <2> QED
            BY <1>1, <1>2, <1>4, <1>5, <2>1 DEF Covered
<1>6. ASSUME NEW c \in Conns, Free(c) PROVE Covered(k)'
      <2>1. \A r \in Inside(k) : lockedOn[r] # c
            BY <1>6 DEF Free, Inside
      <2>2. CASE Inside(k) = {}
            <3>1. Inside(k)' = {} /\ depth'[k] \in Nat
                  BY <1>1, <1>6, <2>2 DEF Free, TypeInv, TypeOK
            <3> QED
                  BY <3>1, FS_EmptySet DEF Covered
      <2>3. CASE Inside(k) # {}
            <3>1. holder[k] # c
                  BY <1>4, <2>1, <2>3 DEF Covered
            <3>2. holder'[k] = holder[k] /\ depth'[k] = depth[k]
                  BY <1>6, <3>1 DEF Free
            <3>3. Cardinality(Inside(k)') <= depth'[k]
                  BY <1>1, <1>4, <3>2 DEF Covered
            <3> QED
                  BY <1>1, <1>2, <1>4, <3>2, <3>3 DEF Covered
      <2> QED
            BY <2>2, <2>3
<1> QED
      BY <1>5, <1>6 DEF Moving

LEMMA CoverLock ==
    ASSUME TypeInv, CoverInv, NEW r \in Clicks, Lock(r)
    PROVE  CoverInv'
<1>0. PICK k \in Keys : k = key[r]
      BY DEF TypeInv, TypeOK
<1>1. /\ holder' = [holder EXCEPT ![k] = conn[r]] /\ depth' = [depth EXCEPT ![k] = @ + 1]
      /\ lockedOn' = [lockedOn EXCEPT ![r] = conn[r]] /\ pc' = [pc EXCEPT ![r] = "locked"]
      /\ stripped' = stripped /\ holder[k] \in {NoConn, conn[r]}
      /\ depth[k] \in Nat
      BY <1>0, FeedbackConstants DEF Lock, Acquire, TypeInv, TypeOK
<1>2. ASSUME k \notin stripped PROVE Covered(k)'
      <2>0. Covered(k)
            BY <1>2 DEF CoverInv
      <2>1. \A x \in Inside(k) : x # r /\ lockedOn[x] = conn[r]
            <3>1. Inside(k) # {} => depth[k] # 0
                  BY <1>1, <2>0, InsideFinite DEF Covered
            <3>2. Inside(k) # {} => holder[k] = conn[r]
                  BY <1>1, <3>1 DEF TypeInv, LockInv
            <3> QED
                  BY <1>0, <2>0, <3>2, ComeIn DEF Covered
      <2>2. \A x \in Inside(k)' : lockedOn'[x] = conn[r]
            BY <1>0, <1>1, <2>1, ComeIn, InsideFinite DEF TypeInv, TypeOK
      <2>3. holder'[k] = conn[r] /\ depth'[k] = depth[k] + 1
            BY <1>1 DEF TypeInv, TypeOK
      <2>4. Cardinality(Inside(k)') <= depth'[k]
            BY <1>0, <1>1, <2>0, <2>3, ComeIn, InsideFinite DEF Covered
      <2> QED
            BY <2>2, <2>3, <2>4 DEF Covered
<1>3. ASSUME NEW j \in Keys, j # k, j \notin stripped
      PROVE  Covered(j)'
      <2>1. Inside(j)' = Inside(j) /\ r \notin Inside(j)
            <3>1. Inside(j)' = Inside(j)
                  BY <1>0, <1>3, ComeIn
            <3>2. r \notin Inside(j)
                  BY <1>0, <1>3 DEF Inside
            <3> QED
                  BY <3>1, <3>2
      <2>2. holder'[j] = holder[j] /\ depth'[j] = depth[j]
            BY <1>1, <1>3 DEF TypeInv, TypeOK
      <2>3. \A x \in Inside(j) : lockedOn'[x] = lockedOn[x]
            BY <1>1, <2>1 DEF Inside, TypeInv, TypeOK
      <2> QED
            BY <1>1, <1>3, <2>1, <2>2, <2>3 DEF Covered, CoverInv
<1> QED
      BY <1>1, <1>2, <1>3 DEF CoverInv

LEMMA CoverUnlock ==
    ASSUME TypeInv, CoverInv, NEW r \in Clicks, Unlock(r)
    PROVE  CoverInv'
<1>0. PICK k \in Keys : k = key[r]
      BY DEF TypeInv, TypeOK
<1>1. PICK c \in Conns : Release(k, c)
      BY <1>0, UnlockEffect
<1>2. /\ UNCHANGED <<key, lockedOn, stripped>> /\ depth[k] \in Nat /\ Ending(r)
      BY <1>0 DEF Unlock, TypeInv, TypeOK, Ending
<1>3. ASSUME k \notin stripped PROVE Covered(k)'
      <2>0. Covered(k)
            BY <1>3 DEF CoverInv
      <2>1. Cardinality(Inside(k)') <= depth[k] - 1
            BY <1>0, <1>2, <2>0, GoOut, InsideFinite DEF Covered
      <2>2. depth'[k] \in {depth[k], depth[k] - 1}
            BY <1>1, <1>2 DEF Release, lock, TypeInv, TypeOK
      <2>3. ASSUME NEW x \in Inside(k)'
            PROVE  holder'[k] = lockedOn'[x]
            <3>1. x \in Inside(k) /\ depth[k] - 1 > 0
                  BY <1>0, <1>2, <2>1, <2>3, GoOut
            <3>2. holder'[k] = holder[k]
                  BY <1>1, <1>2, <3>1 DEF Release, lock, TypeInv, TypeOK
            <3> QED
                  BY <1>2, <2>0, <3>1, <3>2 DEF Covered
      <2>4. Cardinality(Inside(k)') <= depth'[k]
            BY <1>0, <1>2, <2>1, <2>2, GoOut
      <2> QED
            BY <2>3, <2>4 DEF Covered
<1>4. ASSUME NEW j \in Keys, j # k, j \notin stripped
      PROVE  Covered(j)'
      <2>1. Inside(j)' = Inside(j)
            BY <1>0, <1>2, <1>4, GoOut
      <2>2. holder'[j] = holder[j] /\ depth'[j] = depth[j]
            BY <1>1, <1>4 DEF Release, lock, TypeInv, TypeOK
      <2> QED
            BY <1>2, <1>4, <2>1, <2>2 DEF Covered, CoverInv
<1> QED
      BY <1>2, <1>3, <1>4 DEF CoverInv

LEMMA CoverStep == TypeInv /\ CoverInv /\ [Next]_vars => CoverInv'
<1> SUFFICES ASSUME TypeInv, CoverInv, [Next]_vars PROVE CoverInv'
    OBVIOUS
<1>1. CASE Restart
      <2>1. \A k \in Keys : Inside(k)' = {} /\ depth'[k] = 0
            BY <1>1 DEF Restart, Inside, Critical
      <2> QED
            BY <2>1, FS_EmptySet DEF CoverInv, Covered
<1>2. CASE Elsewhere \/ Break \/ UNCHANGED vars
      <2>1. CASE Clicks = {}
            <3>1. \A k : Inside(k)' = {}
                  BY <2>1 DEF Inside
            <3>2. \A k \in Keys : depth'[k] \in Nat
                  BY TypeStep DEF TypeInv, TypeOK
            <3> QED
                  BY <3>1, <3>2, FS_EmptySet DEF CoverInv, Covered
      <2>2. CASE Clicks # {}
            <3>1. PICK r \in Clicks : TRUE
                  BY <2>2
            <3>2. Moving
                  BY <1>2, <3>1, Moves
            <3> QED
                  BY <3>2, CoverMove
      <2> QED
            BY <2>1, <2>2
<1> QED
      BY <1>1, <1>2, StepCases, Moves, CoverMove, CoverLock, CoverUnlock DEF Ending

LEMMA CoverInit == Init => CoverInv
<1>1. Init => \A k \in Keys : Inside(k) = {} /\ depth[k] = 0
      BY DEF Init, Inside, Critical
<1>2. Cardinality({}) = 0
      BY FS_EmptySet
<1> QED
      BY <1>1, <1>2 DEF CoverInv, Covered

\* Nobody inside loses the lock of their key, whichever connections the unlocks of
\* other clicks run on and however they fail, unless the pool closed or lost a
\* connection under a click of that key.
THEOREM NobodyInsideLosesTheLock == Spec => []InsideIsCovered
<1>1. TypeInv /\ CoverInv => InsideIsCovered
      BY DEF TypeInv, TypeOK, CoverInv, Covered, InsideIsCovered, Inside
<1> QED
      BY <1>1, TypeInit, TypeStep, CoverInit, CoverStep, PTL DEF Spec

\* Until then, clicks that are inside together share one connection's lock.
THEOREM OnlyNestingMeets == Spec => []TogetherByNesting
<1>1. InsideIsCovered => TogetherByNesting
      BY DEF InsideIsCovered, TogetherByNesting
<1> QED
      BY <1>1, NobodyInsideLosesTheLock, PTL

-------------------------------------------------------------------------------
(***************************************************************************)
(* The row: two clicks that have read but not committed have different     *)
(* connections, and each of these holds its lock as long as it lives       *)
(***************************************************************************)
LEMMA HoldStep == TypeInv /\ HoldInv /\ [Next]_vars => HoldInv'
<1> SUFFICES ASSUME TypeInv, HoldInv, [Next]_vars, NEW r \in Clicks,
                    pc'[r] \in {"locked", "read"}, conn'[r] \notin dead'
             PROVE  holder'[key'[r]] = conn'[r]
    BY DEF HoldInv, Live
<1>0. key[r] \in Keys /\ key'[r] \in Keys
      BY TypeStep DEF TypeInv, TypeOK
<1>1. ASSUME Moving PROVE holder'[key'[r]] = conn'[r]
      <2>1. pc[r] \in {"locked", "read"} /\ conn'[r] = conn[r] /\ key'[r] = key[r]
            BY <1>1 DEF Moving
      <2>2. CASE UNCHANGED <<holder, depth, stripped, dead>>
            BY <2>1, <2>2 DEF HoldInv, Live
      <2>3. ASSUME NEW c \in Conns,
                   \A x \in Clicks : pc'[x] \in {"locked", "read"} /\ conn[x] = c => c \in dead',
                   dead \ {c} \subseteq dead', Free(c) \/ UNCHANGED <<holder, depth, stripped>>
            PROVE  holder'[key'[r]] = conn'[r]
            <3>1. conn[r] # c
                  BY <2>1, <2>3
            <3>2. holder[key[r]] = conn[r]
                  BY <2>1, <2>3, <3>1 DEF HoldInv, Live
            <3>3. holder'[key[r]] = holder[key[r]]
                  BY <1>0, <2>3, <3>1, <3>2 DEF Free
            <3> QED
                  BY <2>1, <3>2, <3>3
      <2> QED
            BY <1>1, <2>2, <2>3 DEF Moving
<1>2. ASSUME NEW x \in Clicks, Lock(x) PROVE holder'[key'[r]] = conn'[r]
      <2>1. /\ key' = key /\ conn' = conn /\ dead' = dead /\ holder[key[x]] \in {NoConn, conn[x]}
            /\ holder' = [holder EXCEPT ![key[x]] = conn[x]] /\ pc' = [pc EXCEPT ![x] = "locked"]
            BY <1>2 DEF Lock, Acquire, pool
      <2>2. CASE r = x
            BY <1>0, <2>1, <2>2 DEF TypeInv, TypeOK
      <2>3. CASE r # x
            <3>1. holder[key[r]] = conn[r] /\ conn[r] \in Conns
                  BY <2>1, <2>3 DEF HoldInv, Live, TypeInv, TypeOK
            <3>2. key[r] # key[x]
                  BY <2>1, <2>3, <3>1, FeedbackConstants DEF TypeInv, PoolInv
            <3> QED
                  BY <1>0, <2>1, <3>1, <3>2 DEF TypeInv, TypeOK
      <2> QED
            BY <2>2, <2>3
<1>3. ASSUME NEW x \in Clicks, Unlock(x) PROVE holder'[key'[r]] = conn'[r]
      <2>1. PICK c \in Conns :
                /\ Release(key[x], c) /\ dead' = dead
                /\ \A y \in Clicks : y # x => conn'[y] = conn[y] /\ (c # NoConn => conn[y] # c)
            BY <1>3, UnlockEffect
      <2>2. key' = key /\ pc' = [pc EXCEPT ![x] = "closing"]
            BY <1>3 DEF Unlock
      <2>3. r # x /\ pc[r] \in {"locked", "read"}
            BY <2>2 DEF TypeInv, TypeOK
      <2>4. conn'[r] = conn[r] /\ conn[r] # c /\ holder[key[r]] = conn[r]
            BY <2>1, <2>3, FeedbackConstants DEF HoldInv, Live
      <2>5. holder'[key[r]] = holder[key[r]]
            BY <1>0, <2>1, <2>4 DEF Release, lock, TypeInv, TypeOK
      <2> QED
            BY <2>2, <2>4, <2>5
<1>4. CASE Restart
      BY <1>4 DEF Restart
<1>5. CASE Elsewhere \/ Break \/ UNCHANGED vars
      BY <1>1, <1>5, Moves
<1> QED
      BY <1>1, <1>2, <1>3, <1>4, <1>5, StepCases, Moves DEF Ending

LEMMA OneReader ==
    ASSUME TypeInv, HoldInv, NEW r \in Clicks, NEW x \in Clicks,
           pc[r] = "read", pc[x] = "read", Live(r), Live(x), key[r] = key[x]
    PROVE  r = x
<1>1. conn[r] = conn[x] /\ conn[r] # NoConn
      BY FeedbackConstants DEF HoldInv, TypeInv, TypeOK
<1> QED
      BY <1>1 DEF TypeInv, PoolInv

LEMMA RowStep ==
    TypeInv /\ HoldInv /\ RowIsAsRead /\ [Next]_vars => RowIsAsRead'
<1> SUFFICES ASSUME TypeInv, HoldInv, RowIsAsRead, [Next]_vars PROVE RowIsAsRead'
    OBVIOUS
<1> USE DEF TypeInv, TypeOK, lock, store, mine
<1>1. ASSUME NEW x \in Clicks, Read(x) PROVE RowIsAsRead'
      BY <1>1 DEF Read, RowIsAsRead, Live, pool
<1>2. ASSUME NEW x \in Clicks, pc[x] = "read", Live(x), Cleared(x) \/ Stored(x),
             UNCHANGED <<key, existing, seen>>, pc'[x] # "read",
             \A r \in Clicks : r # x => pc'[r] = pc[r],
             \A r \in Clicks : pc'[r] = "read" /\ conn'[r] \notin dead' => conn[r] \notin dead
      PROVE  RowIsAsRead'
      <2>1. \A k \in Keys : k # key[x] => rowId'[k] = rowId[k] /\ rating'[k] = rating[k]
            BY <1>2 DEF Cleared, Stored
      <2>2. \A r \in Clicks : pc'[r] = "read" /\ conn'[r] \notin dead' =>
                r # x /\ pc[r] = "read" /\ Live(r)
            BY <1>2 DEF Live
      <2>3. \A r \in Clicks : pc'[r] = "read" /\ conn'[r] \notin dead' => key[r] # key[x]
            BY <1>2, <2>2, OneReader
      <2> QED
            BY <1>2, <2>1, <2>2, <2>3 DEF RowIsAsRead, Live
<1>3. ASSUME UNCHANGED <<rowId, rating, key>>,
             \A r \in Clicks : pc'[r] = "read" =>
                 pc[r] = "read" /\ existing'[r] = existing[r] /\ seen'[r] = seen[r],
             \A r \in Clicks : pc'[r] = "read" /\ conn'[r] \notin dead' => conn[r] \notin dead
      PROVE  RowIsAsRead'
      BY <1>3 DEF RowIsAsRead, Live
\* A connection that is checked out is not replaced.
<1>4. ASSUME NEW x \in Clicks, Moving \/ Lock(x) \/ Unlock(x)
      PROVE  \A r \in Clicks : pc'[r] \in {"locked", "read"} /\ conn'[r] \notin dead'
                 => r = x \/ conn[r] \notin dead
      <2>1. CASE Moving
            BY <2>1 DEF Moving
      <2>2. CASE Lock(x)
            BY <2>2 DEF Lock, pool
      <2>3. CASE Unlock(x)
            BY <2>3, UnlockEffect
      <2> QED
            BY <1>4, <2>1, <2>2, <2>3
<1>5. ASSUME NEW x \in Clicks, ClearRow(x) \/ Store(x) \/ CommitLost(x) PROVE RowIsAsRead'
      <2>1. Moving
            BY <1>5, Moves DEF Inner, Missing
      <2>2. /\ pc[x] = "read" /\ Live(x) /\ (Cleared(x) \/ Stored(x))
            /\ UNCHANGED <<key, existing, seen>> /\ pc'[x] # "read"
            /\ \A r \in Clicks : r # x => pc'[r] = pc[r]
            BY <1>5 DEF ClearRow, Store, CommitLost
      <2>3. \A r \in Clicks : pc'[r] = "read" /\ conn'[r] \notin dead' => conn[r] \notin dead
            BY <2>1, <2>2, <1>4
      <2> QED
            BY <1>2, <2>2, <2>3
<1>6. ASSUME NEW x \in Clicks,
             \/ Look(x) \/ Refuse(x) \/ Close(x) \/ Lock(x) \/ ClearNothing(x) \/ Refresh(x)
             \/ Search(x) \/ Write(x) \/ SyncFails(x) \/ StatementFails(x) \/ RefreshFails(x)
             \/ PoolTimeout(x) \/ Ending(x)
      PROVE  RowIsAsRead'
      <2>1. /\ UNCHANGED <<rowId, rating, key>> /\ pc'[x] # "read"
            /\ \A r \in Clicks : r # x =>
                  pc'[r] = pc[r] /\ existing'[r] = existing[r] /\ seen'[r] = seen[r]
            <3>1. CASE Look(x) \/ Refuse(x) \/ Close(x) \/ Lock(x) \/ ClearNothing(x)
                  BY <3>1 DEF Look, Refuse, Close, Lock, ClearNothing
            <3>2. CASE Refresh(x)
                  BY <3>2 DEF Refresh
            <3>3. CASE Search(x) \/ Write(x) \/ SyncFails(x) \/ StatementFails(x) \/ RefreshFails(x)
                  BY <3>3 DEF Search, Write, SyncFails, StatementFails, RefreshFails
            <3>4. CASE PoolTimeout(x)
                  BY <3>4 DEF PoolTimeout
            <3>5. CASE Unlock(x) \/ UnlockFails(x)
                  BY <3>5 DEF Unlock, UnlockFails
            <3> QED
                  BY <1>6, <3>1, <3>2, <3>3, <3>4, <3>5 DEF Ending
      <2>2. Moving \/ Lock(x) \/ Unlock(x)
            BY <1>6, Moves DEF Inner, Missing, Outer, Ending
      <2>3. \A r \in Clicks : pc'[r] = "read" /\ conn'[r] \notin dead' => conn[r] \notin dead
            BY <2>1, <2>2, <1>4
      <2> QED
            BY <1>3, <2>1, <2>3
<1>7. CASE Restart
      BY <1>7 DEF Restart, RowIsAsRead
<1>8. CASE Elsewhere \/ Break \/ UNCHANGED vars
      <2>1. UNCHANGED <<rowId, rating, key, pc, existing, seen>>
            BY <1>8 DEF Elsewhere, ElsewhereTakes, ElsewhereReturns, Break, vars
      <2>2. ASSUME NEW r \in Clicks, pc'[r] = "read", conn'[r] \notin dead'
            PROVE  conn[r] \notin dead
            <3>1. Moving
                  BY <1>8, Moves
            <3> QED
                  BY <2>2, <3>1 DEF Moving
      <2> QED
            BY <1>3, <2>1, <2>2
<1> QED
      BY <1>1, <1>5, <1>6, <1>7, <1>8, StepCases DEF Inner, Missing, Outer

\* No click's row is changed between its SELECT and its commit, although the lock
\* may let two clicks on one answer in and connections may break: the unique
\* constraint is never hit.
THEOREM RowsAreAsRead == Spec => []RowIsAsRead
<1>1. Init => RowIsAsRead /\ HoldInv
      BY DEF Init, RowIsAsRead, HoldInv
<1> QED
      BY <1>1, TypeInit, TypeStep, HoldStep, RowStep, PTL DEF Spec

-------------------------------------------------------------------------------
(***************************************************************************)
(* Assessments of a key whose clicks never met                             *)
(***************************************************************************)
AloneInv == \A k \in Keys : k \notin met => \A r, x \in Inside(k) : r = x

\* What the search found is still what the trace has.
Found(r, k) ==
    /\ prior[r] = NoClick <=> thumbs[k] = <<>>
    /\ prior[r] # NoClick => thumbs[k][1].id = prior[r]

ThumbInv ==
    \A k \in Keys : k \notin met =>
        /\ Len(thumbs[k]) <= 1
        /\ \A r \in Inside(k) : pc[r] = "found" => Found(r, k)

\* Who is inside which key does not change, or one click goes.
LEMMA StayInside ==
    ASSUME TypeInv, NEW r \in Clicks, Inner(r) \/ Outer(r)
    PROVE  \A k : Inside(k)' = Inside(k)
<1>1. key' = key /\ \A x \in Clicks : pc'[x] \in Critical <=> pc[x] \in Critical
      <2> USE DEF TypeInv, TypeOK
      <2>1. CASE Read(r) \/ ClearNothing(r) \/ ClearRow(r) \/ Store(r)
            BY <2>1 DEF Read, ClearNothing, ClearRow, Store, Critical
      <2>2. CASE Refresh(r)
            BY <2>2 DEF Refresh, Critical
      <2>3. CASE Search(r) \/ Write(r)
            BY <2>3 DEF Search, Write, Critical
      <2>4. CASE Outer(r)
            BY <2>4 DEF Outer, Look, Refuse, Close, Critical
      <2> QED
            BY <2>1, <2>2, <2>3, <2>4 DEF Inner
<1> QED
      BY <1>1 DEF Inside

LEMMA OthersInside ==
    ASSUME TypeInv, NEW r \in Clicks, Missing(r) \/ Ending(r), NEW k, k # key[r]
    PROVE  Inside(k)' = Inside(k)
<1>1. key' = key /\ \A x \in Clicks : x # r => pc'[x] = pc[x]
      <2> USE DEF TypeInv, TypeOK
      <2>1. CASE PoolTimeout(r)
            BY <2>1 DEF PoolTimeout
      <2>2. CASE SyncFails(r) \/ StatementFails(r) \/ CommitLost(r) \/ RefreshFails(r)
            BY <2>2 DEF SyncFails, StatementFails, CommitLost, RefreshFails
      <2>3. CASE Unlock(r) \/ UnlockFails(r)
            BY <2>3 DEF Unlock, UnlockFails
      <2> QED
            BY <2>1, <2>2, <2>3 DEF Missing, Ending
<1> QED
      BY <1>1 DEF Inside

LEMMA SameMet ==
    ASSUME Next, \A r \in Clicks : ~Lock(r)
    PROVE  met' = met
<1>1. ASSUME NEW r \in Clicks, Inner(r) \/ Missing(r) PROVE met' = met
      <2>1. CASE PoolTimeout(r)
            BY <2>1 DEF PoolTimeout
      <2> QED
            BY <1>1, <2>1 DEF Inner, Missing, Read, ClearNothing, ClearRow, Store, Refresh, Search,
                        Write, SyncFails, StatementFails, CommitLost, RefreshFails
<1>2. ASSUME NEW r \in Clicks, Ending(r) \/ Outer(r) PROVE met' = met
      BY <1>2 DEF Ending, Outer, Unlock, UnlockFails, PoolTimeout, Look, Refuse, Close
<1>3. ASSUME Elsewhere \/ Break \/ Restart PROVE met' = met
      BY <1>3 DEF Elsewhere, ElsewhereTakes, ElsewhereReturns, Break, Restart
<1> QED
      BY <1>1, <1>2, <1>3, StepCases

LEMMA AloneStep ==
    TypeInv /\ AloneInv /\ [Next]_vars => AloneInv' /\ met \subseteq met'
<1> SUFFICES ASSUME TypeInv, AloneInv, [Next]_vars
             PROVE  AloneInv' /\ met \subseteq met'
    OBVIOUS
<1>1. ASSUME met' = met, \A k \in Keys : Inside(k)' \subseteq Inside(k)
      PROVE  AloneInv' /\ met \subseteq met'
      BY <1>1 DEF AloneInv
<1>2. ASSUME NEW r \in Clicks, Lock(r) PROVE AloneInv' /\ met \subseteq met'
      <2>1. PICK k \in Keys : k = key[r]
            BY DEF TypeInv, TypeOK
      <2>2. met' = IF Inside(k) = {} THEN met ELSE met \cup {k}
            BY <1>2, <2>1 DEF Lock
      <2>3. /\ Inside(k)' = Inside(k) \cup {r}
            /\ \A j \in Keys : j # k => Inside(j)' = Inside(j)
            BY <1>2, <2>1, ComeIn
      <2> QED
            BY <2>2, <2>3 DEF AloneInv
<1>3. CASE \A r \in Clicks : ~Lock(r)
      <2>1. met' = met
            BY <1>3, SameMet DEF vars
      <2>2. \A k \in Keys : Inside(k)' \subseteq Inside(k)
            <3>1. ASSUME NEW r \in Clicks, Inner(r) \/ Missing(r) \/ Outer(r)
                  PROVE  \A k \in Keys : Inside(k)' \subseteq Inside(k)
                  BY <3>1, Moves, MoveInside
            <3>2. ASSUME NEW r \in Clicks, Ending(r), NEW k \in Keys
                  PROVE  Inside(k)' \subseteq Inside(k)
                  <4>1. CASE k = key[r]
                        BY <3>2, <4>1, GoOut
                  <4>2. CASE k # key[r]
                        BY <3>2, <4>2, OthersInside
                  <4> QED
                        BY <4>1, <4>2
            <3>3. CASE Elsewhere \/ Break \/ Restart \/ UNCHANGED vars
                  BY <3>3 DEF Elsewhere, ElsewhereTakes, ElsewhereReturns, Break, Restart, vars,
                              Inside, Critical
            <3> QED
                  BY <1>3, <3>1, <3>2, <3>3, StepCases
      <2> QED
            BY <1>1, <2>1, <2>2
<1> QED
      BY <1>2, <1>3

\* What the sync leaves when at most one assessment was there and it was found.
LEMMA WriteEffect ==
    ASSUME TypeInv, NEW r \in Clicks, NEW k, k = key[r], NEW q \in Synced(r),
           Len(thumbs[k]) <= 1, Found(r, k)
    PROVE  IF want[r] = "none" THEN q = <<>> ELSE Len(q) = 1 /\ q[1].value = seen[r]
<1> DEFINE t == thumbs[k]
<1>0. Len(t) <= 1
      OBVIOUS
<1>1. t \in Seq(Thumb) /\ Len(t) \in Nat
      BY DEF TypeInv, TypeOK
<1>2. CASE prior[r] = NoClick
      <2>1. t = <<>>
            BY <1>2 DEF Found
      <2> QED
            BY <1>2, <2>1 DEF Synced
<1>3. CASE prior[r] # NoClick
      <2>1. Len(t) = 1 /\ t[1].id = prior[r]
            <3>1. t # <<>> /\ t[1].id = prior[r]
                  BY <1>3 DEF Found
            <3>2. Len(t) # 0
                  BY <1>1, <3>1, EmptySeq
            <3> HIDE DEF t
            <3> QED
                  BY <1>0, <1>1, <3>1, <3>2
      <2>2. WithId(k, prior[r]) = {1}
            BY <2>1 DEF WithId
      <2>3. CASE want[r] = "none"
            <3>1. q = Without(t, 1)
                  BY <1>3, <2>2, <2>3 DEF Synced
            <3>2. q \in Seq(Thumb) /\ Len(q) = 0
                  <4>1. 1 \in 1..Len(t)
                        BY <2>1
                  <4> HIDE DEF t
                  <4>2. Without(t, 1) \in Seq(Thumb) /\ Len(Without(t, 1)) = Len(t) - 1
                        BY <1>1, <4>1, WithoutType
                  <4> QED
                        BY <2>1, <3>1, <4>2
            <3> QED
                  BY <2>3, <3>2, EmptySeq
      <2>4. CASE want[r] # "none"
            <3>1. q = [t EXCEPT ![1].value = seen[r]]
                  BY <1>3, <2>2, <2>4 DEF Synced
            <3>2. t[1] \in Thumb /\ 1 \in 1..Len(t)
                  BY <1>1, <2>1, ElementOfSeq
            <3>3. q[1].value = seen[r] /\ Len(q) = 1
                  <4> HIDE DEF t
                  <4>1. DOMAIN t = 1..Len(t) /\ DOMAIN q = DOMAIN t
                        BY <1>1, <3>1
                  <4>2. q[1] = [t[1] EXCEPT !.value = seen[r]]
                        BY <3>1, <3>2, <4>1
                  <4>3. q[1].value = seen[r]
                        BY <3>2, <4>2 DEF Thumb
                  <4>4. Len(q) = Len(t)
                        BY <1>1, <3>1, <4>1
                  <4> QED
                        BY <2>1, <4>3, <4>4
            <3> QED
                  BY <2>4, <3>3
      <2> QED
            BY <2>3, <2>4
<1> QED
      BY <1>2, <1>3

LEMMA FirstThumb ==
    ASSUME TypeInv, NEW k \in Keys, thumbs[k] # <<>>
    PROVE  thumbs[k][1].id \in Clicks
<1> DEFINE t == thumbs[k]
<1>1. t \in Seq(Thumb) /\ t # <<>>
      BY DEF TypeInv, TypeOK
<1>2. t[1] \in Thumb
      <2> HIDE DEF t
      <2> QED
            BY <1>1, EmptySeq, ElementOfSeq
<1> QED
      BY <1>2 DEF Thumb

LEMMA ThumbStep ==
    TypeInv /\ AloneInv /\ ThumbInv /\ [Next]_vars => ThumbInv'
<1> SUFFICES ASSUME TypeInv, AloneInv, ThumbInv, [Next]_vars, NEW k \in Keys, k \notin met'
             PROVE  /\ Len(thumbs'[k]) <= 1
                    /\ \A r \in Inside(k)' : pc'[r] = "found" => Found(r, k)'
    BY DEF ThumbInv
<1> DEFINE Goal == /\ Len(thumbs'[k]) <= 1
                   /\ \A r \in Inside(k)' : pc'[r] = "found" => Found(r, k)'
<1>1. /\ k \notin met /\ Len(thumbs[k]) <= 1
      /\ \A r, x \in Inside(k) : r = x
      /\ \A r \in Inside(k) : pc[r] = "found" => Found(r, k)
      BY AloneStep DEF ThumbInv, AloneInv
<1>2. ASSUME UNCHANGED <<thumbs, key>>,
             \A r \in Clicks : pc'[r] = "found" => pc[r] = "found" /\ prior'[r] = prior[r]
      PROVE  Goal
      BY <1>1, <1>2 DEF Inside, Found, Critical
<1>3. ASSUME NEW x \in Clicks, Search(x) PROVE Goal
      <2>1. thumbs[k] # <<>> => thumbs[k][1].id \in Clicks
            BY FirstThumb
      <2>2. UNCHANGED <<thumbs, key>> /\ Inside(k)' = Inside(k)
            BY <1>3, StayInside DEF Inner, Search
      <2>3. ASSUME NEW r \in Inside(k), pc'[r] = "found" PROVE Found(r, k)'
            <3>1. CASE r = x
                  <4>1. prior'[r] = IF thumbs[k] = <<>> THEN NoClick ELSE thumbs[k][1].id
                        BY <1>3, <3>1 DEF Search, Inside, TypeInv, TypeOK
                  <4> QED
                        BY <2>1, <2>2, <4>1, FeedbackConstants DEF Found
            <3>2. CASE r # x
                  BY <1>1, <1>3, <2>3, <3>2 DEF Search, Found, Inside, TypeInv, TypeOK
            <3> QED
                  BY <3>1, <3>2
      <2> QED
            BY <1>1, <2>2, <2>3
<1>4. ASSUME NEW x \in Clicks, Write(x) PROVE Goal
      <2>1. PICK q \in Synced(x) : thumbs' = [thumbs EXCEPT ![key[x]] = q]
            BY <1>4 DEF Write
      <2>2. Inside(k)' = Inside(k) /\ UNCHANGED <<key, prior>> /\ pc' = [pc EXCEPT ![x] = "unlock"]
            BY <1>4, StayInside DEF Inner, Write, mine
      <2>3. CASE k = key[x]
            <3>1. x \in Inside(k) /\ pc[x] = "found"
                  BY <1>4, <2>3 DEF Write, Inside, Critical
            <3>2. \A r \in Inside(k)' : pc'[r] # "found"
                  BY <1>1, <2>2, <3>1 DEF TypeInv, TypeOK
            <3>3. Len(q) <= 1
                  <4>1. q = <<>> \/ Len(q) = 1
                        BY <1>1, <2>3, <3>1, WriteEffect
                  <4>2. Len(<<>>) = 0
                        OBVIOUS
                  <4>3. Len(q) = 0 \/ Len(q) = 1
                        BY <4>1, <4>2, Zenon
                  <4> QED
                        BY <4>3
            <3>4. thumbs'[k] = q
                  BY <2>1, <2>3 DEF TypeInv, TypeOK
            <3>5. Len(thumbs'[k]) <= 1
                  BY <3>3, <3>4, Zenon
            <3> QED
                  BY <3>2, <3>5
      <2>4. CASE k # key[x]
            <3>1. thumbs'[k] = thumbs[k]
                  BY <2>1, <2>4 DEF TypeInv, TypeOK
            <3>2. \A r \in Inside(k)' : r # x
                  BY <2>2, <2>4 DEF Inside
            <3> QED
                  BY <1>1, <2>2, <3>1, <3>2 DEF Found, Inside, TypeInv, TypeOK
      <2> QED
            BY <2>3, <2>4
<1>5. ASSUME NEW x \in Clicks,
             \/ Read(x) \/ ClearNothing(x) \/ ClearRow(x) \/ Store(x) \/ Refresh(x)
             \/ Outer(x) \/ Missing(x) \/ Lock(x) \/ Ending(x)
      PROVE  Goal
      <2>1. /\ UNCHANGED <<thumbs, key>> /\ pc'[x] # "found"
            /\ \A r \in Clicks : r # x => pc'[r] = pc[r] /\ prior'[r] = prior[r]
            <3> USE DEF TypeInv, TypeOK, mine
            <3>1. CASE Read(x) \/ ClearNothing(x) \/ ClearRow(x) \/ Store(x)
                  BY <3>1 DEF Read, ClearNothing, ClearRow, Store
            <3>2. CASE Refresh(x)
                  BY <3>2 DEF Refresh
            <3>3. CASE Outer(x) \/ Lock(x)
                  BY <3>3 DEF Outer, Look, Refuse, Close, Lock
            <3>4. CASE SyncFails(x) \/ StatementFails(x) \/ CommitLost(x) \/ RefreshFails(x)
                  BY <3>4 DEF SyncFails, StatementFails, CommitLost, RefreshFails
            <3>5. CASE PoolTimeout(x)
                  BY <3>5 DEF PoolTimeout
            <3>6. CASE Unlock(x) \/ UnlockFails(x)
                  BY <3>6 DEF Unlock, UnlockFails
            <3> QED
                  BY <1>5, <3>1, <3>2, <3>3, <3>4, <3>5, <3>6 DEF Missing, Ending
      <2> QED
            BY <1>2, <2>1
<1>6. CASE Elsewhere \/ Break \/ Restart \/ UNCHANGED vars
      <2>1. /\ UNCHANGED <<thumbs, key>>
            /\ \A r \in Clicks : pc'[r] = "found" => pc[r] = "found" /\ prior'[r] = prior[r]
            BY <1>6 DEF Elsewhere, ElsewhereTakes, ElsewhereReturns, Break, Restart, vars, mine
      <2> QED
            BY <1>2, <2>1
<1> QED
      BY <1>3, <1>4, <1>5, <1>6, StepCases DEF Inner

\* A trace carries at most one assessment of a user whose clicks never met.
THEOREM ClicksApartLeaveOneThumb == Spec => []OneThumbUnlessMet
<1>1. Init => AloneInv /\ ThumbInv
      BY DEF Init, AloneInv, ThumbInv, Inside, Critical
<1>2. ThumbInv => OneThumbUnlessMet
      BY DEF ThumbInv, OneThumbUnlessMet
<1> QED
      BY <1>1, <1>2, TypeInit, TypeStep, AloneStep, ThumbStep, PTL DEF Spec

-------------------------------------------------------------------------------
(***************************************************************************)
(* MLflow follows Postgres                                                 *)
(***************************************************************************)
RatedInv == \A k \in Keys : rowId[k] = NoClick => rating[k] = "none"

Match(k) ==
    IF rating[k] = "none" THEN thumbs[k] = <<>>
    ELSE Len(thumbs[k]) = 1 /\ thumbs[k][1].value = rating[k]

\* How far the click r on k is in making the two agree.
Follows(r, k) ==
    /\ pc[r] \in {"locked", "read", "unlock"} => Match(k)
    /\ pc[r] = "read" => existing[r] = rowId[k] /\ seen[r] = rating[k]
    /\ pc[r] = "committed" => want[r] # "none" /\ rating[k] = want[r] /\ rowId[k] = OwnRow(r)
    /\ pc[r] \in {"sync", "found"} =>
          rating[k] = want[r] /\ (want[r] # "none" => seen[r] = want[r])

FollowsAt(k) ==
    /\ Inside(k) = {} => Match(k)
    /\ \A r \in Inside(k) : Follows(r, k)

FollowInv == \A k \in Keys : k \notin met \cup missed => FollowsAt(k)

LEMMA RatedStep == TypeInv /\ RatedInv /\ [Next]_vars => RatedInv'
<1> SUFFICES ASSUME TypeInv, RatedInv, [Next]_vars PROVE RatedInv'
    OBVIOUS
<1> USE DEF TypeInv, TypeOK, store
<1>1. ASSUME NEW r \in Clicks, Cleared(r) PROVE RatedInv'
      BY <1>1 DEF Cleared, RatedInv
<1>2. ASSUME NEW r \in Clicks, Stored(r) PROVE RatedInv'
      BY <1>2, FeedbackConstants DEF Stored, RatedInv
<1>3. ASSUME UNCHANGED <<rowId, rating>> PROVE RatedInv'
      BY <1>3 DEF RatedInv
<1>4. ASSUME NEW r \in Clicks, ClearRow(r) \/ Store(r) \/ CommitLost(r) PROVE RatedInv'
      BY <1>1, <1>2, <1>4 DEF ClearRow, Store, CommitLost
<1>5. ASSUME NEW r \in Clicks,
             \/ Read(r) \/ ClearNothing(r) \/ Refresh(r) \/ Search(r) \/ Write(r)
             \/ Outer(r) \/ Lock(r)
      PROVE  UNCHANGED <<rowId, rating>>
      BY <1>5 DEF Read, ClearNothing, Refresh, Search, Write, Outer, Look, Refuse, Close, Lock
<1>6. ASSUME NEW r \in Clicks,
             \/ SyncFails(r) \/ StatementFails(r) \/ RefreshFails(r) \/ PoolTimeout(r) \/ Ending(r)
      PROVE  UNCHANGED <<rowId, rating>>
      <2>1. CASE PoolTimeout(r)
            BY <2>1 DEF PoolTimeout
      <2> QED
            BY <1>6, <2>1 DEF SyncFails, StatementFails, RefreshFails, Ending, Unlock, UnlockFails
<1>7. CASE Elsewhere \/ Break \/ Restart \/ UNCHANGED vars
      BY <1>3, <1>7 DEF Elsewhere, ElsewhereTakes, ElsewhereReturns, Break, Restart, vars
<1> QED
      BY <1>3, <1>4, <1>5, <1>6, <1>7, StepCases DEF Inner, Missing

\* A click's step leaves the rows, the assessments and the clicks of other keys.
LEMMA OtherKey ==
    ASSUME TypeInv, NEW x \in Clicks, NEW k \in Keys, key[x] # k, FollowsAt(k),
           Inner(x) \/ Outer(x) \/ Missing(x) \/ Lock(x) \/ Ending(x)
    PROVE  FollowsAt(k)'
<1> USE DEF TypeInv, TypeOK, store, mine
<1>1. Inside(k)' = Inside(k) /\ x \notin Inside(k)
      <2>1. Inside(k)' = Inside(k)
            BY StayInside, OthersInside, ComeIn
      <2> QED
            BY <2>1 DEF Inside
<1>2. /\ rowId'[k] = rowId[k] /\ rating'[k] = rating[k] /\ thumbs'[k] = thumbs[k]
      /\ want' = want
      /\ \A r \in Clicks : r # x =>
            pc'[r] = pc[r] /\ seen'[r] = seen[r] /\ existing'[r] = existing[r]
      <2>1. CASE Read(x) \/ ClearNothing(x) \/ Search(x)
            BY <2>1 DEF Read, ClearNothing, Search
      <2>2. CASE Write(x)
            BY <2>2 DEF Write
      <2>3. ASSUME Cleared(x) \/ Stored(x)
            PROVE  rowId'[k] = rowId[k] /\ rating'[k] = rating[k]
            BY <2>3 DEF Cleared, Stored
      <2>4. CASE ClearRow(x) \/ Store(x) \/ CommitLost(x)
            <3>1. rowId'[k] = rowId[k] /\ rating'[k] = rating[k]
                  BY <2>3, <2>4 DEF ClearRow, Store, CommitLost
            <3> QED
                  BY <2>4, <3>1 DEF ClearRow, Store, CommitLost
      <2>5. CASE Refresh(x)
            BY <2>5 DEF Refresh
      <2>6. CASE Outer(x) \/ Lock(x)
            BY <2>6 DEF Outer, Look, Refuse, Close, Lock
      <2>7. CASE SyncFails(x) \/ StatementFails(x) \/ RefreshFails(x)
            BY <2>7 DEF SyncFails, StatementFails, RefreshFails
      <2>8. CASE PoolTimeout(x)
            BY <2>8 DEF PoolTimeout
      <2>9. CASE Unlock(x) \/ UnlockFails(x)
            BY <2>9 DEF Unlock, UnlockFails
      <2> QED
            BY <2>1, <2>2, <2>4, <2>5, <2>6, <2>7, <2>8, <2>9 DEF Inner, Missing, Ending
<1>3. Match(k)' <=> Match(k)
      BY <1>2 DEF Match
<1>4. ASSUME NEW r \in Inside(k) PROVE Follows(r, k)'
      <2>1. r \in Clicks /\ r # x
            BY <1>1 DEF Inside
      <2>2. OwnRow(r)' = OwnRow(r)
            BY <1>2, <2>1 DEF OwnRow
      <2> QED
            BY <1>2, <1>3, <2>1, <2>2 DEF Follows, FollowsAt
<1> QED
      BY <1>1, <1>3, <1>4 DEF FollowsAt

\* A step of the only click inside takes it on.
LEMMA OwnKey ==
    ASSUME TypeInv, RatedInv, NEW k \in Keys, NEW x \in Clicks, key[x] = k,
           Inside(k) = {x}, Follows(x, k), Len(thumbs[k]) <= 1,
           pc[x] = "found" => Found(x, k), Inner(x)
    PROVE  FollowsAt(k)'
<1> USE DEF TypeInv, TypeOK, store, mine
<1>1. Inside(k)' = {x}
      BY StayInside
<1>2. SUFFICES Follows(x, k)'
      BY <1>1 DEF FollowsAt
<1>3. CASE Read(x)
      BY <1>3 DEF Read, Follows, Match
<1>4. CASE ClearNothing(x)
      BY <1>4 DEF ClearNothing, Follows, RatedInv
<1>5. CASE ClearRow(x)
      BY <1>5 DEF ClearRow, Cleared, Follows
<1>6. CASE Store(x)
      <2>1. /\ pc'[x] = "committed" /\ want' = want /\ want[x] # "none" /\ existing' = existing
            /\ rowId'[k] = IF existing[x] = NoClick THEN x ELSE rowId[k]
            /\ rating'[k] = IF Unchanged(x) THEN rating[k] ELSE want[x]
            /\ existing[x] = rowId[k] /\ seen[x] = rating[k]
            BY <1>6 DEF Store, Stored, Follows
      <2> QED
            BY <2>1 DEF Follows, OwnRow, Unchanged
<1>7. CASE Refresh(x)
      <2>1. rowId[k] = OwnRow(x) /\ rating[k] = want[x]
            BY <1>7 DEF Refresh, Follows
      <2>2. /\ pc' = [pc EXCEPT ![x] = "sync"] /\ seen' = [seen EXCEPT ![x] = rating[key[x]]]
            /\ UNCHANGED <<rating, want>>
            BY <1>7, <2>1 DEF Refresh
      <2> QED
            BY <2>1, <2>2 DEF Follows
<1>8. CASE Search(x)
      BY <1>8 DEF Search, Follows
<1>9. CASE Write(x)
      <2>1. PICK q \in Synced(x) : thumbs' = [thumbs EXCEPT ![key[x]] = q]
            BY <1>9 DEF Write
      <2>2. /\ pc[x] = "found" /\ pc'[x] = "unlock" /\ UNCHANGED <<rating, want>>
            /\ thumbs'[k] = q
            BY <1>9, <2>1 DEF Write
      <2>3. /\ rating[k] = want[x]
            /\ IF want[x] = "none" THEN q = <<>> ELSE Len(q) = 1 /\ q[1].value = want[x]
            BY <2>2, WriteEffect DEF Follows
      <2> QED
            BY <2>2, <2>3 DEF Follows, Match
<1> QED
      BY <1>3, <1>4, <1>5, <1>6, <1>7, <1>8, <1>9 DEF Inner

LEMMA FollowStep ==
    /\ TypeInv /\ RatedInv /\ AloneInv /\ ThumbInv /\ FollowInv
    /\ [Next]_vars
    => FollowInv'
<1> SUFFICES ASSUME TypeInv, RatedInv, AloneInv, ThumbInv, FollowInv,
                    [Next]_vars, NEW k \in Keys, k \notin met', k \notin missed'
             PROVE  FollowsAt(k)'
    BY DEF FollowInv
<1>1. missed \subseteq missed'
      <2>1. ASSUME NEW r \in Clicks, Inner(r) \/ Outer(r) \/ Lock(r)
            PROVE  missed \subseteq missed'
            BY <2>1 DEF Inner, Outer, Read, ClearNothing, ClearRow, Store, Refresh, Search, Write,
                        Look, Refuse, Close, Lock
      <2>2. ASSUME NEW r \in Clicks, Missing(r) \/ Ending(r)
            PROVE  missed \subseteq missed'
            <3>1. CASE PoolTimeout(r)
                  BY <3>1 DEF PoolTimeout
            <3> QED
                  BY <2>2, <3>1 DEF Missing, Ending, SyncFails, StatementFails, CommitLost,
                        RefreshFails, Unlock, UnlockFails
      <2>3. CASE Elsewhere \/ Break \/ Restart \/ UNCHANGED vars
            BY <2>3 DEF Elsewhere, ElsewhereTakes, ElsewhereReturns, Break, Restart, vars
      <2> QED
            BY <2>1, <2>2, <2>3, StepCases
<1>2. /\ FollowsAt(k) /\ Len(thumbs[k]) <= 1 /\ k \notin met
      /\ \A r, x \in Inside(k) : r = x
      /\ \A r \in Inside(k) : pc[r] = "found" => Found(r, k)
      BY <1>1, AloneStep DEF FollowInv, ThumbInv, AloneInv
<1>3. ASSUME NEW x \in Clicks, key[x] = k, Inner(x) PROVE FollowsAt(k)'
      <2>1. x \in Inside(k)
            BY <1>3 DEF Inner, Read, ClearNothing, ClearRow, Store, Refresh, Search, Write,
                        Inside, Critical
      <2>2. Inside(k) = {x} /\ Follows(x, k)
            BY <1>2, <2>1 DEF FollowsAt
      <2> QED
            BY <1>2, <1>3, <2>1, <2>2, OwnKey
<1>4. ASSUME NEW x \in Clicks, key[x] = k, Outer(x) PROVE FollowsAt(k)'
      <2>1. Inside(k)' = Inside(k) /\ x \notin Inside(k)
            <3>1. Inside(k)' = Inside(k)
                  BY <1>4, StayInside
            <3>2. pc[x] \notin Critical
                  BY <1>4 DEF Outer, Look, Refuse, Close, Critical
            <3> QED
                  BY <3>1, <3>2 DEF Inside
      <2>2. /\ UNCHANGED <<rowId, rating, thumbs, want>>
            /\ \A r \in Clicks : r # x =>
                  pc'[r] = pc[r] /\ seen'[r] = seen[r] /\ existing'[r] = existing[r]
            BY <1>4 DEF Outer, Look, Refuse, Close, store, mine, TypeInv, TypeOK
      <2> QED
            BY <1>2, <2>1, <2>2 DEF FollowsAt, Follows, Match, OwnRow, Inside
<1>5. ASSUME NEW x \in Clicks, key[x] = k, Lock(x) PROVE FollowsAt(k)'
      <2>1. Inside(k) = {}
            BY <1>5 DEF Lock
      <2>2. Inside(k)' = {x} /\ Match(k)
            BY <1>2, <1>5, <2>1, ComeIn DEF FollowsAt
      <2>3. pc'[x] = "locked" /\ UNCHANGED <<rating, thumbs>>
            BY <1>5 DEF Lock, store, TypeInv, TypeOK
      <2> QED
            BY <2>2, <2>3 DEF FollowsAt, Follows, Match
<1>6. ASSUME NEW x \in Clicks, key[x] = k, Ending(x) PROVE FollowsAt(k)'
      <2>1. x \in Inside(k) /\ Inside(k)' = Inside(k) \ {x}
            BY <1>6, GoOut
      <2>2. Inside(k)' = {} /\ Follows(x, k)
            BY <1>2, <2>1 DEF FollowsAt
      <2>3. pc[x] = "unlock" /\ UNCHANGED <<rating, thumbs>>
            BY <1>6 DEF Ending, Unlock, UnlockFails, PoolTimeout, store
      <2> QED
            BY <2>2, <2>3 DEF FollowsAt, Follows, Match
<1>7. ASSUME NEW x \in Clicks, key[x] = k, Missing(x) PROVE FALSE
      <2>1. k \in missed'
            <3>1. CASE PoolTimeout(x) /\ pc[x] = "committed"
                  BY <1>7, <3>1 DEF PoolTimeout
            <3> QED
                  BY <1>7, <3>1 DEF Missing, SyncFails, StatementFails, CommitLost, RefreshFails
      <2> QED
            BY <2>1
<1>8. CASE Restart
      <2>1. Inside(k) = {} /\ Inside(k)' = {}
            BY <1>8 DEF Restart, Inside, TypeInv, TypeOK, Critical
      <2> QED
            BY <1>2, <1>8, <2>1 DEF Restart, FollowsAt, Match, store
<1>9. CASE Elsewhere \/ Break \/ UNCHANGED vars
      <2>1. Inside(k)' = Inside(k) /\ UNCHANGED <<rowId, rating, thumbs, want, seen, existing, pc>>
            BY <1>9 DEF Elsewhere, ElsewhereTakes, ElsewhereReturns, Break, vars, store, mine, Inside
      <2> QED
            BY <1>2, <2>1 DEF FollowsAt, Follows, Match, OwnRow
<1> QED
      BY <1>2, <1>3, <1>4, <1>5, <1>6, <1>7, <1>8, <1>9, OtherKey, StepCases

\* Once nobody is inside, MLflow has the row's rating, unless clicks met on the key
\* or a sync was missed.
THEOREM MLflowFollowsTheRow == Spec => []MLflowFollows
<1>1. Init => RatedInv /\ AloneInv /\ ThumbInv
      BY DEF Init, RatedInv, AloneInv, ThumbInv, Inside, Critical
<1>2. Init => FollowInv
      <2>1. Init => \A k \in Keys : Inside(k) = {} /\ Match(k)
            BY DEF Init, Inside, Critical, Match
      <2> QED
            BY <2>1 DEF FollowInv, FollowsAt
<1>3. FollowInv => MLflowFollows
      BY DEF FollowInv, FollowsAt, Match, MLflowFollows
<1> QED
      BY <1>1, <1>2, <1>3, TypeInit, TypeStep, RatedStep,
         AloneStep, ThumbStep, FollowStep, PTL DEF Spec
===============================================================================

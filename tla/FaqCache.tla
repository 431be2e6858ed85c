------------------------------- MODULE FaqCache -------------------------------
(***************************************************************************)
(* SqlFaqCache: the FAQ store over Postgres (FAQ_CACHE_BACKEND=postgres)   *)
(* as POST /api/chatbot/ask, .../promote and .../reject call it.  Every    *)
(* method SELECTs a row, changes the object and commits: between SELECT    *)
(* and commit other requests run.  The UPDATE holds only the columns whose *)
(* value differs from the one that was read.                               *)
(***************************************************************************)
EXTENDS FaqEntries

CONSTANTS
    Deployments,    \* the code and the corpus that a process may run with
    Stamp           \* what current_version_stamp() makes of them

\* The stamp hashes `git rev-parse`, "unknown" where there is none, with the number and
\* ids of the corpus' cards: deployments that differ in more may share a stamp.
ASSUME StampConstants == Stamp \in [Deployments -> Versions]

VARIABLES
    entries,        \* the table faq_cache
    deployed,       \* the code and corpus of the running process
    pc,             \* idle, read (between SELECT and commit), done, refused or cut
    op,             \* the method that was called
    row,            \* id of the row it works on (the call's own id for an INSERT)
    copy,           \* the row as it was read, NoEntry for an INSERT
    new,            \* the row as the method wants it
    asked,          \* the captured key, answer and sources, and on which deployment
    alone           \* history: no other call on the same key was in flight beside it

vars == <<entries, deployed, pc, op, row, copy, new, asked, alone>>

\* A captured answer and the deployment that gave it.
Asked == [key : Keys, answer : Answers, sources : Docs \cup {NoDocs}, on : Deployments]

version == Stamp[deployed]

Stored  == {i \in Calls : entries[i] # NoEntry}
Busy(k) == {c \in Calls : pc[c] = "read" /\ new[c].key = k}

TypeOK ==
    /\ entries \in [Calls -> Entry \cup {NoEntry}]
    /\ deployed \in Deployments
    /\ pc      \in [Calls -> {"idle", "read", "done", "refused", "cut"}]
    /\ op      \in [Calls -> {"none", "capture", "promote", "reject"}]
    /\ row     \in [Calls -> Calls]
    /\ copy    \in [Calls -> Entry \cup {NoEntry}]
    /\ new     \in [Calls -> Entry \cup {NoEntry}]
    /\ asked   \in [Calls -> Asked \cup {NoEntry}]
    /\ alone   \in [Calls -> BOOLEAN]
    /\ \A c \in Calls : pc[c] = "read" =>
          new[c] \in Entry /\ (copy[c] = NoEntry <=> row[c] \notin Stored)

Init ==
    /\ entries = [i \in Calls |-> NoEntry]
    /\ deployed \in Deployments
    /\ pc    = [c \in Calls |-> "idle"]
    /\ op    = [c \in Calls |-> "none"]
    /\ row   = [c \in Calls |-> c]
    /\ copy  = [c \in Calls |-> NoEntry]
    /\ new   = [c \in Calls |-> NoEntry]
    /\ asked = [c \in Calls |-> NoEntry]
    /\ alone = [c \in Calls |-> TRUE]

-------------------------------------------------------------------------------

\* What c keeps between its SELECT and its commit; the rest is bookkeeping.
Select(c, method, i, old, wanted) ==
    /\ pc'    = [pc EXCEPT ![c] = "read"]
    /\ op'    = [op EXCEPT ![c] = method]
    /\ row'   = [row EXCEPT ![c] = i]
    /\ copy'  = [copy EXCEPT ![c] = old]
    /\ new'   = [new EXCEPT ![c] = wanted]
    /\ alone' = [x \in Calls |-> IF x = c THEN Busy(wanted.key) = {}
                                 ELSE alone[x] /\ x \notin Busy(wanted.key)]

\* Faulty variant: the lookup only sees entries that still wait for review.
MatchesSuggested(k) == {i \in Stored : entries[i].key = k /\ entries[i].status = "suggested"}

\* select(FaqCache).where(cache_key == key); .first() takes any of them.
Matches(k) == {i \in Stored : entries[i].key = k}

\* capture_answer and the SELECT of record_suggestion.
Capture(c, k, a, d) ==
    /\ pc[c] = "idle"
    /\ ShouldCache(d)
    /\ asked' = [asked EXCEPT ![c] = [key |-> k, answer |-> a, sources |-> d, on |-> deployed]]
    /\ \/ \E i \in Matches(k) :
             Select(c, "capture", i, entries[i], Bumped(entries[i], a, d, version))
       \/ /\ Matches(k) = {}
          /\ Select(c, "capture", c, NoEntry, Fresh(k, a, d, version))
    /\ UNCHANGED <<entries, deployed>>

\* Faulty variant: what the SELECT returned is published without a look at it.
PromoteUnchecked(c, i) ==
    /\ pc[c] = "idle" /\ i \in Stored
    /\ Select(c, "promote", i, entries[i], [entries[i] EXCEPT !.status = "published"])
    /\ UNCHANGED <<entries, deployed, asked>>

\* promote: 404 without a row (nothing changes), 422 unless promotable.
Promote(c, i) ==
    /\ pc[c] = "idle" /\ i \in Stored
    /\ Promotable(entries[i])
    /\ Select(c, "promote", i, entries[i], [entries[i] EXCEPT !.status = "published"])
    /\ UNCHANGED <<entries, deployed, asked>>

RefusePromote(c, i) ==
    /\ pc[c] = "idle" /\ i \in Stored
    /\ ~Promotable(entries[i])
    /\ pc' = [pc EXCEPT ![c] = "refused"]
    /\ op' = [op EXCEPT ![c] = "promote"]
    /\ UNCHANGED <<entries, deployed, row, copy, new, asked, alone>>

Reject(c, i) ==
    /\ pc[c] = "idle" /\ i \in Stored
    /\ Select(c, "reject", i, entries[i], [entries[i] EXCEPT !.status = "rejected"])
    /\ UNCHANGED <<entries, deployed, asked>>

\* Faulty variant: every column of the object is written back.
MergedWhole(current, old, wanted) == wanted

\* UPDATE of the columns that changed against the row that was read.
Merged(current, old, wanted) ==
    [f \in DOMAIN current |-> IF wanted[f] = old[f] THEN current[f] ELSE wanted[f]]

\* commit
Commit(c) ==
    /\ pc[c] = "read"
    /\ entries' = [entries EXCEPT ![row[c]] =
           IF copy[c] = NoEntry THEN new[c] ELSE Merged(@, copy[c], new[c])]
    /\ pc' = [pc EXCEPT ![c] = "done"]
    /\ UNCHANGED <<deployed, op, row, copy, new, asked, alone>>

\* The backend is restarted, perhaps with other code or another corpus: the code and
\* the corpus (read once, lru_cache) of a process stay what they were at its start.
Restart ==
    /\ pc' = [c \in Calls |-> IF pc[c] = "read" THEN "cut" ELSE pc[c]]
    /\ deployed' \in Deployments
    /\ UNCHANGED <<entries, op, row, copy, new, asked, alone>>

Next ==
    \/ \E c \in Calls :
          \/ \E k \in Keys, a \in Answers, d \in Docs \cup {NoDocs} : Capture(c, k, a, d)
          \/ \E i \in Calls : Promote(c, i) \/ RefusePromote(c, i) \/ Reject(c, i)
          \/ Commit(c)
    \/ Restart

Spec == Init /\ [][Next]_vars

\* list_published with the current stamp: what GET /api/chatbot/faqs may show.
Served == {i \in Stored : entries[i].status = "published" /\ entries[i].stamp = version}

-------------------------------------------------------------------------------
(***************************************************************************)
(* Properties                                                              *)
(***************************************************************************)

\* cache_key is indexed but not unique: two entries share a key only if the
\* captures that inserted them were between SELECT and commit together.
OneEntryPerKeyUnlessRaced ==
    \A i, j \in Stored : i # j /\ entries[i].key = entries[j].key => ~alone[i] /\ ~alone[j]

\* The answer of entry i, with just these sources, was given on a deployment of ds.
Delivered(i, ds) == \E c \in Calls, d \in ds :
    asked[c] = [key |-> entries[i].key, answer |-> entries[i].answer,
                sources |-> entries[i].sources, on |-> d]

\* What the stamp does not tell from the running deployment.
Alike == {d \in Deployments : Stamp[d] = version}

\* "Drop stale": what is served as current was answered, with just these sources, on a
\* deployment that the stamp does not tell from the running one (on the running one,
\* if its stamp is its own), unless calls on the entry overlapped.
ServedIsCurrent ==
    \A i \in Served : Delivered(i, Alike) \/ \E c \in Calls : row[c] = i /\ ~alone[c]

\* Once no promote that read it before is under way, a rejected entry stays
\* rejected: repeats, restarts and later moderation never bring it back.
RejectionIsFinal ==
    [][\A i \in Stored :
         /\ entries[i].status = "rejected"
         /\ \A c \in Calls : ~(pc[c] = "read" /\ op[c] = "promote" /\ row[c] = i)
         => entries'[i].status = "rejected"]_vars

Store == INSTANCE FaqStore

StoreStep(c) ==
    CASE op[c] = "capture" -> Store!Record(c, asked[c].key, asked[c].answer,
                                           asked[c].sources, Stamp[asked[c].on])
      [] op[c] = "promote" -> Store!Promote(row[c])
      [] op[c] = "reject"  -> Store!Reject(row[c])
      [] OTHER             -> FALSE

\* The same interface as the in-memory store: a call that no other call on its
\* key overlapped does to the table what the in-memory method does at once.
AloneIsAtomic ==
    [][\A c \in Calls : pc[c] = "read" /\ pc'[c] = "done" /\ alone[c] => StoreStep(c)]_vars

\* "Nothing publishes silently": the text of a published entry does not change
\* while it stays published, because only promote checks what gets published.
NothingPublishesSilently ==
    [][\A i \in Stored :
         entries[i].status = "published" /\ entries'[i].status = "published"
         => entries'[i].answer = entries[i].answer]_vars
===============================================================================

------------------------------- MODULE FaqStore -------------------------------
(***************************************************************************)
(* The FAQ store as InMemoryFaqCache has it: its methods never await, so a *)
(* call on the event loop is one atomic step.  SqlFaqCache "implements the *)
(* same interface"; FaqCache says how far that goes.                       *)
(***************************************************************************)
EXTENDS FaqEntries

VARIABLE entries    \* _by_id; the index _key_to_id is the key of an entry

StoreInit == entries = [i \in Calls |-> NoEntry]

Stored == {i \in Calls : entries[i] # NoEntry}

\* record_suggestion; i is the uuid4 a new entry gets.
Record(i, k, a, d, v) ==
    \/ \E j \in Stored :
          /\ entries[j].key = k
          /\ entries' = [entries EXCEPT ![j] = Bumped(@, a, d, v)]
    \/ /\ \A j \in Stored : entries[j].key # k
       /\ i \notin Stored
       /\ entries' = [entries EXCEPT ![i] = Fresh(k, a, d, v)]

Promote(i) ==
    /\ i \in Stored /\ Promotable(entries[i])
    /\ entries' = [entries EXCEPT ![i].status = "published"]

Reject(i) ==
    /\ i \in Stored
    /\ entries' = [entries EXCEPT ![i].status = "rejected"]

StoreNext == \E i \in Calls :
    \/ \E k \in Keys, a \in Answers, d \in Docs, v \in Versions : Record(i, k, a, d, v)
    \/ Promote(i)
    \/ Reject(i)

StoreSpec == StoreInit /\ [][StoreNext]_entries
===============================================================================

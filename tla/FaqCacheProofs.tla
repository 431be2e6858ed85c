---------------------------- MODULE FaqCacheProofs ----------------------------
(***************************************************************************)
(* Theorems about FaqCache, for any number of calls, questions, answers,   *)
(* source lists and versions.                                              *)
(***************************************************************************)
EXTENDS FaqCache, TLAPS

\* A method up to its SELECT.
Begins(c) ==
    \/ \E k \in Keys, a \in Answers, d \in Docs \cup {NoDocs} : Capture(c, k, a, d)
    \/ \E i \in Calls : Promote(c, i) \/ Reject(c, i)

LEMMA StepCases ==
    ASSUME Next
    PROVE  \/ \E c \in Calls : Begins(c) \/ Commit(c)
           \/ \E c \in Calls, i \in Calls : RefusePromote(c, i)
           \/ Restart
BY DEF Next, Begins

-------------------------------------------------------------------------------
(***************************************************************************)
(* Entries                                                                 *)
(***************************************************************************)

LEMMA FreshType ==
    ASSUME NEW k \in Keys, NEW a \in Answers, NEW d \in Docs \cup {NoDocs}, NEW v \in Versions
    PROVE  Fresh(k, a, d, v) \in Entry
BY DEF Fresh, Entry, Status

LEMMA BumpedType ==
    ASSUME NEW e \in Entry, NEW a \in Answers, NEW d \in Docs \cup {NoDocs}, NEW v \in Versions
    PROVE  /\ Bumped(e, a, d, v) \in Entry
           /\ Bumped(e, a, d, v).key = e.key
           /\ Bumped(e, a, d, v).status = e.status
           /\ Bumped(e, a, d, v).stamp = v
           /\ e.status # "rejected" /\ d # NoDocs =>
                 Bumped(e, a, d, v).answer = a /\ Bumped(e, a, d, v).sources = d
<1> DEFINE hit     == [e EXCEPT !.hits = @ + 1]
           counted == [hit EXCEPT !.stamp = v]
<1>1. hit \in Entry /\ hit.key = e.key /\ hit.status = e.status
      BY DEF Entry
<1>2. counted \in Entry /\ counted.key = e.key /\ counted.status = e.status /\ counted.stamp = v
      <2> HIDE DEF hit
      <2> QED
            BY <1>1 DEF Entry
<1>3. CASE e.status = "rejected"
      <2>1. Bumped(e, a, d, v) = counted
            BY <1>3 DEF Bumped
      <2> QED
            BY <1>2, <1>3, <2>1
<1>4. CASE e.status # "rejected"
      <2> DEFINE told  == [counted EXCEPT !.answer = a]
                 final == [told EXCEPT !.sources = IF d = NoDocs THEN @ ELSE d]
      <2>1. Bumped(e, a, d, v) = final
            BY <1>4 DEF Bumped
      <2> HIDE DEF counted
      <2>2. /\ told \in Entry /\ told.answer = a
            /\ told.key = e.key /\ told.status = e.status /\ told.stamp = v
            BY <1>2 DEF Entry
      <2> HIDE DEF told
      <2>3. /\ final \in Entry /\ final.answer = a /\ (d # NoDocs => final.sources = d)
            /\ final.key = e.key /\ final.status = e.status /\ final.stamp = v
            BY <2>2 DEF Entry
      <2> QED
            BY <1>4, <2>1, <2>3
<1> QED
      BY <1>3, <1>4

LEMMA MergedType ==
    ASSUME NEW e \in Entry, NEW old \in Entry, NEW wanted \in Entry
    PROVE  Merged(e, old, wanted) \in Entry
BY DEF Merged, Entry

\* What is written over an unchanged row is what was wanted.
LEMMA MergedUnchanged ==
    ASSUME NEW e \in Entry, NEW wanted \in Entry
    PROVE  Merged(e, e, wanted) = wanted
BY DEF Merged, Entry

\* The key is never among the changed columns, and a status only if it is wanted.
LEMMA MergedFields ==
    ASSUME NEW e \in Entry, NEW old \in Entry, NEW wanted \in Entry
    PROVE  /\ wanted.key = old.key => Merged(e, old, wanted).key = e.key
           /\ wanted.status \in {old.status, e.status} => Merged(e, old, wanted).status = e.status
BY DEF Merged, Entry

-------------------------------------------------------------------------------
(***************************************************************************)
(* The inductive invariant.  A call makes the entry of its own id or none; *)
(* a call between SELECT and commit holds the plan its method made of the  *)
(* row it read; a call that is alone holds the row as it still is.         *)
(***************************************************************************)
Plan(c) ==
    /\ op[c] \in {"capture", "promote", "reject"}
    /\ new[c] \in Entry
    /\ op[c] = "capture" =>
          asked[c] \in Asked /\ asked[c].sources # NoDocs /\ asked[c].key = new[c].key
    /\ copy[c] = NoEntry =>
          /\ op[c] = "capture" /\ row[c] = c
          /\ new[c] = Fresh(asked[c].key, asked[c].answer, asked[c].sources, Stamp[asked[c].on])
    /\ copy[c] # NoEntry =>
          /\ copy[c] \in Entry
          /\ row[c] \in Stored
          /\ entries[row[c]].key = copy[c].key /\ new[c].key = copy[c].key
          /\ op[c] = "capture" =>
                new[c] = Bumped(copy[c], asked[c].answer, asked[c].sources, Stamp[asked[c].on])
          /\ op[c] = "promote" =>
                Promotable(copy[c]) /\ new[c] = [copy[c] EXCEPT !.status = "published"]
          /\ op[c] = "reject" => new[c] = [copy[c] EXCEPT !.status = "rejected"]

IdInv ==
    \A c \in Calls :
        /\ entries[c] # NoEntry => pc[c] = "done"
        /\ pc[c] = "idle" => alone[c] /\ asked[c] = NoEntry

PlanInv == \A c \in Calls : pc[c] = "read" => Plan(c)

\* What nobody disturbed.
Fits(c) ==
    /\ copy[c] # NoEntry => entries[row[c]] = copy[c]
    /\ copy[c] = NoEntry => Matches(new[c].key) = {}

AloneInv ==
    /\ \A c, d \in Calls :
          c # d /\ pc[c] = "read" /\ pc[d] = "read" /\ new[c].key = new[d].key => ~alone[c]
    /\ \A c \in Calls : pc[c] = "read" /\ alone[c] => Fits(c)

Inv == TypeOK /\ IdInv /\ PlanInv /\ AloneInv

LEMMA VersionType == TypeOK => version \in Versions
BY StampConstants DEF TypeOK, version

LEMMA InitInv == Init => Inv
BY FaqConstants, NoEntryIsNone
   DEF Init, Inv, TypeOK, IdInv, PlanInv, AloneInv, Stored, Entry

\* What a method up to its SELECT does to a call, its own and another's.
LEMMA BeginFacts ==
    ASSUME Inv, NEW c \in Calls, Begins(c)
    PROVE  /\ pc[c] = "idle" /\ pc' = [pc EXCEPT ![c] = "read"]
           /\ entries' = entries /\ deployed' = deployed
           /\ Plan(c)' /\ Fits(c)'
           /\ alone' = [x \in Calls |-> IF x = c THEN Busy(new'[c].key) = {}
                                        ELSE alone[x] /\ x \notin Busy(new'[c].key)]
           /\ row' = [row EXCEPT ![c] = row'[c]] /\ row'[c] \in Calls
           /\ op' = [op EXCEPT ![c] = op'[c]]
           /\ copy' = [copy EXCEPT ![c] = copy'[c]] /\ copy'[c] \in Entry \cup {NoEntry}
           /\ new' = [new EXCEPT ![c] = new'[c]]
           /\ asked' = [asked EXCEPT ![c] = asked'[c]] /\ asked'[c] \in Asked \cup {NoEntry}
           /\ copy'[c] = NoEntry => entries[c] = NoEntry
<1> USE DEF Inv, TypeOK
<1>1. ASSUME NEW k \in Keys, NEW a \in Answers, NEW d \in Docs \cup {NoDocs},
             NEW i \in Matches(k),
             Select(c, "capture", i, entries[i], Bumped(entries[i], a, d, version)),
             Capture(c, k, a, d)
      PROVE  Plan(c)' /\ Fits(c)' /\ copy'[c] \in Entry /\ row'[c] \in Calls
      <2>1. i \in Stored /\ i \in Calls /\ entries[i] \in Entry /\ entries[i].key = k
            BY <1>1 DEF Matches, Stored
      <2>2. /\ op'[c] = "capture" /\ row'[c] = i /\ copy'[c] = entries[i]
            /\ new'[c] = Bumped(entries[i], a, d, version)
            /\ asked'[c] = [key |-> k, answer |-> a, sources |-> d, on |-> deployed]
            /\ d # NoDocs /\ entries' = entries /\ deployed' = deployed
            BY <1>1 DEF Capture, Select, ShouldCache
      <2>3. asked'[c] \in Asked
            BY <2>2 DEF Asked
      <2>4. new'[c] \in Entry /\ new'[c].key = k
            BY <2>1, <2>2, BumpedType, VersionType
      <2> QED
            BY <2>1, <2>2, <2>3, <2>4, NoEntryIsNone DEF Plan, Fits, Stored, version
<1>2. ASSUME NEW k \in Keys, NEW a \in Answers, NEW d \in Docs \cup {NoDocs},
             Matches(k) = {},
             Select(c, "capture", c, NoEntry, Fresh(k, a, d, version)),
             Capture(c, k, a, d)
      PROVE  Plan(c)' /\ Fits(c)' /\ copy'[c] = NoEntry /\ row'[c] \in Calls
      <2>1. /\ op'[c] = "capture" /\ row'[c] = c /\ copy'[c] = NoEntry
            /\ new'[c] = Fresh(k, a, d, version)
            /\ asked'[c] = [key |-> k, answer |-> a, sources |-> d, on |-> deployed]
            /\ d # NoDocs /\ entries' = entries
            BY <1>2 DEF Capture, Select, ShouldCache
      <2>2. asked'[c] \in Asked
            BY <2>1 DEF Asked
      <2>3. new'[c] \in Entry /\ new'[c].key = k
            BY <2>1, FreshType, VersionType DEF Fresh
      <2> QED
            BY <1>2, <2>1, <2>2, <2>3 DEF Plan, Fits, Matches, Stored, version
<1>3. ASSUME NEW i \in Calls, Promote(c, i) \/ Reject(c, i)
      PROVE  Plan(c)' /\ Fits(c)' /\ copy'[c] \in Entry /\ row'[c] \in Calls
      <2>1. i \in Stored /\ entries[i] \in Entry
            BY <1>3 DEF Promote, Reject, Stored
      <2>2. row'[c] = i /\ copy'[c] = entries[i] /\ entries' = entries /\ deployed' = deployed
            BY <1>3 DEF Promote, Reject, Select
      <2>3. CASE Promote(c, i)
            <3>1. /\ op'[c] = "promote" /\ Promotable(entries[i])
                  /\ new'[c] = [entries[i] EXCEPT !.status = "published"]
                  BY <2>3 DEF Promote, Select
            <3>2. new'[c] \in Entry /\ new'[c].key = entries[i].key
                  BY <2>1, <3>1 DEF Entry, Status
            <3> QED
                  BY <2>1, <2>2, <3>1, <3>2, NoEntryIsNone DEF Plan, Fits, Stored
      <2>4. CASE Reject(c, i)
            <3>1. op'[c] = "reject" /\ new'[c] = [entries[i] EXCEPT !.status = "rejected"]
                  BY <2>4 DEF Reject, Select
            <3>2. new'[c] \in Entry /\ new'[c].key = entries[i].key
                  BY <2>1, <3>1 DEF Entry, Status
            <3> QED
                  BY <2>1, <2>2, <3>1, <3>2, NoEntryIsNone DEF Plan, Fits, Stored
      <2> QED
            BY <1>3, <2>3, <2>4
<1>4. \/ \E k \in Keys, a \in Answers, d \in Docs \cup {NoDocs} :
            /\ Capture(c, k, a, d)
            /\ \/ \E i \in Matches(k) :
                     Select(c, "capture", i, entries[i], Bumped(entries[i], a, d, version))
               \/ Matches(k) = {} /\ Select(c, "capture", c, NoEntry, Fresh(k, a, d, version))
      \/ \E i \in Calls : Promote(c, i) \/ Reject(c, i)
      BY DEF Begins, Capture
<1>5. Plan(c)' /\ Fits(c)' /\ copy'[c] \in Entry \cup {NoEntry} /\ row'[c] \in Calls
      BY <1>1, <1>2, <1>3, <1>4
<1>6. \E method \in {"capture", "promote", "reject"}, i \in Calls,
         old \in Entry \cup {NoEntry} : \E wanted : Select(c, method, i, old, wanted)
      BY <1>4 DEF Promote, Reject, Matches, Stored
<1>7. /\ pc[c] = "idle" /\ entries' = entries /\ deployed' = deployed
      /\ asked' = [asked EXCEPT ![c] = asked'[c]] /\ asked'[c] \in Asked \cup {NoEntry}
      <2>1. ASSUME NEW k \in Keys, NEW a \in Answers, NEW d \in Docs \cup {NoDocs}, Capture(c, k, a, d)
            PROVE  /\ pc[c] = "idle" /\ entries' = entries /\ deployed' = deployed
                   /\ \E q \in Asked : asked' = [asked EXCEPT ![c] = q]
            <3>1. [key |-> k, answer |-> a, sources |-> d, on |-> deployed] \in Asked
                  BY DEF Asked
            <3> QED
                  BY <2>1, <3>1 DEF Capture
      <2>2. ASSUME NEW i \in Calls, Promote(c, i) \/ Reject(c, i)
            PROVE  /\ pc[c] = "idle" /\ entries' = entries /\ deployed' = deployed
                   /\ asked' = asked
            BY <2>2 DEF Promote, Reject
      <2> QED
            BY <1>4, <2>1, <2>2
<1>8. entries[c] = NoEntry
      BY <1>7 DEF IdInv
<1>9. /\ pc' = [pc EXCEPT ![c] = "read"]
      /\ alone' = [x \in Calls |-> IF x = c THEN Busy(new'[c].key) = {}
                                   ELSE alone[x] /\ x \notin Busy(new'[c].key)]
      /\ row' = [row EXCEPT ![c] = row'[c]] /\ op' = [op EXCEPT ![c] = op'[c]]
      /\ copy' = [copy EXCEPT ![c] = copy'[c]] /\ new' = [new EXCEPT ![c] = new'[c]]
      BY <1>6 DEF Select
<1> QED
      BY <1>5, <1>7, <1>8, <1>9

\* A call that reads beside others ends their being alone, and its own.
LEMMA Company ==
    ASSUME Inv, NEW c \in Calls, Begins(c), NEW x \in Calls
    PROVE  /\ x # c => (alone'[x] => alone[x])
           /\ x # c /\ x \in Busy(new'[c].key) => ~alone'[x]
           /\ x = c /\ Busy(new'[c].key) # {} => ~alone'[c]
           /\ x # c /\ x \notin Busy(new'[c].key) /\ alone[x] => alone'[x]
<1> DEFINE kept(y) == IF y = c THEN Busy(new'[c].key) = {}
                      ELSE alone[y] /\ y \notin Busy(new'[c].key)
<1>1. alone' = [y \in Calls |-> kept(y)]
      BY BeginFacts
<1>2. /\ x # c => (kept(x) <=> alone[x] /\ x \notin Busy(new'[c].key))
      /\ x = c => (kept(c) <=> Busy(new'[c].key) = {})
      BY Zenon
<1> HIDE DEF kept
<1>3. alone'[x] = kept(x)
      BY <1>1
<1> QED
      BY <1>2, <1>3, Zenon

\* What a commit leaves in the table.
LEMMA CommitFacts ==
    ASSUME Inv, NEW c \in Calls, Commit(c)
    PROVE  /\ pc[c] = "read" /\ pc' = [pc EXCEPT ![c] = "done"]
           /\ UNCHANGED <<deployed, op, row, copy, new, asked, alone>>
           /\ row[c] \in Calls /\ new[c] \in Entry /\ Plan(c)
           /\ entries' = [entries EXCEPT ![row[c]] = entries'[row[c]]]
           /\ entries'[row[c]] \in Entry /\ entries'[row[c]].key = new[c].key
           /\ copy[c] = NoEntry => row[c] = c /\ entries[c] = NoEntry
           /\ alone[c] \/ copy[c] = NoEntry => entries'[row[c]] = new[c]
           /\ copy[c] # NoEntry =>
                 /\ entries[row[c]] \in Entry /\ entries[row[c]].key = new[c].key
                 /\ entries'[row[c]] = Merged(entries[row[c]], copy[c], new[c])
<1> USE DEF Inv, TypeOK
<1>1. /\ pc[c] = "read" /\ pc' = [pc EXCEPT ![c] = "done"]
      /\ UNCHANGED <<deployed, op, row, copy, new, asked, alone>>
      /\ row[c] \in Calls
      BY DEF Commit
<1>2. Plan(c) /\ new[c] \in Entry /\ (alone[c] => Fits(c))
      BY <1>1 DEF PlanInv, AloneInv
<1>3. CASE copy[c] = NoEntry
      <2>1. entries' = [entries EXCEPT ![row[c]] = new[c]]
            BY <1>3 DEF Commit
      <2>2. row[c] = c /\ entries[c] = NoEntry
            BY <1>1, <1>2, <1>3 DEF Plan, IdInv
      <2> QED
            BY <1>1, <1>2, <1>3, <2>1, <2>2
<1>4. CASE copy[c] # NoEntry
      <2> DEFINE e == entries[row[c]]
      <2>1. /\ copy[c] \in Entry /\ e \in Entry /\ e.key = copy[c].key
            /\ new[c].key = copy[c].key
            BY <1>1, <1>2, <1>4 DEF Plan, Stored
      <2>2. entries' = [entries EXCEPT ![row[c]] = Merged(e, copy[c], new[c])]
            BY <1>4 DEF Commit
      <2>3. /\ Merged(e, copy[c], new[c]) \in Entry
            /\ Merged(e, copy[c], new[c]).key = new[c].key
            <3> HIDE DEF e, Inv, TypeOK
            <3>1. Merged(e, copy[c], new[c]) \in Entry
                  BY <1>2, <2>1, MergedType
            <3>2. Merged(e, copy[c], new[c]).key = e.key
                  BY <1>2, <2>1, MergedFields
            <3> QED
                  BY <2>1, <3>1, <3>2
      <2>4. alone[c] => Merged(e, copy[c], new[c]) = new[c]
            BY <1>2, <1>4, <2>1, MergedUnchanged DEF Fits
      <2>5. entries'[row[c]] = Merged(e, copy[c], new[c])
            BY <1>1, <2>2
      <2> QED
            BY <1>1, <1>2, <1>4, <2>1, <2>2, <2>3, <2>4, <2>5
<1> QED
      BY <1>3, <1>4

\* Nothing of the others' plans depends on more than the rows' keys and presence.
LEMMA PlanKept ==
    ASSUME NEW x \in Calls, Plan(x),
           op'[x] = op[x], row'[x] = row[x], copy'[x] = copy[x], new'[x] = new[x],
           asked'[x] = asked[x], row[x] \in Calls,
           entries[row[x]] # NoEntry =>
               entries'[row[x]] # NoEntry /\ entries'[row[x]].key = entries[row[x]].key
    PROVE  Plan(x)'
BY DEF Plan, Stored

LEMMA TypeStep == Inv /\ [Next]_vars => TypeOK'
<1> SUFFICES ASSUME Inv, [Next]_vars PROVE TypeOK'
    OBVIOUS
<1> USE DEF Inv, TypeOK
<1>1. ASSUME NEW c \in Calls, Begins(c) PROVE TypeOK'
      <2>1. new'[c] \in Entry /\ (copy'[c] = NoEntry <=> row'[c] \notin Stored')
            BY <1>1, BeginFacts DEF Plan, Stored
      <2>2. /\ op'[c] \in {"none", "capture", "promote", "reject"}
            BY <1>1, BeginFacts DEF Plan
      <2>3. Stored' = Stored /\ entries' = entries /\ deployed' = deployed
            BY <1>1, BeginFacts DEF Stored
      <2>4. alone' \in [Calls -> BOOLEAN]
            <3> DEFINE kept(x) == IF x = c THEN Busy(new'[c].key) = {}
                                  ELSE alone[x] /\ x \notin Busy(new'[c].key)
            <3>1. alone' = [x \in Calls |-> kept(x)]
                  BY <1>1, BeginFacts
            <3>2. \A x \in Calls : kept(x) \in BOOLEAN
                  BY Zenon
            <3> HIDE DEF kept
            <3> QED
                  BY <3>1, <3>2
      <2>5. /\ op' \in [Calls -> {"none", "capture", "promote", "reject"}]
            /\ pc' \in [Calls -> {"idle", "read", "done", "refused", "cut"}]
            BY <1>1, <2>2, BeginFacts
      <2>6. /\ row' \in [Calls -> Calls]
            /\ copy' \in [Calls -> Entry \cup {NoEntry}]
            BY <1>1, BeginFacts
      <2>7. /\ new' \in [Calls -> Entry \cup {NoEntry}]
            /\ asked' \in [Calls -> Asked \cup {NoEntry}]
            <3>1. /\ new' = [new EXCEPT ![c] = new'[c]] /\ new'[c] \in Entry
                  /\ asked' = [asked EXCEPT ![c] = asked'[c]]
                  /\ asked'[c] \in Asked \cup {NoEntry}
                  BY <1>1, <2>1, BeginFacts
            <3> QED
                  BY <3>1
      <2>8. ASSUME NEW x \in Calls, pc'[x] = "read"
            PROVE  new'[x] \in Entry /\ (copy'[x] = NoEntry <=> row'[x] \notin Stored')
            <3>1. CASE x = c
                  BY <2>1, <3>1
            <3>2. CASE x # c
                  BY <1>1, <2>3, <2>8, <3>2, BeginFacts
            <3> QED
                  BY <3>1, <3>2
      <2> QED
            BY <2>3, <2>4, <2>5, <2>6, <2>7, <2>8
<1>2. ASSUME NEW c \in Calls, Commit(c) PROVE TypeOK'
      <2>1. ASSUME NEW x \in Calls, pc'[x] = "read"
            PROVE  new'[x] \in Entry /\ (copy'[x] = NoEntry <=> row'[x] \notin Stored')
            <3>1. x # c /\ pc[x] = "read" /\ Plan(x)
                  BY <1>2, <2>1, CommitFacts DEF PlanInv
            <3>2. CASE copy[x] = NoEntry
                  <4>1. row[x] = x /\ entries[x] = NoEntry
                        BY <3>1, <3>2 DEF Plan, IdInv
                  <4>2. row[c] # x
                        BY <1>2, <3>1, <4>1, CommitFacts DEF Plan, Stored
                  <4> QED
                        BY <1>2, <3>1, <3>2, <4>1, <4>2, CommitFacts DEF Stored
            <3>3. CASE copy[x] # NoEntry
                  <4>1. row[x] \in Stored
                        BY <3>1, <3>3
                  <4> QED
                        BY <1>2, <3>1, <3>3, <4>1, CommitFacts, NoEntryIsNone DEF Stored
            <3> QED
                  BY <3>2, <3>3
      <2> QED
            BY <1>2, <2>1, CommitFacts
<1>3. ASSUME NEW c \in Calls, NEW i \in Calls, RefusePromote(c, i) PROVE TypeOK'
      BY <1>3 DEF RefusePromote, Stored
<1>4. CASE Restart
      BY <1>4 DEF Restart, Stored
<1>5. CASE UNCHANGED vars
      BY <1>5 DEF vars, Stored
<1> QED
      BY <1>1, <1>2, <1>3, <1>4, <1>5, StepCases

LEMMA IdStep == Inv /\ [Next]_vars => IdInv'
<1> SUFFICES ASSUME Inv, [Next]_vars PROVE IdInv'
    OBVIOUS
<1> USE DEF Inv, TypeOK, IdInv
<1>1. ASSUME NEW c \in Calls, Begins(c) PROVE IdInv'
      <2> SUFFICES ASSUME NEW x \in Calls
                   PROVE  /\ entries'[x] # NoEntry => pc'[x] = "done"
                          /\ pc'[x] = "idle" => alone'[x] /\ asked'[x] = NoEntry
          BY DEF IdInv
      <2>1. entries'[x] # NoEntry => pc'[x] = "done"
            BY <1>1, BeginFacts
      <2>2. ASSUME pc'[x] = "idle" PROVE alone'[x] /\ asked'[x] = NoEntry
            <3>1. x # c /\ pc[x] = "idle"
                  BY <1>1, <2>2, BeginFacts
            <3>2. x \notin Busy(new'[c].key)
                  BY <3>1 DEF Busy
            <3> QED
                  BY <1>1, <3>1, <3>2, BeginFacts, Company
      <2> QED
            BY <2>1, <2>2
<1>2. ASSUME NEW c \in Calls, Commit(c) PROVE IdInv'
      BY <1>2, CommitFacts DEF Plan, Stored
<1>3. ASSUME NEW c \in Calls, NEW i \in Calls, RefusePromote(c, i) PROVE IdInv'
      BY <1>3 DEF RefusePromote
<1>4. CASE Restart
      BY <1>4 DEF Restart
<1>5. CASE UNCHANGED vars
      BY <1>5 DEF vars
<1> QED
      BY <1>1, <1>2, <1>3, <1>4, <1>5, StepCases

LEMMA PlanStep == Inv /\ [Next]_vars => PlanInv'
<1> SUFFICES ASSUME Inv, [Next]_vars, NEW x \in Calls, pc'[x] = "read" PROVE Plan(x)'
    BY DEF PlanInv
<1> USE DEF Inv, TypeOK
<1>1. ASSUME NEW c \in Calls, Begins(c) PROVE Plan(x)'
      <2>1. CASE x = c
            BY <1>1, <2>1, BeginFacts
      <2>2. CASE x # c
            <3>1. /\ pc[x] = "read" /\ op'[x] = op[x] /\ row'[x] = row[x] /\ entries' = entries
                  /\ copy'[x] = copy[x] /\ new'[x] = new[x] /\ asked'[x] = asked[x]
                  BY <1>1, <2>2, BeginFacts
            <3>2. Plan(x)
                  BY <3>1 DEF PlanInv
            <3> QED
                  BY <3>1, <3>2, PlanKept
      <2> QED
            BY <2>1, <2>2
<1>2. ASSUME NEW c \in Calls, Commit(c) PROVE Plan(x)'
      <2>1. x # c /\ pc[x] = "read" /\ Plan(x)
            BY <1>2, CommitFacts DEF PlanInv
      <2>2. /\ op'[x] = op[x] /\ row'[x] = row[x] /\ copy'[x] = copy[x]
            /\ new'[x] = new[x] /\ asked'[x] = asked[x]
            BY <1>2, CommitFacts
      <2>3. ASSUME entries[row[x]] # NoEntry
            PROVE  /\ entries'[row[x]] # NoEntry
                   /\ entries'[row[x]].key = entries[row[x]].key
            BY <1>2, <2>3, CommitFacts, NoEntryIsNone
      <2> QED
            BY <2>1, <2>2, <2>3, PlanKept
<1>3. CASE Restart \/ UNCHANGED vars \/ \E c \in Calls, i \in Calls : RefusePromote(c, i)
      <2>1. /\ pc[x] = "read" /\ op'[x] = op[x] /\ row'[x] = row[x] /\ entries' = entries
            /\ copy'[x] = copy[x] /\ new'[x] = new[x] /\ asked'[x] = asked[x]
            BY <1>3 DEF Restart, vars, RefusePromote
      <2>2. Plan(x)
            BY <2>1 DEF PlanInv
      <2> QED
            BY <2>1, <2>2, PlanKept
<1> QED
      BY <1>1, <1>2, <1>3, StepCases

LEMMA AloneStep == Inv /\ [Next]_vars => AloneInv'
<1> SUFFICES ASSUME Inv, [Next]_vars PROVE AloneInv'
    OBVIOUS
<1> USE DEF Inv, TypeOK
<1>1. ASSUME NEW c \in Calls, Begins(c) PROVE AloneInv'
      <2>1. ASSUME NEW x \in Calls, NEW y \in Calls, x # y, pc'[x] = "read", pc'[y] = "read",
                   new'[x].key = new'[y].key
            PROVE  ~alone'[x]
            <3>1. CASE x = c
                  <4>1. y \in Busy(new'[c].key)
                        BY <1>1, <2>1, <3>1, BeginFacts DEF Busy
                  <4> QED
                        BY <1>1, <3>1, <4>1, Company
            <3>2. CASE y = c
                  <4>1. x \in Busy(new'[c].key)
                        BY <1>1, <2>1, <3>2, BeginFacts DEF Busy
                  <4> QED
                        BY <1>1, <2>1, <3>2, <4>1, Company
            <3>3. CASE x # c /\ y # c
                  <4>1. ~alone[x]
                        BY <1>1, <2>1, <3>3, BeginFacts DEF AloneInv
                  <4> QED
                        BY <1>1, <3>3, <4>1, Company
            <3> QED
                  BY <3>1, <3>2, <3>3
      <2>2. ASSUME NEW x \in Calls, pc'[x] = "read", alone'[x] PROVE Fits(x)'
            <3>1. CASE x = c
                  BY <1>1, <3>1, BeginFacts
            <3>2. CASE x # c
                  <4>1. pc[x] = "read" /\ alone[x]
                        BY <1>1, <2>2, <3>2, BeginFacts, Company
                  <4> QED
                        BY <1>1, <3>2, <4>1, BeginFacts DEF AloneInv, Fits, Matches, Stored
            <3> QED
                  BY <3>1, <3>2
      <2> QED
            BY <2>1, <2>2 DEF AloneInv
<1>2. ASSUME NEW c \in Calls, Commit(c) PROVE AloneInv'
      <2>1. ASSUME NEW x \in Calls, NEW y \in Calls, x # y, pc'[x] = "read", pc'[y] = "read",
                   new'[x].key = new'[y].key
            PROVE  ~alone'[x]
            BY <1>2, <2>1, CommitFacts DEF AloneInv
      <2>2. ASSUME NEW x \in Calls, pc'[x] = "read", alone'[x] PROVE Fits(x)'
            <3>1. x # c /\ pc[x] = "read" /\ alone[x] /\ Fits(x) /\ Plan(x)
                  BY <1>2, <2>2, CommitFacts DEF AloneInv, PlanInv
            <3>2. new[x].key # new[c].key
                  BY <1>2, <3>1, CommitFacts DEF AloneInv
            <3>3. CASE copy[x] # NoEntry
                  <4>1. row[x] # row[c]
                        BY <1>2, <3>1, <3>2, <3>3, CommitFacts DEF Plan, Stored
                  <4> QED
                        BY <1>2, <3>1, <3>3, <4>1, CommitFacts DEF Fits
            <3>4. CASE copy[x] = NoEntry
                  <4>1. \A i \in Calls : entries'[i] # NoEntry => entries'[i].key # new[x].key
                        BY <1>2, <3>1, <3>2, <3>4, CommitFacts DEF Fits, Matches, Stored
                  <4> QED
                        BY <1>2, <3>4, <4>1, CommitFacts DEF Fits, Matches, Stored
            <3> QED
                  BY <3>3, <3>4
      <2> QED
            BY <2>1, <2>2 DEF AloneInv
<1>3. ASSUME NEW c \in Calls, NEW i \in Calls, RefusePromote(c, i) PROVE AloneInv'
      BY <1>3 DEF RefusePromote, AloneInv, Fits, Matches, Stored
<1>4. CASE Restart
      BY <1>4 DEF Restart, AloneInv, Fits, Matches, Stored
<1>5. CASE UNCHANGED vars
      BY <1>5 DEF vars, AloneInv, Fits, Matches, Stored
<1> QED
      BY <1>1, <1>2, <1>3, <1>4, <1>5, StepCases

\* The invariant that every theorem below uses.
LEMMA InvHolds == Spec => []Inv
<1>1. Inv /\ [Next]_vars => Inv'
      BY TypeStep, IdStep, PlanStep, AloneStep DEF Inv
<1> QED
      BY <1>1, InitInv, PTL DEF Spec

\* Every variable of the FAQ store keeps its type, and a call that has read a row
\* holds a copy exactly while its row is in the table.
THEOREM FaqTypeCorrect == Spec => []TypeOK
<1>1. Inv => TypeOK
      BY DEF Inv
<1> QED
      BY <1>1, InvHolds, PTL

-------------------------------------------------------------------------------
(***************************************************************************)
(* A rejection is final                                                    *)
(***************************************************************************)

\* A capture keeps the status it read and a reject asks for "rejected": only a
\* promote that read the row before can take it out of that state.
LEMMA RejectionStep ==
    ASSUME Inv, [Next]_vars, NEW i \in Stored, entries[i].status = "rejected",
           \A c \in Calls : ~(pc[c] = "read" /\ op[c] = "promote" /\ row[c] = i)
    PROVE  entries'[i].status = "rejected"
<1>1. ASSUME NEW c \in Calls, Commit(c) PROVE entries'[i].status = "rejected"
      <2>1. CASE row[c] # i
            BY <1>1, <2>1, CommitFacts DEF Inv, TypeOK, Stored
      <2>2. CASE row[c] = i
            <3>1. copy[c] # NoEntry /\ op[c] \in {"capture", "reject"}
                  <4>1. pc[c] = "read" /\ Plan(c) /\ (copy[c] = NoEntry => entries[i] = NoEntry)
                        BY <1>1, <2>2, CommitFacts
                  <4>2. op[c] # "promote"
                        BY <2>2, <4>1
                  <4> QED
                        BY <4>1, <4>2 DEF Plan, Stored
            <3>2. copy[c] \in Entry /\ new[c] \in Entry /\ entries[i] \in Entry
                  BY <1>1, <2>2, <3>1, CommitFacts DEF Plan
            <3>3. new[c].status \in {copy[c].status, "rejected"}
                  <4>1. CASE op[c] = "capture"
                        <5>1. /\ asked[c].answer \in Answers /\ Stamp[asked[c].on] \in Versions
                              /\ asked[c].sources \in Docs \cup {NoDocs}
                              BY <1>1, <4>1, CommitFacts, StampConstants DEF Plan, Asked
                        <5>2. new[c] = Bumped(copy[c], asked[c].answer, asked[c].sources,
                                              Stamp[asked[c].on])
                              BY <1>1, <3>1, <4>1, CommitFacts DEF Plan
                        <5> HIDE DEF Inv, TypeOK
                        <5>3. Bumped(copy[c], asked[c].answer, asked[c].sources,
                                        Stamp[asked[c].on]).status = copy[c].status
                              BY <3>2, <5>1, BumpedType
                        <5> QED
                              BY <5>2, <5>3
                  <4>2. CASE op[c] = "reject"
                        <5>1. new[c] = [copy[c] EXCEPT !.status = "rejected"]
                              BY <1>1, <3>1, <4>2, CommitFacts DEF Plan
                        <5> QED
                              BY <3>2, <5>1 DEF Entry
                  <4> QED
                        BY <3>1, <4>1, <4>2
            <3>4. Merged(entries[i], copy[c], new[c]).status = entries[i].status
                  BY <3>2, <3>3, MergedFields
            <3> QED
                  BY <1>1, <2>2, <3>1, <3>4, CommitFacts
      <2> QED
            BY <2>1, <2>2
<1>2. CASE UNCHANGED entries
      BY <1>2
<1>3. (\E c \in Calls : Begins(c)) \/ Restart \/ UNCHANGED vars
          \/ (\E c \in Calls, j \in Calls : RefusePromote(c, j)) => UNCHANGED entries
      BY BeginFacts DEF Restart, vars, RefusePromote
<1> QED
      BY <1>1, <1>2, <1>3, StepCases

\* Once no promote that read it before is under way, nothing that captures, moderation
\* and restarts do in any order brings a rejected entry back.
THEOREM RejectionsAreFinal == Spec => RejectionIsFinal
<1>1. Inv /\ [Next]_vars =>
          [\A i \in Stored :
              /\ entries[i].status = "rejected"
              /\ \A c \in Calls : ~(pc[c] = "read" /\ op[c] = "promote" /\ row[c] = i)
              => entries'[i].status = "rejected"]_vars
      BY RejectionStep
<1> QED
      BY <1>1, InvHolds, PTL DEF Spec, RejectionIsFinal

-------------------------------------------------------------------------------
(***************************************************************************)
(* Duplicates take a race.  An entry keeps the key of the call that made   *)
(* it; the pair is watched from the second SELECT on.                      *)
(***************************************************************************)
Made(i) == entries[i] # NoEntry \/ (pc[i] = "read" /\ copy[i] = NoEntry)

KeyInv == \A i \in Stored : new[i] \in Entry /\ entries[i].key = new[i].key

PairInv ==
    \A i, j \in Calls :
        i # j /\ Made(i) /\ Made(j) /\ new[i].key = new[j].key => ~alone[i] /\ ~alone[j]

LEMMA PairInit == Init => KeyInv /\ PairInv
BY DEF Init, KeyInv, PairInv, Made, Stored

LEMMA KeyStep == Inv /\ KeyInv /\ [Next]_vars => KeyInv'
<1> SUFFICES ASSUME Inv, KeyInv, [Next]_vars, NEW i \in Calls, entries'[i] # NoEntry
             PROVE  new'[i] \in Entry /\ entries'[i].key = new'[i].key
    BY DEF KeyInv, Stored
<1>1. ASSUME NEW c \in Calls, Commit(c)
      PROVE  new'[i] \in Entry /\ entries'[i].key = new'[i].key
      <2>1. CASE i # row[c]
            <3>1. entries'[i] = entries[i] /\ new' = new
                  BY <1>1, <2>1, CommitFacts DEF Inv, TypeOK
            <3> QED
                  BY <3>1 DEF KeyInv, Stored
      <2>2. CASE i = row[c] /\ copy[c] = NoEntry
            BY <1>1, <2>2, CommitFacts
      <2>3. CASE i = row[c] /\ copy[c] # NoEntry
            <3>1. entries[i] \in Entry /\ entries[i].key = new[c].key /\ new' = new
                  BY <1>1, <2>3, CommitFacts
            <3>2. new[i] \in Entry /\ entries[i].key = new[i].key
                  BY <3>1, NoEntryIsNone DEF KeyInv, Stored
            <3> QED
                  BY <1>1, <2>3, <3>1, <3>2, CommitFacts
      <2> QED
            BY <2>1, <2>2, <2>3
<1>2. ASSUME NEW c \in Calls, Begins(c)
      PROVE  new'[i] \in Entry /\ entries'[i].key = new'[i].key
      <2>1. i # c /\ entries' = entries /\ new'[i] = new[i]
            BY <1>2, BeginFacts DEF Inv, TypeOK, IdInv
      <2> QED
            BY <2>1 DEF KeyInv, Stored
<1>3. CASE Restart \/ UNCHANGED vars \/ \E c \in Calls, j \in Calls : RefusePromote(c, j)
      BY <1>3 DEF Restart, vars, RefusePromote, KeyInv, Stored
<1> QED
      BY <1>1, <1>2, <1>3, StepCases

LEMMA PairStep == Inv /\ KeyInv /\ PairInv /\ [Next]_vars => PairInv'
<1> SUFFICES ASSUME Inv, KeyInv, PairInv, [Next]_vars, NEW i \in Calls, NEW j \in Calls, i # j,
                    Made(i)', Made(j)', new'[i].key = new'[j].key
             PROVE  ~alone'[i]
    BY DEF PairInv
<1> USE DEF Inv, TypeOK
<1>1. ASSUME NEW c \in Calls, Commit(c) PROVE ~alone'[i]
      <2>1. \A x \in Calls : Made(x)' => Made(x)
            BY <1>1, CommitFacts DEF Made, Plan, Stored
      <2> QED
            BY <1>1, <2>1, CommitFacts DEF PairInv
<1>2. ASSUME NEW c \in Calls, Begins(c) PROVE ~alone'[i]
      <2>1. ASSUME NEW x \in Calls, x # c, Made(x)'
            PROVE  Made(x) /\ new'[x] = new[x]
            BY <1>2, <2>1, BeginFacts DEF Made
      <2>2. ASSUME NEW x \in Calls, x # c, Made(x)', Made(c)', new[x].key = new'[c].key
            PROVE  x \in Busy(new'[c].key)
            <3>1. copy'[c] = NoEntry
                  <4>1. entries'[c] = NoEntry
                        <5>1. pc[c] = "idle" /\ entries' = entries
                              BY <1>2, BeginFacts
                        <5> QED
                              BY <5>1 DEF IdInv
                  <4> QED
                        BY <2>2, <4>1 DEF Made
            <3>2. Matches(new'[c].key) = {}
                  BY <1>2, <3>1, BeginFacts DEF Fits, Matches, Stored
            <3>3. entries[x] = NoEntry
                  BY <2>2, <3>2 DEF KeyInv, Matches, Stored
            <3> QED
                  BY <2>1, <2>2, <3>3 DEF Made, Busy
      <2>3. CASE i = c
            <3>1. j \in Busy(new'[c].key)
                  BY <2>1, <2>2, <2>3
            <3> QED
                  BY <1>2, <2>3, <3>1, Company
      <2>4. CASE j = c
            <3>1. i \in Busy(new'[c].key)
                  BY <2>1, <2>2, <2>4
            <3> QED
                  BY <1>2, <2>4, <3>1, Company
      <2>5. CASE i # c /\ j # c
            <3>1. ~alone[i]
                  BY <2>1, <2>5 DEF PairInv
            <3> QED
                  BY <1>2, <2>5, <3>1, Company
      <2> QED
            BY <2>3, <2>4, <2>5
<1>3. CASE Restart \/ UNCHANGED vars \/ \E c \in Calls, x \in Calls : RefusePromote(c, x)
      BY <1>3 DEF Restart, vars, RefusePromote, PairInv, Made
<1> QED
      BY <1>1, <1>2, <1>3, StepCases

\* The table has no unique key: two entries share one only when the captures that
\* inserted them were between SELECT and commit together.
THEOREM DuplicatesTakeARace == Spec => []OneEntryPerKeyUnlessRaced
<1>1. KeyInv /\ PairInv => OneEntryPerKeyUnlessRaced
      BY DEF KeyInv, PairInv, Made, Stored, OneEntryPerKeyUnlessRaced
<1>2. Inv /\ KeyInv /\ PairInv /\ [Next]_vars => (KeyInv /\ PairInv)'
      BY KeyStep, PairStep
<1> QED
      BY <1>1, <1>2, PairInit, InvHolds, PTL DEF Spec

-------------------------------------------------------------------------------
(***************************************************************************)
(* What is served                                                          *)
(***************************************************************************)
AskedAs(c, e) ==
    /\ asked[c] \in Asked
    /\ asked[c].key = e.key /\ asked[c].answer = e.answer /\ asked[c].sources = e.sources
    /\ Stamp[asked[c].on] = e.stamp

\* An entry that no overlap touched and nobody rejected is what some call asked for.
Told(i) ==
    \/ \E c \in Calls : row[c] = i /\ ~alone[c]
    \/ entries[i].status = "rejected"
    \/ \E c \in Calls : pc[c] # "idle" /\ AskedAs(c, entries[i])

ToldInv == \A i \in Stored : Told(i)

LEMMA AloneCommit ==
    ASSUME Inv, ToldInv, NEW c \in Calls, Commit(c), alone[c]
    PROVE  \/ entries'[row[c]].status = "rejected"
           \/ \E x \in Calls : row[x] = row[c] /\ ~alone[x]
           \/ \E x \in Calls : pc[x] # "idle" /\ AskedAs(x, entries'[row[c]])
<1> DEFINE i == row[c]
<1>1. /\ entries'[i] = new[c] /\ new[c] \in Entry /\ i \in Calls /\ Plan(c) /\ Fits(c)
      /\ pc[c] # "idle"
      BY CommitFacts DEF Inv, AloneInv
<1>2. CASE op[c] = "capture"
      <2>1. /\ asked[c] \in Asked /\ asked[c].sources # NoDocs /\ asked[c].key = new[c].key
            BY <1>1, <1>2 DEF Plan
      <2>2. /\ asked[c].answer \in Answers /\ Stamp[asked[c].on] \in Versions
            /\ asked[c].sources \in Docs \cup {NoDocs} /\ asked[c].key \in Keys
            /\ asked[c].on \in Deployments
            /\ asked[c] = [key |-> asked[c].key, answer |-> asked[c].answer,
                           sources |-> asked[c].sources, on |-> asked[c].on]
            BY <2>1, StampConstants DEF Asked
      <2>3. CASE copy[c] = NoEntry
            <3>1. new[c] = Fresh(asked[c].key, asked[c].answer, asked[c].sources, Stamp[asked[c].on])
                  BY <1>1, <2>3 DEF Plan
            <3>2. AskedAs(c, new[c])
                  BY <2>1, <2>2, <3>1 DEF Fresh, AskedAs
            <3> QED
                  BY <1>1, <3>2
      <2>4. CASE copy[c] # NoEntry
            <3>1. /\ copy[c] \in Entry
                  /\ new[c] = Bumped(copy[c], asked[c].answer, asked[c].sources, Stamp[asked[c].on])
                  BY <1>1, <1>2, <2>4 DEF Plan
            <3>2. CASE copy[c].status = "rejected"
                  BY <1>1, <2>2, <3>1, <3>2, BumpedType
            <3>3. CASE copy[c].status # "rejected"
                  <4>1. /\ new[c].answer = asked[c].answer /\ new[c].sources = asked[c].sources
                        /\ new[c].stamp = Stamp[asked[c].on]
                        BY <2>1, <2>2, <3>1, <3>3, BumpedType
                  <4>2. AskedAs(c, new[c])
                        BY <2>1, <2>2, <4>1 DEF AskedAs
                  <4> QED
                        BY <1>1, <4>2
            <3> QED
                  BY <3>2, <3>3
      <2> QED
            BY <2>3, <2>4
<1>3. CASE op[c] = "promote"
      <2>1. /\ copy[c] # NoEntry /\ copy[c] \in Entry /\ copy[c].status # "rejected"
            /\ entries[i] = copy[c] /\ i \in Stored
            /\ new[c] = [copy[c] EXCEPT !.status = "published"]
            BY <1>1, <1>3 DEF Plan, Fits, Promotable
      <2>2. /\ new[c].key = copy[c].key /\ new[c].answer = copy[c].answer
            /\ new[c].sources = copy[c].sources /\ new[c].stamp = copy[c].stamp
            BY <2>1 DEF Entry
      <2>3. Told(i)
            BY <2>1 DEF ToldInv
      <2> QED
            BY <1>1, <2>1, <2>2, <2>3 DEF Told, AskedAs
<1>4. CASE op[c] = "reject"
      <2>1. copy[c] \in Entry /\ new[c] = [copy[c] EXCEPT !.status = "rejected"]
            BY <1>1, <1>4 DEF Plan
      <2>2. new[c].status = "rejected"
            BY <2>1 DEF Entry
      <2> QED
            BY <1>1, <2>2
<1> QED
      BY <1>1, <1>2, <1>3, <1>4 DEF Plan

LEMMA ToldStep == Inv /\ ToldInv /\ [Next]_vars => ToldInv'
<1> SUFFICES ASSUME Inv, ToldInv, [Next]_vars, NEW i \in Calls, entries'[i] # NoEntry
             PROVE  Told(i)'
    BY DEF ToldInv, Stored
<1> USE DEF Inv, TypeOK
<1>1. ASSUME NEW c \in Calls, Commit(c) PROVE Told(i)'
      <2>1. UNCHANGED <<row, alone, asked>> /\ pc' = [pc EXCEPT ![c] = "done"]
            BY <1>1, CommitFacts
      <2>2. CASE i # row[c]
            <3>1. entries'[i] = entries[i] /\ Told(i)
                  BY <1>1, <2>2, CommitFacts DEF ToldInv, Stored
            <3> QED
                  BY <2>1, <3>1 DEF Told, AskedAs
      <2>3. CASE i = row[c] /\ ~alone[c]
            BY <2>1, <2>3 DEF Told
      <2>4. CASE i = row[c] /\ alone[c]
            BY <1>1, <2>1, <2>4, AloneCommit DEF Told, AskedAs
      <2> QED
            BY <2>2, <2>3, <2>4
<1>2. ASSUME NEW c \in Calls, Begins(c) PROVE Told(i)'
      <2>1. entries' = entries /\ Told(i)
            BY <1>2, BeginFacts DEF ToldInv, Stored
      <2>2. ASSUME NEW x \in Calls, row[x] = i, ~alone[x]
            PROVE  row'[x] = i /\ ~alone'[x]
            <3>1. x # c
                  BY <1>2, <2>2, BeginFacts DEF IdInv
            <3>2. ~alone'[x]
                  BY <1>2, <2>2, <3>1, Company
            <3> QED
                  BY <1>2, <2>2, <3>1, <3>2, BeginFacts
      <2>3. ASSUME NEW x \in Calls, pc[x] # "idle"
            PROVE  asked'[x] = asked[x] /\ pc'[x] # "idle"
            BY <1>2, <2>3, BeginFacts
      <2> QED
            BY <2>1, <2>2, <2>3 DEF Told, AskedAs
<1>3. CASE Restart \/ UNCHANGED vars \/ \E c \in Calls, j \in Calls : RefusePromote(c, j)
      <2>1. /\ entries' = entries /\ row' = row /\ alone' = alone /\ asked' = asked
            /\ \A x \in Calls : pc[x] # "idle" => pc'[x] # "idle"
            BY <1>3 DEF Restart, vars, RefusePromote
      <2>2. Told(i)
            BY <2>1 DEF ToldInv, Stored
      <2> QED
            BY <2>1, <2>2 DEF Told, AskedAs
<1> QED
      BY <1>1, <1>2, <1>3, StepCases

\* What is served as current was answered, with just these sources, on a deployment that
\* carries the stamp of the running one, unless calls on the entry overlapped.  Nothing
\* more follows: the stamp is blind to code without a commit and to the cards' text.
THEOREM OnlyCurrentIsServed == Spec => []ServedIsCurrent
<1>1. Init => ToldInv
      BY DEF Init, ToldInv, Stored
<1>2. ToldInv => ServedIsCurrent
      <2> SUFFICES ASSUME ToldInv, NEW i \in Stored, entries[i].status = "published",
                          entries[i].stamp = version, \A c \in Calls : ~(row[c] = i /\ ~alone[c])
                   PROVE  Delivered(i, Alike)
          BY DEF ServedIsCurrent, Served
      <2>1. \E c \in Calls : AskedAs(c, entries[i])
            BY DEF ToldInv, Told
      <2>2. PICK c \in Calls : AskedAs(c, entries[i])
            BY <2>1
      <2>3. /\ asked[c].on \in Alike
            /\ asked[c] = [key |-> entries[i].key, answer |-> entries[i].answer,
                           sources |-> entries[i].sources, on |-> asked[c].on]
            BY <2>2 DEF AskedAs, Asked, Alike
      <2> QED
            BY <2>3 DEF Delivered
<1> QED
      BY <1>1, <1>2, ToldStep, InvHolds, PTL DEF Spec

-------------------------------------------------------------------------------
(***************************************************************************)
(* The two stores                                                          *)
(***************************************************************************)

\* Where no two deployments share a stamp, the running one itself gave what is served.
COROLLARY DistinctStampsServeTheRunning ==
    ASSUME \A d, e \in Deployments : Stamp[d] = Stamp[e] => d = e
    PROVE  Spec => [](\A i \in Served : \/ Delivered(i, {deployed})
                                        \/ \E c \in Calls : row[c] = i /\ ~alone[c])
<1>1. TypeOK /\ ServedIsCurrent =>
          \A i \in Served : \/ Delivered(i, {deployed})
                            \/ \E c \in Calls : row[c] = i /\ ~alone[c]
      BY DEF TypeOK, ServedIsCurrent, Delivered, Alike, version
<1> QED
      BY <1>1, OnlyCurrentIsServed, InvHolds, PTL DEF Inv

LEMMA AloneStoreStep ==
    ASSUME Inv, NEW c \in Calls, Commit(c), alone[c]
    PROVE  StoreStep(c)
<1> DEFINE i == row[c]
<1>1. /\ entries' = [entries EXCEPT ![i] = entries'[i]] /\ entries'[i] = new[c]
      /\ i \in Calls /\ Plan(c) /\ Fits(c)
      /\ copy[c] = NoEntry => i = c /\ entries[c] = NoEntry
      BY CommitFacts DEF Inv, AloneInv
<1>2. entries' = [entries EXCEPT ![i] = new[c]]
      BY <1>1
<1>3. CASE op[c] = "capture" /\ copy[c] # NoEntry
      <2>1. /\ i \in Stored /\ entries[i] = copy[c] /\ entries[i].key = asked[c].key
            /\ new[c] = Bumped(copy[c], asked[c].answer, asked[c].sources, Stamp[asked[c].on])
            BY <1>1, <1>3 DEF Plan, Fits
      <2>2. entries' = [entries EXCEPT ![i] = Bumped(entries[i], asked[c].answer,
                                                     asked[c].sources, Stamp[asked[c].on])]
            BY <1>2, <2>1
      <2>3. Store!Record(c, asked[c].key, asked[c].answer, asked[c].sources, Stamp[asked[c].on])
            BY <2>1, <2>2 DEF Store!Record, Store!Stored, Store!Bumped, Bumped, Stored
      <2> QED
            BY <1>3, <2>3 DEF StoreStep
<1>4. CASE op[c] = "capture" /\ copy[c] = NoEntry
      <2>1. /\ Matches(new[c].key) = {} /\ new[c].key = asked[c].key /\ c \notin Stored
            /\ new[c] = Fresh(asked[c].key, asked[c].answer, asked[c].sources, Stamp[asked[c].on])
            BY <1>1, <1>4 DEF Plan, Fits, Stored
      <2>2. Store!Record(c, asked[c].key, asked[c].answer, asked[c].sources, Stamp[asked[c].on])
            BY <1>1, <1>2, <1>4, <2>1
               DEF Store!Record, Store!Stored, Store!Fresh, Fresh, Stored, Matches
      <2> QED
            BY <1>4, <2>2 DEF StoreStep
<1>5. CASE op[c] = "promote"
      <2>1. /\ i \in Stored /\ entries[i] = copy[c] /\ Promotable(entries[i])
            /\ new[c] = [copy[c] EXCEPT !.status = "published"]
            BY <1>1, <1>5 DEF Plan, Fits
      <2>2. Store!Promote(i)
            BY <1>2, <2>1 DEF Store!Promote, Store!Stored, Store!Promotable, Store!IsGrounded,
                              Promotable, IsGrounded, Stored
      <2> QED
            BY <1>5, <2>2 DEF StoreStep
<1>6. CASE op[c] = "reject"
      <2>1. /\ i \in Stored /\ entries[i] = copy[c]
            /\ new[c] = [copy[c] EXCEPT !.status = "rejected"]
            BY <1>1, <1>6 DEF Plan, Fits
      <2>2. Store!Reject(i)
            BY <1>2, <2>1 DEF Store!Reject, Store!Stored, Stored
      <2> QED
            BY <1>6, <2>2 DEF StoreStep
<1> QED
      BY <1>1, <1>3, <1>4, <1>5, <1>6 DEF Plan

\* "Implements the same interface": a call without company on its key does to the
\* table at its commit what the in-memory store's method does at once.
THEOREM AloneCallsAreAtomic == Spec => AloneIsAtomic
<1>1. ASSUME Inv, [Next]_vars, NEW c \in Calls, pc[c] = "read", pc'[c] = "done", alone[c]
      PROVE  StoreStep(c)
      <2>1. ASSUME NEW x \in Calls, Commit(x) PROVE x = c
            BY <1>1, <2>1, CommitFacts DEF Inv, TypeOK
      <2>2. ASSUME NEW x \in Calls, Begins(x) PROVE FALSE
            BY <1>1, <2>2, BeginFacts DEF Inv, TypeOK
      <2>3. ~(Restart \/ UNCHANGED vars \/ \E x \in Calls, j \in Calls : RefusePromote(x, j))
            BY <1>1 DEF Restart, vars, RefusePromote, Inv, TypeOK
      <2> QED
            BY <1>1, <2>1, <2>2, <2>3, StepCases, AloneStoreStep
<1>2. Inv /\ [Next]_vars =>
          [\A c \in Calls : pc[c] = "read" /\ pc'[c] = "done" /\ alone[c] => StoreStep(c)]_vars
      BY <1>1
<1> QED
      BY <1>2, InvHolds, PTL DEF Spec, AloneIsAtomic

\* No two calls on one key are ever in flight together.
Apart == \A c \in Calls : alone[c]

LEMMA ApartStep == Inv /\ Apart /\ [Next]_vars => [Store!StoreNext]_entries
<1> SUFFICES ASSUME Inv, Apart, [Next]_vars
             PROVE  Store!StoreNext \/ UNCHANGED entries
    OBVIOUS
<1>1. ASSUME NEW c \in Calls, Commit(c) PROVE Store!StoreNext
      <2>1. StoreStep(c) /\ Plan(c) /\ row[c] \in Calls
            BY <1>1, AloneStoreStep DEF Apart, Inv, PlanInv, TypeOK, Commit
      <2>2. CASE op[c] = "capture"
            <3>1. /\ asked[c].key \in Keys /\ asked[c].answer \in Answers
                  /\ asked[c].sources \in Docs /\ Stamp[asked[c].on] \in Versions
                  BY <2>1, <2>2, StampConstants DEF Plan, Asked
            <3> QED
                  BY <2>1, <2>2, <3>1 DEF StoreStep, Store!StoreNext
      <2>3. CASE op[c] \in {"promote", "reject"}
            BY <2>1, <2>3 DEF StoreStep, Store!StoreNext
      <2> QED
            BY <2>1, <2>2, <2>3 DEF Plan
<1>2. ASSUME NEW c \in Calls, Begins(c) PROVE UNCHANGED entries
      BY <1>2 DEF Begins, Capture, Promote, Reject
<1> QED
      BY <1>1, <1>2, StepCases DEF RefusePromote, Restart, vars

\* As long as no two calls on one key overlap, the table goes through the states of the
\* in-memory store, whatever restarts in between: the one back end implements the other.
THEOREM CallsApartSeeOneStore == Spec /\ []Apart => Store!StoreSpec
<1>1. Init => Store!StoreInit
      BY DEF Init, Store!StoreInit
<1> QED
      BY <1>1, ApartStep, InvHolds, PTL DEF Spec, Store!StoreSpec
===============================================================================

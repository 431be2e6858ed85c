------------------------- MODULE ScenarioLibraryProofs -------------------------
(***************************************************************************)
(* Theorems about ScenarioLibrary, for any runs, verifies, lever values    *)
(* areas, tables and scoring function, and however often the files and the *)
(* library change.                                                         *)
(***************************************************************************)
EXTENDS ScenarioLibrary, TLAPS

\* One case per action: every proof about a step starts from this split.
LEMMA StepCases ==
    ASSUME Next
    PROVE  \/ \E r \in Runs :
                  \/ RunOne(r) \/ Followup(r) \/ RunFails(r) \/ Score(r) \/ Persist(r)
                  \/ Abandon(r)
           \/ \E r, x \in Runs : RunTwo(r, x)
           \/ \E v \in Checks, r \in Runs : ReadCard(v, r) \/ NotStored(v, r)
           \/ \E v \in Checks : Rescore(v) \/ RescoreFails(v) \/ Tell(v)
           \/ Refresh
           \/ Restart
BY DEF Next

-------------------------------------------------------------------------------
(***************************************************************************)
(* Types.  Beyond TypeOK a run under way has a recipe, a scored one a      *)
(* result and a scene, and a verify under way a card, a run and, once it   *)
(* has rerun, a result and a scene; the two runs of a comparison know each *)
(* other, and neither is over before both are scored.                      *)
(***************************************************************************)
Underway == {"waiting", "accepted", "scored"}

TwinInv == \A r \in Runs : twin[r] # NoRun =>
    /\ twin[r] # r /\ twin[twin[r]] = r
    /\ pc[r] # "idle"
    /\ pc[r] \in {"waiting", "accepted"} => pc[twin[r]] \in Underway

TypeInv ==
    /\ TypeOK
    /\ TwinInv
    /\ \A r \in Runs : pc[r] \in Underway => recipe[r] \in Recipe
    /\ \A r \in Runs : pc[r] = "scored" => result[r] \in Outcomes /\ scoredOn[r] \in Scene
    /\ \A v \in Checks : phase[v] \in {"read", "rescored"} =>
          cached[v] \in Card /\ target[v] \in Runs
    /\ \A v \in Checks : phase[v] = "rescored" => new[v] \in Outcomes /\ rerunOn[v] \in Scene

\* The parts of a recipe.
LEMMA RecipeParts ==
    ASSUME NEW q \in Recipe
    PROVE  q.params \in Params /\ q.extra \in Levels \cup {NoLevel}
BY DEF Recipe

\* An assumption always has a value: the preset gives it one.
LEMMA LeverType ==
    ASSUME NEW p \in Params, NEW extra \in Levels \cup {NoLevel}
    PROVE  LeverOf(p, extra) \in Levels
BY DEF LeverOf, Params

\* Scoring on a scene gives an outcome.
LEMMA ScoreType ==
    ASSUME NEW p \in Params, NEW extra \in Levels \cup {NoLevel}, NEW base, NEW scene \in Scene
    PROVE  ScoreOf(p, extra, base, scene) \in Outcomes
<1>1. LeverOf(p, extra) \in Levels
      BY LeverType
<1>2. UniverseOf(p, base) \in Universe
      BY DEF UniverseOf, Universe
<1>3. scene.area \in Places /\ scene.tables \in Files /\ scene.cbs \in Versions
      BY DEF Scene
<1> QED
      BY <1>1, <1>2, <1>3, OutcomeType DEF ScoreOf

\* What a run scores on are the files of the moment.
LEMMA SceneNow ==
    ASSUME TypeOK, NEW p, NEW base, NEW scene \in Scenes(p, base)
    PROVE  scene \in Scene /\ scene.tables = data /\ scene.cbs = cbs
<1>1. PICK area \in AreasOf(p, base) : scene = [tables |-> data, cbs |-> cbs, area |-> area]
      BY DEF Scenes
<1>2. area \in Places
      BY <1>1 DEF AreasOf, Places
<1>3. data \in Files /\ cbs \in Versions
      BY DEF TypeOK
<1> QED
      BY <1>1, <1>2, <1>3 DEF Scene

\* Versions are numbers, and a table that is not read counts as older than any.
LEMMA VersionIsNat == \A n \in Versions : n \in Nat /\ 0 < n /\ n <= n
BY LibraryConstants DEF Versions

\* What is read of a table is its version or nothing.
LEMMA ReadingIs ==
    ASSUME TypeOK, NEW now \in Readings
    PROVE  /\ now \in Read
           /\ \A t \in Tables : now[t] \in {data[t], Unread} /\ now[t] <= data[t]
<1>1. PICK seen \in SUBSET Tables : now = [t \in Tables |-> IF t \in seen THEN data[t] ELSE Unread]
      BY DEF Readings
<1>2. \A t \in Tables : data[t] \in Versions
      BY DEF TypeOK, Files
<1>3. \A t \in Tables : now[t] \in {data[t], Unread}
      BY <1>1
<1>4. now \in Read
      BY <1>1, <1>2 DEF Read
<1>5. ASSUME NEW t \in Tables PROVE now[t] <= data[t]
      <2>1. data[t] \in Nat
            BY <1>2, VersionIsNat
      <2> QED
            BY <1>3, <2>1 DEF Unread
<1> QED
      BY <1>3, <1>4, <1>5

\* What Persist stores is a card.
LEMMA CardType ==
    ASSUME TypeInv, NEW r \in Runs, pc[r] = "scored", NEW stamp \in Readings
    PROVE  CardOf(r, stamp) \in Card /\ CardOf(r, stamp).stamp = stamp
<1>1. recipe[r] \in Recipe /\ result[r] \in Outcomes
      BY DEF TypeInv, Underway
<1>2. LeverOf(recipe[r].params, recipe[r].extra) \in Levels /\ recipe[r].params \in Params
      BY <1>1, RecipeParts, LeverType
<1>3. stamp \in Read
      BY ReadingIs DEF TypeInv
<1>4. library \in 1..MaxLibrary
      BY DEF TypeInv, TypeOK
<1> QED
      BY <1>1, <1>2, <1>3, <1>4 DEF CardOf, Card

LEMMA TypeInit == Init => TypeInv
<1> SUFFICES ASSUME Init PROVE TypeInv
    OBVIOUS
<1>1. 1 \in Versions /\ 1 \in 1..MaxLibrary
      BY LibraryConstants DEF Versions
<1>2. data \in Files
      BY <1>1 DEF Init, Files
<1> QED
      BY <1>1, <1>2 DEF Init, TypeInv, TypeOK, TwinInv, Underway

\* Ends leaves every variable of the runs well typed, if it ends both of a comparison.
LEMMA EndsType ==
    ASSUME TypeInv, NEW these, Ends(these),
           \A r \in Runs : twin[r] \in these => twin[r] = NoRun \/ r \in these
    PROVE  /\ pc' \in [Runs -> {"idle", "waiting", "accepted", "scored", "stored", "over"}]
           /\ recipe' \in [Runs -> Recipe \cup {NoCard}]
           /\ twin' \in [Runs -> Runs \cup {NoRun}]
           /\ result' \in [Runs -> Outcomes \cup {NoCard}]
           /\ scoredOn' \in [Runs -> Scene \cup {NoCard}]
           /\ TwinInv'
           /\ \A r \in Runs : pc'[r] \in Underway => recipe'[r] \in Recipe
           /\ \A r \in Runs : pc'[r] = "scored" => result'[r] \in Outcomes /\ scoredOn'[r] \in Scene
<1> USE DEF TypeInv, TypeOK
<1>1. pc' = [r \in Runs |-> IF r \in these THEN "over" ELSE pc[r]]
      BY DEF Ends
<1>2. twin' = [r \in Runs |-> IF r \in these THEN NoRun ELSE twin[r]]
      BY DEF Ends
<1>3. recipe' = [r \in Runs |-> IF r \in these THEN NoCard ELSE recipe[r]]
      BY DEF Ends
<1>4. result' = [r \in Runs |-> IF r \in these THEN NoCard ELSE result[r]]
      BY DEF Ends
<1>5. scoredOn' = [r \in Runs |-> IF r \in these THEN NoCard ELSE scoredOn[r]]
      BY DEF Ends
<1>6. TwinInv'
      BY <1>1, <1>2, LibraryConstants DEF TwinInv, Underway
<1> QED
      BY <1>1, <1>2, <1>3, <1>4, <1>5, <1>6 DEF Underway

\* Over leaves every variable of the requests but the verdict well typed.
LEMMA OverType ==
    ASSUME TypeInv, NEW these, NEW how \in {"told", "over"}, Over(these, how)
    PROVE  /\ phase' \in [Checks -> {"idle", "read", "rescored", "told", "over"}]
           /\ target' \in [Checks -> Runs \cup {NoRun}]
           /\ cached' \in [Checks -> Card \cup {NoCard}]
           /\ new' \in [Checks -> Outcomes \cup {NoCard}]
           /\ rerunOn' \in [Checks -> Scene \cup {NoCard}]
           /\ \A v \in Checks : phase'[v] \in {"read", "rescored"} =>
                 cached'[v] \in Card /\ target'[v] \in Runs
           /\ \A v \in Checks : phase'[v] = "rescored" =>
                 new'[v] \in Outcomes /\ rerunOn'[v] \in Scene
BY DEF TypeInv, TypeOK, Over

\* The files only get newer; files and library change in actions of their own.
LEMMA FilesGrow ==
    ASSUME TypeInv, [Next]_vars
    PROVE  /\ \A t \in Tables : data[t] \in Nat /\ data'[t] \in Nat /\ data[t] <= data'[t]
           /\ cbs \in Nat /\ cbs' \in Nat /\ cbs <= cbs'
           /\ data' \in Files /\ cbs' \in Versions
           /\ library' = library \/ Restart
           /\ UNCHANGED <<data, cbs>> \/ Refresh
<1>0. /\ data \in Files /\ cbs \in Versions
      /\ \A t \in Tables : data[t] \in Versions
      BY DEF TypeInv, TypeOK, Files
<1>1. ASSUME NEW r \in Runs,
             RunOne(r) \/ Followup(r) \/ RunFails(r) \/ Score(r) \/ Persist(r) \/ Abandon(r)
      PROVE  UNCHANGED <<data, cbs, library>>
      BY <1>1 DEF RunOne, Followup, RunFails, Score, Persist, Abandon, files
<1>2. ASSUME NEW r \in Runs, NEW x \in Runs, RunTwo(r, x)
      PROVE  UNCHANGED <<data, cbs, library>>
      BY <1>2 DEF RunTwo, files
<1>3. ASSUME NEW v \in Checks, NEW r \in Runs, ReadCard(v, r) \/ NotStored(v, r)
      PROVE  UNCHANGED <<data, cbs, library>>
      BY <1>3 DEF ReadCard, NotStored, files
<1>4. ASSUME NEW v \in Checks, Rescore(v) \/ RescoreFails(v) \/ Tell(v)
      PROVE  UNCHANGED <<data, cbs, library>>
      BY <1>4 DEF Rescore, RescoreFails, Tell, files
<1>5. ASSUME Restart PROVE UNCHANGED <<data, cbs>>
      BY <1>5 DEF Restart, Cut, files
<1>6. ASSUME UNCHANGED vars PROVE UNCHANGED <<data, cbs, library>>
      BY <1>6 DEF vars
<1>7. ASSUME Refresh
      PROVE  /\ data' \in Files /\ cbs' \in Versions /\ library' = library
             /\ cbs <= cbs' /\ \A t \in Tables : data[t] <= data'[t]
      <2>1. /\ library' = library
            /\ \/ \E t \in Tables : /\ data[t] < MaxVersion
                                    /\ data' = [data EXCEPT ![t] = data[t] + 1] /\ cbs' = cbs
               \/ cbs < MaxVersion /\ cbs' = cbs + 1 /\ data' = data
            BY <1>7 DEF Refresh
      <2>0. cbs \in Nat /\ \A t \in Tables : data[t] \in Nat /\ data[t] <= data[t]
            BY <1>0, VersionIsNat
      <2>2. CASE cbs < MaxVersion /\ cbs' = cbs + 1 /\ data' = data
            <3>1. cbs' \in Versions /\ cbs <= cbs'
                  BY <1>0, <2>0, <2>2, LibraryConstants DEF Versions
            <3> QED
                  BY <1>0, <2>0, <2>1, <2>2, <3>1
      <2>3. ASSUME NEW t \in Tables, data[t] < MaxVersion,
                   data' = [data EXCEPT ![t] = data[t] + 1], cbs' = cbs
            PROVE  data' \in Files /\ \A u \in Tables : data[u] <= data'[u]
            <3>1. data[t] + 1 \in Versions /\ data[t] <= data[t] + 1
                  BY <1>0, <2>0, <2>3, LibraryConstants DEF Versions
            <3>2. \A u \in Tables : data'[u] = IF u = t THEN data[t] + 1 ELSE data[u]
                  BY <1>0, <2>3 DEF Files
            <3>3. data' \in Files
                  BY <1>0, <2>3, <3>1 DEF Files
            <3> QED
                  BY <2>0, <3>1, <3>2, <3>3
      <2>4. cbs <= cbs
            BY <2>0
      <2> QED
            BY <1>0, <2>1, <2>2, <2>3, <2>4
<1>8. /\ data' \in Files /\ cbs' \in Versions /\ cbs <= cbs'
      /\ \A t \in Tables : data[t] <= data'[t]
      /\ library' = library \/ Restart
      /\ UNCHANGED <<data, cbs>> \/ Refresh
      <2>1. cbs <= cbs /\ \A t \in Tables : data[t] <= data[t]
            BY <1>0, VersionIsNat
      <2>2. CASE UNCHANGED <<data, cbs>>
            <3>1. library' = library \/ Restart
                  BY <1>1, <1>2, <1>3, <1>4, <1>6, <1>7, StepCases
            <3> QED
                  BY <1>0, <2>1, <2>2, <3>1
      <2>3. CASE Refresh
            BY <1>7, <2>3
      <2> QED
            BY <1>1, <1>2, <1>3, <1>4, <1>5, <1>6, <2>2, <2>3, StepCases
<1>9. \A t \in Tables : data[t] \in Versions /\ data'[t] \in Versions
      BY <1>0, <1>8 DEF Files
<1> QED
      BY <1>0, <1>8, <1>9, VersionIsNat

LEMMA TypeStep == TypeInv /\ [Next]_vars => TypeInv'
<1> SUFFICES ASSUME TypeInv, [Next]_vars PROVE TypeInv'
    OBVIOUS
<1> USE DEF TypeInv, TypeOK, engine, checks, files
<1>1. ASSUME NEW r \in Runs, RunOne(r) PROVE TypeInv'
      BY <1>1 DEF RunOne, Asked, Built, TwinInv, Underway
<1>2. ASSUME NEW r \in Runs, Followup(r) \/ RunFails(r) \/ Abandon(r) PROVE TypeInv'
      <2>1. PICK these \in {{r}, {r, twin[r]}} :
               /\ Ends(these) /\ pc[r] \in Underway
               /\ IF these = {r} THEN twin[r] = NoRun ELSE pc[r] \in {"waiting", "accepted"}
            <3>1. CASE Followup(r) \/ Abandon(r)
                  BY <3>1 DEF Followup, Abandon, Underway
            <3>2. CASE RunFails(r)
                  <4>1. twin[r] # r
                        BY <3>2, LibraryConstants DEF RunFails, TwinInv
                  <4> QED
                        BY <3>2, <4>1 DEF RunFails, Underway
            <3> QED
                  BY <1>2, <3>1, <3>2
      <2>2. UNCHANGED <<data, cbs, library, scenarios, phase, target, cached, new, rerunOn, verdict>>
            BY <1>2 DEF Followup, RunFails, Abandon
      <2>3. \A x \in Runs : twin[x] \in these => twin[x] = NoRun \/ x \in these
            BY <2>1, LibraryConstants DEF TwinInv
      <2>4. \A x \in Runs : x \in these => pc[x] # "stored"
            BY <2>1, LibraryConstants DEF TwinInv, Underway
      <2>5. \A x \in Runs : scenarios[x] # NoCard => pc'[x] = "stored"
            BY <2>1, <2>4 DEF Ends
      <2> QED
            BY <2>1, <2>2, <2>3, <2>5, EndsType
<1>3. ASSUME NEW r \in Runs, NEW x \in Runs, RunTwo(r, x) PROVE TypeInv'
      <2>1. /\ recipe' \in [Runs -> Recipe \cup {NoCard}]
            /\ \A y \in Runs : pc'[y] \in Underway => recipe'[y] \in Recipe
            BY <1>3 DEF RunTwo, Asked, Underway
      <2>2. twin' = [twin EXCEPT ![r] = x, ![x] = r] /\ r # x
            BY <1>3 DEF RunTwo
      <2>3. pc' = [pc EXCEPT ![r] = "accepted", ![x] = "waiting"]
            BY <1>3 DEF RunTwo
      <2>4. twin[r] = NoRun /\ twin[x] = NoRun
            BY <1>3 DEF RunTwo, TwinInv
      <2>5. \A y \in Runs \ {r, x} : twin[y] # r /\ twin[y] # x
            BY <2>4, LibraryConstants DEF TwinInv
      <2>6. TwinInv'
            BY <2>2, <2>3, <2>4, <2>5, LibraryConstants DEF TwinInv, Underway
      <2>7. \A y \in Runs : scenarios[y] # NoCard => y # r /\ y # x
            BY <1>3 DEF RunTwo
      <2>8. /\ pc' \in [Runs -> {"idle", "waiting", "accepted", "scored", "stored", "over"}]
            /\ twin' \in [Runs -> Runs \cup {NoRun}]
            /\ \A y \in Runs : scenarios[y] # NoCard => pc'[y] = "stored"
            /\ \A y \in Runs : pc'[y] = "scored" => pc[y] = "scored"
            BY <2>2, <2>3, <2>7
      <2> QED
            BY <1>3, <2>1, <2>6, <2>8 DEF RunTwo
<1>4. ASSUME NEW r \in Runs, Score(r) PROVE TypeInv'
      <2>0. recipe[r] \in Recipe
            BY <1>4 DEF Score, Underway
      <2>1. PICK scene \in Scenes(recipe[r].params, recipe[r].base) :
               /\ result' = [result EXCEPT ![r] =
                                ScoreOf(recipe[r].params, recipe[r].extra, recipe[r].base, scene)]
               /\ scoredOn' = [scoredOn EXCEPT ![r] = scene]
            BY <1>4 DEF Score
      <2>2. scene \in Scene
            BY <2>1, SceneNow
      <2>3. ScoreOf(recipe[r].params, recipe[r].extra, recipe[r].base, scene) \in Outcomes
            BY <2>0, <2>2, RecipeParts, ScoreType
      <2>4. /\ result' \in [Runs -> Outcomes \cup {NoCard}]
            /\ scoredOn' \in [Runs -> Scene \cup {NoCard}]
            /\ result'[r] \in Outcomes /\ scoredOn'[r] \in Scene
            /\ \A x \in Runs \ {r} : result'[x] = result[x] /\ scoredOn'[x] = scoredOn[x]
            BY <2>1, <2>2, <2>3
      <2>5. pc' = [x \in Runs |-> IF x = r THEN "scored"
                                  ELSE IF x = twin[r] /\ pc[x] = "waiting" THEN "accepted"
                                  ELSE pc[x]]
            BY <1>4 DEF Score
      <2>6. UNCHANGED <<data, cbs, library, recipe, twin, scenarios, phase, target, cached, new,
                        rerunOn, verdict>> /\ pc[r] = "accepted"
            BY <1>4 DEF Score
      <2>7. TwinInv'
            BY <2>5, <2>6, LibraryConstants DEF TwinInv, Underway
      <2>8. /\ pc' \in [Runs -> {"idle", "waiting", "accepted", "scored", "stored", "over"}]
            /\ \A x \in Runs : scenarios[x] # NoCard => pc'[x] = "stored"
            /\ \A x \in Runs : pc'[x] \in Underway => pc[x] \in Underway
            /\ \A x \in Runs \ {r} : pc'[x] = "scored" => pc[x] = "scored"
            BY <2>5, <2>6 DEF Underway
      <2> QED
            BY <2>4, <2>6, <2>7, <2>8
<1>5. ASSUME NEW r \in Runs, Persist(r) PROVE TypeInv'
      <2> DEFINE these == {r, twin[r]} \ {NoRun}
      <2>1. \A x \in these : x \in Runs /\ pc[x] = "scored"
            BY <1>5 DEF Persist
      <2>0. \A y \in Runs \ these : twin[y] \notin these
            BY LibraryConstants DEF TwinInv
      <2>2. PICK stamp \in [these -> Readings] :
               scenarios' = [x \in Runs |-> IF x \in these THEN CardOf(x, stamp[x])
                                            ELSE scenarios[x]]
            BY <1>5 DEF Persist
      <2>3. \A x \in these :
               /\ CardOf(x, stamp[x]) \in Card
               /\ \A t \in Tables : CardOf(x, stamp[x]).stamp[t] <= data[t]
            BY <2>1, <2>2, CardType, ReadingIs
      <2>4. pc' = [x \in Runs |-> IF x \in these THEN "stored" ELSE pc[x]]
            BY <1>5 DEF Persist
      <2> HIDE DEF these
      <2>5. scenarios' \in [Runs -> Card \cup {NoCard}]
            BY <2>2, <2>3
      <2>6. \A x \in Runs : scenarios'[x] # NoCard =>
               pc'[x] = "stored" /\ \A t \in Tables : scenarios'[x].stamp[t] <= data[t]
            BY <2>2, <2>3, <2>4
      <2>7. UNCHANGED <<data, cbs, library, recipe, twin, result, scoredOn, checks>>
            BY <1>5 DEF Persist
      <2>8. TwinInv'
            BY <2>0, <2>1, <2>4, <2>7, LibraryConstants DEF TwinInv, Underway
      <2>9. pc' \in [Runs -> {"idle", "waiting", "accepted", "scored", "stored", "over"}]
            BY <2>4
      <2>10. TypeOK'
            BY <2>5, <2>6, <2>7, <2>9
      <2>11. \A x \in Runs : pc'[x] \in Underway => pc'[x] = pc[x]
            BY <2>4 DEF Underway
      <2> QED
            BY <2>7, <2>8, <2>10, <2>11 DEF Underway
<1>6. ASSUME NEW v \in Checks, NEW r \in Runs, ReadCard(v, r) PROVE TypeInv'
      BY <1>6 DEF ReadCard, TwinInv
<1>7. ASSUME NEW v \in Checks, NEW r \in Runs, NotStored(v, r) PROVE TypeInv'
      BY <1>7, OverType DEF NotStored, TwinInv
<1>8. ASSUME NEW v \in Checks, Rescore(v) PROVE TypeInv'
      <2>1. cached[v] \in Card /\ cached[v].params \in Params /\ NoLevel \in Levels \cup {NoLevel}
            BY <1>8 DEF Rescore, Card
      <2>2. PICK scene \in Scenes(cached[v].params, "none") :
               /\ new' = [new EXCEPT ![v] = ScoreOf(cached[v].params, NoLevel, "none", scene)]
               /\ rerunOn' = [rerunOn EXCEPT ![v] = scene]
            BY <1>8 DEF Rescore
      <2>3. scene \in Scene
            BY <2>2, SceneNow
      <2>4. ScoreOf(cached[v].params, NoLevel, "none", scene) \in Outcomes
            BY <2>1, <2>3, ScoreType
      <2>5. phase' = [phase EXCEPT ![v] = "rescored"] /\ phase[v] = "read"
            BY <1>8 DEF Rescore
      <2>6. UNCHANGED <<data, cbs, library, pc, recipe, twin, result, scoredOn, scenarios,
                        target, cached, verdict>>
            BY <1>8 DEF Rescore
      <2> QED
            BY <2>2, <2>3, <2>4, <2>5, <2>6 DEF TwinInv
<1>9. ASSUME NEW v \in Checks, RescoreFails(v) PROVE TypeInv'
      BY <1>9, OverType DEF RescoreFails, TwinInv
<1>10. ASSUME NEW v \in Checks, Tell(v) PROVE TypeInv'
      <2>1. verdict' \in [Checks -> Verdict \cup {NoCard}]
            <3>1. PICK now \in Readings :
                     verdict' = [verdict EXCEPT ![v] =
                        [matches |-> SameHash(cached[v]) /\ new[v] = cached[v].result,
                         drift |-> Drifted(cached[v].stamp, now),
                         assumption_drift |-> cached[v].library # library,
                         clean |-> /\ SameHash(cached[v]) /\ new[v] = cached[v].result
                                   /\ ~Drifted(cached[v].stamp, now)
                                   /\ ~(cached[v].library # library),
                         read |-> now]]
                  BY <1>10, Zenon DEF Tell
            <3>2. now \in Read
                  BY ReadingIs
            <3>3. /\ (SameHash(cached[v]) /\ new[v] = cached[v].result) \in BOOLEAN
                  /\ Drifted(cached[v].stamp, now) \in BOOLEAN
                  BY DEF SameHash, Drifted
            <3> QED
                  BY <3>1, <3>2, <3>3 DEF Verdict
      <2>2. Over({v}, "told")
            BY <1>10 DEF Tell
      <2>3. UNCHANGED <<data, cbs, library, pc, recipe, twin, result, scoredOn, scenarios>>
            BY <1>10 DEF Tell
      <2> QED
            BY <2>1, <2>2, <2>3, OverType DEF TwinInv
<1>11. CASE Refresh
      <2>1. data' \in Files /\ cbs' \in Versions
            BY FilesGrow
      <2>2. ASSUME NEW r \in Runs, scenarios[r] # NoCard
            PROVE  \A t \in Tables : scenarios[r].stamp[t] <= data'[t]
            <3>1. \A t \in Tables : scenarios[r].stamp[t] \in Versions \cup {Unread}
                  BY <2>2 DEF Card, Read
            <3>2. \A t \in Tables : scenarios[r].stamp[t] \in Nat
                  BY <3>1, VersionIsNat DEF Unread
            <3> QED
                  BY <2>2, <3>2, FilesGrow
      <2>3. UNCHANGED <<library, engine, scenarios, checks>>
            BY <1>11 DEF Refresh
      <2> QED
            BY <2>1, <2>2, <2>3 DEF TwinInv
<1>12. CASE Restart
      <2>1. Ends({x \in Runs : pc[x] # "idle"})
            BY <1>12 DEF Restart, Cut
      <2>2. Over({v \in Checks : phase[v] \in {"read", "rescored"}}, "over")
            BY <1>12 DEF Restart, Cut
      <2>3. /\ UNCHANGED <<data, cbs, verdict>> /\ library' \in 1..MaxLibrary
            /\ scenarios' = [r \in Runs |-> NoCard]
            BY <1>12 DEF Restart, Cut
      <2>4. \A x \in Runs : twin[x] \in {y \in Runs : pc[y] # "idle"} =>
               x \in {y \in Runs : pc[y] # "idle"}
            BY LibraryConstants DEF TwinInv
      <2> QED
            BY <2>1, <2>2, <2>3, <2>4, EndsType, OverType
<1>13. CASE UNCHANGED vars
      BY <1>13 DEF vars, TwinInv
<1> QED
      BY <1>1, <1>2, <1>3, <1>4, <1>5, <1>6, <1>7, <1>8, <1>9, <1>10, <1>11, <1>12, <1>13,
         StepCases

\* Every variable keeps its type; a stored card was never stamped with a version of
\* a table that had not come into being.
THEOREM LibraryTypeCorrect == Spec => []TypeOK
<1>1. TypeInv => TypeOK
      BY DEF TypeInv
<1> QED
      BY TypeInit, TypeStep, <1>1, PTL DEF Spec

-------------------------------------------------------------------------------
(***************************************************************************)
(* What verify knows.  A card is genuine when it says how its run was      *)
(* scored, on tables no newer than its stamp; the rerun of a verify was    *)
(* scored on files no older than those, and no newer than today's.         *)
(***************************************************************************)
RunScore(r) == ScoreOf(recipe[r].params, recipe[r].extra, recipe[r].base, scoredOn[r])

\* The files of a scene are not newer than today's.
Past(scene) == scene.cbs <= cbs /\ \A t \in Tables : scene.tables[t] <= data[t]

Genuine(r, c) ==
    /\ r \in Runs /\ pc[r] = "stored"
    /\ c.params = recipe[r].params
    /\ c.lever = LeverOf(recipe[r].params, recipe[r].extra)
    /\ c.result = RunScore(r)
    /\ \A t \in Tables : c.stamp[t] # Unread => scoredOn[r].tables[t] <= c.stamp[t]
    /\ c.library = library

Rerun(v) ==
    /\ rerunOn[v] \in Scene /\ Past(rerunOn[v])
    /\ new[v] = ScoreOf(cached[v].params, NoLevel, "none", rerunOn[v])
    /\ scoredOn[target[v]].cbs <= rerunOn[v].cbs
    /\ \A t \in Tables :
          /\ scoredOn[target[v]].tables[t] <= rerunOn[v].tables[t]
          /\ cached[v].stamp[t] <= rerunOn[v].tables[t]

RunInv ==
    /\ \A r \in Runs : pc[r] \in {"scored", "stored"} =>
          result[r] = RunScore(r) /\ scoredOn[r] \in Scene /\ Past(scoredOn[r])
    /\ \A r \in Runs : scenarios[r] # NoCard => Genuine(r, scenarios[r])

Held(v) ==
    /\ Genuine(target[v], cached[v]) /\ cached[v] \in Card
    /\ \A t \in Tables : cached[v].stamp[t] <= data[t]

CheckInv ==
    /\ \A v \in Checks : phase[v] \in {"read", "rescored"} => Held(v)
    /\ \A v \in Checks : phase[v] = "rescored" => Rerun(v)

LEMMA RunInit == Init => RunInv
BY DEF Init, RunInv

LEMMA CheckInit == Init => CheckInv
BY DEF Init, CheckInv

\* The versions of a scene are numbers.
LEMMA SceneNat ==
    ASSUME NEW scene \in Scene
    PROVE  scene.cbs \in Nat /\ \A t \in Tables : scene.tables[t] \in Nat
<1>1. scene.cbs \in Versions /\ \A t \in Tables : scene.tables[t] \in Versions
      BY DEF Scene, Files
<1> QED
      BY <1>1, VersionIsNat

\* What is past stays past.
LEMMA PastStays ==
    ASSUME TypeInv, [Next]_vars, NEW scene \in Scene, Past(scene)
    PROVE  Past(scene)'
<1>1. scene.cbs \in Nat /\ \A t \in Tables : scene.tables[t] \in Nat
      BY SceneNat
<1>2. /\ cbs \in Nat /\ cbs' \in Nat /\ cbs <= cbs'
      /\ \A t \in Tables : data[t] \in Nat /\ data'[t] \in Nat /\ data[t] <= data'[t]
      BY FilesGrow
<1> QED
      BY <1>1, <1>2 DEF Past

\* What a run of this moment is scored on is past, and not older than what is past.
LEMMA SceneIsPast ==
    ASSUME TypeInv, NEW p, NEW base, NEW scene \in Scenes(p, base)
    PROVE  Past(scene)
<1>1. scene.tables = data /\ scene.cbs = cbs
      BY SceneNow DEF TypeInv
<1>2. cbs <= cbs /\ \A t \in Tables : data[t] <= data[t]
      BY VersionIsNat DEF TypeInv, TypeOK, Files
<1> QED
      BY <1>1, <1>2 DEF Past

\* A step leaves a run that is stored as it is, unless the process restarts.
LEMMA StoredStays ==
    ASSUME TypeInv, [Next]_vars, ~Restart, NEW r \in Runs, pc[r] = "stored"
    PROVE  /\ pc'[r] = "stored" /\ recipe'[r] = recipe[r]
           /\ scoredOn'[r] = scoredOn[r] /\ result'[r] = result[r]
<1> USE DEF TypeInv, TypeOK, engine
<1>1. ASSUME NEW x \in Runs, RunOne(x) \/ Score(x)
      PROVE  pc'[r] = pc[r] /\ recipe'[r] = recipe[r]
             /\ scoredOn'[r] = scoredOn[r] /\ result'[r] = result[r]
      <2>1. CASE RunOne(x)
            BY <2>1 DEF RunOne
      <2>2. CASE Score(x)
            BY <2>2 DEF Score
      <2> QED
            BY <1>1, <2>1, <2>2
<1>2. ASSUME NEW x \in Runs, Followup(x) \/ Abandon(x) \/ RunFails(x)
      PROVE  pc'[r] = pc[r] /\ recipe'[r] = recipe[r]
             /\ scoredOn'[r] = scoredOn[r] /\ result'[r] = result[r]
      <2>1. CASE Followup(x) \/ Abandon(x)
            BY <2>1 DEF Followup, Abandon, Ends
      <2>2. CASE RunFails(x)
            <3>1. r \notin {x, twin[x]}
                  BY <2>2, LibraryConstants DEF RunFails, TwinInv, Underway
            <3> QED
                  BY <2>2, <3>1 DEF RunFails, Ends
      <2> QED
            BY <1>2, <2>1, <2>2
<1>3. ASSUME NEW x \in Runs, Persist(x)
      PROVE  pc'[r] = pc[r] /\ UNCHANGED <<recipe, scoredOn, result>>
      BY <1>3 DEF Persist
<1>4. ASSUME NEW x \in Runs, NEW y \in Runs, RunTwo(x, y)
      PROVE  pc'[r] = pc[r] /\ recipe'[r] = recipe[r] /\ UNCHANGED <<scoredOn, result>>
      BY <1>4 DEF RunTwo
<1>5. ASSUME NEW v \in Checks, NEW x \in Runs, ReadCard(v, x) \/ NotStored(v, x)
      PROVE  UNCHANGED <<pc, recipe, scoredOn, result>>
      BY <1>5 DEF ReadCard, NotStored
<1>6. ASSUME NEW v \in Checks, Rescore(v) \/ RescoreFails(v) \/ Tell(v)
      PROVE  UNCHANGED <<pc, recipe, scoredOn, result>>
      BY <1>6 DEF Rescore, RescoreFails, Tell
<1>7. CASE Refresh \/ UNCHANGED vars
      BY <1>7 DEF Refresh, vars
<1> QED
      BY <1>1, <1>2, <1>3, <1>4, <1>5, <1>6, <1>7, StepCases

\* Only Score scores: a run that is scored or stored after another step was before.
LEMMA ScoredBefore ==
    ASSUME TypeInv, [Next]_vars, NEW r \in Runs, ~Score(r), pc'[r] \in {"scored", "stored"}
    PROVE  /\ pc[r] \in {"scored", "stored"} /\ recipe'[r] = recipe[r]
           /\ scoredOn'[r] = scoredOn[r] /\ result'[r] = result[r]
<1> USE DEF TypeInv, TypeOK, engine
<1>1. ASSUME NEW x \in Runs, RunOne(x)
      PROVE  pc'[r] = pc[r] /\ recipe'[r] = recipe[r] /\ UNCHANGED <<scoredOn, result>>
      BY <1>1 DEF RunOne
<1>2. ASSUME NEW these, Ends(these)
      PROVE  pc'[r] = pc[r] /\ recipe'[r] = recipe[r]
             /\ scoredOn'[r] = scoredOn[r] /\ result'[r] = result[r]
      BY <1>2 DEF Ends
<1>3. ASSUME NEW x \in Runs, Followup(x) \/ Abandon(x) \/ RunFails(x)
      PROVE  \E these : Ends(these)
      BY <1>3 DEF Followup, Abandon, RunFails
<1>4. ASSUME NEW x \in Runs, Score(x)
      PROVE  /\ pc'[r] = pc[r] /\ recipe' = recipe
             /\ scoredOn'[r] = scoredOn[r] /\ result'[r] = result[r]
      <2>1. x # r
            BY <1>4
      <2> QED
            BY <1>4, <2>1 DEF Score
<1>5. ASSUME NEW x \in Runs, Persist(x)
      PROVE  pc[r] \in {"scored", "stored"} /\ UNCHANGED <<recipe, scoredOn, result>>
      BY <1>5, LibraryConstants DEF Persist
<1>6. ASSUME NEW x \in Runs, NEW y \in Runs, RunTwo(x, y)
      PROVE  pc'[r] = pc[r] /\ recipe'[r] = recipe[r] /\ UNCHANGED <<scoredOn, result>>
      BY <1>6 DEF RunTwo
<1>7. ASSUME NEW v \in Checks, NEW x \in Runs, ReadCard(v, x) \/ NotStored(v, x)
      PROVE  UNCHANGED <<pc, recipe, scoredOn, result>>
      BY <1>7 DEF ReadCard, NotStored
<1>8. ASSUME NEW v \in Checks, Rescore(v) \/ RescoreFails(v) \/ Tell(v)
      PROVE  UNCHANGED <<pc, recipe, scoredOn, result>>
      BY <1>8 DEF Rescore, RescoreFails, Tell
<1>9. CASE Refresh \/ UNCHANGED vars
      BY <1>9 DEF Refresh, vars
<1>10. CASE Restart
      BY <1>2, <1>10 DEF Restart, Cut
<1> QED
      BY <1>1, <1>2, <1>3, <1>4, <1>5, <1>6, <1>7, <1>8, <1>9, <1>10, StepCases

\* The table only changes when cards are stored and when the process ends.
LEMMA CardsStay ==
    ASSUME [Next]_vars
    PROVE  UNCHANGED <<scenarios, library>> \/ Restart \/ \E x \in Runs : Persist(x)
BY StepCases DEF RunOne, Followup, RunFails, Score, Abandon, RunTwo, ReadCard, NotStored,
   Rescore, RescoreFails, Tell, Refresh, vars

LEMMA RunStep == TypeInv /\ RunInv /\ [Next]_vars => RunInv'
<1> SUFFICES ASSUME TypeInv, RunInv, [Next]_vars PROVE RunInv'
    OBVIOUS
<1>1. ASSUME NEW r \in Runs, pc'[r] \in {"scored", "stored"}
      PROVE  result'[r] = RunScore(r)' /\ scoredOn'[r] \in Scene /\ Past(scoredOn[r])'
      <2>1. CASE Score(r)
            <3>1. PICK scene \in Scenes(recipe[r].params, recipe[r].base) :
                     /\ result' = [result EXCEPT ![r] =
                           ScoreOf(recipe[r].params, recipe[r].extra, recipe[r].base, scene)]
                     /\ scoredOn' = [scoredOn EXCEPT ![r] = scene]
                  BY <2>1 DEF Score
            <3>2. UNCHANGED <<recipe, data, cbs>>
                  BY <2>1 DEF Score, files
            <3>3. scoredOn'[r] = scene /\ scene \in Scene /\ Past(scene)
                  BY <3>1, SceneNow, SceneIsPast DEF TypeInv, TypeOK
            <3>4. result'[r] = ScoreOf(recipe[r].params, recipe[r].extra, recipe[r].base, scene)
                  BY <3>1 DEF TypeInv, TypeOK
            <3> QED
                  BY <3>2, <3>3, <3>4 DEF RunScore, Past
      <2>2. CASE ~Score(r)
            <3>1. /\ pc[r] \in {"scored", "stored"} /\ recipe'[r] = recipe[r]
                  /\ scoredOn'[r] = scoredOn[r] /\ result'[r] = result[r]
                  BY <1>1, <2>2, ScoredBefore
            <3>2. result[r] = RunScore(r) /\ scoredOn[r] \in Scene /\ Past(scoredOn[r])
                  BY <3>1 DEF RunInv
            <3>3. Past(scoredOn[r])'
                  <4> DEFINE scene == scoredOn[r]
                  <4>1. Past(scene)'
                        BY <3>1, <3>2, PastStays DEF Past
                  <4> QED
                        BY <3>1, <4>1 DEF Past
            <3> QED
                  BY <3>1, <3>2, <3>3 DEF RunScore
      <2> QED
            BY <2>1, <2>2
<1>2. ASSUME NEW r \in Runs, scenarios'[r] # NoCard
      PROVE  Genuine(r, scenarios[r])'
      <2>0. ~Restart
            BY <1>2 DEF Restart
      <2>1. CASE scenarios[r] # NoCard /\ UNCHANGED <<scenarios, library>>
            <3>1. Genuine(r, scenarios[r])
                  BY <2>1 DEF RunInv
            <3> QED
                  BY <2>0, <2>1, <3>1, StoredStays DEF Genuine, RunScore
      <2>2. ASSUME NEW x \in Runs, Persist(x) PROVE Genuine(r, scenarios[r])'
            <3> DEFINE these == {x, twin[x]} \ {NoRun}
            <3>0. PICK stamps \in [these -> Readings] :
                     scenarios' = [y \in Runs |-> IF y \in these THEN CardOf(y, stamps[y])
                                                  ELSE scenarios[y]]
                  BY <2>2 DEF Persist
            <3>1. CASE r \in these
                  <4>1. pc[r] = "scored" /\ pc'[r] = "stored"
                        BY <2>2, <3>1 DEF Persist
                  <4>2. PICK stamp \in Readings : scenarios'[r] = CardOf(r, stamp)
                        BY <3>0, <3>1
                  <4>3. result[r] = RunScore(r) /\ Past(scoredOn[r])
                        BY <4>1 DEF RunInv
                  <4>4. \A t \in Tables : stamp[t] # Unread => scoredOn[r].tables[t] <= stamp[t]
                        BY <4>3, ReadingIs DEF Past, TypeInv
                  <4>5. UNCHANGED <<recipe, scoredOn, library>>
                        BY <2>2 DEF Persist
                  <4>6. /\ CardOf(r, stamp).params = recipe[r].params
                        /\ CardOf(r, stamp).lever = LeverOf(recipe[r].params, recipe[r].extra)
                        /\ CardOf(r, stamp).result = result[r]
                        /\ CardOf(r, stamp).stamp = stamp /\ CardOf(r, stamp).library = library
                        BY DEF CardOf
                  <4> QED
                        BY <4>1, <4>2, <4>3, <4>4, <4>5, <4>6 DEF Genuine, RunScore
            <3>2. CASE r \notin these
                  <4>1. scenarios'[r] = scenarios[r] /\ UNCHANGED library
                        BY <2>2, <3>0, <3>2 DEF Persist
                  <4>2. pc[r] = "stored" /\ Genuine(r, scenarios[r])
                        BY <1>2, <4>1 DEF RunInv, Genuine
                  <4> QED
                        BY <2>0, <4>1, <4>2, StoredStays DEF Genuine, RunScore
            <3> QED
                  BY <3>1, <3>2
      <2> QED
            BY <1>2, <2>0, <2>1, <2>2, CardsStay
<1> QED
      BY <1>1, <1>2 DEF RunInv

\* A verify under way was so before the step, unless it just read its card or reran it.
LEMMA CheckCases ==
    ASSUME TypeInv, [Next]_vars, NEW v \in Checks, phase'[v] \in {"read", "rescored"}
    PROVE  /\ library' = library /\ ~Restart
           /\ \/ /\ phase'[v] = phase[v] /\ target'[v] = target[v]
                 /\ cached'[v] = cached[v] /\ new'[v] = new[v] /\ rerunOn'[v] = rerunOn[v]
              \/ \E r \in Runs : ReadCard(v, r)
              \/ Rescore(v)
<1> DEFINE Same == /\ phase'[v] = phase[v] /\ target'[v] = target[v]
                   /\ cached'[v] = cached[v] /\ new'[v] = new[v] /\ rerunOn'[v] = rerunOn[v]
<1> USE DEF TypeInv, TypeOK, checks
<1>0. ASSUME NEW these, NEW how \in {"told", "over"}, Over(these, how) PROVE Same
      BY <1>0 DEF Over
<1>1. ASSUME NEW r \in Runs,
             RunOne(r) \/ Followup(r) \/ RunFails(r) \/ Score(r) \/ Persist(r) \/ Abandon(r)
      PROVE  Same
      BY <1>1 DEF RunOne, Followup, RunFails, Score, Persist, Abandon
<1>2. ASSUME NEW r \in Runs, NEW x \in Runs, RunTwo(r, x) PROVE Same
      BY <1>2 DEF RunTwo
<1>3. ASSUME NEW u \in Checks, NEW r \in Runs, ReadCard(u, r) PROVE Same \/ ReadCard(v, r)
      BY <1>3 DEF ReadCard
<1>4. ASSUME NEW u \in Checks, NEW r \in Runs, NotStored(u, r) PROVE Same
      BY <1>0, <1>4 DEF NotStored
<1>5. ASSUME NEW u \in Checks, RescoreFails(u) \/ Tell(u) PROVE Same
      BY <1>0, <1>5 DEF RescoreFails, Tell
<1>6. ASSUME NEW u \in Checks, Rescore(u) PROVE Same \/ Rescore(v)
      <2>1. CASE u = v
            BY <1>6, <2>1
      <2>2. CASE u # v
            BY <1>6, <2>2 DEF Rescore
      <2> QED
            BY <2>1, <2>2
<1>7. ASSUME Refresh \/ UNCHANGED vars PROVE Same
      BY <1>7 DEF Refresh, vars
<1>8. ~Restart
      BY DEF Restart, Cut, Over
<1> QED
      BY <1>1, <1>2, <1>3, <1>4, <1>5, <1>6, <1>7, <1>8, FilesGrow, StepCases

\* What verify holds stays genuine: only a restart undoes a stored run.
LEMMA HeldStays ==
    ASSUME TypeInv, [Next]_vars, ~Restart, library' = library, NEW v \in Checks, Held(v),
           target'[v] = target[v], cached'[v] = cached[v]
    PROVE  Held(v)'
<1>1. Genuine(target[v], cached[v])'
      BY StoredStays DEF Held, Genuine, RunScore
<1>2. ASSUME NEW t \in Tables PROVE cached[v].stamp[t] <= data'[t]
      <2>1. cached[v].stamp[t] \in Nat /\ cached[v].stamp[t] <= data[t]
            BY VersionIsNat DEF Held, Card, Read, Unread
      <2> QED
            BY <2>1, FilesGrow
<1> QED
      BY <1>1, <1>2 DEF Held

LEMMA CheckStep == TypeInv /\ RunInv /\ CheckInv /\ [Next]_vars => CheckInv'
<1> SUFFICES ASSUME TypeInv, RunInv, CheckInv, [Next]_vars,
                    NEW v \in Checks, phase'[v] \in {"read", "rescored"}
             PROVE  Held(v)' /\ (phase'[v] = "rescored" => Rerun(v)')
    BY DEF CheckInv
<1>0. library' = library /\ ~Restart
      BY CheckCases
<1>1. CASE /\ phase'[v] = phase[v] /\ target'[v] = target[v]
           /\ cached'[v] = cached[v] /\ new'[v] = new[v] /\ rerunOn'[v] = rerunOn[v]
      <2>1. Held(v)
            BY <1>1 DEF CheckInv
      <2>2. Held(v)'
            BY <1>0, <1>1, <2>1, HeldStays
      <2>3. ASSUME phase'[v] = "rescored" PROVE Rerun(v)'
            <3>1. Rerun(v)
                  BY <1>1, <2>3 DEF CheckInv
            <3>2. scoredOn'[target[v]] = scoredOn[target[v]]
                  BY <1>0, <2>1, StoredStays DEF Held, Genuine
            <3>3. Past(rerunOn[v])'
                  <4> DEFINE scene == rerunOn[v]
                  <4>1. Past(scene)'
                        BY <1>1, <3>1, PastStays DEF Rerun, Past
                  <4> QED
                        BY <1>1, <4>1 DEF Past
            <3> QED
                  BY <1>1, <3>1, <3>2, <3>3 DEF Rerun
      <2> QED
            BY <2>2, <2>3
<1>2. ASSUME NEW r \in Runs, ReadCard(v, r)
      PROVE  Held(v)' /\ phase'[v] # "rescored"
      <2>1. scenarios[r] # NoCard /\ UNCHANGED <<data, cbs, engine>>
            BY <1>2 DEF ReadCard, files
      <2>2. target'[v] = r /\ cached'[v] = scenarios[r] /\ phase'[v] = "read"
            BY <1>2 DEF ReadCard, TypeInv, TypeOK
      <2>3. /\ Genuine(r, scenarios[r]) /\ scenarios[r] \in Card
            /\ \A t \in Tables : scenarios[r].stamp[t] <= data[t]
            BY <2>1 DEF RunInv, TypeInv, TypeOK
      <2> QED
            BY <1>0, <2>1, <2>2, <2>3 DEF Held, Genuine, RunScore, engine
<1>3. CASE Rescore(v)
      <2>1. Held(v)
            BY <1>3 DEF Rescore, CheckInv
      <2>2. UNCHANGED <<data, cbs, target, cached, scoredOn>>
            BY <1>3 DEF Rescore, files, engine
      <2>3. Held(v)'
            BY <1>0, <2>1, <2>2, HeldStays
      <2>4. scoredOn[target[v]] \in Scene /\ Past(scoredOn[target[v]])
            BY <2>1 DEF RunInv, Held, Genuine
      <2>5. PICK scene \in Scenes(cached[v].params, "none") :
               /\ new' = [new EXCEPT ![v] = ScoreOf(cached[v].params, NoLevel, "none", scene)]
               /\ rerunOn' = [rerunOn EXCEPT ![v] = scene]
            BY <1>3 DEF Rescore
      <2>6. scene \in Scene /\ Past(scene) /\ scene.tables = data /\ scene.cbs = cbs
            BY SceneNow, SceneIsPast DEF TypeInv
      <2>7. rerunOn'[v] = scene /\ new'[v] = ScoreOf(cached[v].params, NoLevel, "none", scene)
            BY <2>5 DEF TypeInv, TypeOK
      <2>8. Rerun(v)'
            BY <2>1, <2>2, <2>4, <2>6, <2>7 DEF Rerun, Past, Held
      <2> QED
            BY <2>3, <2>8
<1> QED
      BY <1>1, <1>2, <1>3, CheckCases

Inv == TypeInv /\ RunInv /\ CheckInv

LEMMA InvHolds == Spec => []Inv
<1>1. Init => Inv
      BY TypeInit, RunInit, CheckInit DEF Inv
<1>2. Inv /\ [Next]_vars => Inv'
      BY TypeStep, RunStep, CheckStep DEF Inv
<1> QED
      BY <1>1, <1>2, PTL DEF Spec

-------------------------------------------------------------------------------
(***************************************************************************)
(* What verify answers                                                     *)
(***************************************************************************)

\* Only Tell answers, and only to the request it is for.
LEMMA TellTells ==
    ASSUME TypeInv, [Next]_vars, NEW v \in Checks
    PROVE  /\ Tells(v) => Tell(v)
           /\ verdict'[v] = verdict[v] \/ Tell(v)
<1> USE DEF TypeInv, TypeOK, checks, Tells
<1> DEFINE Quiet == verdict'[v] = verdict[v] /\ ~Tells(v)
<1>1. ASSUME NEW r \in Runs,
             RunOne(r) \/ Followup(r) \/ RunFails(r) \/ Score(r) \/ Persist(r) \/ Abandon(r)
      PROVE  Quiet
      BY <1>1 DEF RunOne, Followup, RunFails, Score, Persist, Abandon
<1>2. ASSUME NEW r \in Runs, NEW x \in Runs, RunTwo(r, x) PROVE Quiet
      BY <1>2 DEF RunTwo
<1>3. ASSUME NEW u \in Checks, NEW r \in Runs, ReadCard(u, r) \/ NotStored(u, r) PROVE Quiet
      BY <1>3 DEF ReadCard, NotStored, Over
<1>4. ASSUME NEW u \in Checks, Rescore(u) \/ RescoreFails(u) PROVE Quiet
      BY <1>4 DEF Rescore, RescoreFails, Over
<1>5. ASSUME NEW u \in Checks, Tell(u) PROVE Quiet \/ Tell(v)
      <2>1. CASE u = v
            BY <1>5, <2>1
      <2>2. CASE u # v
            BY <1>5, <2>2 DEF Tell, Over
      <2> QED
            BY <2>1, <2>2
<1>6. CASE Refresh \/ Restart \/ UNCHANGED vars
      BY <1>6 DEF Refresh, Restart, Cut, Over, vars
<1> QED
      BY <1>1, <1>2, <1>3, <1>4, <1>5, <1>6, StepCases

\* The verdict, in terms of the card and the versions that were read.
LEMMA Told ==
    ASSUME TypeInv, NEW v \in Checks, Tell(v)
    PROVE  /\ UNCHANGED <<data, cbs, library, recipe, scoredOn>>
           /\ verdict'[v].read \in Readings
           /\ verdict'[v].drift <=> Drifted(cached[v].stamp, verdict'[v].read)
           /\ verdict'[v].assumption_drift <=> cached[v].library # library
           /\ verdict'[v].clean <=>
                 /\ SameHash(cached[v]) /\ new[v] = cached[v].result
                 /\ ~Drifted(cached[v].stamp, verdict'[v].read)
                 /\ cached[v].library = library
<1> DEFINE Answer(now) ==
        [matches |-> SameHash(cached[v]) /\ new[v] = cached[v].result,
         drift |-> Drifted(cached[v].stamp, now),
         assumption_drift |-> cached[v].library # library,
         clean |-> /\ SameHash(cached[v]) /\ new[v] = cached[v].result
                   /\ ~Drifted(cached[v].stamp, now)
                   /\ ~(cached[v].library # library),
         read |-> now]
<1>1. PICK now \in Readings : verdict' = [verdict EXCEPT ![v] = Answer(now)]
      BY Zenon DEF Tell
<1>2. verdict'[v] = Answer(now)
      BY <1>1 DEF TypeInv, TypeOK
<1>3. /\ verdict'[v].read = now
      /\ verdict'[v].drift = Drifted(cached[v].stamp, now)
      /\ verdict'[v].assumption_drift = (cached[v].library # library)
      /\ verdict'[v].clean = (/\ SameHash(cached[v]) /\ new[v] = cached[v].result
                              /\ ~Drifted(cached[v].stamp, now)
                              /\ ~(cached[v].library # library))
      BY <1>2
<1>4. UNCHANGED <<data, cbs, library, recipe, scoredOn>>
      BY DEF Tell, files, engine
<1> QED
      BY <1>1, <1>3, <1>4, Zenon

\* What is known when verify answers: a genuine card, a rerun on files from between
\* its scoring and now, and the numbers their versions are.
LEMMA Knows ==
    ASSUME Inv, NEW v \in Checks, Tell(v)
    PROVE  /\ Held(v) /\ Rerun(v) /\ target[v] \in Runs
           /\ scoredOn[target[v]] \in Scene /\ Past(scoredOn[target[v]])
           /\ cbs \in Nat /\ scoredOn[target[v]].cbs \in Nat /\ rerunOn[v].cbs \in Nat
           /\ \A t \in Tables :
                 /\ data[t] \in Nat /\ data[t] # Unread /\ cached[v].stamp[t] \in Nat
                 /\ scoredOn[target[v]].tables[t] \in Nat /\ rerunOn[v].tables[t] \in Nat
<1>1. Held(v) /\ Rerun(v)
      BY DEF Tell, Inv, CheckInv
<1>2. target[v] \in Runs /\ scoredOn[target[v]] \in Scene /\ Past(scoredOn[target[v]])
      BY <1>1 DEF Inv, RunInv, Held, Genuine
<1>3. cbs \in Versions /\ \A t \in Tables : data[t] \in Versions
      BY DEF Inv, TypeInv, TypeOK, Files
<1>4. cbs \in Nat /\ \A t \in Tables : data[t] \in Nat /\ data[t] # Unread
      BY <1>3, VersionIsNat DEF Unread
<1>5. \A t \in Tables : cached[v].stamp[t] \in Versions \cup {Unread}
      BY <1>1 DEF Held, Card, Read
<1>6. \A t \in Tables : cached[v].stamp[t] \in Nat
      BY <1>5, VersionIsNat DEF Unread
<1> QED
      BY <1>1, <1>2, <1>4, <1>6, SceneNat DEF Rerun

\* A table that was read both times and has not drifted is the one the rerun was on.
LEMMA NoDrift ==
    ASSUME Inv, NEW v \in Checks, Tell(v), ~Drifted(cached[v].stamp, verdict'[v].read),
           NEW t \in Tables, cached[v].stamp[t] # Unread, verdict'[v].read[t] # Unread
    PROVE  cached[v].stamp[t] = data[t] /\ rerunOn[v].tables[t] = data[t]
<1>1. verdict'[v].read[t] \in {data[t], Unread}
      BY Told, ReadingIs DEF Inv, TypeInv
<1>2. cached[v].stamp[t] = data[t]
      BY <1>1 DEF Drifted
<1>3. cached[v].stamp[t] <= rerunOn[v].tables[t] /\ rerunOn[v].tables[t] <= data[t]
      BY Knows DEF Rerun, Past
<1>4. data[t] \in Nat /\ rerunOn[v].tables[t] \in Nat
      BY Knows
<1> QED
      BY <1>2, <1>3, <1>4

-------------------------------------------------------------------------------
(***************************************************************************)
(* The theorems                                                            *)
(***************************************************************************)

\* A verdict never reports another assumption library, whatever was deployed: the
\* cards of an earlier library went with its process.
THEOREM NoAssumptionDrift == Spec => []LibraryNeverDrifts
<1>1. Init => LibraryNeverDrifts
      BY DEF Init, LibraryNeverDrifts
<1>2. Inv /\ LibraryNeverDrifts /\ [Next]_vars => LibraryNeverDrifts'
      <2> SUFFICES ASSUME Inv, LibraryNeverDrifts, [Next]_vars,
                          NEW v \in Checks, verdict'[v] # NoCard
                   PROVE  ~verdict'[v].assumption_drift
          BY DEF LibraryNeverDrifts
      <2>1. CASE verdict'[v] = verdict[v]
            BY <2>1 DEF LibraryNeverDrifts
      <2>2. CASE Tell(v)
            BY <2>2, Knows, Told DEF Inv, Held, Genuine
      <2> QED
            BY <2>1, <2>2, TellTells DEF Inv
<1> QED
      BY InvHolds, <1>1, <1>2, PTL DEF Spec

\* A drift warning is true, and without one every table that could be read both times
\* is the one the rerun was scored on.
THEOREM DriftIsTrue == Spec => DriftDatesFromStorage
<1> DEFINE Right == \A v \in Checks : Tells(v) =>
               /\ verdict'[v].drift => \E t \in Tables : scoredOn[target[v]].tables[t] < data[t]
               /\ ~verdict'[v].drift =>
                     \A t \in Tables :
                        cached[v].stamp[t] # Unread /\ verdict'[v].read[t] # Unread
                        => cached[v].stamp[t] = data[t] /\ rerunOn[v].tables[t] = data[t]
<1>1. Inv /\ [Next]_vars => [Right]_vars
      <2> SUFFICES ASSUME Inv, [Next]_vars, NEW v \in Checks, Tell(v)
                   PROVE  /\ verdict'[v].drift =>
                                \E t \in Tables : scoredOn[target[v]].tables[t] < data[t]
                          /\ ~verdict'[v].drift =>
                                \A t \in Tables :
                                   cached[v].stamp[t] # Unread /\ verdict'[v].read[t] # Unread
                                   => cached[v].stamp[t] = data[t] /\ rerunOn[v].tables[t] = data[t]
          BY TellTells DEF Inv
      <2>1. verdict'[v].drift <=> Drifted(cached[v].stamp, verdict'[v].read)
            BY Told DEF Inv
      <2>2. ASSUME verdict'[v].drift
            PROVE  \E t \in Tables : scoredOn[target[v]].tables[t] < data[t]
            <3>1. PICK t \in Tables : /\ cached[v].stamp[t] # Unread
                                      /\ verdict'[v].read[t] # Unread
                                      /\ verdict'[v].read[t] # cached[v].stamp[t]
                  BY <2>1, <2>2 DEF Drifted
            <3>2. verdict'[v].read[t] = data[t]
                  BY <3>1, Told, ReadingIs DEF Inv, TypeInv
            <3>3. /\ scoredOn[target[v]].tables[t] <= cached[v].stamp[t]
                  /\ cached[v].stamp[t] <= data[t]
                  BY <3>1, Knows DEF Held, Genuine
            <3>4. /\ data[t] \in Nat /\ cached[v].stamp[t] \in Nat
                  /\ scoredOn[target[v]].tables[t] \in Nat
                  BY Knows
            <3> QED
                  BY <3>1, <3>2, <3>3, <3>4
      <2> QED
            BY <2>1, <2>2, NoDrift
<1> QED
      BY InvHolds, <1>1, PTL DEF Spec, DriftDatesFromStorage

\* The lever of the card, as far as the hash tells levers apart, gives the stored
\* class and average on the tables of the moment of the answer.
Confirmed(v) ==
    \E lever \in Levels :
       /\ Digest(lever) = Digest(LeverOf(recipe[target[v]].params, recipe[target[v]].extra))
       /\ Outcome(lever, UniverseOf(recipe[target[v]].params, recipe[target[v]].base),
                  rerunOn[v].area, data, cbs) = cached[v].result

\* What a clean verdict does say: every table was read both times, the base is that of
\* the params and the CBS file did not move under the rerun, so the card is confirmed,
\* though sliders were left out of the rerun and it may have begun on other tables.
THEOREM CleanVerdictIsTrue == Spec => CleanIsTrue
<1> DEFINE Right == \A v \in Checks :
               /\ Tells(v) /\ Seeing(v) /\ verdict'[v].clean
               /\ SameBase(target[v]) /\ rerunOn[v].cbs = cbs
               => Confirmed(v)
<1>1. Inv /\ [Next]_vars => [Right]_vars
      <2> SUFFICES ASSUME Inv, [Next]_vars, NEW v \in Checks, Tell(v), Seeing(v),
                          verdict'[v].clean, SameBase(target[v]), rerunOn[v].cbs = cbs
                   PROVE  Confirmed(v)
          BY TellTells DEF Inv
      <2> DEFINE q == recipe[target[v]]
                 lever == LeverOf(cached[v].params, NoLevel)
      <2>1. /\ SameHash(cached[v]) /\ new[v] = cached[v].result
            /\ ~Drifted(cached[v].stamp, verdict'[v].read)
            BY Told DEF Inv
      <2>2. /\ cached[v].params = q.params /\ cached[v].params \in Params
            /\ cached[v].lever = LeverOf(q.params, q.extra)
            BY Knows DEF Held, Genuine, Card
      <2>3. lever \in Levels
            BY <2>2, LeverType
      <2>4. Digest(lever) = Digest(LeverOf(q.params, q.extra))
            BY <2>1, <2>2 DEF SameHash
      <2>5. rerunOn[v].tables = data
            <3>1. \A t \in Tables : rerunOn[v].tables[t] = data[t]
                  BY <2>1, NoDrift DEF Seeing
            <3>2. rerunOn[v].tables \in Files /\ data \in Files
                  BY Knows DEF Rerun, Scene, Inv, TypeInv, TypeOK
            <3> QED
                  BY <3>1, <3>2 DEF Files
      <2>6. UniverseOf(cached[v].params, "none") = UniverseOf(q.params, q.base)
            BY <2>2 DEF SameBase
      <2>7. new[v] = Outcome(lever, UniverseOf(cached[v].params, "none"), rerunOn[v].area,
                             rerunOn[v].tables, rerunOn[v].cbs)
            BY Knows DEF Rerun, ScoreOf
      <2>8. Outcome(lever, UniverseOf(q.params, q.base), rerunOn[v].area, data, cbs)
               = cached[v].result
            BY <2>1, <2>5, <2>6, <2>7
      <2> QED
            BY <2>3, <2>4, <2>8 DEF Confirmed
<1>2. CleanIsTrue <=> [][Right]_vars
      BY DEF CleanIsTrue, Confirmed
<1> QED
      BY InvHolds, <1>1, <1>2, PTL DEF Spec

\* A card whose recipe is all in its params verifies clean as long as no file moved
\* since it was scored and its pin lands where it did.
THEOREM NoFalseAlarm == Spec => PlainVerifiesClean
<1> DEFINE Right == \A v \in Checks :
               Tells(v) /\ Plain(target[v]) /\ Unmoved(v) => verdict'[v].clean
<1>1. Inv /\ [Next]_vars => [Right]_vars
      <2> SUFFICES ASSUME Inv, [Next]_vars, NEW v \in Checks, Tell(v),
                          Plain(target[v]), Unmoved(v)
                   PROVE  verdict'[v].clean
          BY TellTells DEF Inv
      <2>1. Genuine(target[v], cached[v]) /\ Rerun(v)
            BY Knows DEF Held
      <2>2. SameHash(cached[v])
            BY <2>1 DEF SameHash, Genuine, Plain
      <2>3. ASSUME NEW t \in Tables
            PROVE  /\ rerunOn[v].tables[t] = data[t]
                   /\ cached[v].stamp[t] # Unread => cached[v].stamp[t] = data[t]
            <3>1. /\ data[t] <= rerunOn[v].tables[t] /\ rerunOn[v].tables[t] <= data[t]
                  /\ cached[v].stamp[t] <= data[t]
                  /\ cached[v].stamp[t] # Unread => data[t] <= cached[v].stamp[t]
                  BY <2>1, Knows DEF Rerun, Past, Held, Genuine, Unmoved
            <3>2. /\ data[t] \in Nat /\ cached[v].stamp[t] \in Nat
                  /\ rerunOn[v].tables[t] \in Nat
                  BY Knows
            <3> QED
                  BY <3>1, <3>2
      <2>4. rerunOn[v].cbs = cbs
            <3>1. cbs <= rerunOn[v].cbs /\ rerunOn[v].cbs <= cbs
                  BY <2>1 DEF Rerun, Past, Unmoved
            <3> QED
                  BY <3>1, Knows
      <2>5. rerunOn[v].tables = data
            <3>1. rerunOn[v].tables \in Files /\ data \in Files
                  BY <2>1 DEF Rerun, Scene, Inv, TypeInv, TypeOK
            <3> QED
                  BY <2>3, <3>1 DEF Files
      <2>6. new[v] = cached[v].result
            BY <2>1, <2>4, <2>5 DEF Rerun, Genuine, RunScore, ScoreOf, Plain, SameBase, Unmoved
      <2>7. ~Drifted(cached[v].stamp, verdict'[v].read)
            <3>1. \A t \in Tables : verdict'[v].read[t] \in {data[t], Unread}
                  BY Told, ReadingIs DEF Inv, TypeInv
            <3> QED
                  BY <2>3, <3>1 DEF Drifted
      <2>8. cached[v].library = library
            BY <2>1 DEF Genuine
      <2> QED
            BY <2>2, <2>6, <2>7, <2>8, Told DEF Inv
<1> QED
      BY InvHolds, <1>1, PTL DEF Spec, PlainVerifiesClean
===============================================================================

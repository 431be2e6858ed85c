----------------------------- MODULE FoldingProofs -----------------------------
(***************************************************************************)
(* What a sum and a filtered list are worth, for any finite collection of  *)
(* numbers and any sequence.  The library's induction theorems take the    *)
(* property as an operator; the ones here take it as a set.                *)
(***************************************************************************)
EXTENDS Folding, FiniteSets, FiniteSetTheorems, WellFoundedInduction,
        SequenceTheorems, TLAPS

(***************************************************************************)
(* Induction                                                               *)
(***************************************************************************)

\* What a finite set has when all its proper subsets have it, every finite set has.
LEMMA StrongInduct ==
    ASSUME NEW S, IsFiniteSet(S), NEW G,
           \A T \in SUBSET S : (\A U \in SUBSET T : U # T => U \in G) => T \in G
    PROVE  \A T \in SUBSET S : T \in G
<1> DEFINE B == {T \in SUBSET S : T \notin G}
           R == StrictSubsetOrdering(S)
<1> SUFFICES ASSUME B # {} PROVE FALSE
    OBVIOUS
<1>1. B \subseteq FiniteSubsetsOf(S)
      BY FS_Subset DEF FiniteSubsetsOf
<1>2. PICK T \in B : \A U \in B : ~(<<U, T>> \in R)
      <2>1. IsWellFoundedOn(R, FiniteSubsetsOf(S))
            BY FS_StrictSubsetOrderingWellFounded
      <2> HIDE DEF B, R
      <2> QED
            BY <1>1, <2>1, WFMin
<1>3. ASSUME NEW U \in SUBSET T, U # T PROVE U \in G
      BY <1>2, <1>3 DEF StrictSubsetOrdering
<1> QED
      BY <1>2, <1>3

\* Any numbers have a least one.
LEMMA LeastNumber ==
    ASSUME NEW B \in SUBSET Nat, B # {}
    PROVE  \E x \in B : \A y \in B : x <= y
<1> DEFINE R == OpToRel(<, Nat)
<1>1. PICK x \in B : \A y \in B : ~(<<y, x>> \in R)
      <2>1. IsWellFoundedOn(R, Nat)
            BY NatLessThanWellFounded
      <2> HIDE DEF R
      <2> QED
            BY <2>1, WFMin
<1>2. \A y \in B : ~(y < x)
      <2>1. x \in Nat /\ \A y \in B : y \in Nat
            OBVIOUS
      <2> QED
            BY <1>1, <2>1 DEF OpToRel
<1>3. \A y \in B : x \in Nat /\ y \in Nat
      OBVIOUS
<1> QED
      BY <1>2, <1>3

\* What 0 has, and n + 1 when n has it, every number has.
LEMMA NatInduct ==
    ASSUME NEW G, 0 \in G, \A n \in Nat : n \in G => n + 1 \in G
    PROVE  Nat \subseteq G
<1> DEFINE B == Nat \ G
<1> SUFFICES ASSUME B # {} PROVE FALSE
    OBVIOUS
<1> HIDE DEF B
<1>1. PICK x \in B : \A y \in B : x <= y
      BY LeastNumber DEF B
<1>2. x # 0 /\ x \in Nat
      BY DEF B
<1>3. x - 1 \in Nat /\ x - 1 < x
      BY <1>2
<1>4. x - 1 \in G
      BY <1>1, <1>3 DEF B
<1>5. (x - 1) + 1 \in G /\ (x - 1) + 1 = x
      BY <1>2, <1>3, <1>4
<1> QED
      BY <1>5 DEF B

(***************************************************************************)
(* Sums                                                                    *)
(***************************************************************************)

\* The element that Total takes from a set first.
Member(T) == CHOOSE x \in T : TRUE

\* g sums f over every subset of S, as Total does.
Rec(g, f, S) ==
    \A T \in SUBSET S : g[T] = IF T = {} THEN 0 ELSE f[Member(T)] + g[T \ {Member(T)}]

\* A set that is not empty has the element that is taken.
LEMMA MemberIn == \A T : T # {} => Member(T) \in T
BY DEF Member

\* There is one such g at most.
LEMMA RecUnique ==
    ASSUME NEW S, IsFiniteSet(S), NEW f, NEW g, NEW h, Rec(g, f, S), Rec(h, f, S)
    PROVE  \A T \in SUBSET S : g[T] = h[T]
<1> DEFINE G == {T \in SUBSET S : g[T] = h[T]}
<1>1. ASSUME NEW T \in SUBSET S, \A U \in SUBSET T : U # T => U \in G
      PROVE  T \in G
      <2>1. CASE T = {}
            BY <2>1 DEF Rec
      <2>2. CASE T # {}
            <3>1. Member(T) \in T
                  BY <2>2, MemberIn
            <3>2. T \ {Member(T)} \in G
                  BY <1>1, <3>1
            <3> QED
                  BY <2>2, <3>2 DEF Rec
      <2> QED
            BY <2>1, <2>2
<1> HIDE DEF G
<1>2. \A T \in SUBSET S : T \in G
      BY <1>1, StrongInduct
<1> QED
      BY <1>2 DEF G

\* There is one.
LEMMA RecExists ==
    ASSUME NEW S, IsFiniteSet(S), NEW f
    PROVE  \E g : Rec(g, f, S)
<1> DEFINE G == {T \in SUBSET S : \E g : Rec(g, f, T)}
           The(T) == CHOOSE g : Rec(g, f, T)
<1>1. ASSUME NEW D \in SUBSET S, \A U \in SUBSET D : U # D => U \in G
      PROVE  D \in G
      <2> DEFINE E == D \ {Member(D)}
                 g == [T \in SUBSET D |->
                         IF T = D THEN IF D = {} THEN 0 ELSE f[Member(D)] + The(E)[E]
                                  ELSE The(T)[T]]
      <2>1. ASSUME NEW U \in SUBSET D, U # D PROVE Rec(The(U), f, U) /\ IsFiniteSet(U)
            BY <1>1, <2>1, FS_Subset
      <2>2. ASSUME NEW U \in SUBSET D, U # D, NEW V \in SUBSET U
            PROVE  The(U)[V] = The(V)[V]
            <3>1. Rec(The(U), f, V)
                  BY <2>1, <2>2 DEF Rec
            <3>2. Rec(The(V), f, V) /\ IsFiniteSet(V)
                  BY <2>1, <2>2
            <3> HIDE DEF The
            <3> QED
                  BY <3>1, <3>2, RecUnique
      <2> HIDE DEF The
      <2>3. ASSUME NEW T \in SUBSET D
            PROVE  g[T] = IF T = {} THEN 0 ELSE f[Member(T)] + g[T \ {Member(T)}]
            <3>1. CASE T = D
                  <4>1. CASE D = {}
                        BY <3>1, <4>1
                  <4>2. CASE D # {}
                        <5>1. E \in SUBSET D /\ E # D
                              BY <4>2, MemberIn
                        <5> QED
                              BY <3>1, <4>2, <5>1
                  <4> QED
                        BY <4>1, <4>2
            <3>2. CASE T # D
                  <4>1. g[T] = The(T)[T] /\ Rec(The(T), f, T)
                        BY <2>1, <3>2
                  <4>2. CASE T = {}
                        BY <4>1, <4>2 DEF Rec
                  <4>3. CASE T # {}
                        <5> DEFINE V == T \ {Member(T)}
                        <5>1. V \in SUBSET T /\ V # D /\ V \in SUBSET D
                              BY <3>2, <4>3, MemberIn
                        <5>2. The(T)[T] = f[Member(T)] + The(T)[V]
                              BY <4>1, <4>3 DEF Rec
                        <5>3. The(T)[V] = The(V)[V] /\ g[V] = The(V)[V]
                              BY <2>2, <3>2, <5>1
                        <5> HIDE DEF g
                        <5> QED
                              BY <4>1, <4>3, <5>2, <5>3
                  <4> QED
                        BY <4>2, <4>3
            <3> QED
                  BY <3>1, <3>2
      <2> HIDE DEF g
      <2>4. Rec(g, f, D)
            BY <2>3 DEF Rec
      <2> QED
            BY <2>4
<1> HIDE DEF G
<1>2. S \in G
      BY <1>1, StrongInduct
<1> QED
      BY <1>2 DEF G

\* Total is its value for the whole set.
LEMMA TotalIsRec ==
    ASSUME NEW S, IsFiniteSet(S), NEW f, DOMAIN f = S
    PROVE  \E g : Rec(g, f, S) /\ Total(f) = g[S]
<1> DEFINE Eq(g) == g = [T \in SUBSET S |->
                IF T = {} THEN 0
                ELSE f[CHOOSE x \in T : TRUE] + g[T \ {CHOOSE x \in T : TRUE}]]
           iter == CHOOSE g : Eq(g)
<1>1. Total(f) = iter[S]
      BY DEF Total, MapThenSumSet, MapThenFoldSet
<1>2. \E g : Eq(g)
      <2>1. PICK g : Rec(g, f, S)
            BY RecExists
      <2> DEFINE h == [T \in SUBSET S |-> g[T]]
      <2>2. h = [T \in SUBSET S |->
                    IF T = {} THEN 0 ELSE f[Member(T)] + h[T \ {Member(T)}]]
            BY <2>1 DEF Rec
      <2>3. Eq(h)
            BY <2>2 DEF Member
      <2> QED
            BY <2>3
<1>3. Eq(iter)
      BY <1>2
<1>4. Rec(iter, f, S)
      <2> HIDE DEF iter
      <2> QED
            BY <1>3 DEF Rec, Member
<1> HIDE DEF iter
<1> QED
      BY <1>1, <1>4

\* f without x.
Rest(f, x) == [y \in DOMAIN f \ {x} |-> f[y]]

\* g adds one element at a time, whichever it is.
Adds(g, f, S) ==
    \A T \in SUBSET S : g[T] \in Int /\ \A x \in T : g[T] = f[x] + g[T \ {x}]

\* The order in which the elements are taken does not matter.
LEMMA RecAdds ==
    ASSUME NEW S, IsFiniteSet(S), NEW f \in [S -> Int], NEW g, Rec(g, f, S)
    PROVE  Adds(g, f, S)
<1> DEFINE G == {T \in SUBSET S : g[T] \in Int /\ \A x \in T : g[T] = f[x] + g[T \ {x}]}
<1>1. ASSUME NEW T \in SUBSET S, \A U \in SUBSET T : U # T => U \in G
      PROVE  T \in G
      <2>1. CASE T = {}
            <3>1. g[T] = 0
                  BY <2>1 DEF Rec
            <3> QED
                  BY <2>1, <3>1
      <2>2. CASE T # {}
            <3> DEFINE c == Member(T)
            <3>1. c \in T
                  BY <2>2, MemberIn
            <3>2. g[T] = f[c] + g[T \ {c}]
                  BY <2>2 DEF Rec
            <3> HIDE DEF c
            <3>3. T \ {c} \in G /\ f[c] \in Int
                  BY <1>1, <3>1
            <3>4. g[T] \in Int
                  BY <3>2, <3>3
            <3>5. ASSUME NEW x \in T, x # c PROVE g[T] = f[x] + g[T \ {x}]
                  <4>1. T \ {x} \in G /\ T \ {x, c} \in G /\ f[x] \in Int
                        BY <1>1, <3>1, <3>5
                  <4>2. g[T \ {c}] = f[x] + g[T \ {x, c}]
                        <5>1. x \in T \ {c} /\ (T \ {c}) \ {x} = T \ {x, c}
                              BY <3>5
                        <5> QED
                              BY <3>3, <5>1
                  <4>3. g[T \ {x}] = f[c] + g[T \ {x, c}]
                        <5>1. c \in T \ {x} /\ (T \ {x}) \ {c} = T \ {x, c}
                              BY <3>1, <3>5
                        <5> QED
                              BY <4>1, <5>1
                  <4> QED
                        BY <3>2, <3>3, <4>1, <4>2, <4>3
            <3> QED
                  BY <3>2, <3>4, <3>5
      <2> QED
            BY <2>1, <2>2
<1> HIDE DEF G
<1>2. \A T \in SUBSET S : T \in G
      BY <1>1, StrongInduct
<1> QED
      BY <1>2 DEF G, Adds

\* A sum is a number, and any element can be taken out of it first.
LEMMA TotalSteps ==
    ASSUME NEW S, IsFiniteSet(S), NEW f \in [S -> Int]
    PROVE  /\ Total(f) \in Int
           /\ S = {} => Total(f) = 0
           /\ \A x \in S : Total(f) = f[x] + Total(Rest(f, x))
<1>1. PICK g : Rec(g, f, S) /\ Total(f) = g[S]
      BY TotalIsRec
<1>2. S = {} => Total(f) = 0
      BY <1>1 DEF Rec
<1>4. Adds(g, f, S)
      BY <1>1, RecAdds
<1>3. ASSUME NEW x \in S PROVE Total(f) = f[x] + Total(Rest(f, x))
      <2> DEFINE D == S \ {x}
                 r == Rest(f, x)
      <2>1. DOMAIN r = D /\ IsFiniteSet(D) /\ D \in SUBSET S
            BY FS_Subset DEF Rest
      <2>2. PICK h : Rec(h, r, D) /\ Total(r) = h[D]
            <3> HIDE DEF r, D
            <3> QED
                  BY <2>1, TotalIsRec
      <2>3. Rec(g, r, D)
            <3> SUFFICES ASSUME NEW T \in SUBSET D
                         PROVE  g[T] = IF T = {} THEN 0 ELSE r[Member(T)] + g[T \ {Member(T)}]
                  BY DEF Rec
            <3>1. g[T] = IF T = {} THEN 0 ELSE f[Member(T)] + g[T \ {Member(T)}]
                  BY <1>1 DEF Rec
            <3>2. T # {} => r[Member(T)] = f[Member(T)]
                  BY MemberIn DEF Rest
            <3> QED
                  BY <3>1, <3>2
      <2>4. g[D] = h[D]
            <3> HIDE DEF r, D
            <3> QED
                  BY <2>1, <2>2, <2>3, RecUnique
      <2>5. g[S] = f[x] + g[D]
            BY <1>4 DEF Adds
      <2> QED
            BY <1>1, <2>2, <2>4, <2>5
<1>5. Total(f) \in Int
      BY <1>1, <1>4 DEF Adds
<1> QED
      BY <1>2, <1>3, <1>5

\* Induction on a finite set, one element at a time.
LEMMA FiniteInduct ==
    ASSUME NEW S, IsFiniteSet(S), NEW G, {} \in G,
           \A T \in SUBSET S : \A x \in S \ T : T \in G => T \cup {x} \in G
    PROVE  S \in G
<1>1. ASSUME NEW T \in SUBSET S, \A U \in SUBSET T : U # T => U \in G
      PROVE  T \in G
      <2>1. CASE T # {}
            <3>1. PICK x \in T : TRUE
                  BY <2>1
            <3>2. T \ {x} \in G /\ x \in S \ (T \ {x}) /\ (T \ {x}) \cup {x} = T
                  BY <1>1, <3>1
            <3> QED
                  BY <3>2
      <2> QED
            BY <2>1
<1> QED
      BY <1>1, StrongInduct

\* f on a part of its domain.
On(f, T) == [x \in T |-> f[x]]

\* The sum over a part, and over a part with one element more.
LEMMA OnSteps ==
    ASSUME NEW S, IsFiniteSet(S), NEW f \in [S -> Int], NEW T \in SUBSET S
    PROVE  /\ IsFiniteSet(T) /\ On(f, T) \in [T -> Int]
           /\ Total(On(f, T)) \in Int /\ (T = {} => Total(On(f, T)) = 0)
           /\ \A x \in S \ T : Total(On(f, T \cup {x})) = f[x] + Total(On(f, T))
           /\ On(f, S) = f
<1>1. ASSUME NEW U \in SUBSET S PROVE IsFiniteSet(U) /\ On(f, U) \in [U -> Int]
      BY FS_Subset DEF On
<1>2. ASSUME NEW x \in S \ T PROVE Total(On(f, T \cup {x})) = f[x] + Total(On(f, T))
      <2>1. PICK U : U = T \cup {x}
            OBVIOUS
      <2>2. PICK h : h = On(f, U)
            OBVIOUS
      <2>3. h[x] = f[x]
            BY <2>1, <2>2 DEF On
      <2>4. Rest(h, x) = On(f, T)
            BY <1>2, <2>1, <2>2 DEF On, Rest
      <2>5. IsFiniteSet(U) /\ h \in [U -> Int] /\ x \in U
            BY <1>1, <2>1, <2>2
      <2>6. Total(h) = h[x] + Total(Rest(h, x))
            BY <2>5, TotalSteps
      <2> QED
            BY <2>1, <2>2, <2>3, <2>4, <2>6
<1>3. Total(On(f, T)) \in Int /\ (T = {} => Total(On(f, T)) = 0)
      BY <1>1, TotalSteps
<1> QED
      BY <1>1, <1>2, <1>3 DEF On

\* Larger numbers have no smaller sum.
LEMMA TotalIsMonotone ==
    ASSUME NEW S, IsFiniteSet(S), NEW f \in [S -> Int], NEW g \in [S -> Int],
           \A x \in S : f[x] <= g[x]
    PROVE  Total(f) <= Total(g)
<1> DEFINE G == {T \in SUBSET S : Total(On(f, T)) <= Total(On(g, T))}
<1>1. {} \in G
      BY OnSteps
<1>2. ASSUME NEW T \in SUBSET S, NEW x \in S \ T, T \in G PROVE T \cup {x} \in G
      <2>1. /\ Total(On(f, T \cup {x})) = f[x] + Total(On(f, T))
            /\ Total(On(g, T \cup {x})) = g[x] + Total(On(g, T))
            /\ Total(On(f, T)) \in Int /\ Total(On(g, T)) \in Int
            BY OnSteps
      <2>2. f[x] \in Int /\ g[x] \in Int /\ f[x] <= g[x]
            OBVIOUS
      <2> QED
            BY <1>2, <2>1, <2>2
<1> HIDE DEF G
<1>3. S \in G
      BY <1>1, <1>2, FiniteInduct
<1> QED
      BY <1>3, OnSteps DEF G

\* The sum of sums.
LEMMA TotalAddsUp ==
    ASSUME NEW S, IsFiniteSet(S), NEW f \in [S -> Int], NEW g \in [S -> Int]
    PROVE  Total([x \in S |-> f[x] + g[x]]) = Total(f) + Total(g)
<1> DEFINE h == [x \in S |-> f[x] + g[x]]
           G == {T \in SUBSET S : Total(On(h, T)) = Total(On(f, T)) + Total(On(g, T))}
<1>0. h \in [S -> Int] /\ \A x \in S : h[x] = f[x] + g[x]
      OBVIOUS
<1> HIDE DEF h
<1>1. {} \in G
      BY <1>0, OnSteps
<1>2. ASSUME NEW T \in SUBSET S, NEW x \in S \ T, T \in G PROVE T \cup {x} \in G
      <2>1. /\ Total(On(f, T \cup {x})) = f[x] + Total(On(f, T))
            /\ Total(On(g, T \cup {x})) = g[x] + Total(On(g, T))
            /\ Total(On(f, T)) \in Int /\ Total(On(g, T)) \in Int
            BY OnSteps
      <2>2. /\ Total(On(h, T \cup {x})) = h[x] + Total(On(h, T))
            /\ f[x] \in Int /\ g[x] \in Int /\ h[x] = f[x] + g[x]
            BY <1>0, OnSteps
      <2> QED
            BY <1>2, <2>1, <2>2
<1> HIDE DEF G
<1>3. S \in G
      BY <1>1, <1>2, FiniteInduct
<1> QED
      BY <1>0, <1>3, OnSteps DEF G, h

\* The sum of the same number.
LEMMA TotalOfConstant ==
    ASSUME NEW S, IsFiniteSet(S), NEW k \in Int
    PROVE  Total([x \in S |-> k]) = k * Cardinality(S)
<1> DEFINE h == [x \in S |-> k]
           G == {T \in SUBSET S : Total(On(h, T)) = k * Cardinality(T)}
<1>0. h \in [S -> Int] /\ \A x \in S : h[x] = k
      OBVIOUS
<1> HIDE DEF h
<1>1. {} \in G
      BY <1>0, OnSteps, FS_EmptySet
<1>2. ASSUME NEW T \in SUBSET S, NEW x \in S \ T, T \in G PROVE T \cup {x} \in G
      <2>1. IsFiniteSet(T)
            BY FS_Subset
      <2>2. Cardinality(T \cup {x}) = Cardinality(T) + 1 /\ Cardinality(T) \in Nat
            BY <2>1, FS_AddElement, FS_CardinalityType
      <2>3. Total(On(h, T \cup {x})) = k + Total(On(h, T))
            BY <1>0, OnSteps
      <2>4. k * (Cardinality(T) + 1) = k + k * Cardinality(T)
            BY <2>2
      <2> QED
            BY <1>2, <2>2, <2>3, <2>4
<1> HIDE DEF G
<1>3. S \in G
      BY <1>1, <1>2, FiniteInduct
<1> QED
      BY <1>0, <1>3, OnSteps DEF G, h

\* A sum of numbers that are not negative is not negative, and no less than any of them.
LEMMA TotalOfNaturals ==
    ASSUME NEW S, IsFiniteSet(S), NEW f \in [S -> Int], \A x \in S : f[x] >= 0
    PROVE  Total(f) \in Nat /\ \A x \in S : f[x] <= Total(f)
<1>1. ASSUME NEW T, IsFiniteSet(T), NEW g \in [T -> Int], \A x \in T : g[x] >= 0
      PROVE  Total(g) \in Int /\ Total(g) >= 0
      <2> DEFINE zero == [x \in T |-> 0]
      <2>1. Total(zero) = 0 * Cardinality(T) /\ Cardinality(T) \in Nat
            <3>1. ASSUME NEW k \in Int PROVE Total([x \in T |-> k]) = k * Cardinality(T)
                  BY <1>1, TotalOfConstant
            <3>2. Cardinality(T) \in Nat
                  BY <1>1, FS_CardinalityType
            <3>3. 0 \in Int
                  OBVIOUS
            <3>4. Total(zero) = 0 * Cardinality(T)
                  BY <3>1, <3>3, Zenon
            <3> QED
                  BY <3>2, <3>4
      <2>2. zero \in [T -> Int] /\ \A x \in T : zero[x] <= g[x]
            BY <1>1
      <2> HIDE DEF zero
      <2>3. Total(zero) <= Total(g) /\ Total(g) \in Int
            BY <1>1, <2>2, TotalIsMonotone, TotalSteps
      <2> QED
            BY <2>1, <2>3
<1>2. ASSUME NEW x \in S PROVE f[x] <= Total(f)
      <2>1. Total(f) = f[x] + Total(Rest(f, x))
            BY TotalSteps
      <2> DEFINE r == Rest(f, x)
                 T == S \ {x}
      <2>2. IsFiniteSet(T) /\ r \in [T -> Int] /\ \A y \in T : r[y] >= 0
            BY FS_Subset DEF Rest
      <2> HIDE DEF r, T
      <2>3. Total(r) \in Int /\ Total(r) >= 0
            BY <1>1, <2>2
      <2> QED
            BY <2>1, <2>3 DEF r
<1> QED
      BY <1>1, <1>2

\* The sum of one number.
LEMMA TotalOfOne ==
    ASSUME NEW x, NEW f \in [{x} -> Int]
    PROVE  Total(f) = f[x]
<1>1. IsFiniteSet({x})
      BY FS_Singleton
<1>2. Total(f) = f[x] + Total(Rest(f, x))
      BY <1>1, TotalSteps
<1> DEFINE r == Rest(f, x)
<1>3. r \in [{} -> Int] /\ IsFiniteSet({})
      BY FS_EmptySet DEF Rest
<1> HIDE DEF r
<1>4. Total(r) = 0
      BY <1>3, TotalSteps
<1> QED
      BY <1>2, <1>4 DEF r

\* The sum of two numbers.
LEMMA TotalOfTwo ==
    ASSUME NEW x, NEW y, x # y, NEW f \in [{x, y} -> Int]
    PROVE  Total(f) = f[x] + f[y]
<1>1. IsFiniteSet({x, y})
      <2>1. IsFiniteSet({x} \cup {y})
            BY FS_Singleton, FS_Union, Zenon
      <2>2. {x} \cup {y} = {x, y}
            OBVIOUS
      <2> QED
            BY <2>1, <2>2
<1>2. Total(f) = f[x] + Total(Rest(f, x))
      BY <1>1, TotalSteps
<1> DEFINE r == Rest(f, x)
<1>3. r \in [{y} -> Int] /\ r[y] = f[y]
      BY DEF Rest
<1> HIDE DEF r
<1>4. Total(r) = r[y]
      BY <1>3, TotalOfOne
<1> QED
      BY <1>2, <1>3, <1>4 DEF r

(***************************************************************************)
(* Filtered lists                                                          *)
(***************************************************************************)

\* g filters every beginning of s, as Only does.
Kept(g, s, S) ==
    \A n \in 0..Len(s) :
        g[n] = IF n = 0 THEN <<>> ELSE IF s[n] \in S THEN Append(g[n - 1], s[n]) ELSE g[n - 1]

\* There is such a g, and Only is its value for all of s.
LEMMA OnlyIsKept ==
    ASSUME NEW T, NEW s \in Seq(T), NEW S
    PROVE  \E g : Kept(g, s, S) /\ Only(s, S) = g[Len(s)]
<1> DEFINE next(g, n) == IF s[n] \in S THEN Append(g[n - 1], s[n]) ELSE g[n - 1]
           Is(g, n) == \A i \in 0..n : g[i] = IF i = 0 THEN <<>> ELSE next(g, i)
           G == {n \in Nat : \E g : Is(g, n)}
           L == Len(s)
<1>1. L \in Nat
      BY LenProperties
<1>2. 0 \in G
      <2>1. Is([i \in {0} |-> <<>>], 0)
            OBVIOUS
      <2> QED
            BY <2>1
<1>3. ASSUME NEW n \in Nat, n \in G PROVE n + 1 \in G
      <2>1. PICK g : Is(g, n)
            BY <1>3
      <2> DEFINE h == [i \in 0..(n + 1) |-> IF i <= n THEN g[i] ELSE next(g, i)]
      <2>2. \A i \in 0..n : h[i] = g[i] /\ h[i] = IF i = 0 THEN <<>> ELSE next(g, i)
            BY <2>1
      <2>3. \A i \in 0..n : i # 0 => i - 1 \in 0..n
            OBVIOUS
      <2>4. h[n + 1] = next(g, n + 1) /\ h[(n + 1) - 1] = g[(n + 1) - 1]
            OBVIOUS
      <2>5. n + 1 # 0 /\ \A i \in 0..(n + 1) : i \in 0..n \/ i = n + 1
            OBVIOUS
      <2> HIDE DEF h
      <2>6. \A i \in 0..n : h[i] = IF i = 0 THEN <<>> ELSE next(h, i)
            BY <2>2, <2>3
      <2>7. h[n + 1] = next(h, n + 1)
            BY <2>4
      <2>8. Is(h, n + 1)
            BY <2>5, <2>6, <2>7
      <2> QED
            BY <2>8
<1> HIDE DEF G
<1>4. Nat \subseteq G
      BY <1>2, <1>3, NatInduct
<1>5. PICK g : Is(g, L)
      BY <1>1, <1>4 DEF G
<1> DEFINE Eq(f) == f = [n \in 0..Len(s) |->
                IF n = 0 THEN <<>>
                ELSE IF s[n] \in S THEN Append(f[n - 1], s[n]) ELSE f[n - 1]]
           h == [n \in 0..L |-> g[n]]
           the == CHOOSE f : Eq(f)
<1>6. \A n \in 0..L : h[n] = IF n = 0 THEN <<>> ELSE next(h, n)
      <2>1. \A n \in 0..L : n # 0 => n - 1 \in 0..L
            BY <1>1
      <2> QED
            BY <1>5, <2>1
<1>7. Eq(h)
      <2>1. h = [n \in 0..L |-> h[n]]
            OBVIOUS
      <2> HIDE DEF h
      <2> QED
            BY <1>6, <2>1
<1> HIDE DEF h
<1>8. Eq(the)
      BY <1>7
<1>9. Only(s, S) = the[Len(s)]
      BY DEF Only
<1> HIDE DEF the
<1>10. Kept(the, s, S)
       BY <1>8 DEF Kept
<1> QED
       BY <1>9, <1>10

\* A filtered list has the elements of the list that pass.
LEMMA OnlyRange ==
    ASSUME NEW T, NEW s \in Seq(T), NEW S
    PROVE  Only(s, S) \in Seq(T) /\ Range(Only(s, S)) = Range(s) \cap S
<1>1. PICK g : Kept(g, s, S) /\ Only(s, S) = g[Len(s)]
      BY OnlyIsKept
<1> DEFINE L == Len(s)
           first(n) == {s[j] : j \in 1..n}
           G == {n \in Nat : n <= L => g[n] \in Seq(T) /\ Range(g[n]) = first(n) \cap S}
<1>2. L \in Nat /\ (\A j \in 1..L : s[j] \in T) /\ Range(s) = first(L)
      BY LenProperties, ElementOfSeq DEF Range
<1>3. 0 \in G
      <2>1. g[0] = <<>>
            BY <1>1, <1>2 DEF Kept
      <2>2. <<>> \in Seq(T) /\ Range(<<>>) = {} /\ first(0) = {}
            BY EmptySeq DEF Range
      <2> QED
            BY <2>1, <2>2
<1>4. ASSUME NEW n \in Nat, n \in G PROVE n + 1 \in G
      <2> SUFFICES ASSUME n + 1 <= L
                   PROVE  g[n + 1] \in Seq(T) /\ Range(g[n + 1]) = first(n + 1) \cap S
            OBVIOUS
      <2>1. g[n] \in Seq(T) /\ Range(g[n]) = first(n) \cap S
            BY <1>2, <1>4
      <2>2. n + 1 \in 0..L /\ n + 1 # 0 /\ (n + 1) - 1 = n /\ n + 1 \in 1..L
            BY <1>2
      <2>3. g[n + 1] = IF s[n + 1] \in S THEN Append(g[n], s[n + 1]) ELSE g[n]
            BY <1>1, <2>2 DEF Kept
      <2>4. first(n + 1) = first(n) \cup {s[n + 1]}
            <3>1. 1..(n + 1) = 1..n \cup {n + 1}
                  OBVIOUS
            <3> QED
                  BY <3>1
      <2>5. s[n + 1] \in T
            BY <1>2, <2>2
      <2>6. Append(g[n], s[n + 1]) \in Seq(T) /\ Range(Append(g[n], s[n + 1])) = Range(g[n]) \cup {s[n + 1]}
            <3> DEFINE f == g[n]
                       e == s[n + 1]
            <3>1. f \in Seq(T) /\ e \in T
                  BY <2>1, <2>5
            <3> HIDE DEF f, e
            <3>2. /\ Append(f, e) \in Seq(T) /\ Len(f) \in Nat /\ Len(Append(f, e)) = Len(f) + 1
                  /\ \A i \in 1..Len(f) : Append(f, e)[i] = f[i]
                  /\ Append(f, e)[Len(f) + 1] = e
                  BY <3>1, AppendProperties, LenProperties
            <3>3. DOMAIN f = 1..Len(f) /\ DOMAIN Append(f, e) = 1..(Len(f) + 1)
                  BY <3>1, <3>2, LenProperties
            <3>4. 1..(Len(f) + 1) = 1..Len(f) \cup {Len(f) + 1}
                  BY <3>2
            <3>5. Range(Append(f, e)) = Range(f) \cup {e}
                  BY <3>2, <3>3, <3>4 DEF Range
            <3> QED
                  BY <3>2, <3>5 DEF f, e
      <2> HIDE DEF first
      <2> QED
            BY <2>1, <2>3, <2>4, <2>6
<1> HIDE DEF G
<1>5. Nat \subseteq G
      BY <1>3, <1>4, NatInduct
<1>6. g[L] \in Seq(T) /\ Range(g[L]) = first(L) \cap S
      <2>1. L \in G /\ L <= L
            BY <1>2, <1>5
      <2> HIDE DEF L, first
      <2> QED
            BY <2>1 DEF G
<1> QED
      BY <1>1, <1>2, <1>6

\* What passes comes first: the filtered list is the beginning.
LEMMA OnlyFront ==
    ASSUME NEW T, NEW s \in Seq(T), NEW S, NEW m \in 0..Len(s),
           \A j \in 1..m : s[j] \in S, \A j \in (m + 1)..Len(s) : s[j] \notin S
    PROVE  Only(s, S) = SubSeq(s, 1, m)
<1>1. PICK g : Kept(g, s, S) /\ Only(s, S) = g[Len(s)]
      BY OnlyIsKept
<1> DEFINE L == Len(s)
           to(n) == IF n <= m THEN n ELSE m
           G == {n \in Nat : n <= L => g[n] = SubSeq(s, 1, to(n))}
<1>2. L \in Nat /\ m \in Nat /\ m <= L
      BY LenProperties
<1>3. 0 \in G
      <2>1. g[0] = <<>>
            BY <1>1, <1>2 DEF Kept
      <2>2. SubSeq(s, 1, 0) = <<>> /\ to(0) = 0 /\ 0 \in Nat
            BY <1>2
      <2> HIDE DEF to
      <2> QED
            BY <2>1, <2>2
<1>4. ASSUME NEW n \in Nat, n \in G PROVE n + 1 \in G
      <2> SUFFICES ASSUME n + 1 <= L
                   PROVE  g[n + 1] = SubSeq(s, 1, to(n + 1))
            OBVIOUS
      <2>1. g[n] = SubSeq(s, 1, to(n))
            BY <1>2, <1>4
      <2>2. n + 1 \in 0..L /\ n + 1 # 0 /\ (n + 1) - 1 = n
            BY <1>2
      <2>3. g[n + 1] = IF s[n + 1] \in S THEN Append(g[n], s[n + 1]) ELSE g[n]
            BY <1>1, <2>2 DEF Kept
      <2>4. CASE n + 1 <= m
            <3>1. s[n + 1] \in S /\ to(n) = n /\ to(n + 1) = n + 1
                  BY <2>4
            <3>2. Append(SubSeq(s, 1, n), s[n + 1]) = SubSeq(s, 1, n + 1)
                  BY <1>2
            <3> QED
                  BY <2>1, <2>3, <3>1, <3>2
      <2>5. CASE ~(n + 1 <= m)
            <3>1. s[n + 1] \notin S /\ to(n) = m /\ to(n + 1) = m
                  BY <1>2, <2>5
            <3> QED
                  BY <2>1, <2>3, <3>1
      <2> QED
            BY <2>4, <2>5
<1> HIDE DEF G
<1>5. Nat \subseteq G
      BY <1>3, <1>4, NatInduct
<1>6. g[L] = SubSeq(s, 1, to(L)) /\ to(L) = m
      BY <1>2, <1>5 DEF G
<1> QED
      BY <1>1, <1>6

\* What passes comes last: the filtered list is the end.
LEMMA OnlyBack ==
    ASSUME NEW T, NEW s \in Seq(T), NEW S, NEW m \in 0..Len(s),
           \A j \in 1..m : s[j] \notin S, \A j \in (m + 1)..Len(s) : s[j] \in S
    PROVE  Only(s, S) = SubSeq(s, m + 1, Len(s))
<1>1. PICK g : Kept(g, s, S) /\ Only(s, S) = g[Len(s)]
      BY OnlyIsKept
<1> DEFINE L == Len(s)
           G == {n \in Nat : n <= L => g[n] = SubSeq(s, m + 1, n)}
<1>2. L \in Nat /\ m \in Nat /\ m <= L
      BY LenProperties
<1>3. 0 \in G
      <2>1. g[0] = <<>>
            BY <1>1, <1>2 DEF Kept
      <2>2. SubSeq(s, m + 1, 0) = <<>>
            BY <1>2
      <2> QED
            BY <1>2, <2>1, <2>2
<1>4. ASSUME NEW n \in Nat, n \in G PROVE n + 1 \in G
      <2> SUFFICES ASSUME n + 1 <= L
                   PROVE  g[n + 1] = SubSeq(s, m + 1, n + 1)
            OBVIOUS
      <2>1. g[n] = SubSeq(s, m + 1, n)
            BY <1>2, <1>4
      <2>2. n + 1 \in 0..L /\ n + 1 # 0 /\ (n + 1) - 1 = n
            BY <1>2
      <2>3. g[n + 1] = IF s[n + 1] \in S THEN Append(g[n], s[n + 1]) ELSE g[n]
            BY <1>1, <2>2 DEF Kept
      <2>4. CASE n + 1 <= m
            <3>1. s[n + 1] \notin S
                  BY <2>4
            <3>2. SubSeq(s, m + 1, n) = <<>> /\ SubSeq(s, m + 1, n + 1) = <<>>
                  BY <1>2, <2>4
            <3> QED
                  BY <2>1, <2>3, <3>1, <3>2
      <2>5. CASE ~(n + 1 <= m)
            <3>1. s[n + 1] \in S
                  BY <1>2, <2>5
            <3>2. Append(SubSeq(s, m + 1, n), s[n + 1]) = SubSeq(s, m + 1, n + 1)
                  BY <1>2, <2>5
            <3> QED
                  BY <2>1, <2>3, <3>1, <3>2
      <2> QED
            BY <2>4, <2>5
<1> HIDE DEF G
<1>5. Nat \subseteq G
      BY <1>3, <1>4, NatInduct
<1>6. g[L] = SubSeq(s, m + 1, L)
      BY <1>2, <1>5 DEF G
<1> QED
      BY <1>1, <1>6

\* Everything passes: the filtered list is the list.
LEMMA OnlyAll ==
    ASSUME NEW T, NEW s \in Seq(T), NEW S, \A j \in 1..Len(s) : s[j] \in S
    PROVE  Only(s, S) = s
<1>1. Len(s) \in 0..Len(s) /\ Len(s) \in Nat
      BY LenProperties
<1>2. Only(s, S) = SubSeq(s, 1, Len(s))
      BY <1>1, OnlyFront
<1>3. SubSeq(s, 1, Len(s)) = s
      OBVIOUS
<1> QED
      BY <1>2, <1>3
================================================================================

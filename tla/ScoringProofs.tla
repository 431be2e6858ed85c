----------------------------- MODULE ScoringProofs -----------------------------
(***************************************************************************)
(* Theorems about Scoring, for any cells, data and assumptions: the lever  *)
(* that is pulled harder never gives a milder verdict.                     *)
(***************************************************************************)
EXTENDS Scoring, FoldingProofs

\* Weights, thresholds and homes are not negative, and there is a reference demand.
Sane(a) ==
    /\ a.weight_salinity \in Nat /\ a.weight_demand \in Nat
    /\ a.weight_flood \in Nat /\ a.weight_protection \in Nat
    /\ a.knmi_dryness_multiplier \in Nat /\ a.population_growth_pct \in Nat
    /\ a.demand_ref_m3_per_cell \in Nat \ {0} /\ a.added_homes \in Nat
    /\ a.pop_min_built_up \in Nat /\ a.area_stop_share \in Nat
    /\ a.verdict_caution \in Nat /\ a.verdict_stop \in Nat
    /\ a.verdict_caution <= a.verdict_stop

\* b is a, but at least as dry, growing at least as fast and with as many homes.
Harsher(a, b) ==
    /\ a.weight_salinity = b.weight_salinity /\ a.weight_demand = b.weight_demand
    /\ a.weight_flood = b.weight_flood /\ a.weight_protection = b.weight_protection
    /\ a.demand_ref_m3_per_cell = b.demand_ref_m3_per_cell
    /\ a.pop_min_built_up = b.pop_min_built_up /\ a.area_stop_share = b.area_stop_share
    /\ a.verdict_caution = b.verdict_caution /\ a.verdict_stop = b.verdict_stop
    /\ a.knmi_dryness_multiplier <= b.knmi_dryness_multiplier
    /\ a.population_growth_pct <= b.population_growth_pct
    /\ a.added_homes <= b.added_homes

-------------------------------------------------------------------------------
(***************************************************************************)
(* Arithmetic                                                              *)
(***************************************************************************)
LEMMA TimesMono ==
    ASSUME NEW x \in Nat, NEW y \in Nat, x <= y, NEW u \in Nat, NEW v \in Nat, u <= v
    PROVE  x * u \in Nat /\ y * v \in Nat /\ x * u <= y * v
<1>1. x * u <= y * u
      OBVIOUS
<1>2. y * u <= y * v
      OBVIOUS
<1> QED
      BY <1>1, <1>2

LEMMA DivMono ==
    ASSUME NEW x \in Nat, NEW y \in Nat, x <= y, NEW k \in Nat \ {0}
    PROVE  x \div k \in Nat /\ y \div k \in Nat /\ x \div k <= y \div k
<1> DEFINE p == x \div k
           q == y \div k
<1>1. p \in Int /\ q \in Int
      OBVIOUS
<1>2. k * p <= x /\ x < k * p + k /\ k * q <= y /\ y < k * q + k
      OBVIOUS
<1> HIDE DEF p, q
<1>3. p >= 0 /\ q >= 0
      BY <1>1, <1>2
<1>4. p <= q
      BY <1>1, <1>2
<1> QED
      BY <1>1, <1>3, <1>4 DEF p, q

LEMMA MinMono ==
    ASSUME NEW x \in Nat, NEW y \in Nat, x <= y, NEW m \in Nat
    PROVE  Min2(m, x) \in Nat /\ Min2(m, y) \in Nat /\ Min2(m, x) <= Min2(m, y)
           /\ Min2(x, m) <= Min2(y, m)
BY DEF Min2

-------------------------------------------------------------------------------
(***************************************************************************)
(* A cell                                                                  *)
(***************************************************************************)
LEMMA DemandMono ==
    ASSUME NEW a, NEW b, Sane(a), Sane(b), Harsher(a, b), NEW pop \in Nat
    PROVE  /\ demand_norm(pop, a) \in Nat /\ demand_norm(pop, b) \in Nat
           /\ demand_norm(pop, a) <= demand_norm(pop, b)
<1> DEFINE base    == pop * demand_per_person
           la      == (base * (1000 + a.population_growth_pct)) \div 1000
           lb      == (base * (1000 + b.population_growth_pct)) \div 1000
           ga      == (la * (regional_households + a.added_homes)) \div regional_households
           gb      == (lb * (regional_households + b.added_homes)) \div regional_households
           ref     == a.demand_ref_m3_per_cell
<1>1. base \in Nat
      BY DEF demand_per_person
<1>2. la \in Nat /\ lb \in Nat /\ la <= lb
      <2> DEFINE u == 1000 + a.population_growth_pct
                 v == 1000 + b.population_growth_pct
      <2>1. u \in Nat /\ v \in Nat /\ u <= v
            BY DEF Sane, Harsher
      <2> HIDE DEF u, v, base
      <2>2. base * u \in Nat /\ base * v \in Nat /\ base * u <= base * v
            BY <1>1, <2>1, TimesMono
      <2>3. (base * u) \div 1000 \in Nat /\ (base * v) \div 1000 \in Nat
            /\ (base * u) \div 1000 <= (base * v) \div 1000
            BY <2>2, DivMono
      <2> QED
            BY <2>3 DEF u, v
<1>3. ga \in Nat /\ gb \in Nat /\ ga <= gb
      <2> DEFINE u == regional_households + a.added_homes
                 v == regional_households + b.added_homes
      <2>1. u \in Nat /\ v \in Nat /\ u <= v
            BY DEF Sane, Harsher, regional_households
      <2> HIDE DEF u, v, la, lb
      <2>2. la * u \in Nat /\ lb * v \in Nat /\ la * u <= lb * v
            BY <1>2, <2>1, TimesMono
      <2>3. regional_households \in Nat \ {0}
            BY DEF regional_households
      <2>4. (la * u) \div regional_households \in Nat /\ (lb * v) \div regional_households \in Nat
            /\ (la * u) \div regional_households <= (lb * v) \div regional_households
            BY <2>2, <2>3, DivMono
      <2> QED
            BY <2>4 DEF u, v
<1>4. ref \in Nat \ {0} /\ ref = b.demand_ref_m3_per_cell
      BY DEF Sane, Harsher
<1>5. ga \div ref \in Nat /\ gb \div ref \in Nat /\ ga \div ref <= gb \div ref
      <2> HIDE DEF ga, gb, ref
      <2> QED
            BY <1>3, <1>4, DivMono
<1>6. demand_norm(pop, a) = Min2(100, ga \div ref) /\ demand_norm(pop, b) = Min2(100, gb \div ref)
      BY <1>4 DEF demand_norm
<1> HIDE DEF ga, gb, ref
<1> QED
      BY <1>5, <1>6, MinMono

\* Every term of the score is a number and none gets smaller.
LEMMA TermsMono ==
    ASSUME NEW d \in DataSet, NEW a, NEW b, Sane(a), Sane(b), Harsher(a, b), NEW c \in Cells
    PROVE  /\ term_salinity(d, a, c) \in Nat /\ term_salinity(d, b, c) \in Nat
           /\ term_flood(d, a, c) \in Nat /\ term_protection(d, a, c) \in Nat
           /\ term_demand(d, a, c) \in Nat /\ term_demand(d, b, c) \in Nat
           /\ term_salinity(d, a, c) <= term_salinity(d, b, c)
           /\ term_demand(d, a, c) <= term_demand(d, b, c)
           /\ term_flood(d, a, c) = term_flood(d, b, c)
           /\ term_protection(d, a, c) = term_protection(d, b, c)
<1>1. /\ term_salinity(d, a, c) \in Nat /\ term_salinity(d, b, c) \in Nat
      /\ term_salinity(d, a, c) <= term_salinity(d, b, c)
      <2> DEFINE w == 10 * a.weight_salinity
      <2>1. /\ w \in Nat /\ w = 10 * b.weight_salinity
            /\ a.knmi_dryness_multiplier \in Nat /\ b.knmi_dryness_multiplier \in Nat
            /\ a.knmi_dryness_multiplier <= b.knmi_dryness_multiplier
            BY DEF Sane, Harsher
      <2>2. /\ w * a.knmi_dryness_multiplier \in Nat /\ w * b.knmi_dryness_multiplier \in Nat
            /\ w * a.knmi_dryness_multiplier <= w * b.knmi_dryness_multiplier
            <3> HIDE DEF w
            <3> QED
                  BY <2>1, TimesMono
      <2> QED
            BY <2>1, <2>2 DEF term_salinity
<1>2. /\ term_demand(d, a, c) \in Nat /\ term_demand(d, b, c) \in Nat
      /\ term_demand(d, a, c) <= term_demand(d, b, c)
      <2>1. d.pop[c] \in Nat
            BY DEF DataSet
      <2>2. /\ demand_norm(d.pop[c], a) \in Nat /\ demand_norm(d.pop[c], b) \in Nat
            /\ demand_norm(d.pop[c], a) <= demand_norm(d.pop[c], b)
            BY <2>1, DemandMono
      <2>3. a.weight_demand \in Nat /\ a.weight_demand = b.weight_demand
            BY DEF Sane, Harsher
      <2> QED
            BY <2>2, <2>3, TimesMono DEF term_demand
<1>3. term_flood(d, a, c) \in Nat /\ term_flood(d, a, c) = term_flood(d, b, c)
      <2>1. d.flood[c] \in Nat
            BY DEF DataSet, FLOOD_SEVERITY
      <2>2. 10 * a.weight_flood \in Nat /\ a.weight_flood = b.weight_flood
            BY DEF Sane, Harsher
      <2> QED
            BY <2>1, <2>2, TimesMono DEF term_flood
<1>4. term_protection(d, a, c) \in Nat /\ term_protection(d, a, c) = term_protection(d, b, c)
      BY DEF term_protection, Sane, Harsher
<1> QED
      BY <1>1, <1>2, <1>3, <1>4

LEMMA ScoreMono ==
    ASSUME NEW d \in DataSet, NEW a, NEW b, Sane(a), Sane(b), Harsher(a, b), NEW c \in Cells
    PROVE  score(d, a, c) \in Nat /\ score(d, b, c) \in Nat /\ score(d, a, c) <= score(d, b, c)
<1> DEFINE ta == term_salinity(d, a, c) + term_flood(d, a, c) + term_protection(d, a, c)
                   + term_demand(d, a, c)
           tb == term_salinity(d, b, c) + term_flood(d, b, c) + term_protection(d, b, c)
                   + term_demand(d, b, c)
<1>1. ta \in Nat /\ tb \in Nat /\ ta <= tb
      BY TermsMono
<1>2. score(d, a, c) = Min2(100 * point, ta) /\ score(d, b, c) = Min2(100 * point, tb)
      BY DEF score, term_demand
<1>3. 100 * point \in Nat
      BY DEF point
<1> HIDE DEF ta, tb
<1> QED
      BY <1>1, <1>2, <1>3, MinMono

-------------------------------------------------------------------------------
(***************************************************************************)
(* An area                                                                 *)
(***************************************************************************)

\* The same universe and thresholds, and no cell scores lower under b.
NoLower(d, a, b) ==
    /\ a.pop_min_built_up = b.pop_min_built_up
    /\ a.area_stop_share \in Int /\ a.area_stop_share = b.area_stop_share
    /\ a.verdict_caution \in Int /\ a.verdict_caution = b.verdict_caution
    /\ a.verdict_stop \in Int /\ a.verdict_stop = b.verdict_stop
    /\ a.verdict_caution <= a.verdict_stop
    /\ \A c \in Cells : /\ score(d, a, c) \in Int /\ score(d, b, c) \in Int
                        /\ score(d, a, c) <= score(d, b, c)

LEMMA HarsherIsNoLower ==
    ASSUME NEW d \in DataSet, NEW a, NEW b, Sane(a), Sane(b), Harsher(a, b)
    PROVE  NoLower(d, a, b)
<1>1. ASSUME NEW c \in Cells
      PROVE  /\ score(d, a, c) \in Int /\ score(d, b, c) \in Int
             /\ score(d, a, c) <= score(d, b, c)
      BY ScoreMono
<1> QED
      BY <1>1 DEF NoLower, Sane, Harsher

LEMMA AreaMono ==
    ASSUME NEW d \in DataSet, NEW a, NEW b, NoLower(d, a, b),
           NEW area \in SUBSET Cells, NEW base \in Bases
    PROVE  /\ Universe(d, a, area, base) = Universe(d, b, area, base)
           /\ Klasse(d, a, area, base, "STOP") \subseteq Klasse(d, b, area, base, "STOP")
           /\ Klasse(d, a, area, base, "STOP") \cup Klasse(d, a, area, base, "CAUTION")
                 \subseteq Klasse(d, b, area, base, "STOP") \cup Klasse(d, b, area, base, "CAUTION")
           /\ Universe(d, a, area, base) \subseteq Cells
<1>1. Universe(d, a, area, base) = Universe(d, b, area, base)
      BY DEF Universe, NoLower
<1>2. Universe(d, a, area, base) \subseteq Cells
      BY DEF Universe
<1>3. ASSUME NEW c \in Cells
      PROVE  /\ verdict_from_score(score(d, a, c), a) = "STOP" =>
                    verdict_from_score(score(d, b, c), b) = "STOP"
             /\ verdict_from_score(score(d, a, c), a) \in {"STOP", "CAUTION"} =>
                    verdict_from_score(score(d, b, c), b) \in {"STOP", "CAUTION"}
      BY DEF verdict_from_score, NoLower
<1> QED
      BY <1>1, <1>2, <1>3 DEF Klasse

\* More STOP cells and more cells that are not GO, among as many.
LEMMA VerdictMono ==
    ASSUME NEW d, NEW a, NEW b, NoLower(d, a, b), NEW n \in Nat,
           NEW s \in Nat, NEW k \in Nat, NEW t \in Nat, NEW l \in Nat, s <= t, s + k <= t + l
    PROVE  /\ AreaVerdict(n, s, k, a) = "STOP" => AreaVerdict(n, t, l, b) = "STOP"
           /\ AreaVerdict(n, t, l, b) = "GO" => AreaVerdict(n, s, k, a) = "GO"
           /\ AreaVerdict(n, s, k, a) \in {"GO", "CAUTION", "STOP"}
<1> DEFINE limit == a.area_stop_share * n
<1>1. a.area_stop_share = b.area_stop_share /\ limit \in Int
      BY DEF NoLower
<1>2. 100 * s >= limit => 100 * t >= limit
      <2> HIDE DEF limit
      <2> QED
            BY <1>1
<1> QED
      BY <1>1, <1>2 DEF AreaVerdict

LEMMA QuotientMono ==
    ASSUME NEW x \in Int, NEW y \in Int, x <= y, NEW k \in Nat \ {0}
    PROVE  x \div k \in Int /\ y \div k \in Int /\ x \div k <= y \div k
<1> DEFINE p == x \div k
           q == y \div k
<1>1. p \in Int /\ q \in Int
      OBVIOUS
<1>2. k * p <= x /\ x < k * p + k /\ k * q <= y /\ y < k * q + k
      OBVIOUS
<1> HIDE DEF p, q
<1>3. p <= q
      BY <1>1, <1>2
<1> QED
      BY <1>1, <1>3 DEF p, q

\* Where no cell scores lower, neither the verdict nor any number of the area is milder.
LEMMA AreaIsNeverMilder ==
    ASSUME NEW d \in DataSet, NEW x, NEW y, NoLower(d, Full(x), Full(y)),
           NEW area \in SUBSET Cells, NEW base \in Bases
    PROVE  LET r == score_h3_area(d, x, area, base)
               q == score_h3_area(d, y, area, base)
           IN  /\ r.n_cells = q.n_cells /\ r.n_stop <= q.n_stop
               /\ r.stop_share \in Int /\ q.stop_share \in Int /\ r.stop_share <= q.stop_share
               /\ r.score_avg \in Int /\ q.score_avg \in Int /\ r.score_avg <= q.score_avg
               /\ r.area_verdict \in {"GO", "CAUTION", "STOP"}
               /\ r.area_verdict = "STOP" => q.area_verdict = "STOP"
               /\ q.area_verdict = "GO" => r.area_verdict = "GO"
<1> DEFINE a  == Full(x)
           b  == Full(y)
           U  == Universe(d, a, area, base)
           Sa == Klasse(d, a, area, base, "STOP")
           Sb == Klasse(d, b, area, base, "STOP")
           Ka == Klasse(d, a, area, base, "CAUTION")
           Kb == Klasse(d, b, area, base, "CAUTION")
           fa == [c \in U |-> score(d, a, c)]
           fb == [c \in U |-> score(d, b, c)]
           n  == Cardinality(U)
           r  == score_h3_area(d, x, area, base)
           q  == score_h3_area(d, y, area, base)
<1>1. /\ U = Universe(d, b, area, base) /\ U \subseteq Cells
      /\ Sa \subseteq Sb /\ Sa \cup Ka \subseteq Sb \cup Kb
      BY AreaMono
<1>2. /\ Sa \subseteq U /\ Sb \subseteq U /\ Ka \subseteq U /\ Kb \subseteq U
      /\ Sa \cap Ka = {} /\ Sb \cap Kb = {}
      BY <1>1 DEF Klasse
<1>3. /\ r.n_cells = n /\ r.n_stop = Cardinality(Sa)
      /\ r.stop_share = IF n = 0 THEN 0 ELSE (2000 * Cardinality(Sa) + n) \div (2 * n)
      /\ r.score_avg = IF n = 0 THEN 0 ELSE (Total(fa) + 500 * n) \div (1000 * n)
      /\ r.area_verdict = AreaVerdict(n, Cardinality(Sa), Cardinality(Ka), a)
      BY DEF score_h3_area
<1>4. /\ q.n_cells = n /\ q.n_stop = Cardinality(Sb)
      /\ q.stop_share = IF n = 0 THEN 0 ELSE (2000 * Cardinality(Sb) + n) \div (2 * n)
      /\ q.score_avg = IF n = 0 THEN 0 ELSE (Total(fb) + 500 * n) \div (1000 * n)
      /\ q.area_verdict = AreaVerdict(n, Cardinality(Sb), Cardinality(Kb), b)
      BY <1>1 DEF score_h3_area
<1>9. /\ fa \in [U -> Int] /\ fb \in [U -> Int] /\ \A c \in U : fa[c] <= fb[c]
      BY <1>1 DEF NoLower
<1>8. NoLower(d, a, b)
      OBVIOUS
<1> HIDE DEF a, b, U, Sa, Sb, Ka, Kb, fa, fb, r, q
<1>5. /\ IsFiniteSet(U) /\ IsFiniteSet(Sa) /\ IsFiniteSet(Sb) /\ IsFiniteSet(Ka)
      /\ IsFiniteSet(Kb)
      BY <1>1, <1>2, ScoringConstants, FS_Subset
<1>6. /\ Cardinality(U) \in Nat /\ Cardinality(Sa) \in Nat /\ Cardinality(Sb) \in Nat
      /\ Cardinality(Ka) \in Nat /\ Cardinality(Kb) \in Nat
      /\ Cardinality(Sa) <= Cardinality(Sb)
      BY <1>1, <1>5, FS_CardinalityType, FS_Subset
<1>7. Cardinality(Sa) + Cardinality(Ka) <= Cardinality(Sb) + Cardinality(Kb)
      <2>0. /\ Cardinality(Sa \cap Ka) = 0 /\ Cardinality(Sb \cap Kb) = 0
            BY <1>2, FS_EmptySet, Zenon
      <2>1. /\ Cardinality(Sa \cup Ka) = Cardinality(Sa) + Cardinality(Ka)
            /\ Cardinality(Sb \cup Kb) = Cardinality(Sb) + Cardinality(Kb)
            /\ IsFiniteSet(Sb \cup Kb)
            <3>1. /\ Cardinality(Sa \cup Ka)
                       = Cardinality(Sa) + Cardinality(Ka) - Cardinality(Sa \cap Ka)
                  /\ Cardinality(Sb \cup Kb)
                       = Cardinality(Sb) + Cardinality(Kb) - Cardinality(Sb \cap Kb)
                  /\ IsFiniteSet(Sb \cup Kb)
                  BY <1>5, FS_Union, Zenon
            <3> QED
                  BY <1>6, <2>0, <3>1
      <2>2. Cardinality(Sa \cup Ka) <= Cardinality(Sb \cup Kb)
            BY <1>1, <2>1, FS_Subset
      <2> QED
            BY <2>1, <2>2
<1>10. /\ r.area_verdict = "STOP" => q.area_verdict = "STOP"
       /\ q.area_verdict = "GO" => r.area_verdict = "GO"
       /\ r.area_verdict \in {"GO", "CAUTION", "STOP"}
       <2> HIDE DEF n
       <2>1. /\ AreaVerdict(n, Cardinality(Sa), Cardinality(Ka), a) = "STOP" =>
                    AreaVerdict(n, Cardinality(Sb), Cardinality(Kb), b) = "STOP"
             /\ AreaVerdict(n, Cardinality(Sb), Cardinality(Kb), b) = "GO" =>
                    AreaVerdict(n, Cardinality(Sa), Cardinality(Ka), a) = "GO"
             /\ AreaVerdict(n, Cardinality(Sa), Cardinality(Ka), a) \in {"GO", "CAUTION", "STOP"}
             <3> DEFINE i == Cardinality(Sa)
                        j == Cardinality(Sb)
                        k == Cardinality(Ka)
                        l == Cardinality(Kb)
             <3>1. /\ n \in Nat /\ i \in Nat /\ j \in Nat /\ k \in Nat /\ l \in Nat
                   /\ i <= j /\ i + k <= j + l
                   BY <1>6, <1>7 DEF n
             <3> HIDE DEF i, j, k, l
             <3>2. /\ AreaVerdict(n, i, k, a) = "STOP" => AreaVerdict(n, j, l, b) = "STOP"
                   /\ AreaVerdict(n, j, l, b) = "GO" => AreaVerdict(n, i, k, a) = "GO"
                   /\ AreaVerdict(n, i, k, a) \in {"GO", "CAUTION", "STOP"}
                   BY <1>8, <3>1, VerdictMono
             <3> QED
                   BY <3>2 DEF i, j, k, l
       <2> QED
             BY <1>3, <1>4, <2>1
<1>11. /\ r.stop_share \in Int /\ q.stop_share \in Int /\ r.stop_share <= q.stop_share
       <2>1. CASE n = 0
             BY <1>3, <1>4, <2>1
       <2>2. CASE n # 0
             <3> DEFINE u == 2000 * Cardinality(Sa) + n
                        v == 2000 * Cardinality(Sb) + n
                        k == 2 * n
             <3>1. u \in Int /\ v \in Int /\ u <= v /\ k \in Nat \ {0}
                   BY <1>6, <2>2
             <3>2. r.stop_share = u \div k /\ q.stop_share = v \div k
                   BY <1>3, <1>4, <2>2
             <3> HIDE DEF u, v, k
             <3> QED
                   BY <3>1, <3>2, QuotientMono
       <2> QED
             BY <2>1, <2>2
<1>12. /\ r.score_avg \in Int /\ q.score_avg \in Int /\ r.score_avg <= q.score_avg
       <2>1. CASE n = 0
             BY <1>3, <1>4, <2>1
       <2>2. CASE n # 0
             <3> DEFINE u == Total(fa) + 500 * n
                        v == Total(fb) + 500 * n
                        k == 1000 * n
             <3>1. Total(fa) \in Int /\ Total(fb) \in Int /\ Total(fa) <= Total(fb)
                   BY <1>5, <1>9, TotalSteps, TotalIsMonotone
             <3>2. u \in Int /\ v \in Int /\ u <= v /\ k \in Nat \ {0}
                   BY <1>6, <2>2, <3>1
             <3>3. r.score_avg = u \div k /\ q.score_avg = v \div k
                   BY <1>3, <1>4, <2>2
             <3> HIDE DEF u, v, k
             <3> QED
                   BY <3>2, <3>3, QuotientMono
       <2> QED
             BY <2>1, <2>2
<1> QED
      BY <1>3, <1>4, <1>6, <1>10, <1>11, <1>12 DEF r, q

\* Levers that are numbers; salt weighs no less than nothing, and there is a reference demand.
Numeric(a) ==
    /\ \A k \in Levers : a[k] \in Int
    /\ a.weight_salinity >= 0 /\ a.demand_ref_m3_per_cell > 0
    /\ a.verdict_caution <= a.verdict_stop

\* b is a in a year that is at least as dry.
Drier(a, b) ==
    /\ \A k \in Levers \ {"knmi_dryness_multiplier"} : a[k] = b[k]
    /\ a.knmi_dryness_multiplier <= b.knmi_dryness_multiplier

LEMMA LeverNames ==
    Levers = {"weight_salinity", "weight_demand", "weight_flood", "weight_protection",
              "knmi_dryness_multiplier", "population_growth_pct", "demand_ref_m3_per_cell",
              "added_homes", "pop_min_built_up", "verdict_caution", "verdict_stop",
              "area_stop_share"}
BY DEF Levers, DEFAULT_ASSUMPTIONS

LEMMA NumericFacts ==
    ASSUME NEW a, Numeric(a)
    PROVE  /\ a.weight_salinity \in Nat /\ a.weight_demand \in Int
           /\ a.weight_flood \in Int /\ a.weight_protection \in Int
           /\ a.knmi_dryness_multiplier \in Int /\ a.population_growth_pct \in Int
           /\ a.demand_ref_m3_per_cell \in Nat \ {0} /\ a.added_homes \in Int
           /\ a.pop_min_built_up \in Int /\ a.area_stop_share \in Int
           /\ a.verdict_caution \in Int /\ a.verdict_stop \in Int
           /\ a.verdict_caution <= a.verdict_stop
BY LeverNames DEF Numeric

\* A share of people in hundredths, whatever the sign of growth and homes.
LEMMA DemandIsNumber ==
    ASSUME NEW a, NEW pop \in Nat, a.population_growth_pct \in Int, a.added_homes \in Int,
           a.demand_ref_m3_per_cell \in Nat \ {0}
    PROVE  demand_norm(pop, a) \in Int
<1> DEFINE litres == (pop * demand_per_person * (1000 + a.population_growth_pct)) \div 1000
           grown  == (litres * (regional_households + a.added_homes)) \div regional_households
<1>1. pop * demand_per_person * (1000 + a.population_growth_pct) \in Int
      BY DEF demand_per_person
<1>2. litres \in Int
      BY <1>1
<1> HIDE DEF litres
<1>3. grown \in Int
      <2>1. litres * (regional_households + a.added_homes) \in Int
            BY <1>2 DEF regional_households
      <2> QED
            BY <2>1 DEF regional_households
<1> HIDE DEF grown
<1>4. demand_norm(pop, a) = Min2(100, grown \div a.demand_ref_m3_per_cell)
      BY DEF demand_norm, litres, grown
<1>5. grown \div a.demand_ref_m3_per_cell \in Int
      BY <1>3
<1> QED
      BY <1>4, <1>5 DEF Min2

\* The terms are numbers, and a score is what they add up to, clamped.
LEMMA TermsAreNumbers ==
    ASSUME NEW d \in DataSet, NEW a, NEW c \in Cells,
           a.weight_salinity \in Int, a.weight_demand \in Int, a.weight_flood \in Int,
           a.weight_protection \in Int, a.knmi_dryness_multiplier \in Int,
           a.population_growth_pct \in Int, a.added_homes \in Int,
           a.demand_ref_m3_per_cell \in Nat \ {0}
    PROVE  LET sum == term_salinity(d, a, c) + term_flood(d, a, c) + term_protection(d, a, c)
                      + a.weight_demand * demand_norm(d.pop[c], a)
           IN  /\ term_salinity(d, a, c) \in Int /\ term_flood(d, a, c) \in Int
               /\ term_protection(d, a, c) \in Int /\ term_demand(d, a, c) \in Int
               /\ term_demand(d, a, c) = a.weight_demand * demand_norm(d.pop[c], a)
               /\ sum \in Int /\ score(d, a, c) = Min2(100 * point, sum) /\ score(d, a, c) \in Int
<1>1. term_salinity(d, a, c) \in Int
      BY DEF term_salinity
<1>2. term_flood(d, a, c) \in Int
      <2>1. d.flood[c] \in Int
            BY DEF DataSet, FLOOD_SEVERITY
      <2> QED
            BY <2>1 DEF term_flood
<1>3. term_protection(d, a, c) \in Int
      BY DEF term_protection
<1>4. d.pop[c] \in Nat
      BY DEF DataSet
<1>5. demand_norm(d.pop[c], a) \in Int
      BY <1>4, DemandIsNumber
<1> DEFINE demand == a.weight_demand * demand_norm(d.pop[c], a)
           sum == term_salinity(d, a, c) + term_flood(d, a, c) + term_protection(d, a, c) + demand
<1>6. demand \in Int /\ term_demand(d, a, c) = demand
      BY <1>5 DEF term_demand
<1>7. sum \in Int
      <2> HIDE DEF demand
      <2> QED
            BY <1>1, <1>2, <1>3, <1>6
<1>8. score(d, a, c) = Min2(100 * point, sum)
      BY DEF score
<1>9. Min2(100 * point, sum) \in Int
      <2> HIDE DEF sum
      <2> QED
            BY <1>7 DEF Min2, point
<1> QED
      BY <1>1, <1>2, <1>3, <1>6, <1>7, <1>8, <1>9

\* A drier year lowers no score, whatever the other levers are.
LEMMA DrierIsNoLower ==
    ASSUME NEW d \in DataSet, NEW a, NEW b, Numeric(a), Numeric(b), Drier(a, b)
    PROVE  NoLower(d, a, b)
<1>1. /\ a.weight_salinity = b.weight_salinity /\ a.weight_demand = b.weight_demand
      /\ a.weight_flood = b.weight_flood /\ a.weight_protection = b.weight_protection
      /\ a.demand_ref_m3_per_cell = b.demand_ref_m3_per_cell
      /\ a.population_growth_pct = b.population_growth_pct /\ a.added_homes = b.added_homes
      /\ a.pop_min_built_up = b.pop_min_built_up /\ a.area_stop_share = b.area_stop_share
      /\ a.verdict_caution = b.verdict_caution /\ a.verdict_stop = b.verdict_stop
      /\ a.knmi_dryness_multiplier <= b.knmi_dryness_multiplier
      BY LeverNames DEF Drier
<1>2. ASSUME NEW c \in Cells
      PROVE  /\ score(d, a, c) \in Int /\ score(d, b, c) \in Int
             /\ score(d, a, c) <= score(d, b, c)
      <2> DEFINE rest == term_flood(d, a, c) + term_protection(d, a, c)
                         + a.weight_demand * demand_norm(d.pop[c], a)
                 sa == term_salinity(d, a, c)
                 sb == term_salinity(d, b, c)
      <2>1. /\ rest \in Int /\ sa \in Int /\ sb \in Int
            /\ score(d, a, c) = Min2(100 * point, sa + rest)
            /\ score(d, b, c) = Min2(100 * point, sb + rest)
            <3>1. /\ score(d, a, c) = Min2(100 * point, sa + term_flood(d, a, c)
                         + term_protection(d, a, c) + a.weight_demand * demand_norm(d.pop[c], a))
                  /\ sa \in Int /\ term_flood(d, a, c) \in Int /\ term_protection(d, a, c) \in Int
                  /\ a.weight_demand * demand_norm(d.pop[c], a) \in Int
                  BY NumericFacts, TermsAreNumbers DEF point
            <3>2. /\ score(d, b, c) = Min2(100 * point, sb + term_flood(d, b, c)
                         + term_protection(d, b, c) + b.weight_demand * demand_norm(d.pop[c], b))
                  /\ sb \in Int
                  BY NumericFacts, TermsAreNumbers DEF point
            <3>3. /\ term_flood(d, b, c) = term_flood(d, a, c)
                  /\ term_protection(d, b, c) = term_protection(d, a, c)
                  /\ demand_norm(d.pop[c], b) = demand_norm(d.pop[c], a)
                  BY <1>1 DEF term_flood, term_protection, demand_norm
            <3> HIDE DEF sa, sb
            <3> QED
                  BY <1>1, <3>1, <3>2, <3>3
      <2>2. sa <= sb
            <3> DEFINE w == 10 * a.weight_salinity
            <3>1. /\ w \in Nat /\ a.knmi_dryness_multiplier \in Int
                  /\ b.knmi_dryness_multiplier \in Int
                  BY NumericFacts
            <3>2. w * a.knmi_dryness_multiplier <= w * b.knmi_dryness_multiplier
                  <4> HIDE DEF w
                  <4> QED
                        BY <1>1, <3>1
            <3> QED
                  BY <1>1, <3>2 DEF term_salinity
      <2> HIDE DEF rest, sa, sb
      <2>3. sa + rest \in Int /\ sb + rest \in Int /\ sa + rest <= sb + rest
            BY <2>1, <2>2
      <2> QED
            BY <2>1, <2>3 DEF Min2, point
<1> QED
      BY <1>1, <1>2, NumericFacts DEF NoLower

\* However the area is chosen and whatever the data are, a drier year, a growth that is
\* as fast or faster and more homes leave the same cells in the universe and never turn
\* a STOP into something milder, nor anything into a GO (score_h3_area).
THEOREM HarsherIsNeverMilder ==
    ASSUME NEW d \in DataSet, NEW x, NEW y, Sane(Full(x)), Sane(Full(y)),
           Harsher(Full(x), Full(y)), NEW area \in SUBSET Cells, NEW base \in Bases
    PROVE  LET r == score_h3_area(d, x, area, base)
               q == score_h3_area(d, y, area, base)
           IN  /\ r.n_cells = q.n_cells /\ r.n_stop <= q.n_stop
               /\ r.score_avg <= q.score_avg
               /\ r.area_verdict = "STOP" => q.area_verdict = "STOP"
               /\ q.area_verdict = "GO" => r.area_verdict = "GO"
BY HarsherIsNoLower, AreaIsNeverMilder
================================================================================

--------------------------- MODULE FilterValidation ---------------------------
(***************************************************************************)
(* collect_invalid_filters (helpers/filter_validation.py) with the queries *)
(* of filter_queries.py, the order of location_hierarchy.py and the        *)
(* candidates of filter_candidates.py, over a small database.              *)
(*                                                                         *)
(* A filter without a table (NoTable) cannot be checked itself, yet counts *)
(* as a filter of every table when it is part of a scope.                  *)
(***************************************************************************)
EXTENDS Folding, FiniteSets

CONSTANTS
    Columns,        \* per table its columns
    Data,           \* per table its rows, functions from columns to values
    Values,         \* values and LIKE patterns a filter can name
    Like,           \* per value what it matches as a LIKE pattern
    NoTable,        \* Filter.table is None
    Null            \* an empty cell

Tables == DOMAIN Columns

\* Any operator but LIKE is checked as "="; IS NOT NULL is not checked at all.
Ops == {"=", "LIKE", "IS NOT NULL"}

Filter == [table : Tables \cup {NoTable}, column : STRING, op : Ops, value : Values]

ASSUME FilterConstants ==
    /\ Columns \in [Tables -> SUBSET STRING]
    /\ \A t \in Tables : Data[t] \subseteq [Columns[t] -> Values \cup {Null}]
    /\ Like \in [Values -> SUBSET Values]
    /\ NoTable \notin Tables /\ Null \notin Values

(***************************************************************************)
(* location_hierarchy.py.  The two location columns of the data set in use *)
(* have no parents (LOCATION_HIERARCHY), so a location filter has no scope.*)
(***************************************************************************)

Location == {"gemeente_Gemeentenaam", "gemeente_Code"}

IsLocation(f) == f.column \in Location

\* Faulty variant: filters stay in the order of the question.
AsAsked(fs) == fs

\* A stable sort on two priorities.
SortByHierarchy(fs) ==
    LET located == {f \in Range(fs) : IsLocation(f)}
    IN  Only(fs, located) \o Only(fs, Range(fs) \ located)

(***************************************************************************)
(* filter_queries.py                                                       *)
(***************************************************************************)

\* Null compares with nothing; a column the table has not got is a binder error (Raises).
Selects(f, row) ==
    /\ f.column \in DOMAIN row /\ row[f.column] # Null
    /\ IF f.op = "LIKE" THEN row[f.column] \in Like[f.value] ELSE row[f.column] = f.value

\* OR within a column, AND across columns.
Where(fs, row) ==
    \A f \in fs : \E g \in fs : g.column = f.column /\ Selects(g, row)

SameTable(t, scope) == {f \in scope : f.table \in {t, NoTable}}

Scoped(t, scope) == {row \in Data[t] : Where(SameTable(t, scope), row)}

ValueExists(f, scope) ==
    f.table = NoTable \/ \E row \in Scoped(f.table, scope) : Selects(f, row)

\* Faulty variant: the whole column.
CandidatesOfColumn(f, scope) ==
    IF f.table = NoTable THEN {} ELSE {row[f.column] : row \in Data[f.table]} \ {Null}

\* What build_candidate_list chooses from: the fuzzy matches, all, or a wider search.
Candidates(f, scope) ==
    IF f.table = NoTable THEN {}
    ELSE {row[f.column] : row \in Scoped(f.table, scope)} \ {Null}

\* Tables are looked at one by one; filters without a table not at all.
CombinationHasResults(fs) ==
    \A t \in {f.table : f \in fs} \ {NoTable} :
        \E row \in Data[t] : Where({f \in fs : f.table = t}, row)

(***************************************************************************)
(* filter_validation.py                                                    *)
(***************************************************************************)

Validatable(fs) == Only(fs, {f \in Range(fs) : f.op # "IS NOT NULL"})

\* What `validated` holds when the k-th filter is checked, as far as it scopes it.
Scope(s, k) ==
    IF IsLocation(s[k]) THEN {}
    ELSE {s[j] : j \in {j \in 1..(k-1) : IsLocation(s[j]) /\ ValueExists(s[j], {})}}

Blame(f, scope) == [filter |-> f, scope |-> scope]

IndividuallyInvalid(s) ==
    {Blame(s[k], Scope(s, k)) : k \in {k \in DOMAIN s : ~ValueExists(s[k], Scope(s, k))}}

Prefix(s, k) == Range(SubSeq(s, 1, k))

\* The filters are added one by one, until nothing is left.
Conflict(s) ==
    LET broken == {k \in DOMAIN s : ~CombinationHasResults(Prefix(s, k))}
    IN  {Blame(s[k], Prefix(s, k - 1)) : k \in {k \in broken : \A j \in broken : k <= j}}

InvalidInCombination(s) ==
    IF Len(s) <= 1 \/ CombinationHasResults(Range(s)) THEN {} ELSE Conflict(s)

CollectInvalid(fs) ==
    LET s == SortByHierarchy(Validatable(fs))
        invalid == IndividuallyInvalid(s)
    IN  IF invalid # {} THEN invalid ELSE InvalidInCombination(s)

\* A scope without a table that names a column the table has not got: DuckDB raises.
Raises(fs) ==
    LET s == SortByHierarchy(Validatable(fs))
        Unbound(f, scope) == /\ f.table # NoTable
                             /\ \E g \in SameTable(f.table, scope) : g.column \notin Columns[f.table]
    IN  \/ \E k \in DOMAIN s : Unbound(s[k], Scope(s, k))
        \/ \E b \in CollectInvalid(fs) : Unbound(b.filter, b.scope)
===============================================================================

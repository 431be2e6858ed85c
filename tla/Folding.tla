-------------------------------- MODULE Folding --------------------------------
(***************************************************************************)
(* The two loops that the scoring and the validation are written with: a   *)
(* sum over a collection (SUM and AVG of the SQL in real_scoring.py, sum() *)
(* of the Python) and a list comprehension with a condition.  Both are     *)
(* recursive functions, so that FoldingProofs can reason about them.       *)
(***************************************************************************)
EXTENDS Integers, Sequences, FiniteSetsExt, Functions

\* {**g, **f}: the dictionary with the keys of both; where both have a key, that of f.
f ++ g == [x \in DOMAIN f \cup DOMAIN g |-> IF x \in DOMAIN f THEN f[x] ELSE g[x]]

\* The sum of f[x] over its domain.
Total(f) == MapThenSumSet(LAMBDA x : f[x], DOMAIN f)

\* [x for x in s if x in S]: those elements of s that are in S, in their order.
Only(s, S) ==
    LET kept[n \in 0..Len(s)] ==
            IF n = 0 THEN <<>>
            ELSE IF s[n] \in S THEN Append(kept[n - 1], s[n]) ELSE kept[n - 1]
    IN  kept[Len(s)]
================================================================================

------------------------------ MODULE MCFaqCache ------------------------------
(***************************************************************************)
(* FaqCache on small sets; calls, answers and two deployments are          *)
(* symmetric.                                                              *)
(***************************************************************************)
EXTENDS FaqCache, TLC

TwoVersions == 1..2

\* Two deployments that differ in what the stamp does not see, and another commit.
CONSTANTS d_text, d_other_text, d_commit

ThreeDeployments == {d_text, d_other_text, d_commit}
TheirStamps == [d \in ThreeDeployments |-> IF d = d_commit THEN 2 ELSE 1]

Interchangeable == Permutations(Calls) \cup Permutations(Answers)
                   \cup Permutations({d_text, d_other_text})
===============================================================================

------------------------------ MODULE MCFeedback ------------------------------
(***************************************************************************)
(* Feedback on small sets.  Clicks and connections are only compared.     *)
(***************************************************************************)
EXTENDS Feedback, TLC

Interchangeable == Permutations(Clicks) \cup Permutations(Conns)
===============================================================================

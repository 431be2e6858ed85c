---------------------------- MODULE MCChatSessions ----------------------------
(***************************************************************************)
(* ChatSessions on small sets: the ids of turns, sessions and users are    *)
(* only ever compared, so each set is symmetric.                           *)
(***************************************************************************)
EXTENDS ChatSessions, TLC

Interchangeable == Permutations(Turns) \cup Permutations(Sessions) \cup Permutations(Users)

===============================================================================

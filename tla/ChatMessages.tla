----------------------------- MODULE ChatMessages -----------------------------
(***************************************************************************)
(* The entries of the JSON array `sessions.messages`.  A turn is one POST  *)
(* /api/chat: it contributes one question and at most one answer, and the  *)
(* two ids it mints are unique, so a message is its role and its turn.     *)
(***************************************************************************)
EXTENDS Naturals, Sequences

CONSTANT Turns          \* POST /api/chat requests, each made at most once

Question(t) == [role |-> "user", turn |-> t]
Answer(t)   == [role |-> "assistant", turn |-> t]

Message == [role : {"user", "assistant"}, turn : Turns]
===============================================================================

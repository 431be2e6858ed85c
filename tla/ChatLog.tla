------------------------------- MODULE ChatLog --------------------------------
(***************************************************************************)
(* What a chat session promises its user: a log per session that only      *)
(* grows, in which an answer stands directly behind its own question.      *)
(***************************************************************************)
EXTENDS ChatMessages

CONSTANT Sessions

VARIABLE log

LogInit == log = [s \in Sessions |-> <<>>]

Contains(s, m) == \E i \in 1..Len(log[s]) : log[s][i] = m

\* A question is logged once, at the end of one session.
Ask(s, t) ==
    /\ \A r \in Sessions : ~Contains(r, Question(t))
    /\ log' = [log EXCEPT ![s] = Append(@, Question(t))]

\* An answer is logged while its question is still the newest entry.
Reply(s, t) ==
    /\ log[s] # <<>>
    /\ log[s][Len(log[s])] = Question(t)
    /\ log' = [log EXCEPT ![s] = Append(@, Answer(t))]

LogNext == \E s \in Sessions, t \in Turns : Ask(s, t) \/ Reply(s, t)

LogSpec == LogInit /\ [][LogNext]_log
===============================================================================

------------------------------ MODULE FaqEntries ------------------------------
(***************************************************************************)
(* The entries of the FAQ cache (FaqCacheEntry, the table faq_cache) and   *)
(* what one capture makes of an entry.  Answers and source lists are only  *)
(* compared; NoDocs is the empty list.  created_at, last_used_at and the   *)
(* normalised and displayed question never decide anything.                *)
(***************************************************************************)
EXTENDS Naturals

CONSTANTS
    Calls,          \* calls of the store, each made once; an INSERT uses the call as id
    Keys,           \* make_cache_key of a question
    Answers,        \* answer texts
    Docs,           \* non-empty source lists
    NoDocs,         \* no sources
    Versions,       \* version stamps, by number
    NoEntry         \* an id that no row has

ASSUME FaqConstants ==
    /\ NoDocs \notin Docs
    /\ Versions \subseteq Nat /\ 0 \notin Versions

Status == {"suggested", "published", "rejected"}

Entry == [key : Keys, answer : Answers, sources : Docs \cup {NoDocs},
          status : Status, stamp : Versions, hits : Nat]

ASSUME NoEntryIsNone == NoEntry \notin Entry

\* should_cache: confident, cited, no follow-up; NoDocs stands for all that is unfit.
ShouldCache(docs) == docs # NoDocs

\* is_grounded: an answer (never empty, see answer.py) and sources.
IsGrounded(e) == e.sources # NoDocs

\* Faulty variant: version_stamp is left at its default, "".
FreshUnstamped(k, a, d, v) ==
    [key |-> k, answer |-> a, sources |-> d, status |-> "suggested", stamp |-> 0, hits |-> 1]

Fresh(k, a, d, v) ==
    [key |-> k, answer |-> a, sources |-> d, status |-> "suggested", stamp |-> v, hits |-> 1]

\* Faulty variant: a repeat keeps the stamp of the entry's first answer.
BumpedKeepingStamp(e, a, d, v) ==
    LET counted == [e EXCEPT !.hits = @ + 1]
    IN  IF e.status = "rejected" THEN counted
        ELSE [counted EXCEPT !.answer = a, !.sources = IF d = NoDocs THEN @ ELSE d]

\* A repeat counts, is stamped anew and, unless rejected, replaces the content;
\* an empty source list keeps the sources that are there.
Bumped(e, a, d, v) ==
    LET counted == [e EXCEPT !.hits = @ + 1, !.stamp = v]
    IN  IF e.status = "rejected" THEN counted
        ELSE [counted EXCEPT !.answer = a, !.sources = IF d = NoDocs THEN @ ELSE d]

\* promote refuses a rejected entry and one without grounds.
Promotable(e) == e.status # "rejected" /\ IsGrounded(e)
===============================================================================

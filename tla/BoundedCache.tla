---------------------------- MODULE BoundedCache ----------------------------
(***************************************************************************)
(* What the Content Store's replacement policy promises to its user: a set *)
(* of at most C cached objects.  Inserting an object caches it; to make    *)
(* room one other object may be dropped, and only if the cache was full.   *)
(* A lookup changes nothing.                                               *)
(***************************************************************************)
EXTENDS Integers, FiniteSets

CONSTANTS Entry, C

VARIABLE cached

Init == cached = {}

Insert(e) ==
  \/ cached' = cached \cup {e}
  \/ /\ e \notin cached
     /\ Cardinality(cached) = C
     /\ \E victim \in cached : cached' = (cached \ {victim}) \cup {e}

Bounded == Cardinality(cached) <= C

Next == \E e \in Entry : Insert(e) /\ Bounded'

Spec == Init /\ [][Next]_cached
=============================================================================

------------------------------- MODULE CsArc -------------------------------
(***************************************************************************)
(* The replacement policy of the Content Store's direct entries: the       *)
(* Adaptive Replacement Cache of csrc/pcct/cs-arc.c over the doubly linked *)
(* lists of csrc/pcct/cs-list.c.                                           *)
(*                                                                         *)
(* A list is the sequence of the entries linked on it, front first,        *)
(* together with the counter the C struct keeps beside the links.  The C   *)
(* functions become operators from an ARC state to an ARC state, so that   *)
(* module Cs can use them inside larger steps; the specification at the    *)
(* end runs them alone.                                                    *)
(*                                                                         *)
(* An ARC state is a record:                                               *)
(*   l     the links: list name -> sequence of entries                     *)
(*   n     the counters (CsList.count): list name -> integer               *)
(*   at    CsEntry.arcList: entry -> list name, or "0"                     *)
(*   data  the entries whose CsEntry.data is not NULL                      *)
(*   p     CsArc.p in units of 1/Scale                                     *)
(*   ok    FALSE once an NDNDPDK_ASSERT failed                             *)
(***************************************************************************)
EXTENDS Integers, Sequences, SequencesExt

CONSTANTS Entry,  \* the CsEntry objects
          C,      \* CsArc_c, the capacity in Data packets
          Bulk,   \* CS_EVICT_BULK
          Scale   \* resolution of p

ASSUME CAssumption == C \in Nat \ {0}
ASSUME BulkAssumption == Bulk \in Nat \ {0}
ASSUME ScaleAssumption == Scale \in Nat \ {0}

ArcList == {"T1", "B1", "T2", "B2", "Del"}

----------------------------------------------------------------------------
(* cs-list.c.  A node knows only its neighbours: unlinking it takes it off *)
(* whichever list holds it, and adjusts the counter of the list named.     *)

Linked(l, i, e) == \E k \in DOMAIN l[i] : l[i][k] = e

Position(s, e) == CHOOSE k \in DOMAIN s : s[k] = e

CsList_RemoveNode(l, e) ==
  [i \in DOMAIN l |->
     IF Linked(l, i, e) THEN RemoveAt(l[i], Position(l[i], e)) ELSE l[i]]

CsList_Append(a, i, e) ==
  [a EXCEPT !.l[i] = Append(@, e), !.n[i] = @ + 1]

CsList_Remove(a, i, e) ==
  [a EXCEPT !.ok = @ /\ a.n[i] > 0,
            !.l = CsList_RemoveNode(@, e),
            !.n[i] = @ - 1]

CsList_MoveToLast(a, i, e) ==
  [a EXCEPT !.l = LET r == CsList_RemoveNode(@, e)
                  IN  [r EXCEPT ![i] = Append(@, e)]]

(* The front entry exists.  CsList_GetFront asserts that the counter is    *)
(* positive; a positive counter on an empty list would return the list     *)
(* head itself, which is no entry.                                         *)
HasFront(a, i) == a.n[i] > 0 /\ a.l[i] # <<>>

----------------------------------------------------------------------------
(* cs-arc.c                                                                *)

CsArc_Init ==
  [l |-> [i \in ArcList |-> <<>>], n |-> [i \in ArcList |-> 0],
   at |-> [e \in Entry |-> "0"], data |-> {}, p |-> 0, ok |-> TRUE]

CsEntry_ClearData(a, e) == [a EXCEPT !.data = @ \ {e}]

Max2(x, y) == IF x >= y THEN x ELSE y
Min2(x, y) == IF x <= y THEN x ELSE y

(* CsArc_p and CsArc_p1: the integer part of p, and at least one.          *)
CsArc_p(a) == a.p \div Scale
CsArc_p1(a) == Max2(CsArc_p(a), 1)

(* The quotient of two counters in units of 1/Scale.                       *)
Ratio(x, y) == (Scale * x) \div y

(* Mutant: arcList is not updated.                                         *)
MutMoveKeepsArcList(a, e, src, dst) ==
  CsList_Append([CsList_Remove(a, src, e) EXCEPT !.ok = @ /\ a.at[e] = src], dst, e)

CsArc_Move(a, e, src, dst) ==
  CsList_Append([CsList_Remove(a, src, e) EXCEPT !.ok = @ /\ a.at[e] = src,
                                                 !.at[e] = dst], dst, e)

(* Move the front entry of src to the back of dst, or fail the assertion.  *)
MoveFront(a, src, dst) ==
  IF HasFront(a, src) THEN CsArc_Move(a, Head(a.l[src]), src, dst)
                      ELSE [a EXCEPT !.ok = FALSE]

(* The list CsArc_Replace takes its victim from.                           *)
VictimList(a, isB2) ==
  IF (IF isB2 THEN a.n["T1"] >= CsArc_p1(a) ELSE a.n["T1"] > CsArc_p(a))
  THEN "T1" ELSE "T2"

(* Mutant: the victim keeps its Data.                                      *)
MutReplaceKeepsData(a, isB2) ==
  LET src == VictimList(a, isB2)
  IN  MoveFront(a, src, IF src = "T1" THEN "B1" ELSE "B2")

CsArc_Replace(a, isB2) ==
  LET src == VictimList(a, isB2)
      dst == IF src = "T1" THEN "B1" ELSE "B2"
      b == MoveFront(a, src, dst)
  IN  IF HasFront(a, src) THEN CsEntry_ClearData(b, Head(a.l[src])) ELSE b

CsArc_AddB1(a, e) ==
  LET delta1 == IF a.n["B1"] < a.n["B2"] THEN Ratio(a.n["B2"], a.n["B1"]) ELSE Scale
      b == [a EXCEPT !.p = Min2(@ + delta1, C * Scale)]
  IN  CsArc_Move(CsArc_Replace(b, FALSE), e, "B1", "T2")

CsArc_AddB2(a, e) ==
  LET delta2 == IF a.n["B2"] < a.n["B1"] THEN Ratio(a.n["B1"], a.n["B2"]) ELSE Scale
      b == [a EXCEPT !.p = Max2(@ - delta2, 0)]
  IN  CsArc_Move(CsArc_Replace(b, TRUE), e, "B2", "T2")

(* Make room for an entry that no list tracks.                             *)
MakeRoom(a) ==
  LET nL1 == a.n["T1"] + a.n["B1"]
      nL1L2 == nL1 + a.n["T2"] + a.n["B2"]
  IN  IF nL1 = C
      THEN IF a.n["T1"] < C
           THEN CsArc_Replace(MoveFront(a, "B1", "Del"), FALSE)
           ELSE LET b == [a EXCEPT !.ok = @ /\ a.n["B1"] = 0]
                IN  IF HasFront(b, "T1")
                    THEN MoveFront(CsEntry_ClearData(b, Head(b.l["T1"])), "T1", "Del")
                    ELSE [b EXCEPT !.ok = FALSE]
      ELSE LET b == [a EXCEPT !.ok = @ /\ nL1 < C]
           IN  IF nL1L2 < C THEN b
               ELSE CsArc_Replace(IF nL1L2 = 2 * C THEN MoveFront(b, "B2", "Del") ELSE b,
                                  FALSE)

(* Track an entry that no list holds.                                      *)
Track(a, i, e) == CsList_Append([a EXCEPT !.at[e] = i], i, e)

CsArc_AddNew(a, e) == Track(MakeRoom(a), "T1", e)

CsArc_Remove(a, e) ==
  [CsList_Remove(a, a.at[e], e) EXCEPT !.at[e] = "0"]

CsArc_Add(a, e) ==
  CASE a.at[e] = "T1"  -> CsArc_Move(a, e, "T1", "T2")
    [] a.at[e] = "T2"  -> CsList_MoveToLast(a, "T2", e)
    [] a.at[e] = "B1"  -> CsArc_AddB1(a, e)
    [] a.at[e] = "B2"  -> CsArc_AddB2(a, e)
    [] a.at[e] = "Del" -> CsArc_AddNew(CsArc_Remove(a, e), e)
    [] OTHER           -> CsArc_AddNew(a, e)

(* CsList_EvictBulk of the Del list, as Cs_Evict calls it: the entries     *)
(* taken off are erased from the CS.                                       *)
EvictDel(a) ==
  LET k == Min2(Bulk, a.n["Del"])
      gone == {a.l["Del"][j] : j \in 1..k}
  IN  IF a.n["Del"] < Bulk THEN a
      ELSE [a EXCEPT !.l["Del"] = SubSeq(@, k + 1, Len(@)), !.n["Del"] = @ - k,
                     !.at = [e \in Entry |-> IF e \in gone THEN "0" ELSE @[e]]]

----------------------------------------------------------------------------
(* The policy on its own.                                                  *)

VARIABLE arc

Init == arc = CsArc_Init

(* Cs_PutDirect, on a new or a known direct entry, then Cs_Evict.          *)
Put(e) ==
  LET b == CsArc_Add(CsEntry_ClearData(arc, e), e)
  IN  arc' = EvictDel([b EXCEPT !.data = @ \cup {e}])

(* Cs_MatchInterest on a direct entry that holds Data.                     *)
Match(e) ==
  /\ e \in arc.data
  /\ arc' = CsArc_Add(arc, e)

Next == \E e \in Entry : Put(e) \/ Match(e)

Spec == Init /\ [][Next]_arc
----------------------------------------------------------------------------
(* Properties                                                              *)

ArcState(a) ==
  /\ DOMAIN a = {"l", "n", "at", "data", "p", "ok"}
  /\ a.l \in [ArcList -> Seq(Entry)]
  /\ a.n \in [ArcList -> Int]
  /\ a.at \in [Entry -> ArcList \cup {"0"}]
  /\ a.data \subseteq Entry
  /\ a.p \in 0 .. C * Scale
  /\ a.ok \in BOOLEAN

(* The fields of the state have their types; p stays between 0 and c.      *)
TypeOK == ArcState(arc)

Agree(a) ==
  /\ \A i \in ArcList : a.n[i] = Len(a.l[i])
  /\ \A e \in Entry, i \in ArcList : Linked(a.l, i, e) <=> a.at[e] = i
  /\ \A i \in ArcList : \A j, k \in DOMAIN a.l[i] :
       a.l[i][j] = a.l[i][k] => j = k

(* The links, the counters and arcList tell one story: an entry is linked  *)
(* on the list its arcList names, once, and on no other, and each counter  *)
(* is the length of its list.  CsArc_Move relies on it when it unlinks by  *)
(* arcList, and CsArc_Replace when it decides by count.                    *)
ListsAgree == Agree(arc)

(* No NDNDPDK_ASSERT of cs-arc.c or cs-list.c fails: CsArc_Replace and     *)
(* CsArc_AddNew never take the front of an empty list, whatever sequence   *)
(* of insertions and matches led there.                                    *)
NoAssertFailure == arc.ok

(* container/cs/README.md: "the CS may hold up to 2c + CS_EVICT_BULK       *)
(* entries at any given time, but no more than c Data packets".  The Data  *)
(* packets are exactly those of T1 and T2.                                 *)
CapacityBounds ==
  /\ arc.n["T1"] + arc.n["T2"] <= C
  /\ arc.n["T1"] + arc.n["B1"] <= C
  /\ arc.n["T1"] + arc.n["B1"] + arc.n["T2"] + arc.n["B2"] <= 2 * C
  /\ arc.n["Del"] < Bulk
  /\ \A e \in Entry : e \in arc.data <=> arc.at[e] \in {"T1", "T2"}

(* A ghost entry is tracked only while the cache is full.  This is what    *)
(* keeps CsArc_Replace off empty lists.                                    *)
GhostsOnlyWhenFull ==
  arc.n["T1"] + arc.n["T2"] < C => arc.n["B1"] = 0 /\ arc.n["B2"] = 0

(* CsArc implements a bounded cache: a step brings in at most the entry it *)
(* is for, and drops at most one other, only when the cache is full.       *)
Cache == INSTANCE BoundedCache WITH cached <- arc.data

CacheSpec == Cache!Spec
=============================================================================

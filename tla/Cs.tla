--------------------------------- MODULE Cs ---------------------------------
(***************************************************************************)
(* The Content Store of one forwarding thread: csrc/pcct/cs.c, cs-entry.h  *)
(* and the lists of module CsArc.                                          *)
(*                                                                         *)
(* A CsEntry lives in the PccEntry of a name, so entries are identified by *)
(* names.  A direct entry is at the name of its Data; an indirect entry is *)
(* at the name of an Interest that another name's Data satisfied: a prefix *)
(* of the Data name, or the Data name with an implicit digest, which is    *)
(* Digest[n][v] for version v of the Data named n.                         *)
(*                                                                         *)
(* The state cs is a record:                                               *)
(*   arc     the lists, with "Mi" for cs->indirect (see module CsArc)      *)
(*   kind    name -> "none", "direct" or "indirect"                        *)
(*   direct  name -> CsEntry.direct of an indirect entry                   *)
(*   deps    name -> CsEntry.indirect[] of a direct entry, as a set        *)
(*   ver     name -> the version of the Data a direct entry last held      *)
(*   fresh   the direct entries with freshUntil > now                      *)
(* Memory for the entries is the subject of module Pcct; here every        *)
(* allocation succeeds except where Cs_Insert handles its failure.         *)
(***************************************************************************)
EXTENDS Integers, Sequences, FiniteSets

CONSTANTS Name,          \* all names
          DataName,      \* the names of Data
          Version,       \* versions of a Data
          ProperPrefixes,      \* Data name -> its proper prefixes
          Digest,        \* Data name -> version -> name with implicit digest
          Ask,           \* the <<name, CanBePrefix>> of the Interests sent
          MaxPending,    \* bound: pending Interests
          C, Bulk, Scale, \* as in CsArc
          CapMi,         \* capacity of the indirect list
          CsMaxIndirects,
          Garbage        \* values an uninitialized arcList may hold

None == "none"

VARIABLES cs,   \* the Content Store
          pit   \* the <<name, CanBePrefix>> with a PIT entry

vars == <<cs, pit>>

Arc == INSTANCE CsArc WITH Entry <- Name, arc <- cs.arc

(* The names with an implicit digest of one of the versions vs of n.       *)
DigestName(n, vs) == IF n \in DOMAIN Digest THEN {Digest[n][v] : v \in vs} ELSE {}

(* The Interest name i is satisfied by version v of the Data named n.      *)
Satisfies(i, n, v) == i = n \/ i \in ProperPrefixes[n] \/ i \in DigestName(n, {v})

(* i has more name components than the Data name n.                        *)
IsLonger(i, n) == i \in DigestName(n, Version)

----------------------------------------------------------------------------
(* cs-entry.h                                                              *)

Require(s, p) == [s EXCEPT !.arc.ok = @ /\ p]

IsDirect(s, n) == s.kind[n] = "direct"

CsEntry_ClearData(s, n) ==
  [Require(s, IsDirect(s, n)) EXCEPT !.arc.data = @ \ {n}]

CsEntry_Disassoc(s, n) ==
  LET d == s.direct[n]
  IN  IF s.kind[n] = "indirect" /\ n \in s.deps[d]
      THEN [s EXCEPT !.deps[d] = @ \ {n}, !.direct[n] = None, !.kind[n] = "direct"]
      ELSE Require(s, FALSE)

CsEntry_Clear(s, n) ==
  IF IsDirect(s, n) THEN CsEntry_ClearData(s, n) ELSE CsEntry_Disassoc(s, n)

CsEntry_Finalize(s, n) == CsEntry_Clear(Require(s, s.deps[n] = {}), n)

(* PccEntry_RemoveCsEntry.  The slot's memory is not cleared: arcList is   *)
(* undefined ("?") until PutDirect sets it.                                *)
RemoveCsEntry(s, n) ==
  [s EXCEPT !.kind[n] = "none", !.direct[n] = None, !.deps[n] = {}, !.ver[n] = None,
            !.fresh = @ \ {n}, !.arc.at[n] = "?"]

----------------------------------------------------------------------------
(* cs.c: erasing                                                           *)

CsEraseBatch_AddIndirect(s, n) ==
  RemoveCsEntry(CsEntry_Finalize(Require(s, ~ IsDirect(s, n)), n), n)

RECURSIVE DropDeps(_, _)
DropDeps(s, ns) ==
  IF ns = {} THEN s
  ELSE LET i == CHOOSE x \in ns : TRUE
       IN  DropDeps(RemoveCsEntry([s EXCEPT !.arc = Arc!CsList_Remove(@, "Mi", i)], i),
                    ns \ {i})

CsEraseBatch_AddDirect(s, n) ==
  LET a == DropDeps(Require(s, IsDirect(s, n)), s.deps[n])
  IN  RemoveCsEntry(CsEntry_Finalize([a EXCEPT !.deps[n] = {}], n), n)

Cs_Erase_(s, n) ==
  IF IsDirect(s, n)
  THEN CsEraseBatch_AddDirect([s EXCEPT !.arc = Arc!CsArc_Remove(@, n)], n)
  ELSE CsEraseBatch_AddIndirect([s EXCEPT !.arc = Arc!CsList_Remove(@, "Mi", n)], n)

(* CsList_EvictBulk: the callback runs on the first entries of list i, and *)
(* then they are cut off together.                                         *)
RECURSIVE EvictEach(_, _, _)
EvictEach(s, ns, i) ==
  IF ns = <<>> THEN s
  ELSE EvictEach(IF i = "Mi" THEN CsEraseBatch_AddIndirect(s, Head(ns))
                             ELSE CsEraseBatch_AddDirect(s, Head(ns)), Tail(ns), i)

CsList_EvictBulk(s, i) ==
  LET nErase == Arc!Min2(Bulk, s.arc.n[i])
      b == EvictEach(s, SubSeq(s.arc.l[i], 1, nErase), i)
  IN  IF nErase > Len(s.arc.l[i]) THEN Require(s, FALSE)
      ELSE [b EXCEPT !.arc.l[i] = SubSeq(@, nErase + 1, Len(@)), !.arc.n[i] = @ - nErase]

Cs_Evict(s) ==
  LET b == IF s.arc.n["Mi"] > CapMi THEN CsList_EvictBulk(s, "Mi") ELSE s
  IN  IF b.arc.n["Del"] >= Bulk THEN CsList_EvictBulk(b, "Del") ELSE b

----------------------------------------------------------------------------
(* cs.c: inserting                                                         *)

(* Mutant: indirect entries with an implicit digest survive new Data.      *)
MutOutdatedNone(s, n) == {}

(* The indirect entries that PutDirect considers invalid for the new Data. *)
Outdated(s, n) == IF IsDirect(s, n) THEN {x \in s.deps[n] : IsLonger(x, n)} ELSE {}

(* x is the outdated indirect entry found first, g the value read from an  *)
(* uninitialized arcList.                                                  *)
Cs_PutDirect(s, n, v, isFresh, x, g) ==
  LET a == IF x = None THEN s ELSE Cs_Erase_(s, x)
      b == IF s.kind[n] = "none"
           THEN [s EXCEPT !.kind[n] = "direct", !.arc.at[n] = "0"]
           ELSE CsEntry_Clear([a EXCEPT !.arc.at[n] = IF @ = "?" THEN g ELSE @], n)
      c == [b EXCEPT !.arc = Arc!CsArc_Add(@, n)]
  IN  [c EXCEPT !.arc.data = @ \cup {n}, !.ver[n] = v,
                !.fresh = IF isFresh THEN @ \cup {n} ELSE @ \ {n}]

CsEntry_Assoc(s, i, d) ==
  [Require(s, s.deps[i] = {} /\ IsDirect(s, i) /\ IsDirect(s, d))
     EXCEPT !.deps[d] = @ \cup {i}, !.direct[i] = d, !.kind[i] = "indirect"]

Cs_PutIndirect(s, d, i) ==
  LET a == IF s.kind[i] # "none"
           THEN LET b == CsEntry_Clear(s, i)
                IN  [b EXCEPT !.arc = Arc!CsList_MoveToLast(@, "Mi", i)]
           ELSE [s EXCEPT !.kind[i] = "direct", !.arc = Arc!CsList_Append(@, "Mi", i)]
  IN  IF IsDirect(s, i) /\ s.deps[i] # {} THEN s
      ELSE IF Cardinality(a.deps[d]) < CsMaxIndirects THEN CsEntry_Assoc(a, i, d)
      ELSE RemoveCsEntry([a EXCEPT !.arc = Arc!CsList_Remove(@, "Mi", i)], i)

----------------------------------------------------------------------------
Cs_Init ==
  [arc |-> [l |-> [i \in Arc!ArcList \cup {"Mi"} |-> <<>>],
            n |-> [i \in Arc!ArcList \cup {"Mi"} |-> 0],
            at |-> [n \in Name |-> "?"], data |-> {}, p |-> 0, ok |-> TRUE],
   kind |-> [n \in Name |-> "none"], direct |-> [n \in Name |-> None],
   deps |-> [n \in Name |-> {}], ver |-> [n \in Name |-> None], fresh |-> {}]

Init == cs = Cs_Init /\ pit = {}

(* Cs_MatchInterest: the Interest (i, cbp, mbf) is answered from the CS.   *)
IsHit(i, cbp, mbf) ==
  LET d == IF IsDirect(cs, i) THEN i ELSE cs.direct[i]
  IN  /\ cs.kind[i] # "none"
      /\ cbp \/ i \notin ProperPrefixes[d]
      /\ mbf => d \in cs.fresh

(* An Interest arrives: Pit_Insert tries the CS, then adds a PIT entry.    *)
Interest(i, cbp, mbf) ==
  LET d == IF IsDirect(cs, i) THEN i ELSE cs.direct[i]
      m == IF IsDirect(cs, i) THEN cs
           ELSE [cs EXCEPT !.arc = Arc!CsList_MoveToLast(@, "Mi", i)]
  IN  /\ <<i, cbp>> \in Ask
      /\ cs.arc.ok
      /\ IF IsHit(i, cbp, mbf)
         THEN IF d \in cs.arc.data
              THEN cs' = [m EXCEPT !.arc = Arc!CsArc_Add(@, d)] /\ UNCHANGED pit
              ELSE cs' = m /\ pit' = pit \cup {<<i, cbp>>}
         ELSE UNCHANGED cs /\ pit' = pit \cup {<<i, cbp>>}
      /\ Cardinality(pit') <= MaxPending

(* Cs_Insert: version v of the Data named n answers the Interest i.        *)
Data(i, cbp, n, v, isFresh) ==
  /\ cs.arc.ok
  /\ <<i, cbp>> \in pit
  /\ Satisfies(i, n, v)
  /\ i \in ProperPrefixes[n] => cbp
  /\ pit' = pit \ ({i} \X BOOLEAN)
  /\ \E x \in IF Outdated(cs, n) = {} THEN {None} ELSE Outdated(cs, n),
        g \in IF cs.arc.at[n] = "?" /\ cs.kind[n] # "none"
              THEN Garbage ELSE {"0"} :
       LET b == Cs_PutDirect(cs, n, v, isFresh, x, g)
       IN  cs' = Cs_Evict(IF i = n THEN b ELSE Cs_PutIndirect(b, n, i))

(* Cs_Insert when Pcct_Insert or PccEntry_AddCsEntry runs out of memory in *)
(* Cs_InsertDirect: the PIT entries go, the Data is freed.                 *)
DataNoMemory(i, cbp, n) ==
  /\ cs.arc.ok
  /\ <<i, cbp>> \in pit
  /\ i # n /\ cs.kind[n] = "none"
  /\ \E v \in Version : Satisfies(i, n, v)
  /\ pit' = pit \ ({i} \X BOOLEAN)
  /\ UNCHANGED cs

(* Time passes: the Data of n becomes stale.                               *)
Expire(n) ==
  /\ n \in cs.fresh
  /\ cs' = [cs EXCEPT !.fresh = @ \ {n}]
  /\ UNCHANGED pit

(* Cs_Erase of an indirect entry.                                          *)
Erase(i) ==
  /\ cs.arc.ok
  /\ cs.kind[i] = "indirect"
  /\ cs' = Cs_Erase_(cs, i)
  /\ UNCHANGED pit

Next ==
  \/ \E i \in Name, cbp, mbf \in BOOLEAN : Interest(i, cbp, mbf)
  \/ \E i \in Name, n \in DataName, v \in Version, cbp, isFresh \in BOOLEAN :
       Data(i, cbp, n, v, isFresh)
  \/ \E i \in Name, n \in DataName, cbp \in BOOLEAN : DataNoMemory(i, cbp, n)
  \/ \E n \in Name : Expire(n) \/ Erase(n)

Spec == Init /\ [][Next]_vars
----------------------------------------------------------------------------
(* Properties                                                              *)

(* Type invariant: kinds, pointers, digests and list names are of their    *)
(* types, the pending Interests are ones that can be asked, and ok stays   *)
(* TRUE: no NDNDPDK_ASSERT of cs.c, cs-entry.h, cs-list.c, cs-arc.c fails. *)
TypeOK ==
  /\ cs.kind \in [Name -> {"none", "direct", "indirect"}]
  /\ cs.direct \in [Name -> Name \cup {None}]
  /\ cs.deps \in [Name -> SUBSET Name]
  /\ cs.ver \in [Name -> Version \cup {None}]
  /\ cs.fresh \subseteq DataName
  /\ cs.arc.at \in [Name -> Arc!ArcList \cup {"0", "?"}]
  /\ cs.arc.p \in 0 .. C * Scale
  /\ cs.arc.ok
  /\ pit \subseteq Ask

(* Every entry is on exactly the list that its kind calls for, and the     *)
(* counters count: a direct entry on its arcList, an indirect one on       *)
(* cs->indirect, a name without a CS entry on none.  A name without a CS   *)
(* entry holds no Data packet, and the lists and the Data packets are      *)
(* within their capacities.  The state is of its type and no assertion has *)
(* failed.                                                                 *)
OneListEach ==
  /\ TypeOK
  /\ \A i \in DOMAIN cs.arc.l : cs.arc.n[i] = Len(cs.arc.l[i])
  /\ \A n \in Name, i \in DOMAIN cs.arc.l :
       Cardinality({k \in DOMAIN cs.arc.l[i] : cs.arc.l[i][k] = n}) =
         IF i = (CASE cs.kind[n] = "direct"   -> cs.arc.at[n]
                   [] cs.kind[n] = "indirect" -> "Mi"
                   [] OTHER -> "nowhere")
         THEN 1 ELSE 0
  /\ \A n \in cs.arc.data : IsDirect(cs, n)
  /\ Cardinality(cs.arc.data) <= C
  /\ cs.arc.n["Mi"] <= CapMi
  /\ cs.arc.n["Del"] < Bulk

(* The pointers between direct and indirect entries are symmetric, so none *)
(* dangles when either side is erased, evicted or refreshed.               *)
PointersAgree ==
  \A n \in Name :
    /\ cs.kind[n] = "indirect" => /\ IsDirect(cs, cs.direct[n])
                                  /\ n \in cs.deps[cs.direct[n]]
    /\ \A i \in cs.deps[n] : cs.kind[i] = "indirect" /\ cs.direct[i] = n
    /\ Cardinality(cs.deps[n]) <= CsMaxIndirects

(* An indirect entry leads to Data that satisfies Interests of its name.   *)
(* This is not checked when the entry is used: it rests on PutDirect       *)
(* erasing the indirect entries with another implicit digest.              *)
IndirectMatches ==
  \A n \in Name :
    cs.kind[n] = "indirect" => Satisfies(n, cs.direct[n], cs.ver[cs.direct[n]])
=============================================================================

---------------------------------- MODULE Pcct ----------------------------------
(***************************************************************************)
(* The PIT-CS Composite Table (csrc/pcct/pcct.c, pcc-entry.c, pit.c, and    *)
(* the part of cs.c that touches PCC entries).  A PCC entry is found by     *)
(* name in keyHt and by a 48-bit token in tokenHt; it has room for a PIT    *)
(* entry of each MustBeFresh value and a CS entry, in three slots, the last *)
(* two of which live in an extension object.  Entries, key extensions, slot *)
(* extensions and PIT entry extensions all come from one mempool, so any of *)
(* the allocations may fail, in the middle of an operation too.             *)
(*                                                                          *)
(* Everything runs on one forwarding thread: an operation is one step.  A   *)
(* table is a record and every C function an operator from tables to        *)
(* tables; "ok" turns FALSE where an NDNDPDK_ASSERT would abort or an       *)
(* absent extension would be dereferenced.  Names are abstracted to keys,   *)
(* Data to the key of its name, and which cached entries the CS gives up to *)
(* an arbitrary set (Cs.tla has the replacement policy).                    *)
(***************************************************************************)
EXTENDS Integers, FiniteSets

CONSTANTS
  Key,        \* PCC keys: a name with the chosen forwarding hint
  NoKey,      \* "no entry" in tokenHt
  NExts,      \* NExts[k] = PccKey_CountExtensions of key k
  PoolSize,   \* objects in the mempool
  MaxToken,   \* PccTokenMask
  FirstToken, \* initial lastToken, PccTokenMask - 16 in the code
  MaxRefused  \* bound: tokens tokenHt may refuse in one AddToken

VARIABLE t

vars == t

\* What a table is created with: Pcct_Init gets a mempool and PccTokenMask is not 0.
PcctAssumption ==
  /\ IsFiniteSet(Key) /\ NoKey \notin Key
  /\ NExts \in [Key -> Nat]
  /\ PoolSize \in Nat
  /\ MaxToken \in Nat \ {0} /\ FirstToken \in 0 .. MaxToken

PitKind == {"pit0", "pit1"}
Kind == PitKind \cup {"cs"}
Token == 1 .. MaxToken

Slot == 1 .. 3

\* An entry that is in no hashtable, and a new one: tokenQword = 0, slot1
\* unoccupied, no extension.
Fresh == [live |-> FALSE, token |-> 0, at |-> [c \in Kind |-> 0], used |-> {},
          ext |-> FALSE, pitExts |-> [c \in PitKind |-> 0]]

Init ==
  t = [pcc |-> [k \in Key |-> Fresh], owner |-> [x \in Token |-> NoKey],
       lastToken |-> FirstToken, avail |-> PoolSize, nPit |-> 0,
       batch |-> FALSE, ok |-> TRUE]

Has(tb, k, c) == tb.pcc[k].at[c] # 0
HasPit(tb, k) == Has(tb, k, "pit0") \/ Has(tb, k, "pit1")
HasEntries(tb, k) == HasPit(tb, k) \/ Has(tb, k, "cs")

Check(tb, b) == [tb EXCEPT !.ok = @ /\ b]

-----------------------------------------------------------------------------
(* keyHt and the mempool *)

\* Pcct_Insert finds the entry, or takes it and its key extensions in one
\* bulk allocation.
CanInsert(tb, k) == tb.pcc[k].live \/ tb.avail >= 1 + NExts[k]

Pcct_Insert(tb, k) ==
  IF tb.pcc[k].live THEN tb
  ELSE [tb EXCEPT !.pcc[k] = [Fresh EXCEPT !.live = TRUE],
                  !.avail = @ - 1 - NExts[k]]

-----------------------------------------------------------------------------
(* Tokens *)

\* How many times ++token (wrapping past PccTokenMask to 1) takes l to x.
Steps(l, x) == IF x > l THEN x - l ELSE x + MaxToken - l

\* The token the loop of Pcct_AddToken_ stops at: the first one after lastToken
\* that is neither in use nor refused by tokenHt for lack of space.
FreeToken(tb, refused) ==
  CHOOSE x \in Token \ refused :
    /\ tb.owner[x] = NoKey
    /\ \A y \in Token \ refused :
         tb.owner[y] = NoKey => Steps(tb.lastToken, x) <= Steps(tb.lastToken, y)

\* 2^48 tokens never run out; a smaller MaxToken may.
TokenLeft(tb, refused) == \E x \in Token \ refused : tb.owner[x] = NoKey

\* Mutated: a PIT insertion on an entry that has a token takes another one.
MutAddTokenAnew(tb, k, refused) ==
  LET x == FreeToken(tb, refused)
  IN [tb EXCEPT !.owner[x] = k, !.lastToken = x, !.pcc[k].token = x]

Pcct_AddToken(tb, k, refused) ==
  IF tb.pcc[k].token # 0 THEN tb
  ELSE LET x == FreeToken(tb, refused)
       IN [tb EXCEPT !.owner[x] = k, !.lastToken = x, !.pcc[k].token = x]

Pcct_RemoveToken(tb, k) ==
  LET x == tb.pcc[k].token
  IN IF x = 0 THEN tb
     ELSE [tb EXCEPT !.owner[x] = NoKey, !.pcc[k].token = 0,
                     !.ok = @ /\ tb.owner[x] = k]

-----------------------------------------------------------------------------
(* Erasing a PCC entry *)

\* Mutated: the key extensions are not stripped.
MutEraseBurst(tb, k) ==
  LET t1 == Pcct_RemoveToken(Check(tb, ~HasEntries(tb, k)), k)
  IN [t1 EXCEPT !.pcc[k] = Fresh,
                !.avail = @ + 1 + (IF t1.pcc[k].ext THEN 1 ELSE 0)]

\* Mutated: the entry leaves keyHt and its token stays in tokenHt.
MutEraseKeepsToken(tb, k) ==
  LET t1 == Check(tb, ~HasEntries(tb, k))
  IN [t1 EXCEPT !.pcc[k] = Fresh,
                !.avail = @ + 1 + NExts[k] + (IF t1.pcc[k].ext THEN 1 ELSE 0)]

\* PcctEraseBatch_EraseBurst_ for one entry of the batch.
EraseBurst(tb, k) ==
  LET t1 == Pcct_RemoveToken(Check(tb, ~HasEntries(tb, k)), k)
  IN [t1 EXCEPT !.pcc[k] = Fresh,
                !.avail = @ + 1 + NExts[k] + (IF t1.pcc[k].ext THEN 1 ELSE 0)]

\* Pcct_Erase is a batch of one.
Pcct_Erase(tb, k) == EraseBurst(tb, k)

-----------------------------------------------------------------------------
(* Slots *)

\* PccEntry_AllocateSlot_: slot1; else slot2 of a newly allocated extension;
\* else slot2 or slot3 of the extension.  0 is PCC_SLOT_NONE.
SlotFor(tb, k) ==
  LET e == tb.pcc[k]
  IN CASE 1 \notin e.used -> 1
       [] 1 \in e.used /\ ~e.ext -> IF tb.avail > 0 THEN 2 ELSE 0
       [] 1 \in e.used /\ e.ext /\ 2 \notin e.used -> 2
       [] 1 \in e.used /\ e.ext /\ 2 \in e.used /\ 3 \notin e.used -> 3
       [] OTHER -> 0

\* PccEntry_AddPitEntry0 / AddPitEntry1 / AddCsEntry when there is none yet.
AddSlot(tb, k, c) ==
  LET i == SlotFor(tb, k)
      grow == i > 1 /\ ~tb.pcc[k].ext
  IN IF i = 0 THEN tb
     ELSE [tb EXCEPT !.pcc[k].at[c] = i, !.pcc[k].used = @ \cup {i},
                     !.pcc[k].ext = @ \/ grow,
                     !.avail = @ - (IF grow THEN 1 ELSE 0)]

\* PccEntry_ClearSlot_ and resetting the slot index.  Clearing slot2 or slot3
\* gives the extension back when the other one is unoccupied.
RemoveSlot(tb, k, c) ==
  LET i == tb.pcc[k].at[c]
      rest == tb.pcc[k].used \ {i}
      shrink == i > 1 /\ rest \cap {2, 3} = {}
  IN [tb EXCEPT !.pcc[k].at[c] = 0, !.pcc[k].used = rest,
                !.pcc[k].ext = @ /\ ~shrink,
                !.avail = @ + (IF shrink THEN 1 ELSE 0),
                !.ok = @ /\ (i > 1 => tb.pcc[k].ext)]

-----------------------------------------------------------------------------
(* PIT operations *)

\* Pit_Insert of an Interest whose key is k and whose MustBeFresh selects c.
\* csHit: Cs_MatchInterest accepts the CS entry.  The token is assigned before
\* the slot is, and stays when the slot cannot be allocated.
Pit_Insert(tb, k, c, csHit, refused) ==
  LET t1 == Pcct_Insert(tb, k)
      t2 == Pcct_AddToken(t1, k, refused)
      t3 == AddSlot(t2, k, c)
  IN CASE ~CanInsert(tb, k) -> tb
       [] CanInsert(tb, k) /\ Has(t1, k, "cs") /\ csHit -> t1
       [] CanInsert(tb, k) /\ ~(Has(t1, k, "cs") /\ csHit) /\ Has(t2, k, c) -> t2
       [] OTHER -> IF Has(t3, k, c) THEN [t3 EXCEPT !.nPit = @ + 1]
                   ELSE Check(t3, tb.pcc[k].live)

\* PitEntry_Finalize gives the PIT entry's extensions back.
PitEntry_Finalize(tb, k, c) ==
  [tb EXCEPT !.avail = @ + tb.pcc[k].pitExts[c], !.pcc[k].pitExts[c] = 0]

\* PitDnUpIt_Extend_ takes an object for more DN and UP records of a PIT entry.
PitDnUpIt_Extend(tb, k, c) ==
  [tb EXCEPT !.avail = @ - 1, !.pcc[k].pitExts[c] = @ + 1]

\* Pit_Erase removes the slot, finalizes the PIT entry, and lets go of the PCC
\* entry or, if only the CS entry is left, of the token.
Pit_Erase(tb, k, c) ==
  LET t1 == PitEntry_Finalize(RemoveSlot(tb, k, c), k, c)
      t2 == [t1 EXCEPT !.nPit = @ - 1]
  IN CASE ~HasEntries(t2, k) -> Pcct_Erase(t2, k)
       [] HasEntries(t2, k) /\ ~HasPit(t2, k) -> Pcct_RemoveToken(t2, k)
       [] OTHER -> t2

\* Pit_RawErase01_ for one MustBeFresh value.
RawErase(tb, k, c) ==
  IF Has(tb, k, c)
  THEN LET t1 == RemoveSlot(PitEntry_Finalize(tb, k, c), k, c)
       IN [t1 EXCEPT !.nPit = @ - 1]
  ELSE tb

Pit_RawErase01(tb, k) ==
  Pcct_RemoveToken(RawErase(RawErase(tb, k, "pit0"), k, "pit1"), k)

-----------------------------------------------------------------------------
(* CS operations, as far as PCC entries are concerned *)

\* CsEraseBatch_Append_: the CS entry goes, and its PCC entry with it unless a
\* PIT entry is there.
EraseCs(tb, k) ==
  LET t1 == RemoveSlot(tb, k, "cs")
  IN IF HasEntries(t1, k) THEN t1 ELSE EraseBurst(t1, k)

\* Cs_PutDirect on entry k.  A refresh may drop an indirect entry whose name
\* has an implicit digest.
Cs_PutDirect(tb, k, drop) ==
  IF Has(tb, k, "cs")
  THEN IF drop = NoKey THEN tb ELSE EraseCs(tb, drop)
  ELSE AddSlot(tb, k, "cs")

\* Cs_PutIndirect on entry k.  outcome: "kept" when a direct entry with
\* dependents must not be overwritten, else whether CsEntry_Assoc finds room.
Cs_PutIndirect(tb, k, outcome) ==
  LET t1 == Check(tb, ~Has(tb, k, "pit0"))
      t2 == IF Has(t1, k, "cs") THEN t1 ELSE AddSlot(t1, k, "cs")
  IN CASE outcome = "kept" -> t1
       [] outcome = "assoc" \/ ~Has(t2, k, "cs") -> t2
       [] OTHER -> Pcct_Erase(RemoveSlot(t2, k, "cs"), k)

\* Cs_Insert of Data whose own key is d, found through the PIT entries of k,
\* up to Cs_Evict.
Cs_Insert(tb, k, d, drop, outcome) ==
  IF d = k
  THEN LET t1 == Cs_PutDirect(Pit_RawErase01(tb, k), k, drop)
       IN Check(t1, Has(t1, k, "cs"))
  ELSE LET t1 == IF CanInsert(tb, d) THEN Cs_PutDirect(Pcct_Insert(tb, d), d, drop)
                 ELSE tb
           t2 == Pit_RawErase01(t1, k)
       IN CASE Has(t1, d, "cs") -> Cs_PutIndirect(t2, k, outcome)
            [] ~Has(t1, d, "cs") /\ Has(t2, k, "cs") -> t2
            [] OTHER -> Pcct_Erase(t2, k)

-----------------------------------------------------------------------------
(* What the forwarding thread does with the table.  While a PcctEraseBatch is *)
(* open the thread is inside Cs_Insert, Cs_Erase or Cs_Evict and does nothing *)
(* else.                                                                      *)

Refusals == {r \in SUBSET Token : Cardinality(r) <= MaxRefused}

\* Bound: a token is left, as there always is among 2^48.
PitInsert(k, c, csHit, refused) ==
  /\ ~t.batch
  /\ TokenLeft(t, refused)
  /\ t' = Pit_Insert(t, k, c, csHit, refused)

\* Timeout, or a strategy or Nack giving the Interest up.
PitErase(k, c) ==
  /\ ~t.batch
  /\ Has(t, k, c)
  /\ t' = Pit_Erase(t, k, c)

\* Another downstream or upstream of a PIT entry than its record arrays hold.
PitExtend(k, c) ==
  /\ ~t.batch
  /\ Has(t, k, c)
  /\ t.avail > 0
  /\ t' = PitDnUpIt_Extend(t, k, c)

\* Data found its PIT entries by token.
CsInsert(x, d, drop, outcome) ==
  /\ ~t.batch
  /\ t.owner[x] # NoKey
  /\ LET k == t.owner[x]
     IN /\ HasPit(t, k)
        /\ outcome = "kept" => Has(t, k, "cs") /\ drop # k
        /\ drop # NoKey => drop # d /\ Has(t, d, "cs") /\ Has(t, drop, "cs")
        /\ t' = [Cs_Insert(t, k, d, drop, outcome) EXCEPT !.batch = TRUE]

\* Cs_Erase on request of the control plane.
CsErase ==
  /\ ~t.batch
  /\ t' = [t EXCEPT !.batch = TRUE]

BatchErase(k) ==
  /\ t.batch
  /\ Has(t, k, "cs")
  /\ t' = EraseCs(t, k)

BatchFinish ==
  /\ t.batch
  /\ t' = [t EXCEPT !.batch = FALSE]

Outcome == {"kept", "assoc", "noassoc"}

Next ==
  \/ \E k \in Key, c \in PitKind, csHit \in BOOLEAN, refused \in Refusals :
       PitInsert(k, c, csHit, refused)
  \/ \E k \in Key, c \in PitKind : PitErase(k, c)
  \/ \E k \in Key, c \in PitKind : PitExtend(k, c)
  \/ \E x \in Token, d \in Key, drop \in Key \cup {NoKey}, outcome \in Outcome :
       CsInsert(x, d, drop, outcome)
  \/ CsErase
  \/ \E k \in Key : BatchErase(k)
  \/ BatchFinish

Spec == Init /\ [][Next]_vars

-----------------------------------------------------------------------------
(* Properties *)

Entry == [live : BOOLEAN, token : 0 .. MaxToken, at : [Kind -> 0 .. 3],
          used : SUBSET Slot, ext : BOOLEAN, pitExts : [PitKind -> Nat]]

\* Type invariant: every entry has the fields PccEntry has and the mempool stays
\* in range.  And ok stays TRUE: no NDNDPDK_ASSERT of pcct.c, pcc-entry.h, pit.c
\* and cs.c about PCC entries can fail, and no absent slot extension is
\* dereferenced.  A new entry always has room for its PIT entry, and Cs_Insert
\* always finds a slot where the PIT entries were.
TypeOK ==
  /\ t.pcc \in [Key -> Entry]
  /\ t.owner \in [Token -> Key \cup {NoKey}]
  /\ t.lastToken \in 0 .. MaxToken
  /\ t.avail \in 0 .. PoolSize
  /\ t.nPit \in Nat
  /\ t.batch \in BOOLEAN
  /\ t.ok

\* The slot indices of an entry name distinct occupied slots, every occupied
\* slot has an index, and the slot extension is there exactly while slot2 or
\* slot3 is occupied (PccEntry_AllocateSlot_, PccEntry_ClearSlot_).
SlotsAgree ==
  \A k \in Key :
    LET e == t.pcc[k]
    IN /\ \A c1, c2 \in Kind : e.at[c1] = e.at[c2] /\ e.at[c1] # 0 => c1 = c2
       /\ e.used = {e.at[c] : c \in Kind} \ {0}
       /\ e.ext <=> e.used \cap {2, 3} # {}

\* tokenHt and the entries agree: a token leads to the entry that carries it,
\* and to no entry that has left keyHt; an entry with a PIT entry can be found
\* by token, so that returning Data and Nacks reach it (Pcct_AddToken_,
\* Pcct_RemoveToken_, Pit_Erase, Pit_RawErase01_).
TokensAgree ==
  /\ \A x \in Token, k \in Key :
       t.owner[x] = k <=> t.pcc[k].live /\ t.pcc[k].token = x
  /\ \A k \in Key : HasPit(t, k) => t.pcc[k].token # 0

\* No PCC entry stays in keyHt with nothing on it, also after an allocation failed in
\* the middle of Pit_Insert or Cs_Insert, and Pit.nEntries is the number of PIT
\* entries in the table.
EntriesCounted ==
  /\ \A k \in Key : t.pcc[k].live <=> HasEntries(t, k)
  /\ t.nPit = Cardinality({p \in Key \X PitKind : Has(t, p[1], p[2])})

\* The three together, and no NDNDPDK_ASSERT fails.
PcctAgrees == t.ok /\ SlotsAgree /\ TokensAgree /\ EntriesCounted

\* The objects an entry holds: itself, its key extensions, its slot extension
\* and the extensions of its PIT entries.
Held(e, k) ==
  IF e.live THEN 1 + NExts[k] + (IF e.ext THEN 1 ELSE 0) + e.pitExts["pit0"] + e.pitExts["pit1"]
  ELSE 0

\* The sum of the values of a function.
Total(c) == Cardinality(UNION {{x} \X (1 .. c[x]) : x \in DOMAIN c})

\* No mempool object is lost or given back twice: what is available and what
\* the entries hold add up to the mempool (pcct.mp).
PoolConserved == t.avail + Total([k \in Key |-> Held(t.pcc[k], k)]) = PoolSize

\* While an entry keeps a PIT entry its token does not change: Data and Nacks
\* for the Interests already sent upstream still find it.
TokenStable ==
  [][\A k \in Key : HasPit(t, k) /\ HasPit(t', k) =>
                      t'.pcc[k].token = t.pcc[k].token]_vars
=============================================================================

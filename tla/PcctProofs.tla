----------------------------- MODULE PcctProofs -----------------------------
(***************************************************************************)
(* Proofs about the PIT-CS Composite Table.  The primitives of pcct.c and  *)
(* pcc-entry.c keep Sound, which also holds in the middle of an operation; *)
(* the operations of pit.c and cs.c restore Settled and Counted as well.   *)
(***************************************************************************)
EXTENDS Pcct, FiniteSetTheorems, WellFoundedInduction, TLAPS

\* SlotsAgree for one entry.
SlotsFit(at, used, ext) ==
  /\ \A c1, c2 \in Kind : at[c1] = at[c2] /\ at[c1] # 0 => c1 = c2
  /\ used = {at[c] : c \in Kind} \ {0}
  /\ ext <=> used \cap {2, 3} # {}

SlotsOf(e) == SlotsFit(e.at, e.used, e.ext)

\* The tables the operators are applied to.
Table == [pcc : [Key -> Entry], owner : [Token -> Key \cup {NoKey}], lastToken : 0 .. MaxToken, avail : Nat,
          nPit : Int, batch : BOOLEAN, ok : BOOLEAN]

\* PoolConserved for a table.
Pool(tb) == tb.avail + Total([k \in Key |-> Held(tb.pcc[k], k)]) = PoolSize

\* What every C function keeps, also half way through an operation: slots and their
\* indices agree, tokenHt and the entries agree, no assertion has failed, an entry out
\* of keyHt is as new, and every mempool object is accounted for.
Sound(tb) ==
  /\ tb \in Table
  /\ tb.ok
  /\ \A k \in Key : SlotsOf(tb.pcc[k])
  /\ \A x \in Token, k \in Key : tb.owner[x] = k <=> tb.pcc[k].live /\ tb.pcc[k].token = x
  /\ \A k \in Key : ~tb.pcc[k].live => tb.pcc[k] = Fresh
  /\ Pool(tb)

\* A PIT entry that is not there has no extensions.
Trim(e) == \A c \in PitKind : e.at[c] = 0 => e.pitExts[c] = 0

\* What holds of an entry between operations: it is in keyHt while something is on it,
\* has a token while a PIT entry is, and holds no extensions of PIT entries that are gone.
Settled(tb, k) ==
  /\ tb.pcc[k].live <=> HasEntries(tb, k)
  /\ HasPit(tb, k) => tb.pcc[k].token # 0
  /\ Trim(tb.pcc[k])

\* The PIT entries of a table, and Pit.nEntries counting them.
Pits(tb) == {p \in Key \X PitKind : Has(tb, p[1], p[2])}

Counted(tb) == tb.nPit = Cardinality(Pits(tb))

\* A table between operations, and the inductive invariant.
Good(tb) == Sound(tb) /\ (\A k \in Key : Settled(tb, k)) /\ Counted(tb)

IInv == Good(t)

\* The PIT entries are the same.
SamePits(tb, ub) == \A k \in Key, c \in PitKind : Has(ub, k, c) <=> Has(tb, k, c)

\* TokenStable for one step.
Kept(tb, ub) == \A k \in Key : HasPit(tb, k) /\ HasPit(ub, k) => ub.pcc[k].token = tb.pcc[k].token

\* Entries other than k are untouched; so are Pit.nEntries and the open batch.
Others(tb, ub, k) == \A j \in Key \ {k} : ub.pcc[j] = tb.pcc[j]
Rest(tb, ub) == ub.nPit = tb.nPit /\ ub.batch = tb.batch

\* The entry is in keyHt, and is as it was if it was there already.
Inserted(tb, ub, k) ==
  /\ Sound(ub) /\ Others(tb, ub, k) /\ Rest(tb, ub)
  /\ ub.pcc[k].live
  /\ tb.pcc[k].live => ub = tb
  /\ ub.pcc[k].at = tb.pcc[k].at
  /\ ub.pcc[k].token = tb.pcc[k].token
  /\ ub.owner = tb.owner
  /\ ub.pcc[k].pitExts = tb.pcc[k].pitExts

\* The entry has a token, the same one if it had one.
TokenAdded(tb, ub, k) ==
  /\ Sound(ub) /\ Others(tb, ub, k) /\ Rest(tb, ub)
  /\ ub.pcc[k].live /\ ub.pcc[k].at = tb.pcc[k].at
  /\ ub.pcc[k].used = tb.pcc[k].used
  /\ ub.pcc[k].token # 0
  /\ tb.pcc[k].token # 0 => ub = tb
  /\ ub.pcc[k].pitExts = tb.pcc[k].pitExts

\* The entry has no token.
TokenRemoved(tb, ub, k) ==
  /\ Sound(ub) /\ Others(tb, ub, k) /\ Rest(tb, ub)
  /\ ub.pcc[k].live = tb.pcc[k].live /\ ub.pcc[k].at = tb.pcc[k].at
  /\ ub.pcc[k].used = tb.pcc[k].used
  /\ ub.pcc[k].token = 0
  /\ ub.pcc[k].pitExts = tb.pcc[k].pitExts

\* The entry is out of both hashtables.
Erased(tb, ub, k) ==
  /\ Sound(ub) /\ Others(tb, ub, k) /\ Rest(tb, ub)
  /\ ub.pcc[k] = Fresh

\* A slot was given to c, or there was none left.
SlotAdded(tb, ub, k, c) ==
  /\ Sound(ub) /\ Others(tb, ub, k) /\ Rest(tb, ub)
  /\ ub.pcc[k].live /\ ub.pcc[k].token = tb.pcc[k].token
  /\ \A b \in Kind \ {c} : ub.pcc[k].at[b] = tb.pcc[k].at[b]
  /\ ~Has(ub, k, c) => ub = tb
  /\ tb.pcc[k].used = {} => Has(ub, k, c)
  /\ ub.pcc[k].pitExts = tb.pcc[k].pitExts

\* The slot of c is free, and the others are where they were.
SlotRemoved(tb, ub, k, c) ==
  /\ Sound(ub) /\ Others(tb, ub, k) /\ Rest(tb, ub)
  /\ ub.pcc[k].live = tb.pcc[k].live /\ ub.pcc[k].token = tb.pcc[k].token
  /\ ~Has(ub, k, c) /\ \A b \in Kind \ {c} : ub.pcc[k].at[b] = tb.pcc[k].at[b]
  /\ ub.pcc[k].pitExts = tb.pcc[k].pitExts

\* Only what PIT entries extend changed.
Finalized(tb, ub, k, c) ==
  /\ tb.pcc[k].live => Sound(ub)
  /\ Others(tb, ub, k) /\ Rest(tb, ub)
  /\ ub.pcc[k].live = tb.pcc[k].live /\ ub.pcc[k].token = tb.pcc[k].token
  /\ ub.pcc[k].at = tb.pcc[k].at
  /\ ub.pcc[k].pitExts = [tb.pcc[k].pitExts EXCEPT ![c] = 0]

\* A PIT entry less, and one less counted.
PitGone(tb, ub, k, c) ==
  /\ Sound(ub) /\ Counted(ub) /\ Others(tb, ub, k) /\ ub.batch = tb.batch
  /\ ub.pcc[k].live /\ ub.pcc[k].token = tb.pcc[k].token
  /\ ~Has(ub, k, c) /\ \A b \in Kind \ {c} : ub.pcc[k].at[b] = tb.pcc[k].at[b]
  /\ Trim(tb.pcc[k]) => Trim(ub.pcc[k])

\* No PIT entry of kind c, and the count is right.
RawErased(tb, ub, k, c) ==
  /\ Sound(ub) /\ Counted(ub) /\ Others(tb, ub, k) /\ ub.batch = tb.batch
  /\ ub.pcc[k].live = tb.pcc[k].live /\ ub.pcc[k].token = tb.pcc[k].token
  /\ ~Has(ub, k, c) /\ \A b \in Kind \ {c} : ub.pcc[k].at[b] = tb.pcc[k].at[b]
  /\ Trim(tb.pcc[k]) => Trim(ub.pcc[k])

\* No PIT entry, the CS entry if there was one, and the count is right.
PitsErased(tb, ub, k) ==
  /\ Sound(ub) /\ Counted(ub) /\ Others(tb, ub, k) /\ ub.batch = tb.batch
  /\ ub.pcc[k].live = tb.pcc[k].live
  /\ ~HasPit(ub, k) /\ (Has(ub, k, "cs") <=> Has(tb, k, "cs"))
  /\ Trim(tb.pcc[k]) => Trim(ub.pcc[k])

\* No CS entry, the same PIT entries under the same token.
CsErased(tb, ub, k) ==
  /\ Sound(ub) /\ Counted(ub) /\ Others(tb, ub, k) /\ ub.batch = tb.batch
  /\ Settled(ub, k) /\ SamePits(tb, ub)
  /\ HasPit(tb, k) => ub.pcc[k].token = tb.pcc[k].token

-----------------------------------------------------------------------------
(* Sums *)

\* The units of all values but that of x.
RestOf(c, S, x) == UNION {{a} \X (1 .. c[a]) : a \in S \ {x}}

\* The units of one value.
LEMMA UnitsFinite ==
  ASSUME NEW a, NEW n \in Nat
  PROVE  IsFiniteSet({a} \X (1 .. n)) /\ Cardinality({a} \X (1 .. n)) = n
<1>1. IsFiniteSet(1 .. n) /\ Cardinality(1 .. n) = n
  BY FS_Interval
<1>2. IsFiniteSet({a}) /\ Cardinality({a}) = 1
  BY FS_Singleton, Zenon
<1>3. QED
  BY <1>1, <1>2, FS_Product

\* The sum is the value of x and the rest.
LEMMA TotalSplit ==
  ASSUME NEW S, IsFiniteSet(S), NEW x \in S, NEW c \in [S -> Nat]
  PROVE  IsFiniteSet(RestOf(c, S, x)) /\ Total(c) = Cardinality(RestOf(c, S, x)) + c[x]
<1> DEFINE R == RestOf(c, S, x)
           B == {x} \X (1 .. c[x])
<1>1. IsFiniteSet(S \ {x})
  BY FS_RemoveElement, Zenon
<1>2. IsFiniteSet({{a} \X (1 .. c[a]) : a \in S \ {x}})
  <2> DEFINE F == [a \in S \ {x} |-> {a} \X (1 .. c[a])]
             T == {{a} \X (1 .. c[a]) : a \in S \ {x}}
  <2>1. F \in Surjection(S \ {x}, T)
    BY Zenon DEF Surjection
  <2>2. QED
    BY <1>1, <2>1, FS_Surjection, Zenon
<1>3. IsFiniteSet(R)
  <2>1. \A A \in {{a} \X (1 .. c[a]) : a \in S \ {x}} : IsFiniteSet(A)
    <3>1. \A a \in S \ {x} : IsFiniteSet({a} \X (1 .. c[a]))
      BY UnitsFinite, Zenon
    <3>2. QED
      BY <3>1, Zenon
  <2>2. QED
    BY <1>2, <2>1, FS_UNION, Zenon DEF RestOf
<1>4. IsFiniteSet(B) /\ Cardinality(B) = c[x]
  BY UnitsFinite, Zenon
<1>5. R \cap B = {}
  BY DEF RestOf
<1>6. UNION {{a} \X (1 .. c[a]) : a \in DOMAIN c} = R \cup B
  BY Zenon DEF RestOf
<1>7. Cardinality(R) \in Nat
  BY <1>3, FS_CardinalityType, Zenon
<1>8. Cardinality(R \cup B) = Cardinality(R) + c[x]
  <2>1. Cardinality(R \cup B) = Cardinality(R) + Cardinality(B) - Cardinality(R \cap B)
    BY <1>3, <1>4, FS_Union, Zenon
  <2>2. Cardinality(R \cap B) = 0
    BY <1>5, FS_EmptySet, Zenon
  <2>3. QED
    BY <1>4, <1>7, <2>1, <2>2
<1>9. QED
  BY <1>3, <1>6, <1>8, Zenon DEF Total

\* Changing one value changes the sum by as much.
LEMMA TotalChange ==
  ASSUME NEW S, IsFiniteSet(S), NEW x \in S, NEW c \in [S -> Nat], NEW d \in [S -> Nat],
         \A a \in S \ {x} : d[a] = c[a]
  PROVE  Total(c) \in Nat /\ Total(d) = Total(c) - c[x] + d[x]
<1>1. RestOf(c, S, x) = RestOf(d, S, x)
  BY Zenon DEF RestOf
<1>2. Cardinality(RestOf(c, S, x)) \in Nat
  BY TotalSplit, FS_CardinalityType, Zenon
<1>3. Total(c) = Cardinality(RestOf(c, S, x)) + c[x] /\ Total(d) = Cardinality(RestOf(c, S, x)) + d[x]
  BY <1>1, TotalSplit, Zenon
<1>4. QED
  BY <1>2, <1>3

\* A sum is a number.
LEMMA TotalType ==
  ASSUME NEW S, IsFiniteSet(S), NEW c \in [S -> Nat]
  PROVE  Total(c) \in Nat
<1>1. CASE S = {}
  <2>1. UNION {{x} \X (1 .. c[x]) : x \in DOMAIN c} = {}
    BY <1>1, Zenon
  <2>2. QED
    BY <2>1, FS_EmptySet DEF Total
<1>2. CASE S # {}
  BY <1>2, TotalChange, Zenon
<1>3. QED
  BY <1>1, <1>2, Zenon

\* The sum of a function that is zero everywhere.
LEMMA TotalZero ==
  ASSUME NEW S, NEW c \in [S -> Nat], \A a \in S : c[a] = 0
  PROVE  Total(c) = 0
<1>1. UNION {{x} \X (1 .. c[x]) : x \in DOMAIN c} = {}
  <2>1. \A x \in DOMAIN c : 1 .. c[x] = {}
    OBVIOUS
  <2>2. QED
    BY <2>1
<1>2. QED
  BY <1>1, FS_EmptySet, Zenon DEF Total

-----------------------------------------------------------------------------
(* The mempool *)

\* An entry holds a number of objects.
LEMMA HeldType ==
  ASSUME PcctAssumption, NEW k \in Key, NEW e \in Entry
  PROVE  Held(e, k) \in Nat
<1>1. NExts[k] \in Nat /\ e.pitExts["pit0"] \in Nat /\ e.pitExts["pit1"] \in Nat
  BY Zenon DEF PcctAssumption, Entry, PitKind
<1>2. QED
  BY <1>1 DEF Held

\* What an entry takes from the mempool it holds, and what it gives up it gives back.
LEMMA PoolKept ==
  ASSUME PcctAssumption, NEW tb \in Table, Pool(tb), NEW ub \in Table, NEW k \in Key, Others(tb, ub, k),
         ub.avail + Held(ub.pcc[k], k) = tb.avail + Held(tb.pcc[k], k)
  PROVE  Pool(ub)
<1> DEFINE c == [j \in Key |-> Held(tb.pcc[j], j)]
           d == [j \in Key |-> Held(ub.pcc[j], j)]
<1>1. c \in [Key -> Nat] /\ d \in [Key -> Nat]
  <2>1. \A j \in Key : tb.pcc[j] \in Entry /\ ub.pcc[j] \in Entry
    BY Zenon DEF Table
  <2>2. QED
    BY <2>1, HeldType, Zenon
<1>2. \A j \in Key \ {k} : d[j] = c[j]
  BY Zenon DEF Others
<1>3. IsFiniteSet(Key)
  BY Zenon DEF PcctAssumption
<1>4. c[k] = Held(tb.pcc[k], k) /\ d[k] = Held(ub.pcc[k], k)
  BY Zenon
<1>5. tb.avail + Total(c) = PoolSize
  BY Zenon DEF Pool
<1>6. tb.avail \in Nat /\ ub.avail \in Nat
  BY Zenon DEF Table
<1>7. c[k] \in Nat /\ d[k] \in Nat
  BY <1>1, Zenon
<1> HIDE DEF c, d
<1>8. Total(c) \in Nat /\ Total(d) = Total(c) - c[k] + d[k]
  BY <1>1, <1>2, <1>3, TotalChange, Zenon
<1>9. ub.avail + d[k] = tb.avail + c[k]
  BY <1>4, Zenon
<1>10. ub.avail + Total(d) = PoolSize
  BY <1>5, <1>6, <1>7, <1>8, <1>9
<1>11. QED
  BY <1>10, Zenon DEF Pool, d

\* A change that leaves alone what an entry holds.
LEMMA HeldSame ==
  ASSUME NEW e, NEW p, NEW k, e.live = p.live, e.ext = p.ext, e.pitExts = p.pitExts
  PROVE  Held(e, k) = Held(p, k)
BY Zenon DEF Held

-----------------------------------------------------------------------------
\* A new entry is an entry with no slot in use.
LEMMA FreshEntry == PcctAssumption => Fresh \in Entry /\ SlotsOf(Fresh)
BY DEF PcctAssumption, Fresh, Entry, SlotsOf, SlotsFit, Kind, PitKind, Slot

\* Pcct_Insert puts the entry into keyHt without slots or token, or finds it.
LEMMA InsertSound ==
  ASSUME PcctAssumption, NEW tb, Sound(tb), NEW k \in Key, CanInsert(tb, k)
  PROVE  Inserted(tb, Pcct_Insert(tb, k), k)
<1> USE DEF Inserted
<1> DEFINE e == [Fresh EXCEPT !.live = TRUE]
           ub == Pcct_Insert(tb, k)
<1>1. CASE tb.pcc[k].live
  BY <1>1, Zenon DEF Pcct_Insert, Others, Rest
<1>2. CASE ~tb.pcc[k].live
  <2>1. tb.pcc[k] = Fresh /\ tb \in Table /\ tb.avail - 1 - NExts[k] \in Nat
    BY <1>2 DEF Sound, CanInsert, Table, PcctAssumption
  <2>2. ub = [tb EXCEPT !.pcc[k] = e, !.avail = tb.avail - 1 - NExts[k]]
    BY <1>2, Zenon DEF Pcct_Insert
  <2>3. e \in Entry /\ SlotsOf(e) /\ e.live /\ e.token = 0 /\ e.at = Fresh.at /\ e.pitExts = Fresh.pitExts
    <3>1. e.at = Fresh.at /\ e.used = Fresh.used /\ e.ext = Fresh.ext /\ e.live /\ e.token = 0
          /\ e.pitExts = Fresh.pitExts
      BY Zenon DEF Fresh
    <3>2. e \in Entry
      BY FreshEntry, Zenon DEF Entry
    <3>3. QED
      BY <3>1, <3>2, FreshEntry, Zenon DEF SlotsOf
  <2>4. /\ ub.pcc = [tb.pcc EXCEPT ![k] = e] /\ ub.owner = tb.owner /\ ub.ok = tb.ok
        /\ ub.nPit = tb.nPit /\ ub.batch = tb.batch /\ ub.avail = tb.avail - 1 - NExts[k]
    BY <2>1, <2>2, Zenon DEF Table
  <2>5. ub \in Table
    <3>1. [tb.pcc EXCEPT ![k] = e] \in [Key -> Entry]
      BY <2>1, <2>3, Zenon DEF Table
    <3>2. QED
      BY <2>1, <2>2, <3>1, Zenon DEF Table
  <2>6. ub.pcc[k] = e /\ Others(tb, ub, k)
    BY <2>1, <2>4, Zenon DEF Table, Others
  <2>7. \A x \in Token : tb.owner[x] # k /\ x # 0
    BY <1>2 DEF Sound, Token
  <2>8. Sound(ub)
    <3>1. Held(tb.pcc[k], k) = 0
      BY <1>2, Zenon DEF Held
    <3>2. Held(e, k) = 1 + NExts[k]
      <4>1. e.live /\ ~e.ext /\ e.pitExts["pit0"] = 0 /\ e.pitExts["pit1"] = 0
        BY Zenon DEF Fresh, PitKind
      <4>2. NExts[k] \in Nat
        BY Zenon DEF PcctAssumption
      <4> HIDE DEF e
      <4>3. QED
        BY <4>1, <4>2 DEF Held
    <3>3. ub.avail + Held(e, k) = tb.avail + 0
      <4>1. tb.avail \in Nat /\ NExts[k] \in Nat
        BY <2>1, Zenon DEF Table, PcctAssumption
      <4> HIDE DEF e, ub
      <4>2. QED
        BY <2>4, <3>2, <4>1
    <3>4. Pool(ub)
      <4> HIDE DEF e, ub
      <4>1. QED
        BY <2>1, <2>5, <2>6, <3>1, <3>3, PoolKept, Zenon DEF Sound
    <3>5. QED
      BY <2>3, <2>4, <2>5, <2>6, <2>7, <3>4 DEF Sound, Others
  <2>9. QED
    BY <1>2, <2>1, <2>3, <2>4, <2>6, <2>8, Zenon DEF Rest, Fresh
<1>3. QED
  BY <1>1, <1>2, Zenon

\* The loop of Pcct_AddToken_ ends at a token nobody has: among the free tokens one is
\* the least number of increments away.
LEMMA FreeTokenFree ==
  ASSUME PcctAssumption, NEW tb \in Table, NEW refused, TokenLeft(tb, refused)
  PROVE  FreeToken(tb, refused) \in Token /\ tb.owner[FreeToken(tb, refused)] = NoKey
<1> DEFINE S == {x \in Token \ refused : tb.owner[x] = NoKey}
           T == {Steps(tb.lastToken, x) : x \in S}
           St(x) == Steps(tb.lastToken, x)
<1>1. SUFFICES \E x \in Token \ refused :
                 /\ tb.owner[x] = NoKey
                 /\ \A y \in Token \ refused : tb.owner[y] = NoKey => St(x) <= St(y)
  BY Zenon DEF FreeToken
<1>2. S # {}
  BY Zenon DEF TokenLeft
<1>3. \A x \in S : St(x) \in Nat
  BY DEF Steps, Token, PcctAssumption, Table
<1>4. T \subseteq Nat /\ T # {}
  BY <1>2, <1>3, Zenon
<1>5. PICK n \in T : \A m \in T : ~(<<m, n>> \in OpToRel(<, Nat))
  BY <1>4, NatLessThanWellFounded, WFMin, Zenon
<1>6. \A m \in T : n <= m
  <2>1. \A m \in T : ~(m < n)
    BY <1>4, <1>5, Zenon DEF OpToRel
  <2>2. QED
    BY <1>4, <2>1
<1>7. PICK x \in S : n = St(x)
  BY Zenon
<1>8. QED
  BY <1>6, <1>7, Zenon

\* Pcct_AddToken gives the entry a token unless it has one.
LEMMA AddTokenSound ==
  ASSUME PcctAssumption, NEW tb, Sound(tb), NEW k \in Key, NEW refused, TokenLeft(tb, refused), tb.pcc[k].live
  PROVE  TokenAdded(tb, Pcct_AddToken(tb, k, refused), k)
<1> USE DEF TokenAdded
<1> DEFINE x == FreeToken(tb, refused)
           e == [tb.pcc[k] EXCEPT !.token = x]
           ub == Pcct_AddToken(tb, k, refused)
<1>1. CASE tb.pcc[k].token # 0
  BY <1>1, Zenon DEF Pcct_AddToken, Others, Rest
<1>2. CASE tb.pcc[k].token = 0
  <2>1. tb \in Table /\ x \in Token /\ tb.owner[x] = NoKey /\ x # 0
    BY FreeTokenFree DEF Sound, Token
  <2> HIDE DEF x
  <2>2. ub = [tb EXCEPT !.owner[x] = k, !.lastToken = x, !.pcc[k].token = x]
    BY <1>2, Zenon DEF Pcct_AddToken, x
  <2>3. /\ ub.pcc = [tb.pcc EXCEPT ![k] = e] /\ ub.owner = [tb.owner EXCEPT ![x] = k] /\ ub.ok = tb.ok
        /\ ub.nPit = tb.nPit /\ ub.batch = tb.batch /\ ub.avail = tb.avail
    BY <2>1, <2>2, Zenon DEF Table
  <2>4. e \in Entry /\ e.token = x /\ e.live = tb.pcc[k].live /\ e.at = tb.pcc[k].at
        /\ e.used = tb.pcc[k].used /\ e.ext = tb.pcc[k].ext /\ e.pitExts = tb.pcc[k].pitExts
    <3>1. tb.pcc[k] \in Entry /\ x \in 0 .. MaxToken
      BY <2>1 DEF Table, Token, PcctAssumption
    <3>2. QED
      BY <3>1, Zenon DEF Entry
  <2>5. ub \in Table
    <3>1. [tb.pcc EXCEPT ![k] = e] \in [Key -> Entry] /\ [tb.owner EXCEPT ![x] = k] \in [Token -> Key \cup {NoKey}]
      BY <2>1, <2>4, Zenon DEF Table
    <3>2. ub = [pcc |-> [tb.pcc EXCEPT ![k] = e], owner |-> [tb.owner EXCEPT ![x] = k], lastToken |-> x,
                avail |-> tb.avail, nPit |-> tb.nPit, batch |-> tb.batch, ok |-> tb.ok]
      BY <2>1, <2>2, Zenon DEF Table
    <3>3. QED
      BY <2>1, <3>1, <3>2 DEF Table, Token
  <2>6. ub.pcc[k] = e /\ Others(tb, ub, k)
    BY <2>1, <2>3 DEF Table, Others
  <2>7. SlotsOf(e)
    BY <2>4, Zenon DEF Sound, SlotsOf
  <2>8. \A y \in Token, j \in Key : ub.owner[y] = j <=> ub.pcc[j].live /\ ub.pcc[j].token = y
    <3> SUFFICES ASSUME NEW y \in Token, NEW j \in Key
                 PROVE  ub.owner[y] = j <=> ub.pcc[j].live /\ ub.pcc[j].token = y
      BY Zenon
    <3>1. ub.owner[y] = IF y = x THEN k ELSE tb.owner[y]
      BY <2>1, <2>3 DEF Table
    <3>2. tb.owner[y] = j <=> tb.pcc[j].live /\ tb.pcc[j].token = y
      BY Zenon DEF Sound
    <3>3. tb.owner[x] = j <=> tb.pcc[j].live /\ tb.pcc[j].token = x
      BY <2>1, Zenon DEF Sound
    <3>4. NoKey \notin Key /\ y # 0
      BY DEF PcctAssumption, Token
    <3>5. CASE j = k
      BY <1>2, <2>4, <2>6, <3>1, <3>2, <3>4, <3>5, Zenon
    <3>6. CASE j # k
      BY <2>1, <2>6, <3>1, <3>2, <3>3, <3>4, <3>6, Zenon DEF Others
    <3>7. QED
      BY <3>5, <3>6, Zenon
  <2>9. Pool(ub)
    <3> HIDE DEF e, ub
    <3>1. Held(ub.pcc[k], k) = Held(tb.pcc[k], k)
      BY <2>4, <2>6, HeldSame, Zenon
    <3>2. QED
      BY <2>1, <2>3, <2>5, <2>6, <3>1, PoolKept, Zenon DEF Sound
  <2>10. Sound(ub)
    BY <2>3, <2>4, <2>5, <2>6, <2>7, <2>8, <2>9 DEF Sound, Others
  <2>11. QED
    BY <1>2, <2>1, <2>3, <2>4, <2>6, <2>10, Zenon DEF Rest
<1>3. QED
  BY <1>1, <1>2, Zenon

\* Pcct_RemoveToken finds the entry under its token, so that its assertion holds.
LEMMA RemoveTokenSound ==
  ASSUME PcctAssumption, NEW tb, Sound(tb), NEW k \in Key
  PROVE  TokenRemoved(tb, Pcct_RemoveToken(tb, k), k)
<1> USE DEF TokenRemoved
<1> DEFINE x == tb.pcc[k].token
           e == [tb.pcc[k] EXCEPT !.token = 0]
           ub == Pcct_RemoveToken(tb, k)
<1>1. CASE x = 0
  BY <1>1, Zenon DEF Pcct_RemoveToken, Others, Rest
<1>2. CASE x # 0
  <2>1. tb \in Table /\ x \in Token /\ tb.pcc[k].live /\ tb.owner[x] = k /\ tb.ok
    <3>1. tb \in Table /\ x \in Token /\ tb.ok
      BY <1>2 DEF Sound, Table, Entry, Token, PcctAssumption
    <3>2. tb.pcc[k].live
      BY <1>2 DEF Sound, Fresh
    <3>3. QED
      BY <3>1, <3>2, Zenon DEF Sound
  <2>2. ub = [tb EXCEPT !.owner[x] = NoKey, !.pcc[k].token = 0, !.ok = tb.ok /\ tb.owner[x] = k]
    BY <1>2, Zenon DEF Pcct_RemoveToken
  <2>3. /\ ub.pcc = [tb.pcc EXCEPT ![k] = e] /\ ub.owner = [tb.owner EXCEPT ![x] = NoKey] /\ ub.ok
        /\ ub.nPit = tb.nPit /\ ub.batch = tb.batch /\ ub.avail = tb.avail
    BY <2>1, <2>2 DEF Table
  <2>4. e \in Entry /\ e.token = 0 /\ e.live = tb.pcc[k].live /\ e.at = tb.pcc[k].at
        /\ e.used = tb.pcc[k].used /\ e.ext = tb.pcc[k].ext /\ e.pitExts = tb.pcc[k].pitExts
    <3>1. tb.pcc[k] \in Entry /\ 0 \in 0 .. MaxToken
      BY <2>1 DEF Table, Token, PcctAssumption
    <3>2. QED
      BY <3>1, Zenon DEF Entry
  <2>5. ub \in Table
    <3>1. [tb.pcc EXCEPT ![k] = e] \in [Key -> Entry] /\ [tb.owner EXCEPT ![x] = NoKey] \in [Token -> Key \cup {NoKey}]
      BY <2>1, <2>4, Zenon DEF Table
    <3>2. ub = [pcc |-> ub.pcc, owner |-> ub.owner, lastToken |-> ub.lastToken, avail |-> ub.avail,
                nPit |-> ub.nPit, batch |-> ub.batch, ok |-> ub.ok]
      BY <2>1, <2>2, Zenon DEF Table
    <3>3. ub.lastToken = tb.lastToken /\ ub.avail = tb.avail /\ ub.ok \in BOOLEAN
      BY <2>1, <2>2 DEF Table
    <3> HIDE DEF ub
    <3>4. QED
      BY <2>1, <2>3, <3>1, <3>2, <3>3, Zenon DEF Table
  <2>6. ub.pcc[k] = e /\ Others(tb, ub, k)
    BY <2>1, <2>3 DEF Table, Others
  <2>7. SlotsOf(e)
    BY <2>4, Zenon DEF Sound, SlotsOf
  <2>8. \A y \in Token, j \in Key : ub.owner[y] = j <=> ub.pcc[j].live /\ ub.pcc[j].token = y
    <3> SUFFICES ASSUME NEW y \in Token, NEW j \in Key
                 PROVE  ub.owner[y] = j <=> ub.pcc[j].live /\ ub.pcc[j].token = y
      BY Zenon
    <3>1. ub.owner[y] = IF y = x THEN NoKey ELSE tb.owner[y]
      BY <2>1, <2>3 DEF Table
    <3>2. tb.owner[y] = j <=> tb.pcc[j].live /\ tb.pcc[j].token = y
      BY Zenon DEF Sound
    <3>3. NoKey \notin Key /\ y # 0
      BY DEF PcctAssumption, Token
    <3>4. CASE j = k
      BY <2>1, <2>4, <2>6, <3>1, <3>2, <3>3, <3>4, Zenon
    <3>5. CASE j # k
      BY <2>1, <2>6, <3>1, <3>2, <3>3, <3>5 DEF Others
    <3>6. QED
      BY <3>4, <3>5, Zenon
  <2>9. Pool(ub)
    <3> HIDE DEF e, ub
    <3>1. Held(ub.pcc[k], k) = Held(tb.pcc[k], k)
      BY <2>4, <2>6, HeldSame, Zenon
    <3>2. QED
      BY <2>1, <2>3, <2>5, <2>6, <3>1, PoolKept, Zenon DEF Sound
  <2>10. Sound(ub)
    BY <2>1, <2>3, <2>4, <2>5, <2>6, <2>7, <2>8, <2>9 DEF Sound, Others
  <2>11. QED
    BY <2>3, <2>4, <2>6, <2>10, Zenon DEF Rest
<1>3. QED
  BY <1>1, <1>2, Zenon

\* An assertion that holds changes nothing.
LEMMA CheckSame ==
  ASSUME NEW tb, Sound(tb), NEW b \in BOOLEAN, b
  PROVE  Check(tb, b) = tb
<1>1. tb \in Table /\ tb.ok = TRUE /\ (tb.ok /\ b) = TRUE
  BY Zenon DEF Sound, Table
<1>2. Check(tb, b) = [tb EXCEPT !.ok = TRUE]
  BY <1>1, Zenon DEF Check
<1>3. QED
  BY <1>1, <1>2, Zenon DEF Table

\* Erasing an entry with nothing on it leaves no trace of it.
LEMMA EraseSound ==
  ASSUME PcctAssumption, NEW tb, Sound(tb), NEW k \in Key, ~HasEntries(tb, k), tb.pcc[k].live, Trim(tb.pcc[k])
  PROVE  Erased(tb, EraseBurst(tb, k), k)
<1> USE DEF Erased
<1> DEFINE t0 == Check(tb, ~HasEntries(tb, k))
           t1 == Pcct_RemoveToken(t0, k)
           n == t1.avail + 1 + NExts[k] + (IF t1.pcc[k].ext THEN 1 ELSE 0)
           ub == EraseBurst(tb, k)
<1>1. t0 = tb
  BY CheckSame, Zenon DEF HasEntries
<1>2. /\ Sound(t1) /\ Others(tb, t1, k) /\ Rest(tb, t1) /\ t1.pcc[k].token = 0 /\ t1.pcc[k].live
      /\ t1.pcc[k].pitExts["pit0"] = 0 /\ t1.pcc[k].pitExts["pit1"] = 0
  <2>1. TokenRemoved(tb, t1, k)
    BY <1>1, RemoveTokenSound, Zenon
  <2>2. QED
    BY <2>1, Zenon DEF TokenRemoved, Trim, HasEntries, HasPit, Has, PitKind
<1> HIDE DEF t1
<1>3. t1 \in Table /\ n \in Nat
  BY <1>2 DEF Sound, Table, PcctAssumption
<1>4. ub = [t1 EXCEPT !.pcc[k] = Fresh, !.avail = n]
  BY Zenon DEF EraseBurst, t1
<1>5. n = t1.avail + Held(t1.pcc[k], k)
  <2>1. NExts[k] \in Nat /\ t1.avail \in Nat
    BY <1>3, Zenon DEF PcctAssumption, Table
  <2>2. QED
    BY <1>2, <2>1 DEF Held
<1> HIDE DEF n
<1>6. [t1.pcc EXCEPT ![k] = Fresh] \in [Key -> Entry]
  BY <1>3, FreshEntry, Zenon DEF Table
<1>7. ub = [pcc |-> [t1.pcc EXCEPT ![k] = Fresh], owner |-> t1.owner, lastToken |-> t1.lastToken,
            avail |-> n, nPit |-> t1.nPit, batch |-> t1.batch, ok |-> t1.ok]
  BY <1>3, <1>4, Zenon DEF Table
<1> HIDE DEF ub
<1>8. ub \in Table
  BY <1>3, <1>6, <1>7, Zenon DEF Table
<1>9. ub.pcc[k] = Fresh /\ Others(t1, ub, k) /\ ub.owner = t1.owner
  BY <1>3, <1>7, Zenon DEF Table, Others
<1>10. \A y \in Token : t1.owner[y] # k
  BY <1>2 DEF Sound, Token
<1>11. Sound(ub)
  <2>1. \A y \in Token, j \in Key : ub.owner[y] = j <=> ub.pcc[j].live /\ ub.pcc[j].token = y
    <3> SUFFICES ASSUME NEW y \in Token, NEW j \in Key
                 PROVE  ub.owner[y] = j <=> ub.pcc[j].live /\ ub.pcc[j].token = y
      BY Zenon
    <3>1. CASE j = k
      BY <1>9, <1>10, <3>1 DEF Fresh
    <3>2. CASE j # k
      BY <1>2, <1>9, <3>2 DEF Sound, Others
    <3>3. QED
      BY <3>1, <3>2, Zenon
  <2>2. \A j \in Key : SlotsOf(ub.pcc[j]) /\ (~ub.pcc[j].live => ub.pcc[j] = Fresh)
    BY <1>2, <1>9, FreshEntry DEF Sound, Others
  <2>3. ub.ok
    BY <1>2, <1>7, Zenon DEF Sound
  <2>4. Pool(ub)
    <3>1. Held(ub.pcc[k], k) = 0
      <4>1. ~Fresh.live
        BY Zenon DEF Fresh
      <4>2. QED
        BY <1>9, <4>1, Zenon DEF Held
    <3>2. ub.avail = n
      BY <1>7, Zenon
    <3>3. ub.avail + Held(ub.pcc[k], k) = t1.avail + Held(t1.pcc[k], k)
      BY <1>3, <1>5, <3>1, <3>2
    <3>4. QED
      BY <1>2, <1>3, <1>8, <1>9, <3>3, PoolKept, Zenon DEF Sound
  <2>5. QED
    BY <1>8, <2>1, <2>2, <2>3, <2>4, Zenon DEF Sound
<1>12. QED
  BY <1>2, <1>7, <1>9, <1>11 DEF Rest, Others, ub

\* Nothing is on an erased entry.
LEMMA ErasedEmpty ==
  ASSUME NEW tb, NEW k, tb.pcc[k] = Fresh
  PROVE  (\A c \in Kind : ~Has(tb, k, c)) /\ ~HasPit(tb, k) /\ ~HasEntries(tb, k) /\ Settled(tb, k)
<1>1. Fresh.at = [c \in Kind |-> 0] /\ ~Fresh.live /\ Fresh.pitExts = [c \in PitKind |-> 0]
  BY Zenon DEF Fresh
<1>2. \A c \in Kind : ~Has(tb, k, c)
  BY <1>1, Zenon DEF Has
<1>3. ~HasPit(tb, k) /\ ~HasEntries(tb, k)
  BY <1>2, Zenon DEF HasEntries, HasPit, Kind, PitKind
<1>4. Trim(tb.pcc[k])
  BY <1>1, Zenon DEF Trim
<1>5. QED
  BY <1>1, <1>2, <1>3, <1>4, Zenon DEF Settled

\* PccEntry_AllocateSlot_ finds an unoccupied slot or none, and slot1 in an entry with
\* nothing on it.
LEMMA SlotForIs ==
  ASSUME NEW tb, Sound(tb), NEW k \in Key, NEW c \in Kind, ~Has(tb, k, c)
  PROVE  LET i == SlotFor(tb, k)
         IN /\ i \in 0 .. 3 /\ i \notin tb.pcc[k].used
            /\ i > 1 /\ ~tb.pcc[k].ext => tb.avail > 0
            /\ i = 1 => 1 \notin tb.pcc[k].used
            /\ tb.pcc[k].used = {} => i = 1
<1>1. tb.pcc[k] \in Entry /\ tb.avail \in Nat /\ tb.pcc[k].used \subseteq 1 .. 3
  BY Zenon DEF Sound, Table, Entry, Slot
<1>2. ~tb.pcc[k].ext => 2 \notin tb.pcc[k].used
  BY Zenon DEF Sound, SlotsOf, SlotsFit
<1>3. QED
  BY <1>1, <1>2 DEF SlotFor

\* Adding a PIT or CS entry takes a slot of its own, or changes nothing; the first one
\* always succeeds.
LEMMA AddSlotSound ==
  ASSUME PcctAssumption, NEW tb, Sound(tb), NEW k \in Key, NEW c \in Kind, ~Has(tb, k, c), tb.pcc[k].live
  PROVE  SlotAdded(tb, AddSlot(tb, k, c), k, c)
<1> USE DEF SlotAdded
<1> DEFINE i == SlotFor(tb, k)
           p == tb.pcc[k]
           grow == i > 1 /\ ~p.ext
           hasExt == p.ext \/ grow
           e == [live |-> p.live, token |-> p.token, at |-> [p.at EXCEPT ![c] = i], used |-> p.used \cup {i},
                 ext |-> hasExt, pitExts |-> p.pitExts]
           n == tb.avail - (IF grow THEN 1 ELSE 0)
           ub == AddSlot(tb, k, c)
<1>1. /\ i \in 0 .. 3 /\ i \notin p.used /\ (grow => tb.avail > 0) /\ (p.used = {} => i = 1)
      /\ tb \in Table /\ p \in Entry /\ SlotsOf(p) /\ p.at[c] = 0
  BY SlotForIs DEF Sound, Table, Has
<1>2. CASE i = 0
  BY <1>1, <1>2 DEF AddSlot, Others, Rest
<1>3. CASE i # 0
  <2> HIDE DEF i
  <2>1. ub = [tb EXCEPT !.pcc[k].at[c] = i, !.pcc[k].used = p.used \cup {i},
                        !.pcc[k].ext = hasExt, !.avail = n]
    BY <1>3, Zenon DEF AddSlot, i
  <2>2. e \in Entry
    BY <1>1, <1>3 DEF Entry, Slot, Kind
  <2>3. n \in Nat
    BY <1>1 DEF Table
  <2>4. tb.pcc \in [Key -> Entry]
    BY <1>1, Zenon DEF Table
  <2>5. ub.pcc = [tb.pcc EXCEPT ![k] = e]
    <3>1. ub.pcc = [tb.pcc EXCEPT ![k].at[c] = i, ![k].used = p.used \cup {i}, ![k].ext = hasExt]
      BY <1>1, <2>1 DEF Table
    <3>2. e = [p EXCEPT !.at[c] = i, !.used = p.used \cup {i}, !.ext = hasExt]
      <4> DEFINE q == [p EXCEPT !.at[c] = i, !.used = p.used \cup {i}, !.ext = hasExt]
      <4>1. p \in Entry /\ i \in 0 .. 3 /\ hasExt \in BOOLEAN /\ p.used \cup {i} \in SUBSET Slot
        BY <1>1, <1>3 DEF Entry, Slot
      <4> HIDE DEF hasExt, p
      <4>2. /\ q \in Entry
            /\ q.live = e.live /\ q.token = e.token /\ q.at = e.at /\ q.used = e.used /\ q.ext = e.ext
            /\ q.pitExts = e.pitExts
        BY <4>1, Zenon DEF Entry
      <4> HIDE DEF q, e
      <4>3. q = e
        BY <2>2, <4>2 DEF Entry
      <4>4. QED
        BY <4>3, Zenon DEF q
    <3> HIDE DEF ub, e, hasExt
    <3>3. QED
      BY <2>4, <3>1, <3>2, Zenon
  <2>6. ub.owner = tb.owner /\ ub.lastToken = tb.lastToken /\ ub.avail = n /\ ub.nPit = tb.nPit
        /\ ub.batch = tb.batch /\ ub.ok = tb.ok
    BY <1>1, <2>1, Zenon DEF Table
  <2>7. ub = [pcc |-> ub.pcc, owner |-> ub.owner, lastToken |-> ub.lastToken, avail |-> ub.avail,
              nPit |-> ub.nPit, batch |-> ub.batch, ok |-> ub.ok]
    BY <1>1, <2>1, Zenon DEF Table
  <2> HIDE DEF ub, n
  <2>8. SlotsOf(e)
    <3> HIDE DEF grow
    <3>1. \A b \in Kind : e.at[b] = IF b = c THEN i ELSE p.at[b]
      BY <1>1, Zenon DEF Entry
    <3>2. \A b \in Kind \ {c} : p.at[b] # i
      BY <1>1, <1>3, Zenon DEF SlotsOf, SlotsFit
    <3>3. \A c1, c2 \in Kind : e.at[c1] = e.at[c2] /\ e.at[c1] # 0 => c1 = c2
      BY <1>1, <3>1, <3>2 DEF SlotsOf, SlotsFit
    <3>4. e.used = {e.at[b] : b \in Kind} \ {0}
      BY <1>1, <1>3, <3>1 DEF SlotsOf, SlotsFit
    <3>5. e.ext <=> e.used \cap {2, 3} # {}
      <4>1. e.ext <=> p.ext \/ i > 1
        BY Zenon DEF grow
      <4>2. i \in {1, 2, 3} /\ (p.ext <=> p.used \cap {2, 3} # {})
        BY <1>1, <1>3 DEF SlotsOf, SlotsFit
      <4>3. e.used = p.used \cup {i}
        BY Zenon
      <4> HIDE DEF e, p
      <4>4. QED
        BY <4>1, <4>2, <4>3
    <3>6. QED
      BY <3>3, <3>4, <3>5, Zenon DEF SlotsOf, SlotsFit
  <2>9. ub \in Table
    <3>1. [tb.pcc EXCEPT ![k] = e] \in [Key -> Entry]
      BY <2>2, <2>4, Zenon
    <3>2. QED
      BY <1>1, <2>3, <2>5, <2>6, <2>7, <3>1, Zenon DEF Table
  <2>10. ub.pcc[k] = e /\ Others(tb, ub, k)
    BY <2>4, <2>5, Zenon DEF Others
  <2>11. e.live = p.live /\ e.token = p.token /\ e.pitExts = p.pitExts
    BY Zenon
  <2>12. Pool(ub)
    <3>1. /\ p.live /\ e.live /\ (e.ext <=> p.ext \/ grow) /\ (grow => ~p.ext)
          /\ n = tb.avail - (IF grow THEN 1 ELSE 0)
      BY Zenon DEF n
    <3>2. /\ NExts[k] \in Nat /\ tb.avail \in Nat /\ p.pitExts["pit0"] \in Nat /\ p.pitExts["pit1"] \in Nat
      BY <1>1, Zenon DEF PcctAssumption, Table, Entry, PitKind
    <3> HIDE DEF e, p, grow
    <3>3. n + Held(e, k) = tb.avail + Held(p, k)
      BY <2>11, <3>1, <3>2 DEF Held
    <3>4. QED
      BY <1>1, <2>6, <2>9, <2>10, <3>3, PoolKept, Zenon DEF Sound, p
  <2>13. Sound(ub)
    BY <2>6, <2>8, <2>9, <2>10, <2>11, <2>12 DEF Sound, Others
  <2>14. \A b \in Kind : e.at[b] = IF b = c THEN i ELSE p.at[b]
    BY <1>1, Zenon DEF Entry
  <2>15. QED
    BY <1>3, <2>6, <2>10, <2>11, <2>13, <2>14, Zenon DEF Rest, Has, ub
<1>4. QED
  BY <1>2, <1>3, Zenon

\* Removing a PIT or CS entry frees its slot and no other, and the slot extension with
\* the last slot in it.
LEMMA RemoveSlotSound ==
  ASSUME PcctAssumption, NEW tb, Sound(tb), NEW k \in Key, NEW c \in Kind, Has(tb, k, c)
  PROVE  SlotRemoved(tb, RemoveSlot(tb, k, c), k, c)
<1> USE DEF SlotRemoved
<1> DEFINE p == tb.pcc[k]
           i == p.at[c]
           rest == p.used \ {i}
           shrink == i > 1 /\ rest \cap {2, 3} = {}
           hasExt == p.ext /\ ~shrink
           e == [live |-> p.live, token |-> p.token, at |-> [p.at EXCEPT ![c] = 0], used |-> rest,
                 ext |-> hasExt, pitExts |-> p.pitExts]
           n == tb.avail + (IF shrink THEN 1 ELSE 0)
           ub == RemoveSlot(tb, k, c)
<1>1. /\ tb \in Table /\ tb.ok /\ tb.pcc \in [Key -> Entry] /\ p \in Entry /\ SlotsOf(p) /\ p.live
      /\ i \in {1, 2, 3} /\ i \in p.used
  <2>1. tb \in Table /\ tb.ok /\ tb.pcc \in [Key -> Entry] /\ p \in Entry /\ SlotsOf(p) /\ i # 0
    BY Zenon DEF Sound, Table, Has
  <2>2. p.live
    BY <2>1 DEF Sound, Fresh
  <2>3. i \in {1, 2, 3} /\ i \in p.used
    BY <2>1 DEF Entry, SlotsOf, SlotsFit
  <2>4. QED
    BY <2>1, <2>2, <2>3, Zenon
<1>2. ub = [tb EXCEPT !.pcc[k].at[c] = 0, !.pcc[k].used = rest, !.pcc[k].ext = hasExt,
                      !.avail = n, !.ok = tb.ok /\ (i > 1 => p.ext)]
  BY Zenon DEF RemoveSlot
<1>3. e \in Entry
  BY <1>1 DEF Entry, Slot, Kind
<1>4. n \in Nat
  BY <1>1 DEF Table
<1>5. ub.pcc = [tb.pcc EXCEPT ![k] = e]
  <2>1. ub.pcc = [tb.pcc EXCEPT ![k].at[c] = 0, ![k].used = rest, ![k].ext = hasExt]
    BY <1>1, <1>2 DEF Table
  <2>2. e = [p EXCEPT !.at[c] = 0, !.used = rest, !.ext = hasExt]
    <3> DEFINE q == [p EXCEPT !.at[c] = 0, !.used = rest, !.ext = hasExt]
    <3>1. p \in Entry /\ hasExt \in BOOLEAN /\ rest \in SUBSET Slot /\ 0 \in 0 .. 3
      BY <1>1 DEF Entry, Slot
    <3> HIDE DEF hasExt, rest, p
    <3>2. /\ q \in Entry
          /\ q.live = e.live /\ q.token = e.token /\ q.at = e.at /\ q.used = e.used /\ q.ext = e.ext
          /\ q.pitExts = e.pitExts
      BY <3>1, Zenon DEF Entry
    <3> HIDE DEF q, e
    <3>3. q = e
      BY <1>3, <3>2 DEF Entry
    <3>4. QED
      BY <3>3, Zenon DEF q
  <2> HIDE DEF ub, e, rest, hasExt
  <2>3. QED
    BY <1>1, <2>1, <2>2, Zenon
<1>6. ub.owner = tb.owner /\ ub.lastToken = tb.lastToken /\ ub.avail = n /\ ub.nPit = tb.nPit
      /\ ub.batch = tb.batch
  BY <1>1, <1>2, Zenon DEF Table
<1>7. ub.ok \in BOOLEAN /\ ub.ok /\ (i > 1 => p.ext)
  <2>1. i > 1 => p.ext
    BY <1>1, SMTT(30) DEF SlotsOf, SlotsFit
  <2>2. QED
    BY <1>1, <1>2, <2>1, Zenon DEF Table
<1>8. ub = [pcc |-> ub.pcc, owner |-> ub.owner, lastToken |-> ub.lastToken, avail |-> ub.avail,
            nPit |-> ub.nPit, batch |-> ub.batch, ok |-> ub.ok]
  BY <1>1, <1>2, Zenon DEF Table
<1> HIDE DEF ub, n
<1>9. \A b \in Kind : e.at[b] = IF b = c THEN 0 ELSE p.at[b]
  BY <1>1, Zenon DEF Entry
<1>10. SlotsOf(e)
  <2>1. \A b \in Kind \ {c} : p.at[b] # i
    BY <1>1, Zenon DEF SlotsOf, SlotsFit
  <2>2. \A c1, c2 \in Kind : e.at[c1] = e.at[c2] /\ e.at[c1] # 0 => c1 = c2
    BY <1>1, <1>9 DEF SlotsOf, SlotsFit
  <2>3. e.used = {e.at[b] : b \in Kind} \ {0}
    BY <1>1, <1>9, <2>1 DEF SlotsOf, SlotsFit
  <2>4. e.ext <=> e.used \cap {2, 3} # {}
    <3>1. (e.ext <=> p.ext /\ ~(i > 1 /\ e.used \cap {2, 3} = {})) /\ e.used = p.used \ {i}
      BY Zenon
    <3>2. p.ext <=> p.used \cap {2, 3} # {}
      BY <1>1, Zenon DEF SlotsOf, SlotsFit
    <3> HIDE DEF e, p, i
    <3>3. QED
      BY <1>1, <3>1, <3>2
  <2>5. QED
    BY <2>2, <2>3, <2>4, Zenon DEF SlotsOf, SlotsFit
<1>11. ub \in Table
  <2>1. [tb.pcc EXCEPT ![k] = e] \in [Key -> Entry]
    BY <1>1, <1>3, Zenon
  <2>2. QED
    BY <1>1, <1>4, <1>5, <1>6, <1>7, <1>8, <2>1, Zenon DEF Table
<1>12. ub.pcc[k] = e /\ Others(tb, ub, k)
  BY <1>1, <1>5 DEF Others
<1>13. /\ e.live = p.live /\ e.token = p.token /\ e.at[c] = 0 /\ e.pitExts = p.pitExts
       /\ \A b \in Kind \ {c} : e.at[b] = p.at[b]
  BY <1>1, Zenon DEF Entry
<1>14. Pool(ub)
  <2>1. p.live /\ e.live /\ (e.ext <=> p.ext /\ ~shrink) /\ (shrink => p.ext)
        /\ n = tb.avail + (IF shrink THEN 1 ELSE 0)
    BY <1>1, <1>7, Zenon DEF n
  <2>2. NExts[k] \in Nat /\ tb.avail \in Nat /\ p.pitExts["pit0"] \in Nat /\ p.pitExts["pit1"] \in Nat
    BY <1>1, Zenon DEF PcctAssumption, Table, Entry, PitKind
  <2> HIDE DEF e, p, shrink
  <2>3. n + Held(e, k) = tb.avail + Held(p, k)
    BY <1>13, <2>1, <2>2 DEF Held
  <2>4. QED
    BY <1>1, <1>6, <1>11, <1>12, <2>3, PoolKept, Zenon DEF Sound, p
<1>15. Sound(ub)
  <2>1. ub.pcc[k].live = p.live /\ ub.pcc[k].token = p.token /\ SlotsOf(ub.pcc[k])
    BY <1>10, <1>12, <1>13, Zenon
  <2> HIDE DEF e
  <2>2. \A x \in Token, j \in Key : ub.owner[x] = j <=> ub.pcc[j].live /\ ub.pcc[j].token = x
    BY <1>6, <1>12, <2>1 DEF Sound, Others
  <2>3. \A j \in Key : SlotsOf(ub.pcc[j]) /\ (~ub.pcc[j].live => ub.pcc[j] = Fresh)
    BY <1>1, <1>12, <2>1, ZenonT(40) DEF Sound, Others
  <2>4. QED
    BY <1>7, <1>11, <1>14, <2>2, <2>3, Zenon DEF Sound
<1>16. QED
  BY <1>6, <1>12, <1>13, <1>15, Zenon DEF Rest, Has, ub

\* PitEntry_Finalize only gives mempool objects back.
LEMMA FinalizeSound ==
  ASSUME PcctAssumption, NEW tb, Sound(tb), NEW k \in Key, NEW c \in PitKind
  PROVE  Finalized(tb, PitEntry_Finalize(tb, k, c), k, c)
<1> USE DEF Finalized
<1> DEFINE p == tb.pcc[k]
           e == [live |-> p.live, token |-> p.token, at |-> p.at, used |-> p.used, ext |-> p.ext,
                 pitExts |-> [p.pitExts EXCEPT ![c] = 0]]
           n == tb.avail + p.pitExts[c]
           ub == PitEntry_Finalize(tb, k, c)
<1>1. tb \in Table /\ tb.pcc \in [Key -> Entry] /\ p \in Entry /\ SlotsOf(p)
  BY Zenon DEF Sound, Table
<1>2. ub = [tb EXCEPT !.avail = n, !.pcc[k].pitExts[c] = 0]
  BY Zenon DEF PitEntry_Finalize
<1>3. e \in Entry /\ n \in Nat
  BY <1>1 DEF Entry, Table
<1>4. ub.pcc = [tb.pcc EXCEPT ![k] = e]
  <2>1. ub.pcc = [tb.pcc EXCEPT ![k].pitExts[c] = 0]
    BY <1>1, <1>2, Zenon DEF Table
  <2>2. e = [p EXCEPT !.pitExts[c] = 0]
    BY <1>1 DEF Entry
  <2> HIDE DEF ub, e
  <2>3. QED
    BY <1>1, <2>1, <2>2, Zenon
<1>5. ub.owner = tb.owner /\ ub.lastToken = tb.lastToken /\ ub.avail = n /\ ub.nPit = tb.nPit
      /\ ub.batch = tb.batch /\ ub.ok = tb.ok
  BY <1>1, <1>2, Zenon DEF Table
<1>6. ub = [pcc |-> ub.pcc, owner |-> ub.owner, lastToken |-> ub.lastToken, avail |-> ub.avail,
            nPit |-> ub.nPit, batch |-> ub.batch, ok |-> ub.ok]
  BY <1>1, <1>2, Zenon DEF Table
<1> HIDE DEF ub, n
<1>7. ub \in Table
  <2>1. [tb.pcc EXCEPT ![k] = e] \in [Key -> Entry]
    BY <1>1, <1>3, Zenon
  <2>2. QED
    BY <1>1, <1>3, <1>4, <1>5, <1>6, <2>1, Zenon DEF Table
<1>8. ub.pcc[k] = e /\ Others(tb, ub, k)
  BY <1>1, <1>4, Zenon DEF Others
<1>9. e.live = p.live /\ e.token = p.token /\ e.at = p.at /\ e.used = p.used /\ e.ext = p.ext
      /\ e.pitExts = [p.pitExts EXCEPT ![c] = 0]
  BY Zenon
<1>10. SlotsOf(e)
  BY <1>1, <1>9, Zenon DEF SlotsOf
<1>11. Pool(ub) \/ ~p.live
  <2>1. NExts[k] \in Nat /\ tb.avail \in Nat /\ p.pitExts \in [PitKind -> Nat] /\ n = tb.avail + p.pitExts[c]
    BY <1>1, Zenon DEF PcctAssumption, Table, Entry, n
  <2> HIDE DEF e, p
  <2>2. p.live => n + Held(e, k) = tb.avail + Held(p, k)
    BY <1>9, <2>1 DEF Held, PitKind
  <2>3. QED
    BY <1>1, <1>5, <1>7, <1>8, <2>2, PoolKept, Zenon DEF Sound, p
<1>12. tb.pcc[k].live => Sound(ub)
  BY <1>5, <1>7, <1>8, <1>9, <1>10, <1>11 DEF Sound, Others
<1>13. QED
  BY <1>5, <1>8, <1>9, <1>12, Zenon DEF Rest, ub

-----------------------------------------------------------------------------
\* There are finitely many PIT entries.
LEMMA PitsFinite == ASSUME PcctAssumption, NEW tb PROVE IsFiniteSet(Pits(tb))
<1>1. IsFiniteSet(PitKind)
  <2>1. IsFiniteSet({"pit0"})
    BY FS_Singleton, Zenon
  <2>2. PitKind = {"pit0"} \cup {"pit1"}
    BY Zenon DEF PitKind
  <2>3. QED
    BY <2>1, <2>2, FS_AddElement, Zenon
<1>2. IsFiniteSet(Key \X PitKind)
  BY <1>1, FS_Product, Zenon DEF PcctAssumption
<1>3. QED
  BY <1>2, FS_Subset, Zenon DEF Pits

\* Tables that agree on who has a PIT entry have the same ones.
LEMMA PitsSame ==
  ASSUME NEW tb, NEW ub, SamePits(tb, ub)
  PROVE  Pits(ub) = Pits(tb)
<1>1. \A p \in Key \X PitKind : Has(ub, p[1], p[2]) <=> Has(tb, p[1], p[2])
  BY Zenon DEF SamePits
<1>2. QED
  BY <1>1, Zenon DEF Pits

\* A new PIT entry is one more.
LEMMA PitsAdd ==
  ASSUME PcctAssumption, NEW tb, NEW ub, NEW k \in Key, NEW c \in PitKind,
         ~Has(tb, k, c), Has(ub, k, c),
         \A j \in Key, b \in PitKind : <<j, b>> # <<k, c>> => (Has(ub, j, b) <=> Has(tb, j, b))
  PROVE  Cardinality(Pits(ub)) = Cardinality(Pits(tb)) + 1 /\ Cardinality(Pits(tb)) \in Nat
<1>1. Pits(ub) = Pits(tb) \cup {<<k, c>>} /\ <<k, c>> \notin Pits(tb)
  BY DEF Pits
<1>2. QED
  BY <1>1, PitsFinite, FS_AddElement, FS_CardinalityType, Zenon

\* Sound does not depend on the counters.
LEMMA SameSound ==
  ASSUME NEW tb, Sound(tb), NEW ub \in Table, ub.pcc = tb.pcc, ub.owner = tb.owner, ub.ok = tb.ok,
         ub.avail = tb.avail
  PROVE  Sound(ub)
BY DEF Sound, Pool

\* An entry with nothing on it has no slot in use.
LEMMA NoPlaceNoUse ==
  ASSUME NEW tb, Sound(tb), NEW k \in Key, ~HasEntries(tb, k)
  PROVE  tb.pcc[k].used = {}
<1>1. \A c \in Kind : tb.pcc[k].at[c] = 0
  BY Zenon DEF HasEntries, HasPit, Has, Kind, PitKind
<1>2. QED
  BY <1>1 DEF Sound, SlotsOf, SlotsFit

\* An entry with something on it is in keyHt.
LEMMA HasIsLive ==
  ASSUME NEW tb, Sound(tb), NEW k \in Key, NEW c \in Kind, Has(tb, k, c)
  PROVE  tb.pcc[k].live
BY DEF Sound, Has, Fresh, Kind, PitKind

\* Pit.nEntries-- after the slot of a PIT entry was cleared, as Pit_Erase and
\* Pit_RawErase01_ do it, keeps the count.
LEMMA GoneSound ==
  ASSUME PcctAssumption, NEW tb, Sound(tb), Counted(tb), NEW k \in Key, NEW c \in PitKind, Has(tb, k, c),
         NEW vb, Sound(vb), Others(tb, vb, k), Rest(tb, vb), vb.pcc[k].live,
         vb.pcc[k].token = tb.pcc[k].token, ~Has(vb, k, c),
         \A b \in Kind \ {c} : vb.pcc[k].at[b] = tb.pcc[k].at[b],
         vb.pcc[k].pitExts = [tb.pcc[k].pitExts EXCEPT ![c] = 0]
  PROVE  PitGone(tb, [vb EXCEPT !.nPit = @ - 1], k, c)
<1> USE DEF PitGone
<1> DEFINE ub == [vb EXCEPT !.nPit = @ - 1]
<1>1. vb \in Table /\ vb.nPit \in Int
  BY Zenon DEF Sound, Table
<1>2. /\ ub \in Table /\ ub.pcc = vb.pcc /\ ub.owner = vb.owner /\ ub.ok = vb.ok
      /\ ub.nPit = vb.nPit - 1 /\ ub.batch = vb.batch /\ ub.avail = vb.avail
  BY <1>1 DEF Table
<1> HIDE DEF ub
<1>3. Sound(ub)
  BY <1>2, SameSound, Zenon
<1>4. ~Has(ub, k, c) /\ \A b \in Kind \ {c} : ub.pcc[k].at[b] = tb.pcc[k].at[b]
  BY <1>2, Zenon DEF Has
<1>5. \A j \in Key, b \in PitKind : <<j, b>> # <<k, c>> => (Has(tb, j, b) <=> Has(ub, j, b))
  BY <1>2, <1>4 DEF Has, Others, Kind
<1>6. Cardinality(Pits(tb)) = Cardinality(Pits(ub)) + 1 /\ Cardinality(Pits(ub)) \in Nat
  BY <1>4, <1>5, PitsAdd
<1>7. Counted(ub)
  BY <1>2, <1>6 DEF Counted, Rest
<1>8. Trim(tb.pcc[k]) => Trim(ub.pcc[k])
  <2>1. tb.pcc[k].pitExts \in [PitKind -> Nat]
    BY Zenon DEF Sound, Table, Entry
  <2>2. \A b \in PitKind : ub.pcc[k].pitExts[b] = IF b = c THEN 0 ELSE tb.pcc[k].pitExts[b]
    <3>1. ub.pcc[k].pitExts = [tb.pcc[k].pitExts EXCEPT ![c] = 0]
      BY <1>2, Zenon
    <3>2. QED
      BY <2>1, <3>1
  <2>3. \A b \in PitKind \ {c} : ub.pcc[k].at[b] = tb.pcc[k].at[b]
    BY <1>4, Zenon DEF Kind
  <2>4. QED
    BY <2>2, <2>3, Zenon DEF Trim
<1>9. QED
  BY <1>2, <1>3, <1>4, <1>7, <1>8, Zenon DEF Others, Rest, ub

\* Pit_RawErase01_ for one MustBeFresh value.
LEMMA RawEraseSound ==
  ASSUME PcctAssumption, NEW tb, Sound(tb), Counted(tb), NEW k \in Key, NEW c \in PitKind
  PROVE  RawErased(tb, RawErase(tb, k, c), k, c)
<1> USE DEF RawErased
<1>1. CASE ~Has(tb, k, c)
  BY <1>1, Zenon DEF RawErase, Others
<1>2. CASE Has(tb, k, c)
  <2> DEFINE t0 == PitEntry_Finalize(tb, k, c)
             t1 == RemoveSlot(t0, k, c)
  <2>1. c \in Kind /\ tb.pcc[k].live
    BY <1>2, HasIsLive, Zenon DEF Kind
  <2>2. /\ Sound(t0) /\ Others(tb, t0, k) /\ Rest(tb, t0) /\ t0.pcc[k].live
        /\ t0.pcc[k].token = tb.pcc[k].token /\ t0.pcc[k].at = tb.pcc[k].at
        /\ t0.pcc[k].pitExts = [tb.pcc[k].pitExts EXCEPT ![c] = 0]
    <3>1. Finalized(tb, t0, k, c)
      BY <2>1, FinalizeSound, Zenon
    <3>2. QED
      BY <2>1, <3>1, Zenon DEF Finalized
  <2> HIDE DEF t0
  <2>3. Sound(t0) /\ c \in Kind /\ Has(t0, k, c)
    BY <1>2, <2>1, <2>2, Zenon DEF Has
  <2>4. /\ Sound(t1) /\ Others(t0, t1, k) /\ Rest(t0, t1) /\ t1.pcc[k].live = t0.pcc[k].live
        /\ t1.pcc[k].token = t0.pcc[k].token /\ ~Has(t1, k, c)
        /\ t1.pcc[k].pitExts = t0.pcc[k].pitExts
        /\ \A b \in Kind \ {c} : t1.pcc[k].at[b] = t0.pcc[k].at[b]
    <3>1. SlotRemoved(t0, t1, k, c)
      BY <2>3, RemoveSlotSound, Zenon
    <3>2. QED
      BY <3>1, Zenon DEF SlotRemoved
  <2> HIDE DEF t1
  <2>5. /\ Others(tb, t1, k) /\ Rest(tb, t1) /\ t1.pcc[k].live /\ t1.pcc[k].token = tb.pcc[k].token
        /\ t1.pcc[k].pitExts = [tb.pcc[k].pitExts EXCEPT ![c] = 0]
        /\ \A b \in Kind \ {c} : t1.pcc[k].at[b] = tb.pcc[k].at[b]
    BY <2>2, <2>4, Zenon DEF Others, Rest
  <2> DEFINE ub == [t1 EXCEPT !.nPit = @ - 1]
  <2>6. /\ Sound(ub) /\ Counted(ub) /\ Others(tb, ub, k) /\ ub.batch = tb.batch
        /\ ub.pcc[k].live /\ ub.pcc[k].token = tb.pcc[k].token
        /\ (Trim(tb.pcc[k]) => Trim(ub.pcc[k]))
        /\ ~Has(ub, k, c) /\ \A b \in Kind \ {c} : ub.pcc[k].at[b] = tb.pcc[k].at[b]
    <3>1. PitGone(tb, ub, k, c)
      BY <1>2, <2>4, <2>5, GoneSound, Zenon
    <3>2. QED
      BY <3>1, Zenon DEF PitGone
  <2>7. RawErase(tb, k, c) = ub
    BY <1>2, Zenon DEF RawErase, t0, t1
  <2> HIDE DEF ub
  <2>8. QED
    BY <2>1, <2>6, <2>7, Zenon
<1>3. QED
  BY <1>1, <1>2, Zenon

\* Pit_RawErase01_ leaves the entry in keyHt with at most its CS entry.
LEMMA RawErase01Sound ==
  ASSUME PcctAssumption, NEW tb, Sound(tb), Counted(tb), NEW k \in Key
  PROVE  PitsErased(tb, Pit_RawErase01(tb, k), k)
<1> USE DEF PitsErased
<1> DEFINE t0 == RawErase(tb, k, "pit0")
           t1 == RawErase(t0, k, "pit1")
           ub == Pcct_RemoveToken(t1, k)
<1>1. "pit0" \in PitKind /\ "pit1" \in PitKind /\ "pit0" \in Kind \ {"pit1"} /\ "cs" \in Kind \ {"pit0"}
      /\ "cs" \in Kind \ {"pit1"}
  BY Zenon DEF PitKind, Kind
<1>2. /\ Sound(t0) /\ Counted(t0) /\ Others(tb, t0, k) /\ t0.batch = tb.batch
      /\ t0.pcc[k].live = tb.pcc[k].live /\ ~Has(t0, k, "pit0") /\ t0.pcc[k].at["cs"] = tb.pcc[k].at["cs"]
      /\ (Trim(tb.pcc[k]) => Trim(t0.pcc[k]))
  <2>1. RawErased(tb, t0, k, "pit0")
    BY <1>1, RawEraseSound, Zenon
  <2>2. QED
    BY <1>1, <2>1, Zenon DEF RawErased
<1> HIDE DEF t0
<1>3. /\ Sound(t1) /\ Counted(t1) /\ Others(t0, t1, k) /\ t1.batch = t0.batch
      /\ t1.pcc[k].live = t0.pcc[k].live /\ ~Has(t1, k, "pit1") /\ t1.pcc[k].at["cs"] = t0.pcc[k].at["cs"]
      /\ t1.pcc[k].at["pit0"] = t0.pcc[k].at["pit0"] /\ (Trim(t0.pcc[k]) => Trim(t1.pcc[k]))
  <2>1. RawErased(t0, t1, k, "pit1")
    BY <1>1, <1>2, RawEraseSound, Zenon
  <2>2. QED
    BY <1>1, <2>1, Zenon DEF RawErased
<1> HIDE DEF t1
<1>4. /\ Sound(ub) /\ Others(t1, ub, k) /\ Rest(t1, ub)
      /\ ub.pcc[k].live = t1.pcc[k].live /\ ub.pcc[k].at = t1.pcc[k].at
      /\ ub.pcc[k].pitExts = t1.pcc[k].pitExts
  <2>1. TokenRemoved(t1, ub, k)
    BY <1>3, RemoveTokenSound, Zenon
  <2>2. QED
    BY <2>1, Zenon DEF TokenRemoved
<1>5. Pit_RawErase01(tb, k) = ub
  BY Zenon DEF Pit_RawErase01, t0, t1
<1> HIDE DEF ub
<1>6. SamePits(t1, ub)
  BY <1>4, Zenon DEF SamePits, Others, Has
<1>7. Counted(ub)
  BY <1>3, <1>4, <1>6, PitsSame, Zenon DEF Counted, Rest
<1>8. Trim(t1.pcc[k]) => Trim(ub.pcc[k])
  BY <1>4, Zenon DEF Trim
<1>9. QED
  BY <1>2, <1>3, <1>4, <1>5, <1>7, <1>8, Zenon DEF Others, Rest, HasPit, Has

\* CsEraseBatch_Append_ removes the CS entry and, unless a PIT entry is left, the entry;
\* a PIT entry that is left keeps its token.
LEMMA EraseCsSound ==
  ASSUME PcctAssumption, NEW tb, Sound(tb), Counted(tb), NEW k \in Key, Has(tb, k, "cs"),
         HasPit(tb, k) => tb.pcc[k].token # 0, Trim(tb.pcc[k])
  PROVE  CsErased(tb, EraseCs(tb, k), k)
<1> USE DEF CsErased
<1> DEFINE t1 == RemoveSlot(tb, k, "cs")
           ub == EraseCs(tb, k)
<1>1. tb.pcc[k].live /\ "cs" \in Kind /\ "cs" \notin PitKind /\ PitKind \subseteq Kind
  <2>1. "cs" \in Kind /\ "cs" \notin PitKind /\ PitKind \subseteq Kind
    BY Zenon DEF Kind, PitKind
  <2>2. QED
    BY <2>1, HasIsLive, Zenon
<1>2. /\ Sound(t1) /\ Others(tb, t1, k) /\ Rest(tb, t1) /\ t1.pcc[k].live = tb.pcc[k].live
      /\ t1.pcc[k].token = tb.pcc[k].token /\ ~Has(t1, k, "cs")
      /\ t1.pcc[k].pitExts = tb.pcc[k].pitExts
      /\ \A b \in Kind \ {"cs"} : t1.pcc[k].at[b] = tb.pcc[k].at[b]
  <2>1. SlotRemoved(tb, t1, k, "cs")
    BY <1>1, RemoveSlotSound, Zenon
  <2>2. QED
    BY <2>1, Zenon DEF SlotRemoved
<1> HIDE DEF t1
<1>3. t1.pcc[k].live /\ \A c \in PitKind : t1.pcc[k].at[c] = tb.pcc[k].at[c]
  BY <1>1, <1>2, Zenon
<1>4. Trim(t1.pcc[k])
  BY <1>2, <1>3, Zenon DEF Trim
<1>5. SamePits(tb, t1)
  BY <1>2, <1>3, Zenon DEF SamePits, Others, Has
<1>6. HasPit(t1, k) <=> HasPit(tb, k)
  BY <1>5, Zenon DEF SamePits, HasPit, PitKind
<1>7. CASE HasEntries(t1, k)
  <2>1. ub = t1
    BY <1>7, Zenon DEF EraseCs, t1
  <2>2. Counted(t1) /\ Settled(t1, k)
    BY <1>1, <1>2, <1>4, <1>5, <1>6, <1>7, PitsSame, Zenon DEF Counted, Settled, Rest
  <2> HIDE DEF ub
  <2>3. QED
    BY <1>2, <1>5, <2>1, <2>2, Zenon DEF Rest, ub
<1>8. CASE ~HasEntries(t1, k)
  <2>1. ub = EraseBurst(t1, k)
    BY <1>8, Zenon DEF EraseCs, t1
  <2>2. Sound(ub) /\ Others(t1, ub, k) /\ Rest(t1, ub) /\ ub.pcc[k] = Fresh
    <3>1. Erased(t1, ub, k)
      BY <1>2, <1>3, <1>4, <1>8, <2>1, EraseSound, Zenon
    <3>2. QED
      BY <3>1, Zenon DEF Erased
  <2> HIDE DEF ub
  <2>3. \A c \in Kind : ~Has(ub, k, c)
    BY <2>2, ErasedEmpty, Zenon
  <2>4. SamePits(tb, ub)
    BY <1>1, <1>5, <1>8, <2>2, <2>3 DEF SamePits, Others, Has, HasEntries, HasPit, PitKind
  <2>5. Counted(ub)
    BY <1>2, <2>2, <2>4, PitsSame, Zenon DEF Counted, Rest
  <2>6. Settled(ub, k)
    BY <2>2, ErasedEmpty, Zenon
  <2>7. ~HasPit(tb, k)
    BY <1>6, <1>8, Zenon DEF HasEntries
  <2>8. QED
    BY <1>2, <2>2, <2>4, <2>5, <2>6, <2>7, Zenon DEF Others, Rest, ub
<1>9. QED
  BY <1>7, <1>8, Zenon

\* An operation on one entry has to settle that one.
LEMMA SettledBut ==
  ASSUME NEW tb, NEW ub, NEW k \in Key, Others(tb, ub, k),
         \A j \in Key \ {k} : Settled(tb, j), Settled(ub, k)
  PROVE  \A j \in Key : Settled(ub, j)
BY DEF Others, Settled, HasEntries, HasPit, Has

\* Pit_Insert, whichever of its allocations fails: a new entry has room for its PIT
\* entry, so the assertion on the failure path holds.
LEMMA PitInsertGood ==
  ASSUME PcctAssumption, NEW tb, Good(tb), NEW k \in Key, NEW c \in PitKind, NEW csHit \in BOOLEAN,
         NEW refused, TokenLeft(tb, refused)
  PROVE  LET ub == Pit_Insert(tb, k, c, csHit, refused) IN Good(ub) /\ Kept(tb, ub)
<1> DEFINE t1 == Pcct_Insert(tb, k)
           t2 == Pcct_AddToken(t1, k, refused)
           t3 == AddSlot(t2, k, c)
           ub == Pit_Insert(tb, k, c, csHit, refused)
<1>1. Sound(tb) /\ Counted(tb) /\ Settled(tb, k) /\ c \in Kind /\ "cs" \in Kind
      /\ \A j \in Key \ {k} : Settled(tb, j)
  BY Zenon DEF Good, Kind
<1>2. CASE ~CanInsert(tb, k)
  <2>1. ub = tb
    BY <1>2, Zenon DEF Pit_Insert
  <2> HIDE DEF ub
  <2>2. QED
    BY <2>1, Zenon DEF Kept, ub
<1>3. CASE CanInsert(tb, k)
  <2>1. /\ Sound(t1) /\ Others(tb, t1, k) /\ Rest(tb, t1) /\ t1.pcc[k].live
        /\ (tb.pcc[k].live => t1 = tb) /\ t1.pcc[k].at = tb.pcc[k].at
        /\ t1.pcc[k].token = tb.pcc[k].token /\ t1.owner = tb.owner
        /\ t1.pcc[k].pitExts = tb.pcc[k].pitExts
    <3>1. Inserted(tb, t1, k)
      BY <1>1, <1>3, InsertSound, Zenon
    <3>2. QED
      BY <3>1, Zenon DEF Inserted
  <2> HIDE DEF t1
  <2>2. TokenLeft(t1, refused)
    BY <2>1, Zenon DEF TokenLeft
  <2>3. /\ Sound(t2) /\ Others(t1, t2, k) /\ Rest(t1, t2) /\ t2.pcc[k].live
        /\ t2.pcc[k].at = t1.pcc[k].at /\ t2.pcc[k].token # 0 /\ (t1.pcc[k].token # 0 => t2 = t1)
        /\ t2.pcc[k].pitExts = t1.pcc[k].pitExts
    <3>1. TokenAdded(t1, t2, k)
      BY <2>1, <2>2, AddTokenSound, Zenon
    <3>2. QED
      BY <3>1, Zenon DEF TokenAdded
  <2> HIDE DEF t2
  <2>4. HasPit(tb, k) => t2 = tb
    BY <1>1, <2>1, <2>3, Zenon DEF Settled, HasEntries
  <2>5. Others(tb, t2, k) /\ Rest(tb, t2) /\ t2.pcc[k].at = tb.pcc[k].at
    BY <2>1, <2>3, Zenon DEF Others, Rest
  <2>6. Trim(t2.pcc[k])
    BY <1>1, <2>1, <2>3, <2>5, Zenon DEF Settled, Trim
  <2>7. \A b \in Kind : Has(t1, k, b) <=> Has(tb, k, b)
    BY <2>1, Zenon DEF Has
  <2>8. CASE Has(t1, k, "cs") /\ csHit
    <3>1. ub = tb
      <4>1. tb.pcc[k].live
        BY <1>1, <2>7, <2>8, HasIsLive, Zenon
      <4>2. ub = t1
        BY <1>3, <2>8, Zenon DEF Pit_Insert, t1
      <4>3. QED
        BY <2>1, <4>1, <4>2, Zenon
    <3> HIDE DEF ub
    <3>2. QED
      BY <3>1, Zenon DEF Kept, ub
  <2>9. CASE ~(Has(t1, k, "cs") /\ csHit) /\ Has(t2, k, c)
    <3>1. ub = t2
      BY <1>3, <2>9, Zenon DEF Pit_Insert, t1, t2
    <3>2. HasPit(tb, k)
      BY <2>5, <2>9, Zenon DEF Has, HasPit, PitKind
    <3>3. ub = tb
      BY <2>4, <3>1, <3>2, Zenon
    <3> HIDE DEF ub
    <3>4. QED
      BY <3>3, Zenon DEF Kept, ub
  <2>10. CASE ~(Has(t1, k, "cs") /\ csHit) /\ ~Has(t2, k, c)
    <3>1. ub = IF Has(t3, k, c) THEN [t3 EXCEPT !.nPit = @ + 1] ELSE Check(t3, tb.pcc[k].live)
      BY <1>3, <2>10, Zenon DEF Pit_Insert, t1, t2
    <3>2. Sound(t2) /\ ~Has(t2, k, c) /\ t2.pcc[k].live /\ c \in Kind
      BY <1>1, <2>3, <2>10, Zenon
    <3>3. /\ Sound(t3) /\ Others(t2, t3, k) /\ Rest(t2, t3)
          /\ t3.pcc[k].live /\ t3.pcc[k].token = t2.pcc[k].token
          /\ (\A b \in Kind \ {c} : t3.pcc[k].at[b] = t2.pcc[k].at[b])
          /\ (~Has(t3, k, c) => t3 = t2)
          /\ (t2.pcc[k].used = {} => Has(t3, k, c))
          /\ t3.pcc[k].pitExts = t2.pcc[k].pitExts
      <4>1. SlotAdded(t2, t3, k, c)
        BY <3>2, AddSlotSound, Zenon
      <4>2. QED
        BY <4>1, Zenon DEF SlotAdded
    <3> HIDE DEF t3
    <3>4. CASE Has(t3, k, c)
      <4>1. ub = [t3 EXCEPT !.nPit = @ + 1]
        BY <3>1, <3>4, Zenon
      <4>2. t3 \in Table /\ t3.nPit \in Int
        BY <3>3, Zenon DEF Sound, Table
      <4>3. /\ ub \in Table /\ ub.pcc = t3.pcc /\ ub.owner = t3.owner /\ ub.ok = t3.ok
            /\ ub.nPit = t3.nPit + 1 /\ ub.avail = t3.avail
        <5> HIDE DEF ub
        <5>1. QED
          BY <4>1, <4>2 DEF Table
      <4> HIDE DEF ub
      <4>4. Sound(ub)
        BY <3>3, <4>3, SameSound, Zenon
      <4>5. Others(tb, ub, k) /\ \A b \in Kind \ {c} : ub.pcc[k].at[b] = tb.pcc[k].at[b]
        BY <2>5, <3>3, <4>3 DEF Others
      <4>6. Has(ub, k, c) /\ ~Has(tb, k, c)
        BY <2>5, <2>10, <3>4, <4>3, Zenon DEF Has
      <4>7. \A j \in Key, b \in PitKind : <<j, b>> # <<k, c>> => (Has(ub, j, b) <=> Has(tb, j, b))
        BY <4>5, Zenon DEF Others, Has, Kind
      <4>8. Cardinality(Pits(ub)) = Cardinality(Pits(tb)) + 1
        BY <4>6, <4>7, PitsAdd, Zenon
      <4>9. Counted(ub)
        BY <1>1, <2>5, <3>3, <4>3, <4>8, Zenon DEF Counted, Rest
      <4>10. HasPit(ub, k)
        BY <4>6, Zenon DEF HasPit, PitKind
      <4>11. ub.pcc[k].live /\ ub.pcc[k].token # 0
        BY <2>3, <3>3, <4>3, Zenon
      <4>12. Trim(ub.pcc[k])
        <5>1. \A b \in PitKind : ub.pcc[k].at[b] = 0 => t2.pcc[k].at[b] = 0
          BY <3>3, <4>3, <4>6, Zenon DEF Has, Kind
        <5>2. ub.pcc[k].pitExts = t2.pcc[k].pitExts
          BY <3>3, <4>3, Zenon
        <5>3. QED
          BY <2>6, <5>1, <5>2, Zenon DEF Trim
      <4>13. Settled(ub, k)
        BY <4>10, <4>11, <4>12, Zenon DEF Settled, HasEntries
      <4>14. Good(ub)
        BY <1>1, <4>4, <4>5, <4>9, <4>13, SettledBut, Zenon DEF Good
      <4>15. Kept(tb, ub)
        BY <2>4, <3>3, <4>3, <4>5, Zenon DEF Kept, Others
      <4>16. QED
        BY <4>14, <4>15, Zenon DEF ub
    <3>5. CASE ~Has(t3, k, c)
      <4>1. HasEntries(t2, k)
        BY <2>3, <3>3, <3>5, NoPlaceNoUse, Zenon
      <4>2. \E b \in Kind : Has(t2, k, b)
        BY <4>1, Zenon DEF HasEntries, HasPit, Kind, PitKind
      <4>3. \E b \in Kind : Has(tb, k, b)
        BY <2>5, <4>2, Zenon DEF Has
      <4>4. tb.pcc[k].live
        BY <1>1, <4>3, HasIsLive, Zenon
      <4>5. ub = t2
        <5>1. ub = Check(t3, tb.pcc[k].live) /\ tb.pcc[k].live \in BOOLEAN
          BY <1>1, <3>1, <3>5, Zenon DEF Sound, Table, Entry
        <5> HIDE DEF ub
        <5>2. QED
          BY <3>3, <3>5, <4>4, <5>1, CheckSame, Zenon
      <4> HIDE DEF ub
      <4>6. SamePits(tb, t2) /\ (HasEntries(t2, k) <=> HasEntries(tb, k))
        BY <2>5, Zenon DEF SamePits, Others, Has, HasEntries, HasPit
      <4>7. Counted(t2)
        BY <1>1, <2>5, <4>6, PitsSame, Zenon DEF Counted, Rest
      <4>8. Settled(t2, k)
        BY <2>3, <2>6, <4>1, Zenon DEF Settled
      <4>9. Good(t2)
        BY <1>1, <2>3, <2>5, <4>7, <4>8, SettledBut, Zenon DEF Good
      <4>10. Kept(tb, t2)
        BY <2>4, <2>5, Zenon DEF Kept, Others
      <4>11. QED
        BY <4>5, <4>9, <4>10, Zenon DEF ub
    <3>6. QED
      BY <3>4, <3>5, Zenon
  <2>11. QED
    BY <2>8, <2>9, <2>10, Zenon
<1>4. QED
  BY <1>2, <1>3, Zenon

\* Pit_Erase lets go of the entry, of its token, or of neither.
LEMMA PitEraseGood ==
  ASSUME PcctAssumption, NEW tb, Good(tb), NEW k \in Key, NEW c \in PitKind, Has(tb, k, c)
  PROVE  LET ub == Pit_Erase(tb, k, c) IN Good(ub) /\ Kept(tb, ub)
<1> DEFINE t0 == RemoveSlot(tb, k, c)
           t1 == PitEntry_Finalize(t0, k, c)
           t2 == [t1 EXCEPT !.nPit = @ - 1]
           ub == Pit_Erase(tb, k, c)
<1>1. Sound(tb) /\ Counted(tb) /\ Settled(tb, k) /\ c \in Kind /\ \A j \in Key \ {k} : Settled(tb, j)
  BY Zenon DEF Good, Kind
<1>2. tb.pcc[k].live /\ tb.pcc[k].token # 0
  BY <1>1, HasIsLive, Zenon DEF Settled, HasPit, PitKind
<1>3. /\ Sound(t0) /\ Others(tb, t0, k) /\ Rest(tb, t0)
      /\ t0.pcc[k].live = tb.pcc[k].live /\ t0.pcc[k].token = tb.pcc[k].token
      /\ t0.pcc[k].pitExts = tb.pcc[k].pitExts
      /\ ~Has(t0, k, c) /\ \A b \in Kind \ {c} : t0.pcc[k].at[b] = tb.pcc[k].at[b]
  <2>1. SlotRemoved(tb, t0, k, c)
    BY <1>1, RemoveSlotSound, Zenon
  <2>2. QED
    BY <2>1, Zenon DEF SlotRemoved
<1> HIDE DEF t0
<1>4. Sound(t0) /\ t0.pcc[k].live
  BY <1>2, <1>3, Zenon
<1>5. /\ Sound(t1) /\ Others(t0, t1, k) /\ Rest(t0, t1) /\ t1.pcc[k].live = t0.pcc[k].live
      /\ t1.pcc[k].token = t0.pcc[k].token /\ t1.pcc[k].at = t0.pcc[k].at
      /\ t1.pcc[k].pitExts = [t0.pcc[k].pitExts EXCEPT ![c] = 0]
  <2>1. Finalized(t0, t1, k, c)
    BY <1>4, FinalizeSound, Zenon
  <2>2. QED
    BY <1>4, <2>1, Zenon DEF Finalized
<1> HIDE DEF t1
<1>6. /\ Sound(t1) /\ Others(tb, t1, k) /\ Rest(tb, t1) /\ t1.pcc[k].live
      /\ t1.pcc[k].token = tb.pcc[k].token /\ ~Has(t1, k, c)
      /\ t1.pcc[k].pitExts = [tb.pcc[k].pitExts EXCEPT ![c] = 0]
      /\ \A b \in Kind \ {c} : t1.pcc[k].at[b] = tb.pcc[k].at[b]
  BY <1>3, <1>4, <1>5, Zenon DEF Others, Rest, Has
<1>7. /\ Sound(t2) /\ Counted(t2) /\ Others(tb, t2, k) /\ t2.batch = tb.batch
      /\ t2.pcc[k].live /\ t2.pcc[k].token = tb.pcc[k].token
      /\ Trim(t2.pcc[k])
      /\ ~Has(t2, k, c) /\ \A b \in Kind \ {c} : t2.pcc[k].at[b] = tb.pcc[k].at[b]
  <2>1. PitGone(tb, t2, k, c)
    BY <1>1, <1>6, GoneSound, Zenon
  <2>2. QED
    BY <1>1, <2>1, Zenon DEF PitGone, Settled
<1>8. /\ (~HasEntries(t2, k) => ub = Pcct_Erase(t2, k))
      /\ (HasEntries(t2, k) /\ ~HasPit(t2, k) => ub = Pcct_RemoveToken(t2, k))
      /\ (HasPit(t2, k) => ub = t2)
  BY Zenon DEF Pit_Erase, t0, t1, HasEntries
<1> HIDE DEF t2, ub
<1>9. CASE ~HasEntries(t2, k)
  <2>1. ub = EraseBurst(t2, k)
    BY <1>8, <1>9, Zenon DEF Pcct_Erase
  <2>2. Sound(ub) /\ Others(t2, ub, k) /\ Rest(t2, ub) /\ ub.pcc[k] = Fresh
    <3>1. Erased(t2, ub, k)
      BY <1>7, <1>9, <2>1, EraseSound, Zenon
    <3>2. QED
      BY <3>1, Zenon DEF Erased
  <2>3. \A b \in Kind : ~Has(ub, k, b)
    BY <2>2, ErasedEmpty, Zenon
  <2>4. ~HasEntries(ub, k) /\ ~HasPit(ub, k) /\ Settled(ub, k)
    BY <2>2, ErasedEmpty, Zenon
  <2>5. SamePits(t2, ub)
    BY <1>9, <2>2, <2>3, Zenon DEF SamePits, Others, Has, HasEntries, HasPit, Kind, PitKind
  <2>6. Counted(ub)
    BY <1>7, <2>2, <2>5, PitsSame, Zenon DEF Counted, Rest
  <2>7. Settled(ub, k)
    BY <2>4, Zenon
  <2>8. Others(tb, ub, k)
    BY <1>7, <2>2, Zenon DEF Others
  <2>9. Good(ub)
    BY <1>1, <2>2, <2>6, <2>7, <2>8, SettledBut, Zenon DEF Good
  <2>10. QED
    BY <2>4, <2>8, <2>9, Zenon DEF Kept, Others, ub
<1>10. CASE HasEntries(t2, k) /\ ~HasPit(t2, k)
  <2>1. ub = Pcct_RemoveToken(t2, k)
    BY <1>8, <1>10, Zenon
  <2>2. /\ Sound(ub) /\ Others(t2, ub, k) /\ Rest(t2, ub)
        /\ ub.pcc[k].live = t2.pcc[k].live /\ ub.pcc[k].at = t2.pcc[k].at
        /\ ub.pcc[k].pitExts = t2.pcc[k].pitExts
    <3>1. TokenRemoved(t2, ub, k)
      BY <1>7, <2>1, RemoveTokenSound, Zenon
    <3>2. QED
      BY <3>1, Zenon DEF TokenRemoved
  <2>3. SamePits(t2, ub) /\ HasEntries(ub, k) /\ ~HasPit(ub, k)
    BY <1>10, <2>2, Zenon DEF SamePits, Others, Has, HasEntries, HasPit
  <2>4. Counted(ub)
    BY <1>7, <2>2, <2>3, PitsSame, Zenon DEF Counted, Rest
  <2>5. Settled(ub, k)
    BY <1>7, <2>2, <2>3, Zenon DEF Settled, Trim
  <2>6. Others(tb, ub, k)
    BY <1>7, <2>2, Zenon DEF Others
  <2>7. Good(ub)
    BY <1>1, <2>2, <2>4, <2>5, <2>6, SettledBut, Zenon DEF Good
  <2>8. QED
    BY <2>3, <2>6, <2>7, Zenon DEF Kept, Others, ub
<1>11. CASE HasPit(t2, k)
  <2>1. ub = t2
    BY <1>8, <1>11, Zenon
  <2>2. Settled(t2, k)
    BY <1>2, <1>7, <1>11, Zenon DEF Settled, HasEntries
  <2>3. Good(t2)
    BY <1>1, <1>7, <2>2, SettledBut, Zenon DEF Good
  <2>4. Kept(tb, t2)
    BY <1>7, Zenon DEF Kept, Others
  <2>5. QED
    BY <2>1, <2>3, <2>4, Zenon DEF ub
<1>12. QED
  BY <1>9, <1>10, <1>11, Zenon DEF HasEntries

\* PitDnUpIt_Extend_ changes no slot and no token.
LEMMA PitExtendGood ==
  ASSUME PcctAssumption, NEW tb, Good(tb), NEW k \in Key, NEW c \in PitKind, Has(tb, k, c), tb.avail > 0
  PROVE  LET ub == PitDnUpIt_Extend(tb, k, c) IN Good(ub) /\ Kept(tb, ub)
<1> DEFINE p == tb.pcc[k]
           x == p.pitExts[c] + 1
           e == [live |-> p.live, token |-> p.token, at |-> p.at, used |-> p.used, ext |-> p.ext,
                 pitExts |-> [p.pitExts EXCEPT ![c] = x]]
           n == tb.avail - 1
           ub == PitDnUpIt_Extend(tb, k, c)
<1>1. /\ Sound(tb) /\ Counted(tb) /\ \A j \in Key : Settled(tb, j)
      /\ tb \in Table /\ tb.pcc \in [Key -> Entry] /\ p \in Entry /\ SlotsOf(p)
  BY Zenon DEF Good, Sound, Table
<1>2. p.live
  BY <1>1, HasIsLive, Zenon DEF Kind
<1>3. ub = [tb EXCEPT !.avail = n, !.pcc[k].pitExts[c] = x]
  BY Zenon DEF PitDnUpIt_Extend
<1>4. e \in Entry /\ n \in Nat /\ x \in Nat
  BY <1>1 DEF Entry, Table
<1>5. ub.pcc = [tb.pcc EXCEPT ![k] = e]
  <2>1. ub.pcc = [tb.pcc EXCEPT ![k].pitExts[c] = x]
    BY <1>1, <1>3, Zenon DEF Table
  <2>2. e = [p EXCEPT !.pitExts[c] = x]
    <3> DEFINE q == [p EXCEPT !.pitExts[c] = x]
    <3> HIDE DEF p, x
    <3>1. /\ q \in Entry
          /\ q.live = e.live /\ q.token = e.token /\ q.at = e.at /\ q.used = e.used /\ q.ext = e.ext
          /\ q.pitExts = e.pitExts
      BY <1>1, <1>4, Zenon DEF Entry
    <3> HIDE DEF q, e
    <3>2. q = e
      BY <1>4, <3>1 DEF Entry
    <3>3. QED
      BY <3>2, Zenon DEF q
  <2> HIDE DEF ub, e, x
  <2>3. QED
    BY <1>1, <2>1, <2>2, Zenon
<1>6. ub.owner = tb.owner /\ ub.lastToken = tb.lastToken /\ ub.avail = n /\ ub.nPit = tb.nPit
      /\ ub.batch = tb.batch /\ ub.ok = tb.ok
  BY <1>1, <1>3, Zenon DEF Table
<1>7. ub = [pcc |-> ub.pcc, owner |-> ub.owner, lastToken |-> ub.lastToken, avail |-> ub.avail,
            nPit |-> ub.nPit, batch |-> ub.batch, ok |-> ub.ok]
  BY <1>1, <1>3, Zenon DEF Table
<1> HIDE DEF ub, n, x
<1>8. ub \in Table
  <2>1. [tb.pcc EXCEPT ![k] = e] \in [Key -> Entry]
    BY <1>1, <1>4, Zenon
  <2>2. QED
    BY <1>1, <1>4, <1>5, <1>6, <1>7, <2>1, Zenon DEF Table
<1>9. ub.pcc[k] = e /\ Others(tb, ub, k)
  BY <1>1, <1>5, Zenon DEF Others
<1>10. e.live = p.live /\ e.token = p.token /\ e.at = p.at /\ e.used = p.used /\ e.ext = p.ext
      /\ e.pitExts = [p.pitExts EXCEPT ![c] = x]
  BY Zenon
<1> HIDE DEF e, p
<1>11. SlotsOf(e)
  BY <1>1, <1>10, Zenon DEF SlotsOf
<1>12. Pool(ub)
  <2>1. NExts[k] \in Nat /\ tb.avail \in Nat /\ p.pitExts \in [PitKind -> Nat] /\ n = tb.avail - 1
        /\ x = p.pitExts[c] + 1
    BY <1>1, Zenon DEF PcctAssumption, Table, Entry, n, x
  <2>2. n + Held(e, k) = tb.avail + Held(p, k)
    BY <1>2, <1>10, <2>1 DEF Held, PitKind
  <2>3. QED
    BY <1>1, <1>6, <1>8, <1>9, <2>2, PoolKept, Zenon DEF Sound, p
<1>13. Sound(ub)
  <2>1. /\ \A j \in Key : SlotsOf(ub.pcc[j])
        /\ \A j \in Key : ub.pcc[j].live = tb.pcc[j].live /\ ub.pcc[j].token = tb.pcc[j].token
        /\ ub.pcc[k].live
    BY <1>1, <1>2, <1>9, <1>10, <1>11, Zenon DEF Sound, Others, p
  <2>2. \A j \in Key : ~ub.pcc[j].live => ub.pcc[j] = Fresh
    BY <1>1, <1>9, <2>1 DEF Sound, Others
  <2>3. QED
    BY <1>1, <1>6, <1>8, <1>12, <2>1, <2>2 DEF Sound
<1>14. \A j \in Key : ub.pcc[j].at = tb.pcc[j].at /\ ub.pcc[j].token = tb.pcc[j].token
         /\ ub.pcc[j].live = tb.pcc[j].live
  BY <1>9, <1>10, Zenon DEF Others, p
<1>15. \A j \in Key : Trim(ub.pcc[j])
  <2>1. p.pitExts \in [PitKind -> Nat] /\ e.at[c] # 0 /\ Trim(p)
    BY <1>1, <1>10, Zenon DEF Entry, Has, Settled, p
  <2>2. Trim(e)
    BY <1>10, <2>1, Zenon DEF Trim
  <2>3. QED
    BY <1>1, <1>9, <2>2, Zenon DEF Others, Settled
<1>16. SamePits(tb, ub) /\ \A j \in Key : Settled(ub, j)
  BY <1>1, <1>14, <1>15 DEF SamePits, Settled, HasEntries, HasPit, Has
<1>17. Counted(ub)
  BY <1>1, <1>6, <1>16, PitsSame, Zenon DEF Counted
<1>18. QED
  BY <1>13, <1>14, <1>16, <1>17, Zenon DEF Good, Kept, ub

\* CsEraseBatch_Append_ between operations.
LEMMA EraseCsGood ==
  ASSUME PcctAssumption, NEW tb, Good(tb), NEW k \in Key, Has(tb, k, "cs")
  PROVE  LET ub == EraseCs(tb, k)
         IN Good(ub) /\ Kept(tb, ub) /\ Others(tb, ub, k) /\ SamePits(tb, ub)
<1> DEFINE ub == EraseCs(tb, k)
<1>1. Sound(tb) /\ Counted(tb) /\ (HasPit(tb, k) => tb.pcc[k].token # 0) /\ Trim(tb.pcc[k])
  BY Zenon DEF Good, Settled
<1>2. /\ Sound(ub) /\ Counted(ub) /\ Others(tb, ub, k)
      /\ Settled(ub, k) /\ SamePits(tb, ub)
      /\ (HasPit(tb, k) => ub.pcc[k].token = tb.pcc[k].token)
  <2>1. CsErased(tb, ub, k)
    BY <1>1, EraseCsSound, Zenon
  <2>2. QED
    BY <2>1, Zenon DEF CsErased
<1> HIDE DEF ub
<1>3. Good(ub)
  BY <1>2, SettledBut, Zenon DEF Good
<1>4. Kept(tb, ub)
  BY <1>2, Zenon DEF Kept, Others
<1>5. QED
  BY <1>2, <1>3, <1>4, Zenon DEF ub

\* Cs_PutDirect of Data that came under another name than its own.
LEMMA PutDirectGood ==
  ASSUME PcctAssumption, NEW tb, Good(tb), NEW d \in Key, NEW drop \in Key \cup {NoKey},
         CanInsert(tb, d), drop # NoKey => drop # d /\ Has(tb, d, "cs") /\ Has(tb, drop, "cs")
  PROVE  LET ub == Cs_PutDirect(Pcct_Insert(tb, d), d, drop)
         IN /\ Good(ub) /\ Kept(tb, ub) /\ SamePits(tb, ub)
            /\ \A j \in Key \ {drop} : Has(tb, j, "cs") => Has(ub, j, "cs")
<1> DEFINE t0 == Pcct_Insert(tb, d)
           ub == Cs_PutDirect(t0, d, drop)
<1>1. Sound(tb) /\ Counted(tb) /\ Settled(tb, d) /\ "cs" \in Kind /\ PitKind \subseteq Kind \ {"cs"}
      /\ \A j \in Key \ {d} : Settled(tb, j)
  BY Zenon DEF Good, Kind, PitKind
<1>2. /\ Sound(t0) /\ Others(tb, t0, d) /\ Rest(tb, t0) /\ t0.pcc[d].live
      /\ (tb.pcc[d].live => t0 = tb) /\ t0.pcc[d].at = tb.pcc[d].at
      /\ t0.pcc[d].token = tb.pcc[d].token /\ t0.pcc[d].pitExts = tb.pcc[d].pitExts
  <2>1. Inserted(tb, t0, d)
    BY <1>1, InsertSound, Zenon
  <2>2. QED
    BY <2>1, Zenon DEF Inserted
<1>3. CASE Has(tb, d, "cs")
  <2>1. t0 = tb
    BY <1>1, <1>2, <1>3, HasIsLive, Zenon
  <2> HIDE DEF t0
  <2>2. CASE drop = NoKey
    <3>1. ub = tb
      BY <1>3, <2>1, <2>2, Zenon DEF Cs_PutDirect
    <3> HIDE DEF ub
    <3>2. QED
      BY <3>1, Zenon DEF Kept, SamePits, ub, t0
  <2>3. CASE drop # NoKey
    <3>1. ub = EraseCs(tb, drop)
      BY <1>3, <2>1, <2>3, Zenon DEF Cs_PutDirect
    <3>2. drop \in Key /\ Has(tb, drop, "cs")
      BY <2>3, Zenon
    <3> HIDE DEF ub
    <3>3. Good(ub) /\ Kept(tb, ub) /\ Others(tb, ub, drop) /\ SamePits(tb, ub)
      BY <3>1, <3>2, EraseCsGood, Zenon
    <3>4. QED
      BY <3>3, Zenon DEF Others, Has, ub, t0
  <2>4. QED
    BY <2>2, <2>3, Zenon
<1>4. CASE ~Has(tb, d, "cs")
  <2> HIDE DEF t0
  <2>1. ~Has(t0, d, "cs") /\ ub = AddSlot(t0, d, "cs")
    BY <1>2, <1>4, Zenon DEF Has, Cs_PutDirect
  <2> HIDE DEF ub
  <2>2. /\ Sound(ub) /\ Others(t0, ub, d) /\ Rest(t0, ub)
        /\ ub.pcc[d].live /\ ub.pcc[d].token = t0.pcc[d].token
        /\ (\A b \in Kind \ {"cs"} : ub.pcc[d].at[b] = t0.pcc[d].at[b])
        /\ (~Has(ub, d, "cs") => ub = t0)
        /\ (t0.pcc[d].used = {} => Has(ub, d, "cs"))
        /\ ub.pcc[d].pitExts = t0.pcc[d].pitExts
    <3>1. SlotAdded(t0, ub, d, "cs")
      BY <1>1, <1>2, <2>1, AddSlotSound, Zenon
    <3>2. QED
      BY <3>1, Zenon DEF SlotAdded
  <2>3. Others(tb, ub, d) /\ SamePits(tb, ub)
    <3>1. Others(tb, ub, d)
      BY <1>2, <2>2, Zenon DEF Others
    <3>2. \A c \in PitKind : ub.pcc[d].at[c] = tb.pcc[d].at[c]
      BY <1>1, <1>2, <2>2, Zenon
    <3>3. QED
      BY <3>1, <3>2, Zenon DEF Others, SamePits, Has
  <2>4. HasEntries(ub, d)
    <3>1. CASE Has(ub, d, "cs")
      BY <3>1, Zenon DEF HasEntries
    <3>2. CASE ~Has(ub, d, "cs")
      BY <1>2, <2>2, <3>2, NoPlaceNoUse, Zenon
    <3>3. QED
      BY <3>1, <3>2, Zenon
  <2>5. HasPit(ub, d) <=> HasPit(tb, d)
    BY <2>3, Zenon DEF SamePits, HasPit, PitKind
  <2>6. Trim(ub.pcc[d])
    <3>1. \A c \in PitKind : ub.pcc[d].at[c] = tb.pcc[d].at[c]
      BY <1>1, <1>2, <2>2, Zenon
    <3>2. QED
      BY <1>1, <1>2, <2>2, <3>1, Zenon DEF Settled, Trim
  <2>7. Settled(ub, d)
    BY <1>1, <1>2, <2>2, <2>4, <2>5, <2>6, Zenon DEF Settled
  <2>8. Counted(ub)
    BY <1>1, <1>2, <2>2, <2>3, PitsSame, ZenonT(40) DEF Counted, Rest
  <2>9. Good(ub)
    BY <1>1, <2>2, <2>3, <2>7, <2>8, SettledBut, Zenon DEF Good
  <2>10. Kept(tb, ub)
    BY <1>2, <2>2, <2>3, Zenon DEF Kept, Others
  <2>11. QED
    BY <1>4, <2>3, <2>9, <2>10, Zenon DEF Others, Has, ub, t0
<1>5. QED
  BY <1>3, <1>4, Zenon

\* Cs_PutIndirect on an entry whose PIT entries are gone ends with a CS entry on it, or
\* with the entry erased.
LEMMA PutIndirectSound ==
  ASSUME PcctAssumption, NEW tb, Sound(tb), Counted(tb), NEW k \in Key, NEW outcome,
         tb.pcc[k].live, ~HasPit(tb, k), Trim(tb.pcc[k]), outcome = "kept" => Has(tb, k, "cs")
  PROVE  LET ub == Cs_PutIndirect(tb, k, outcome)
         IN Sound(ub) /\ Counted(ub) /\ Others(tb, ub, k) /\ Settled(ub, k) /\ ~HasPit(ub, k)
<1> DEFINE t1 == Check(tb, ~Has(tb, k, "pit0"))
           t2 == IF Has(t1, k, "cs") THEN t1 ELSE AddSlot(t1, k, "cs")
           t3 == RemoveSlot(t2, k, "cs")
           ub == Cs_PutIndirect(tb, k, outcome)
<1>1. t1 = tb
  BY CheckSame, Zenon DEF HasPit
<1> HIDE DEF t1
<1>2. "cs" \in Kind /\ PitKind = Kind \ {"cs"}
  BY Zenon DEF Kind, PitKind
<1>3. /\ Sound(t2) /\ Counted(t2) /\ Others(tb, t2, k) /\ t2.pcc[k].live
      /\ Has(t2, k, "cs") /\ ~HasPit(t2, k) /\ Trim(t2.pcc[k])
  <2>1. CASE Has(tb, k, "cs")
    BY <1>1, <2>1, Zenon DEF Others
  <2>2. CASE ~Has(tb, k, "cs")
    <3>1. t2 = AddSlot(tb, k, "cs")
      BY <1>1, <2>2, Zenon
    <3> HIDE DEF t2
    <3>2. /\ Sound(t2) /\ Others(tb, t2, k) /\ Rest(tb, t2) /\ t2.pcc[k].live
          /\ (\A b \in Kind \ {"cs"} : t2.pcc[k].at[b] = tb.pcc[k].at[b])
          /\ (tb.pcc[k].used = {} => Has(t2, k, "cs"))
          /\ t2.pcc[k].pitExts = tb.pcc[k].pitExts
      <4>1. SlotAdded(tb, t2, k, "cs")
        BY <1>2, <2>2, <3>1, AddSlotSound, Zenon
      <4>2. QED
        BY <4>1, Zenon DEF SlotAdded
    <3>3. Has(t2, k, "cs")
      BY <2>2, <3>2, NoPlaceNoUse, Zenon DEF HasEntries
    <3>4. SamePits(tb, t2)
      BY <1>2, <3>2, Zenon DEF SamePits, Others, Has
    <3>5. Counted(t2)
      BY <3>2, <3>4, PitsSame, Zenon DEF Counted, Rest
    <3>6. ~HasPit(t2, k)
      BY <3>4, Zenon DEF SamePits, HasPit, PitKind
    <3>7. Trim(t2.pcc[k])
      BY <1>2, <3>2, Zenon DEF Trim
    <3>8. QED
      BY <3>2, <3>3, <3>5, <3>6, <3>7, Zenon
  <2>3. QED
    BY <2>1, <2>2, Zenon
<1>4. CASE outcome = "kept"
  <2>1. ub = tb
    BY <1>1, <1>4, Zenon DEF Cs_PutIndirect, t1
  <2> HIDE DEF ub
  <2>2. QED
    BY <1>4, <2>1, Zenon DEF Others, Settled, HasEntries, ub
<1>5. CASE outcome = "assoc"
  <2>1. ub = t2
    BY <1>1, <1>5, Zenon DEF Cs_PutIndirect, t1
  <2> HIDE DEF ub, t2
  <2>2. QED
    BY <1>3, <2>1, Zenon DEF Settled, HasEntries, ub
<1>6. CASE outcome # "kept" /\ outcome # "assoc"
  <2>1. ub = Pcct_Erase(t3, k)
    BY <1>1, <1>3, <1>6, Zenon DEF Cs_PutIndirect, t1
  <2> HIDE DEF ub, t2
  <2>2. /\ Sound(t3) /\ Others(t2, t3, k) /\ Rest(t2, t3)
        /\ t3.pcc[k].live = t2.pcc[k].live
        /\ t3.pcc[k].pitExts = t2.pcc[k].pitExts
        /\ ~Has(t3, k, "cs") /\ \A b \in Kind \ {"cs"} : t3.pcc[k].at[b] = t2.pcc[k].at[b]
    <3>1. Sound(t2) /\ "cs" \in Kind /\ Has(t2, k, "cs")
      BY <1>2, <1>3, Zenon
    <3>2. QED
      <4>1. SlotRemoved(t2, t3, k, "cs")
        BY <3>1, RemoveSlotSound, Zenon
      <4>2. QED
        BY <4>1, Zenon DEF SlotRemoved
  <2> HIDE DEF t3
  <2>3. SamePits(t2, t3)
    BY <1>2, <2>2, Zenon DEF SamePits, Others, Has
  <2>4. t3.pcc[k].live /\ ~HasEntries(t3, k)
    BY <1>3, <2>2, <2>3, Zenon DEF SamePits, HasEntries, HasPit, PitKind
  <2>5. Trim(t3.pcc[k])
    BY <1>2, <1>3, <2>2, Zenon DEF Trim
  <2>6. Sound(ub) /\ Others(t3, ub, k) /\ Rest(t3, ub) /\ ub.pcc[k] = Fresh
    <3>1. Erased(t3, ub, k)
      BY <2>1, <2>2, <2>4, <2>5, EraseSound, Zenon DEF Pcct_Erase
    <3>2. QED
      BY <3>1, Zenon DEF Erased
  <2>7. \A b \in Kind : ~Has(ub, k, b)
    BY <2>6, ErasedEmpty, Zenon
  <2>8. ~HasEntries(ub, k) /\ ~HasPit(ub, k) /\ Settled(ub, k)
    BY <2>6, ErasedEmpty, Zenon
  <2>9. SamePits(t3, ub)
    BY <2>4, <2>6, <2>8, Zenon DEF SamePits, Others, Has, HasEntries, HasPit, PitKind
  <2>10. Counted(ub)
    BY <1>3, <2>2, <2>3, <2>6, <2>9, PitsSame, Zenon DEF Counted, Rest
  <2>11. QED
    BY <1>3, <2>2, <2>6, <2>8, <2>10, Zenon DEF Others, ub
<1>7. QED
  BY <1>4, <1>5, <1>6, Zenon

\* Cs_Insert, in each of its two cases: the slot of the PIT entries is there for the CS
\* entry, and an entry that ends up with nothing is erased.
LEMMA CsInsertGood ==
  ASSUME PcctAssumption, NEW tb, Good(tb), NEW k \in Key, HasPit(tb, k), NEW d \in Key,
         NEW drop \in Key \cup {NoKey}, NEW outcome \in Outcome,
         outcome = "kept" => Has(tb, k, "cs") /\ drop # k,
         drop # NoKey => drop # d /\ Has(tb, d, "cs") /\ Has(tb, drop, "cs")
  PROVE  LET ub == Cs_Insert(tb, k, d, drop, outcome) IN Good(ub) /\ Kept(tb, ub)
<1> DEFINE ub == Cs_Insert(tb, k, d, drop, outcome)
<1>1. Sound(tb) /\ Counted(tb) /\ tb.pcc[k].live /\ "cs" \in Kind /\ \A j \in Key : Settled(tb, j)
  BY Zenon DEF Good, Kind, Settled, HasEntries
<1>2. CASE d = k
  <2> DEFINE t0 == Pit_RawErase01(tb, k)
             t1 == Cs_PutDirect(t0, k, drop)
  <2>1. ub = Check(t1, Has(t1, k, "cs"))
    BY <1>2, Zenon DEF Cs_Insert
  <2>2. /\ Sound(t0) /\ Counted(t0) /\ Others(tb, t0, k)
        /\ t0.pcc[k].live = tb.pcc[k].live /\ Trim(t0.pcc[k])
        /\ ~HasPit(t0, k) /\ (Has(t0, k, "cs") <=> Has(tb, k, "cs"))
    <3>1. PitsErased(tb, t0, k)
      BY <1>1, RawErase01Sound, Zenon
    <3>2. QED
      BY <1>1, <3>1, Zenon DEF PitsErased, Settled
  <2> HIDE DEF t0, ub
  <2>3. \A j \in Key \ {k} : Settled(t0, j)
    BY <1>1, <2>2, ZenonT(40) DEF Others, Settled, HasEntries, HasPit, Has
  <2>4. /\ Sound(t1) /\ Counted(t1) /\ Has(t1, k, "cs") /\ ~HasPit(t1, k) /\ t1.pcc[k].live /\ Trim(t1.pcc[k])
        /\ (\A j \in Key \ {k} : Settled(t1, j)) /\ Kept(tb, t1)
    <3>1. CASE Has(t0, k, "cs") /\ drop = NoKey
      <4>1. t1 = t0
        BY <3>1, Zenon DEF Cs_PutDirect
      <4> HIDE DEF t1
      <4>2. Kept(tb, t0)
        BY <2>2, Zenon DEF Kept, Others
      <4>3. QED
        BY <1>1, <2>2, <2>3, <3>1, <4>1, <4>2, Zenon
    <3>2. CASE Has(t0, k, "cs") /\ drop # NoKey
      <4>1. t1 = EraseCs(t0, drop)
        BY <3>2, Zenon DEF Cs_PutDirect
      <4> HIDE DEF t1
      <4>2. drop \in Key /\ drop # k /\ Has(t0, drop, "cs") /\ (HasPit(t0, drop) => t0.pcc[drop].token # 0)
            /\ Trim(t0.pcc[drop])
        BY <1>2, <2>2, <2>3, <3>2, Zenon DEF Others, Has, Settled
      <4>3. /\ Sound(t1) /\ Counted(t1) /\ Others(t0, t1, drop) /\ Settled(t1, drop) /\ SamePits(t0, t1)
            /\ (HasPit(t0, drop) => t1.pcc[drop].token = t0.pcc[drop].token)
        <5>1. CsErased(t0, t1, drop)
          BY <2>2, <4>1, <4>2, EraseCsSound, Zenon
        <5>2. QED
          BY <5>1, Zenon DEF CsErased
      <4>4. t1.pcc[k] = t0.pcc[k]
        BY <4>2, <4>3, Zenon DEF Others
      <4>5. \A j \in Key \ {k} : Settled(t1, j)
        BY <2>3, <4>3, ZenonT(40) DEF Others, Settled, HasEntries, HasPit, Has
      <4>6. \A j \in Key : HasPit(t1, j) <=> HasPit(t0, j)
        BY <4>3, Zenon DEF SamePits, HasPit, PitKind
      <4>7. \A j \in Key : HasPit(t1, j) => t1.pcc[j].token = t0.pcc[j].token
        BY <4>3, <4>6, Zenon DEF Others
      <4>8. Kept(tb, t1)
        BY <2>2, <4>6, <4>7, Zenon DEF Kept, Others
      <4>9. QED
        BY <1>1, <2>2, <3>2, <4>3, <4>4, <4>5, <4>6, <4>8, Zenon DEF Has
    <3>3. CASE ~Has(t0, k, "cs")
      <4>1. t1 = AddSlot(t0, k, "cs")
        BY <3>3, Zenon DEF Cs_PutDirect
      <4> HIDE DEF t1
      <4>2. Sound(t0) /\ t0.pcc[k].live /\ ~Has(t0, k, "cs") /\ t0.pcc[k].used = {}
        BY <1>1, <2>2, <3>3, NoPlaceNoUse, Zenon DEF HasEntries
      <4>3. /\ Sound(t1) /\ Others(t0, t1, k) /\ Rest(t0, t1) /\ t1.pcc[k].live
            /\ (\A b \in Kind \ {"cs"} : t1.pcc[k].at[b] = t0.pcc[k].at[b])
            /\ (t0.pcc[k].used = {} => Has(t1, k, "cs"))
            /\ t1.pcc[k].pitExts = t0.pcc[k].pitExts
        <5>1. SlotAdded(t0, t1, k, "cs")
          BY <1>1, <4>1, <4>2, AddSlotSound, Zenon
        <5>2. QED
          BY <5>1, Zenon DEF SlotAdded
      <4>4. SamePits(t0, t1)
        BY <4>3, Zenon DEF SamePits, Others, Has, Kind, PitKind
      <4>5. ~HasPit(t1, k)
        BY <2>2, <4>4, Zenon DEF SamePits, HasPit, PitKind
      <4>6. Counted(t1)
        BY <2>2, <4>3, <4>4, PitsSame, Zenon DEF Counted, Rest
      <4>7. \A j \in Key \ {k} : Settled(t1, j)
        BY <2>3, <4>3, Zenon DEF Others, Settled, HasEntries, HasPit, Has
      <4>8. Kept(tb, t1)
        BY <2>2, <4>3, <4>5, Zenon DEF Kept, Others
      <4>9. Trim(t1.pcc[k])
        BY <2>2, <4>3, Zenon DEF Trim, Kind, PitKind
      <4>10. QED
        BY <4>2, <4>3, <4>5, <4>6, <4>7, <4>8, <4>9, Zenon
    <3>4. QED
      BY <3>1, <3>2, <3>3, Zenon
  <2> HIDE DEF t1
  <2>5. ub = t1
    BY <2>1, <2>4, CheckSame, Zenon
  <2>6. Settled(t1, k)
    BY <2>4, Zenon DEF Settled, HasEntries
  <2>7. Good(t1)
    BY <2>4, <2>6, Zenon DEF Good
  <2>8. QED
    BY <2>4, <2>5, <2>7, Zenon DEF ub
<1>3. CASE d # k
  <2> DEFINE t1 == IF CanInsert(tb, d) THEN Cs_PutDirect(Pcct_Insert(tb, d), d, drop) ELSE tb
             t2 == Pit_RawErase01(t1, k)
  <2>1. /\ (Has(t1, d, "cs") => ub = Cs_PutIndirect(t2, k, outcome))
        /\ (~Has(t1, d, "cs") /\ Has(t2, k, "cs") => ub = t2)
        /\ (~Has(t1, d, "cs") /\ ~Has(t2, k, "cs") => ub = Pcct_Erase(t2, k))
    BY <1>3, Zenon DEF Cs_Insert
  <2>2. /\ Good(t1) /\ Kept(tb, t1) /\ SamePits(tb, t1)
        /\ \A j \in Key \ {drop} : Has(tb, j, "cs") => Has(t1, j, "cs")
    <3>1. CASE CanInsert(tb, d)
      BY <3>1, PutDirectGood, Zenon
    <3>2. CASE ~CanInsert(tb, d)
      BY <3>2, Zenon DEF Kept, SamePits
    <3>3. QED
      BY <3>1, <3>2, Zenon
  <2> HIDE DEF t1
  <2>3. HasPit(t1, k) /\ Sound(t1) /\ Counted(t1) /\ \A j \in Key : Settled(t1, j)
    BY <2>2, Zenon DEF SamePits, HasPit, PitKind, Good
  <2>4. t1.pcc[k].live
    BY <2>3, Zenon DEF Settled, HasEntries
  <2>5. /\ Sound(t2) /\ Counted(t2) /\ Others(t1, t2, k) /\ Trim(t2.pcc[k])
        /\ t2.pcc[k].live = t1.pcc[k].live
        /\ ~HasPit(t2, k) /\ (Has(t2, k, "cs") <=> Has(t1, k, "cs"))
    <3>1. PitsErased(t1, t2, k)
      BY <2>3, RawErase01Sound, Zenon
    <3>2. QED
      BY <2>3, <3>1, Zenon DEF PitsErased, Settled
  <2> HIDE DEF t2, ub
  <2>6. t2.pcc[k].live
    BY <2>4, <2>5, Zenon
  <2>7. Sound(ub) /\ Counted(ub) /\ Others(t2, ub, k) /\ Settled(ub, k) /\ ~HasPit(ub, k)
    <3>1. CASE Has(t1, d, "cs")
      <4>1. outcome = "kept" => Has(t2, k, "cs")
        BY <2>2, <2>5, Zenon
      <4>2. ub = Cs_PutIndirect(t2, k, outcome)
        BY <2>1, <3>1, Zenon
      <4>3. QED
        BY <2>5, <2>6, <4>1, <4>2, PutIndirectSound, Zenon
    <3>2. CASE ~Has(t1, d, "cs") /\ Has(t2, k, "cs")
      <4>1. ub = t2
        BY <2>1, <3>2, Zenon
      <4>2. QED
        BY <2>5, <2>6, <3>2, <4>1, Zenon DEF Others, Settled, HasEntries
    <3>3. CASE ~Has(t1, d, "cs") /\ ~Has(t2, k, "cs")
      <4>1. ub = EraseBurst(t2, k) /\ ~HasEntries(t2, k)
        BY <2>1, <2>5, <3>3, Zenon DEF Pcct_Erase, HasEntries
      <4>2. Sound(ub) /\ Others(t2, ub, k) /\ Rest(t2, ub) /\ ub.pcc[k] = Fresh
        <5>1. Erased(t2, ub, k)
          BY <2>5, <2>6, <4>1, EraseSound, Zenon
        <5>2. QED
          BY <5>1, Zenon DEF Erased
      <4>3. \A b \in Kind : ~Has(ub, k, b)
        BY <4>2, ErasedEmpty, Zenon
      <4>4. ~HasEntries(ub, k) /\ ~HasPit(ub, k) /\ Settled(ub, k)
        BY <4>2, ErasedEmpty, Zenon
      <4>5. SamePits(t2, ub)
        BY <2>5, <4>2, <4>4, Zenon DEF SamePits, Others, Has, HasPit, PitKind
      <4>6. Counted(ub)
        BY <2>5, <4>2, <4>5, PitsSame, Zenon DEF Counted, Rest
      <4>7. QED
        BY <4>2, <4>4, <4>6, Zenon
    <3>4. QED
      BY <3>1, <3>2, <3>3, Zenon
  <2>8. Others(t1, ub, k)
    BY <2>5, <2>7, Zenon DEF Others
  <2>9. Good(ub)
    BY <2>3, <2>7, <2>8, SettledBut, Zenon DEF Good
  <2>10. Kept(tb, ub)
    BY <2>2, <2>7, <2>8, ZenonT(40) DEF Kept, SamePits, Others, HasPit, PitKind, Has
  <2>11. QED
    BY <2>9, <2>10, Zenon DEF ub
<1>4. QED
  BY <1>2, <1>3, Zenon

\* Opening and finishing a PcctEraseBatch.
LEMMA BatchGood ==
  ASSUME NEW tb, Good(tb), NEW b \in BOOLEAN, NEW ub, ub = [tb EXCEPT !.batch = b]
  PROVE  Good(ub) /\ ub.pcc = tb.pcc
<1>1. Sound(tb) /\ tb \in Table
  BY Zenon DEF Good, Sound
<1>2. ub \in Table /\ ub.pcc = tb.pcc /\ ub.owner = tb.owner /\ ub.ok = tb.ok /\ ub.nPit = tb.nPit
      /\ ub.avail = tb.avail
  BY <1>1, Zenon DEF Table
<1>3. Sound(ub)
  BY <1>1, <1>2, SameSound, Zenon
<1>4. SamePits(tb, ub) /\ \A k \in Key : Settled(ub, k)
  BY <1>2, Zenon DEF Good, SamePits, Settled, HasEntries, HasPit, Has
<1>5. Counted(ub)
  BY <1>2, <1>4, PitsSame, Zenon DEF Good, Counted
<1>6. QED
  BY <1>2, <1>3, <1>4, <1>5, Zenon DEF Good

\* An empty table is good.
LEMMA InitIInv == PcctAssumption /\ Init => IInv
<1> SUFFICES ASSUME PcctAssumption, Init PROVE IInv
  BY Zenon
<1>1. Fresh \in Entry /\ SlotsOf(Fresh)
  BY FreshEntry, Zenon
<1>2. /\ t.pcc = [k \in Key |-> Fresh] /\ t.owner = [x \in Token |-> NoKey] /\ t.ok = TRUE /\ t.nPit = 0
      /\ t \in Table /\ t.avail = PoolSize
  BY <1>1 DEF Init, Table, PcctAssumption
<1>3. \A k \in Key : ~Fresh.live /\ \A c \in Kind : ~Has(t, k, c)
  BY <1>2 DEF Has, Fresh
<1>4. Pool(t)
  <2> DEFINE c == [k \in Key |-> Held(t.pcc[k], k)]
  <2>1. \A k \in Key : c[k] = 0
    BY <1>2, <1>3, Zenon DEF Held
  <2>2. c \in [Key -> Nat]
    BY <2>1
  <2> HIDE DEF c
  <2>3. Total(c) = 0 /\ PoolSize \in Nat
    BY <2>1, <2>2, TotalZero, Zenon DEF PcctAssumption
  <2>4. t.avail + Total(c) = PoolSize
    BY <1>2, <2>3
  <2>5. QED
    BY <2>4, Zenon DEF Pool, c
<1>5. Sound(t)
  BY <1>1, <1>2, <1>3, <1>4 DEF Sound, PcctAssumption
<1>6. \A k \in Key : ~HasEntries(t, k) /\ ~HasPit(t, k)
  BY <1>3, Zenon DEF HasEntries, HasPit, Kind, PitKind
<1>7. Trim(Fresh)
  BY DEF Trim, Fresh
<1>8. \A k \in Key : Settled(t, k)
  BY <1>2, <1>3, <1>6, <1>7, Zenon DEF Settled
<1>9. Pits(t) = {}
  BY <1>3, Zenon DEF Pits, Kind
<1>10. Counted(t)
  BY <1>2, <1>9, FS_EmptySet, Zenon DEF Counted
<1>11. QED
  BY <1>5, <1>8, <1>10, Zenon DEF IInv, Good

\* Every operation keeps the table good and the tokens of lasting PIT entries.
LEMMA NextIInv == PcctAssumption /\ IInv /\ [Next]_vars => IInv' /\ Kept(t, t')
<1> SUFFICES ASSUME PcctAssumption, IInv, [Next]_vars PROVE Good(t') /\ Kept(t, t')
  BY Zenon DEF IInv, Good, Sound, SlotsOf, SlotsFit, Settled, Counted, Pits, Table
<1>1. Good(t)
  BY Zenon DEF IInv
<1>2. ASSUME NEW k \in Key, NEW c \in PitKind, NEW csHit \in BOOLEAN, NEW refused \in Refusals,
             PitInsert(k, c, csHit, refused)
      PROVE  Good(t') /\ Kept(t, t')
  BY <1>1, <1>2, PitInsertGood, Zenon DEF PitInsert
<1>3. ASSUME NEW k \in Key, NEW c \in PitKind, PitErase(k, c)
      PROVE  Good(t') /\ Kept(t, t')
  BY <1>1, <1>3, PitEraseGood, Zenon DEF PitErase
<1>4. ASSUME NEW k \in Key, NEW c \in PitKind, PitExtend(k, c)
      PROVE  Good(t') /\ Kept(t, t')
  BY <1>1, <1>4, PitExtendGood, Zenon DEF PitExtend
<1>5. ASSUME NEW x \in Token, NEW d \in Key, NEW drop \in Key \cup {NoKey}, NEW outcome \in Outcome,
             CsInsert(x, d, drop, outcome)
      PROVE  Good(t') /\ Kept(t, t')
  <2> DEFINE k == t.owner[x]
             ub == Cs_Insert(t, k, d, drop, outcome)
  <2>1. /\ k # NoKey /\ HasPit(t, k) /\ (outcome = "kept" => Has(t, k, "cs") /\ drop # k)
        /\ (drop # NoKey => drop # d /\ Has(t, d, "cs") /\ Has(t, drop, "cs"))
        /\ t' = [ub EXCEPT !.batch = TRUE]
    BY <1>5, Zenon DEF CsInsert
  <2>2. k \in Key
    BY <1>1, <2>1 DEF Good, Sound, Table
  <2> HIDE DEF k
  <2>3. Good(ub) /\ Kept(t, ub)
    BY <1>1, <2>1, <2>2, CsInsertGood, Zenon
  <2> HIDE DEF ub
  <2>4. Good(t') /\ t'.pcc = ub.pcc
    BY <2>1, <2>3, BatchGood, Zenon
  <2>5. QED
    BY <2>3, <2>4, Zenon DEF Kept, HasPit, Has
<1>6. CASE CsErase
  <2>1. Good(t') /\ t'.pcc = t.pcc
    BY <1>1, <1>6, BatchGood, Zenon DEF CsErase
  <2>2. QED
    BY <2>1, Zenon DEF Kept
<1>7. ASSUME NEW k \in Key, BatchErase(k)
      PROVE  Good(t') /\ Kept(t, t')
  BY <1>1, <1>7, EraseCsGood, Zenon DEF BatchErase
<1>8. CASE BatchFinish
  <2>1. Good(t') /\ t'.pcc = t.pcc
    BY <1>1, <1>8, BatchGood, Zenon DEF BatchFinish
  <2>2. QED
    BY <2>1, Zenon DEF Kept
<1>9. CASE UNCHANGED vars
  BY <1>1, <1>9, Zenon DEF vars, Kept
<1>10. QED
  BY <1>2, <1>3, <1>4, <1>5, <1>6, <1>7, <1>8, <1>9, Zenon DEF Next

\* A good table agrees.
LEMMA IInvAgrees == IInv => PcctAgrees
<1> SUFFICES ASSUME IInv PROVE PcctAgrees
  BY Zenon
<1>1. Sound(t) /\ (\A k \in Key : Settled(t, k)) /\ Counted(t)
  BY Zenon DEF IInv, Good
<1>2. t.ok /\ SlotsAgree
  BY <1>1, Zenon DEF Sound, SlotsAgree, SlotsOf, SlotsFit
<1>3. TokensAgree
  BY <1>1, Zenon DEF Sound, Settled, TokensAgree
<1>4. EntriesCounted
  BY <1>1, Zenon DEF Settled, Counted, Pits, EntriesCounted
<1>5. QED
  BY <1>2, <1>3, <1>4, Zenon DEF PcctAgrees

\* For every set of names, mempool and range of tokens: tokens lead to the entries that
\* carry them and to no others, slots and slot indices agree, no PCC entry is in keyHt
\* with nothing on it, Pit.nEntries is right, and no assertion of pcct.c, pcc-entry.h,
\* pit.c and cs.c about PCC entries fails, after any sequence of operations in which any
\* allocation may fail (Pcct_Insert, Pcct_AddToken_, Pit_Insert, Pit_Erase, Cs_Insert).
THEOREM PcctAlwaysAgrees == PcctAssumption /\ Spec => []PcctAgrees
<1> SUFFICES ASSUME PcctAssumption PROVE Spec => []PcctAgrees
  BY Zenon
<1>1. Init => IInv
  BY InitIInv, Zenon
<1>2. IInv /\ [Next]_vars => IInv'
  BY NextIInv, Zenon
<1>3. QED
  BY <1>1, <1>2, IInvAgrees, PTL DEF Spec

\* No object of the mempool that PCC entries, key extensions, slot extensions and PIT
\* entry extensions share is lost or given back twice, whichever allocations fail
\* (Pcct_Insert, PccEntry_AllocateSlot_, PccEntry_ClearSlot_, PitDnUpIt_Extend_,
\* PitEntry_Finalize, PcctEraseBatch_EraseBurst_).
THEOREM PoolAlwaysConserved == PcctAssumption /\ Spec => []PoolConserved
<1> SUFFICES ASSUME PcctAssumption PROVE Spec => []PoolConserved
  BY Zenon
<1>1. Init => IInv
  BY InitIInv, Zenon
<1>2. IInv /\ [Next]_vars => IInv'
  BY NextIInv, Zenon
<1>3. IInv => PoolConserved
  BY Zenon DEF IInv, Good, Sound, Pool, PoolConserved
<1>4. QED
  BY <1>1, <1>2, <1>3, PTL DEF Spec

\* PCC entries keep the fields they have, and the count of available mempool objects and
\* Pit.nEntries never go below zero or beyond what there is: no operation takes an object
\* that is not there (Pcct_Insert, PccEntry_AllocateSlot_, PitDnUpIt_Extend_, Pit_Erase).
THEOREM PcctTypes == PcctAssumption /\ Spec => []TypeOK
<1> SUFFICES ASSUME PcctAssumption PROVE Spec => []TypeOK
  BY Zenon
<1>1. Init => IInv
  BY InitIInv, Zenon
<1>2. IInv /\ [Next]_vars => IInv'
  BY NextIInv, Zenon
<1>3. IInv => TypeOK
  <2> SUFFICES ASSUME IInv PROVE TypeOK
    BY Zenon
  <2> DEFINE c == [k \in Key |-> Held(t.pcc[k], k)]
  <2>1. t \in Table /\ t.ok /\ t.avail + Total(c) = PoolSize /\ t.nPit = Cardinality(Pits(t))
    BY Zenon DEF IInv, Good, Sound, Pool, Counted
  <2>2. c \in [Key -> Nat]
    <3>1. \A k \in Key : t.pcc[k] \in Entry
      BY <2>1, Zenon DEF Table
    <3>2. QED
      BY <3>1, HeldType, Zenon
  <2> HIDE DEF c
  <2>3. Total(c) \in Nat
    BY <2>2, TotalType, Zenon DEF PcctAssumption
  <2>4. t.avail \in 0 .. PoolSize
    <3>1. t.avail \in Nat /\ PoolSize \in Nat
      BY <2>1, Zenon DEF Table, PcctAssumption
    <3>2. QED
      BY <2>1, <2>3, <3>1
  <2>5. t.nPit \in Nat
    BY <2>1, PitsFinite, FS_CardinalityType, Zenon
  <2>6. QED
    BY <2>1, <2>4, <2>5, Zenon DEF TypeOK, Table
<1>4. QED
  BY <1>1, <1>2, <1>3, PTL DEF Spec

\* The token of a PCC entry does not change while a PIT entry stays on it, so Data and
\* Nacks answering Interests already sent are found by token (Pcct_AddToken_,
\* Pit_FindByData).
THEOREM TokensStable == PcctAssumption /\ Spec => TokenStable
<1> SUFFICES ASSUME PcctAssumption PROVE Spec => TokenStable
  BY Zenon
<1>1. Init => IInv
  BY InitIInv, Zenon
<1>2. IInv /\ [Next]_vars => IInv'
  BY NextIInv, Zenon
<1>3. IInv /\ [Next]_vars
        => [\A k \in Key : HasPit(t, k) /\ HasPit(t', k) => t'.pcc[k].token = t.pcc[k].token]_vars
  BY NextIInv, Zenon DEF Kept
<1>4. QED
  BY <1>1, <1>2, <1>3, PTL DEF Spec, TokenStable
=============================================================================

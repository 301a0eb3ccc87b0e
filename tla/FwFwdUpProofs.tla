--------------------------- MODULE FwFwdUpProofs ----------------------------
(***************************************************************************)
(* Theorems about FwFwd in memory used for one entry: no DN record         *)
(* outlives the entry, a Nack is returned downstream only when every       *)
(* upstream has answered (IInv1), and no nonce is sent again to an upstream*)
(* that rejected it (IInv2).                                               *)
(***************************************************************************)
EXTENDS FwFwdProofs

-----------------------------------------------------------------------------
(* The inductive invariants                                                *)

\* No DN record outlives the entry x.
NoneOutlives(x) == \A i \in DnIndex : x.dns[i].expiry <= x.expiry

\* The UP records x has not yet are unused.  Those it has are, in this order, sent to,
\* at most one reserved and not sent to, and unused ones; and no face has two.
UpsInOrder(x) ==
  /\ \A i \in UpIndex \ UpValid(x) : x.ups[i].face = NoFace
  /\ \A i, j \in UpValid(x) :
       i < j /\ x.ups[j].face # NoFace =>
         x.ups[i].face \notin {NoFace, x.ups[j].face} /\ x.ups[i].lastTx # 0

\* An UP record that was sent an Interest.
SentTo(x, i, f) == i \in UpValid(x) /\ x.ups[i].face = f /\ x.ups[i].lastTx # 0

\* The upstreams that may still answer have an UP record without a Nack.
Awaited(x, a) == \A f \in a : \E i \in UpIndex : SentTo(x, i, f) /\ x.ups[i].nack = NackNone

\* The rejected nonces of an UP record begin with those of s, the last one first.
Holds(rej, s) == Len(s) <= MaxRej /\ \A k \in 1 .. Len(s) : rej[k] = s[Len(s) + 1 - k]

\* An UP record that was sent no Interest has no nonce; the others know the nonces
\* their face rejected.
KnowRejected(x, rj) ==
  /\ \A i \in UpIndex : x.ups[i].lastTx = 0 => x.ups[i].nonce = NoNonce
  /\ \A f \in Upstream :
       /\ rj[f] # <<>> => \E i \in UpIndex : SentTo(x, i, f)
       /\ \A i \in UpIndex : SentTo(x, i, f) => Holds(x.ups[i].rej, rj[f])

\* In memory used for one entry.
FirstUse ==
  /\ lives = 0 => e = Unused
  /\ e.live => NoneOutlives(e) /\ UpsInOrder(e) /\ Awaited(e, awaiting)
  /\ ~e.live => awaiting = {}
  /\ NackOnlyWhenDone

IInv1 == IInv /\ FirstUse

Rejecting ==
  /\ e.live => KnowRejected(e, rejected)
  /\ ~e.live => rejected = NoneRejected
  /\ NoRejectedNonce

IInv2 == IInv1 /\ Rejecting

-----------------------------------------------------------------------------
(* The UP records of an entry in memory used for the first time            *)

\* The UP records of x are those of y, which may have more, unused ones.
UpsStay(x, y) ==
  /\ y \in Entry /\ UpValid(x) \subseteq UpValid(y)
  /\ \A i \in UpValid(x) : y.ups[i] = x.ups[i]
  /\ \A i \in UpIndex \ UpValid(x) : y.ups[i].face \in {x.ups[i].face, NoFace}

\* Unused UP records at the end do not disturb the order.
LEMMA UpsStayInOrder ==
  ASSUME NEW x \in Entry, NEW y, UpsStay(x, y), UpsInOrder(x), NEW a, Awaited(x, a)
  PROVE  UpsInOrder(y) /\ Awaited(y, a)
<1>1. /\ UpValid(x) = 1 .. UpTop(x) /\ UpTop(x) \in Nat /\ UpValid(y) = 1 .. UpTop(y) /\ UpTop(y) \in Nat
      /\ UpValid(y) \subseteq UpIndex
  BY Tops, Zenon DEF UpsStay
<1>2. \A i \in UpIndex \ UpValid(x) : y.ups[i].face = NoFace
  BY Zenon DEF UpsStay, UpsInOrder
<1>3. ASSUME NEW i \in UpValid(y), NEW j \in UpValid(y), i < j, y.ups[j].face # NoFace
      PROVE  y.ups[i].face \notin {NoFace, y.ups[j].face} /\ y.ups[i].lastTx # 0
  <2>1. j \in UpValid(x)
    BY <1>1, <1>2, <1>3, Zenon
  <2>2. i \in UpValid(x)
    BY <1>1, <1>3, <2>1
  <2>3. y.ups[i] = x.ups[i] /\ y.ups[j] = x.ups[j]
    BY <2>1, <2>2, Zenon DEF UpsStay
  <2>4. QED
    BY <1>3, <2>1, <2>2, <2>3, Zenon DEF UpsInOrder
<1>4. UpsInOrder(y)
  BY <1>2, <1>3, Zenon DEF UpsInOrder, UpsStay
<1>5. Awaited(y, a)
  BY DEF Awaited, SentTo, UpsStay
<1>6. QED
  BY <1>4, <1>5, Zenon

\* A record after PitUp_Reset has been sent nothing.
LEMMA ResetProperties ==
  ASSUME NEW f
  PROVE  LET u == PitUp_Reset(f) IN
         u.face = f /\ u.lastTx = 0 /\ u.nonce = NoNonce
BY Zenon DEF PitUp_Reset, NoUp

\* PitEntry_ReserveUp keeps the order: what it resets is the first record that was sent
\* nothing, and there is nothing after it.
LEMMA ReservedInOrder ==
  ASSUME NEW x \in Entry, NEW r, NEW f \in Upstream, Reserved(x, r, f), UpsInOrder(x), NEW a, Awaited(x, a),
         NoFace \notin Upstream, a \subseteq Upstream
  PROVE  UpsInOrder(r.e) /\ Awaited(r.e, a)
<1> DEFINE y == r.e
           k == r.i
<1>0. y \in Entry /\ UpValid(x) \subseteq UpValid(y)
  BY Zenon DEF Reserved
<1>1. /\ UpValid(x) = 1 .. UpTop(x) /\ UpTop(x) \in Nat /\ UpValid(y) = 1 .. UpTop(y) /\ UpTop(y) \in Nat
      /\ UpValid(y) \subseteq UpIndex
  BY <1>0, Tops, Zenon
<1>2. /\ \A j \in UpValid(x) \ {k} : y.ups[j] = x.ups[j]
      /\ \A j \in UpIndex \ (UpValid(x) \cup {k}) : y.ups[j].face \in {x.ups[j].face, NoFace}
  BY Zenon DEF Reserved
<1>3. CASE k = 0 \/ (k \in UpValid(x) /\ y.ups[k] = x.ups[k])
  <2>1. UpsStay(x, y)
    <3> HIDE DEF y, k
    <3>1. \A i \in UpValid(x) : y.ups[i] = x.ups[i]
      BY <1>1, <1>2, <1>3
    <3>2. \A i \in UpIndex \ UpValid(x) : i # k
      BY <1>3 DEF UpIndex
    <3>3. QED
      BY <1>0, <1>2, <3>1, <3>2, Zenon DEF UpsStay
  <2>2. QED
    BY <2>1, UpsStayInOrder, Zenon
<1>4. CASE k # 0 /\ y.ups[k] = PitUp_Reset(f)
           /\ (k \in UpValid(x) => x.ups[k].face # f /\ (x.ups[k].face = NoFace \/ x.ups[k].lastTx = 0))
  <2>1. y.ups[k].face = f
    BY <1>4, ResetProperties, Zenon
  <2>2. /\ k \in UpValid(y)
        /\ \A j \in 1 .. k - 1 : j \in UpValid(x) /\ x.ups[j].face \notin {f, NoFace} /\ x.ups[j].lastTx # 0
    BY <1>4, Zenon DEF Reserved
  <2> HIDE DEF y, k
  <2>3. ASSUME NEW j \in UpIndex, j > k
        PROVE  y.ups[j].face = NoFace
    <3>1. CASE j \in UpValid(x)
      <4>1. k \in UpValid(x)
        BY <1>1, <2>2, <2>3, <3>1
      <4>2. x.ups[j].face = NoFace
        BY <1>1, <1>4, <2>2, <2>3, <3>1, <4>1, Zenon DEF UpsInOrder
      <4>3. QED
        BY <1>1, <1>2, <2>2, <2>3, <3>1, <4>2
    <3>2. CASE j \notin UpValid(x)
      BY <1>1, <1>2, <2>2, <2>3, <3>2 DEF UpsInOrder
    <3>3. QED
      BY <3>1, <3>2, Zenon
  <2>4. \A j \in 1 .. k - 1 : y.ups[j] = x.ups[j] /\ y.ups[j].face \notin {f, NoFace} /\ y.ups[j].lastTx # 0
    BY <1>1, <1>2, <2>2
  <2>5. ASSUME NEW i \in UpValid(y), NEW j \in UpValid(y), i < j, y.ups[j].face # NoFace
        PROVE  y.ups[i].face \notin {NoFace, y.ups[j].face} /\ y.ups[i].lastTx # 0
    <3>1. j <= k
      BY <1>1, <2>2, <2>3, <2>5
    <3>2. i \in 1 .. k - 1 /\ i \in UpValid(x)
      BY <1>1, <2>2, <2>5, <3>1
    <3>3. CASE j = k
      BY <2>1, <2>4, <3>2, <3>3, Zenon
    <3>4. CASE j # k
      <4>1. j \in 1 .. k - 1 /\ j \in UpValid(x)
        BY <1>1, <2>2, <3>1, <3>4
      <4>2. x.ups[i] = y.ups[i] /\ x.ups[j] = y.ups[j]
        BY <2>4, <3>2, <4>1, Zenon
      <4>3. QED
        BY <2>5, <3>2, <4>1, <4>2, Zenon DEF UpsInOrder
    <3>5. QED
      BY <3>3, <3>4, Zenon
  <2>6. ASSUME NEW i \in UpIndex \ UpValid(y)
        PROVE  y.ups[i].face = NoFace
    BY <1>0, <1>2, <2>2, Zenon DEF UpsInOrder
  <2>7. Awaited(y, a)
    <3>1. ASSUME NEW g \in a, NEW i \in UpIndex, SentTo(x, i, g), x.ups[i].nack = NackNone
          PROVE  SentTo(y, i, g) /\ y.ups[i].nack = NackNone
      <4>1. i # k
        BY <1>4, <3>1, Zenon DEF SentTo
      <4>2. QED
        BY <1>0, <1>2, <3>1, <4>1, Zenon DEF SentTo
    <3>2. QED
      BY <3>1, Zenon DEF Awaited
  <2>8. QED
    BY <2>5, <2>6, <2>7, Zenon DEF UpsInOrder, y
<1>5. QED
  BY <1>3, <1>4, Zenon DEF Reserved

\* Record i is replaced by one of the same face that has been sent to, if it had been.
LEMMA UpSetInOrder ==
  ASSUME NEW x \in Entry, NEW y, NEW i \in UpValid(x), NEW u, UpSet(x, y, i, u), UpsInOrder(x),
         u.face = x.ups[i].face, x.ups[i].lastTx # 0 => u.lastTx # 0
  PROVE  UpsInOrder(y)
<1>1. UpValid(y) = UpValid(x)
  BY Zenon DEF UpValid, UpSet
<1>2. UpValid(x) \subseteq UpIndex
  BY Tops, Zenon
<1>3. \A j \in UpIndex : y.ups[j].face = x.ups[j].face /\ (x.ups[j].lastTx # 0 => y.ups[j].lastTx # 0)
  BY Zenon DEF UpSet
<1>4. QED
  BY <1>1, <1>2, <1>3, Zenon DEF UpsInOrder

\* Once an Interest is sent at record i its face may answer, too.
LEMMA SentAwaited ==
  ASSUME NEW x \in Entry, NEW y, NEW i \in UpValid(x), NEW u, UpSet(x, y, i, u), NEW a, Awaited(x, a),
         u.face = x.ups[i].face, u.lastTx # 0, u.nack = NackNone
  PROVE  Awaited(y, a \cup {u.face})
<1>1. UpValid(y) = UpValid(x)
  BY Zenon DEF UpValid, UpSet
<1>2. UpValid(x) \subseteq UpIndex
  BY Tops, Zenon
<1>3. SentTo(y, i, u.face) /\ y.ups[i].nack = NackNone
  BY <1>1, Zenon DEF SentTo, UpSet
<1>4. ASSUME NEW g \in a, NEW j \in UpIndex, SentTo(x, j, g), x.ups[j].nack = NackNone
      PROVE  SentTo(y, j, g) /\ y.ups[j].nack = NackNone
  BY <1>1, <1>4, Zenon DEF SentTo, UpSet
<1>5. QED
  BY <1>2, <1>3, <1>4, Zenon DEF Awaited

\* Once a Nack is noted at record i the other faces may still answer.
LEMMA AnsweredAwaited ==
  ASSUME NEW x \in Entry, NEW y, NEW i \in UpValid(x), NEW u, UpSet(x, y, i, u), NEW a, Awaited(x, a)
  PROVE  Awaited(y, a \ {x.ups[i].face})
<1>1. UpValid(y) = UpValid(x)
  BY Zenon DEF UpValid, UpSet
<1>2. ASSUME NEW g \in a \ {x.ups[i].face}, NEW j \in UpIndex, SentTo(x, j, g), x.ups[j].nack = NackNone
      PROVE  SentTo(y, j, g) /\ y.ups[j].nack = NackNone
  <2>1. j # i
    BY <1>2, Zenon DEF SentTo
  <2>2. QED
    BY <1>1, <1>2, <2>1, Zenon DEF SentTo, UpSet
<1>3. QED
  BY <1>2, Zenon DEF Awaited

\* A face has one UP record, so the whole list is in scope and an upstream that may
\* still answer is counted as pending.
LEMMA PendingCounted ==
  ASSUME e \in Entry, UpsInOrder(e), NEW a, a \subseteq Upstream, NoFace \notin Upstream, Awaited(e, a),
         NEW f \in Upstream, NEW n, NEW i \in UpValid(e), e.ups[i].face = f, e.ups[i].nonce = n,
         Cardinality(NackPending(f, n)) = 0
  PROVE  a \ {f} = {}
<1>1. UpValid(e) = 1 .. UpTop(e) /\ UpTop(e) \in Nat /\ UpValid(e) \subseteq UpIndex
  BY Tops, Zenon
<1>2. ASSUME NEW j \in UpValid(e), e.ups[j].face = f
      PROVE  j = i
  <2>1. f # NoFace
    BY Zenon
  <2>2. ~(j < i) /\ ~(i < j)
    BY <1>2, <2>1, Zenon DEF UpsInOrder
  <2>3. QED
    BY <1>1, <2>2
<1>3. NackWrong(f, n) = {}
  BY <1>2, Zenon DEF NackWrong
<1>4. NackPending(f, n) = {}
  <2>1. NackPending(f, n) \subseteq 1 .. UpTop(e)
    BY <1>1, Zenon DEF NackPending, NackScope
  <2>2. IsFiniteSet(1 .. UpTop(e))
    BY <1>1, FS_Interval
  <2>3. IsFiniteSet(NackPending(f, n))
    BY <2>1, <2>2, FS_Subset, Zenon
  <2>4. QED
    BY <2>3, FS_EmptySet, Zenon
<1>5. ASSUME NEW g \in a, g # f
      PROVE  FALSE
  <2>1. PICK j \in UpIndex : SentTo(e, j, g) /\ e.ups[j].nack = NackNone
    BY Zenon DEF Awaited
  <2>2. j \in NackPending(f, n)
    <3>1. j \in UpValid(e) /\ e.ups[j].face \notin {NoFace, f}
      BY <1>5, <2>1, Zenon DEF SentTo
    <3>2. j \in NackScope(f, n)
      BY <1>3, <3>1, Zenon DEF NackScope
    <3>3. QED
      BY <2>1, <3>1, <3>2, Zenon DEF NackPending
  <2>3. QED
    BY <1>4, <2>2, Zenon
<1>6. QED
  BY <1>5, Zenon

-----------------------------------------------------------------------------
(* Every step keeps FirstUse, in memory used for one entry                 *)

\* FirstUse holds when the thread starts.
LEMMA InitFirstUse == Init => FirstUse
BY DEF Init, FirstUse, Unused, NackOnlyWhenDone, NoCtx

\* A new entry in fresh memory has no UP record and one DN record.
LEMMA BegunFirst ==
  ASSUME NEW it \in Arrival, NEW y, Begun(Unused, y, it)
  PROVE  NoneOutlives(y) /\ UpsInOrder(y) /\ Awaited(y, {})
<1>1. y.expiry \in Nat /\ y.dns[1].expiry = y.expiry
  BY DEF Begun, DnOf, Entry
<1>2. \A i \in DnIndex \ {1} : y.dns[i].expiry = 0
  BY DEF Begun, Unused, NoDn
<1>3. \A i \in UpIndex : y.ups[i].face = NoFace
  <2>1. y.ups[1].face = NoFace
    BY Zenon DEF Begun
  <2>2. \A i \in UpIndex \ {1} : y.ups[i].face = NoFace
    BY DEF Begun, Unused, NoUp
  <2>3. QED
    BY <2>1, <2>2, Zenon
<1>4. UpValid(y) \subseteq UpIndex
  BY Tops, Zenon DEF Begun
<1>5. NoneOutlives(y)
  BY <1>1, <1>2 DEF NoneOutlives
<1>6. UpsInOrder(y)
  BY <1>3, <1>4, Zenon DEF UpsInOrder
<1>7. QED
  BY <1>5, <1>6, Zenon DEF Awaited

\* No record of an entry that another Interest joins outlives it.
LEMMA JoinedFirst ==
  ASSUME NEW x \in Entry, NEW it \in Arrival, NEW y, Joined(x, y, it), NoneOutlives(x), UpsInOrder(x),
         NEW a, Awaited(x, a)
  PROVE  NoneOutlives(y) /\ UpsInOrder(y) /\ Awaited(y, a)
<1>1. UpsStay(x, y)
  BY Zenon DEF Joined, UpsStay
<1>2. NoneOutlives(y)
  <2>1. SUFFICES ASSUME NEW i \in DnIndex PROVE y.dns[i].expiry <= y.expiry
    BY Zenon DEF NoneOutlives
  <2>2. /\ y.dns[i].expiry \in {x.dns[i].expiry, it.ts + it.lifetime}
        /\ y.expiry >= x.expiry /\ y.expiry >= it.ts + it.lifetime
    BY Zenon DEF Joined
  <2>3. x.dns[i].expiry <= x.expiry
    BY Zenon DEF NoneOutlives
  <2>4. x.dns[i].expiry \in Nat /\ x.expiry \in Nat /\ y.expiry \in Nat /\ it.ts + it.lifetime \in Int
    BY DEF Entry, Dn, Joined, Arrival
  <2>5. QED
    BY <2>2, <2>3, <2>4
<1>3. QED
  BY <1>1, <1>2, UpsStayInOrder, Zenon

\* NackOnlyWhenDone needs looking at only when a Nack's strategy has sent nothing.
LEMMA DoneKept ==
  ASSUME NackOnlyWhenDone, awaiting' = awaiting, ctx' = ctx \/ ctx'.event # "nack" \/ Called(0), ctx \in Context
  PROVE  NackOnlyWhenDone'
<1>1. ctx.nFwd + 0 = ctx.nFwd
  BY DEF Context
<1>2. QED
  BY <1>1, Zenon DEF NackOnlyWhenDone, Called

\* FwFwd_RxInterest keeps FirstUse.
LEMMA RxInterestFirst ==
  ASSUME IInv1, Lives <= 1, NEW it \in Arrival, NEW canAlloc \in BOOLEAN, RxInterest(it, canAlloc)
  PROVE  FirstUse'
<1>1. Types /\ FirstUse /\ e \in Entry /\ ctx \in Context /\ lives \in Nat /\ Lives \in Nat
  BY FwFwdAssumption, Zenon DEF IInv1, IInv, Types
<1>2. \/ ~e.live /\ lives < Lives /\ lives' = lives + 1 /\ Begun(e, e', it) /\ Accepted(it)
      \/ e.live /\ lives' = lives /\ Joined(e, e', it) /\ Accepted(it)
      \/ e.live /\ Declined
  BY <1>1, RxInterestCases, Zenon
<1>3. Accepted(it) => awaiting' = awaiting /\ ctx'.event = "interest"
  BY Zenon DEF Accepted, NoCtx
<1>4. CASE ~e.live /\ lives < Lives /\ lives' = lives + 1 /\ Begun(e, e', it) /\ Accepted(it)
  <2>1. lives = 0 /\ lives' = 1
    BY <1>1, <1>4
  <2>2. e = Unused /\ awaiting = {}
    BY <1>1, <1>4, <2>1, Zenon DEF FirstUse
  <2>3. NoneOutlives(e') /\ UpsInOrder(e') /\ Awaited(e', {})
    BY <1>4, <2>2, BegunFirst, Zenon
  <2>4. e'.live /\ awaiting' = {}
    BY <1>3, <1>4, <2>2, Zenon DEF Begun
  <2>5. NackOnlyWhenDone'
    BY <1>3, <1>4, Zenon DEF NackOnlyWhenDone
  <2>6. QED
    BY <2>1, <2>3, <2>4, <2>5, SMTT(30) DEF FirstUse
<1>5. CASE e.live /\ lives' = lives /\ Joined(e, e', it) /\ Accepted(it)
  <2>1. NoneOutlives(e) /\ UpsInOrder(e) /\ Awaited(e, awaiting) /\ lives # 0
    BY <1>1, <1>5 DEF FirstUse, Unused
  <2>2. NoneOutlives(e') /\ UpsInOrder(e') /\ Awaited(e', awaiting)
    BY <1>1, <1>5, <2>1, JoinedFirst, Zenon
  <2>3. e'.live /\ awaiting' = awaiting
    BY <1>3, <1>5, Zenon DEF Joined
  <2>4. NackOnlyWhenDone'
    BY <1>3, <1>5, Zenon DEF NackOnlyWhenDone
  <2>5. QED
    BY <1>5, <2>1, <2>2, <2>3, <2>4, Zenon DEF FirstUse
<1>6. CASE Declined
  BY <1>1, <1>6, Zenon DEF Declined, FirstUse, NackOnlyWhenDone
<1>7. QED
  BY <1>2, <1>4, <1>5, <1>6, Zenon

\* The entry exists before and after, and its downstream records keep their expiration.
LEMMA LiveFirst ==
  ASSUME FirstUse, e.live, e'.live, lives' = lives, UpsInOrder(e'), Awaited(e', awaiting'), NackOnlyWhenDone',
         e'.expiry = e.expiry, \A i \in DnIndex : e'.dns[i].expiry = e.dns[i].expiry
  PROVE  FirstUse'
<1>1. NoneOutlives(e') /\ lives # 0
  BY DEF FirstUse, Unused, NoneOutlives
<1>2. QED
  BY <1>1, Zenon DEF FirstUse

\* What PitUp_RecordTx writes to an upstream record.
LEMMA RecordTxIs ==
  ASSUME NEW w \in Up, NEW t \in Nat, NEW n \in AnyNonce, NEW u, u = PitUp_RecordTx(w, t, n)
  PROVE  u.face = w.face /\ u.rej = w.rej /\ u.nack = NackNone /\ u.lastTx = t
BY RecordTxProperties

\* SgForwardInterest keeps FirstUse.
LEMMA SgForwardFirst ==
  ASSUME IInv1, NEW f \in Upstream, NEW isDown \in BOOLEAN, NEW canAlloc \in BOOLEAN, NEW canModify \in BOOLEAN,
         SgForwardInterest(f, isDown, canAlloc, canModify)
  PROVE  FirstUse'
<1>1. /\ Types /\ FirstUse /\ e \in Entry /\ ctx \in Context /\ awaiting \subseteq Upstream /\ NoFace \notin Upstream
      /\ now \in Nat \ {0} /\ NackOnlyWhenDone
  BY FwFwdAssumption, Zenon DEF IInv1, IInv, Types, Face, FirstUse
<1>2. ~Idle /\ lives' = lives /\ (Reserving(f) \/ Sending(f))
  BY <1>1, SgForwardCases, Zenon
<1>3. e.live
  BY <1>2, Zenon DEF IInv1, IInv, Working, Idle
<1>4. UpsInOrder(e) /\ Awaited(e, awaiting)
  BY <1>1, <1>3, Zenon DEF FirstUse
<1>5. ASSUME NEW r, Reserved(e, r, f)
      PROVE  /\ UpsInOrder(r.e) /\ Awaited(r.e, awaiting)
             /\ r.e \in Entry /\ r.e.live /\ r.e.expiry = e.expiry /\ \A i \in DnIndex : r.e.dns[i].expiry = e.dns[i].expiry
  <2>1. UpsInOrder(r.e) /\ Awaited(r.e, awaiting)
    BY <1>1, <1>4, <1>5, ReservedInOrder, Zenon
  <2>2. QED
    BY <1>3, <1>5, <2>1, Zenon DEF Reserved
<1>6. CASE Reserving(f)
  <2>1. NackOnlyWhenDone' /\ awaiting' = awaiting
    BY <1>1, <1>6, DoneKept, Zenon DEF Reserving
  <2>2. CASE e' = e
    BY <1>1, <1>2, <1>3, <1>4, <2>1, <2>2, LiveFirst, Zenon
  <2>3. CASE \E r : Reserved(e, r, f) /\ e' = r.e
    BY <1>1, <1>2, <1>3, <1>5, <2>1, <2>3, LiveFirst, Zenon
  <2>4. QED
    BY <1>6, <2>2, <2>3, Zenon DEF Reserving
<1>7. CASE Sending(f)
  <2>0. PICK r : \E m \in AnyNonce : /\ Reserved(e, r, f) /\ r.i # 0
                                     /\ UpSet(r.e, e', r.i, PitUp_RecordTx(r.e.ups[r.i], now, m))
    BY <1>7, Zenon DEF Sending
  <2>1. PICK n \in AnyNonce : /\ Reserved(e, r, f) /\ r.i # 0
                              /\ UpSet(r.e, e', r.i, PitUp_RecordTx(r.e.ups[r.i], now, n))
    BY <2>0, Zenon
  <2> DEFINE u == PitUp_RecordTx(r.e.ups[r.i], now, n)
  <2>2. r.i \in UpValid(r.e) /\ r.e.ups[r.i].face = f /\ r.e \in Entry
    BY <2>1, ZenonT(40) DEF Reserved
  <2>3. r.e.ups[r.i] \in Up
    BY <2>2, Tops, Zenon DEF Entry
  <2>4. u.face = f /\ u.nack = NackNone /\ u.lastTx = now
    <3> DEFINE w == r.e.ups[r.i]
    <3>1. w \in Up /\ w.face = f /\ now \in Nat /\ n \in AnyNonce
      BY <1>1, <2>2, <2>3, Zenon
    <3>2. u = PitUp_RecordTx(w, now, n)
      BY Zenon
    <3> HIDE DEF u, w
    <3>3. QED
      BY <3>1, <3>2, RecordTxIs
  <2>5. UpSet(r.e, e', r.i, u)
    BY <2>1, Zenon
  <2> HIDE DEF u
  <2>6. UpsInOrder(e') /\ Awaited(e', awaiting \cup {f})
    <3>1. UpsInOrder(r.e) /\ Awaited(r.e, awaiting) /\ u.face = r.e.ups[r.i].face /\ u.lastTx # 0
      BY <1>1, <1>5, <2>1, <2>2, <2>4, Zenon
    <3>2. UpsInOrder(e')
      BY <2>2, <2>5, <3>1, UpSetInOrder, Zenon
    <3>3. Awaited(e', awaiting \cup {u.face})
      BY <2>2, <2>4, <2>5, <3>1, SentAwaited, Zenon
    <3>4. QED
      BY <2>4, <3>2, <3>3, Zenon
  <2>7. e'.live /\ e'.expiry = e.expiry /\ \A i \in DnIndex : e'.dns[i].expiry = e.dns[i].expiry
    BY <1>5, <2>1, <2>5 DEF UpSet
  <2>8. NackOnlyWhenDone'
    <3>1. ctx'.pending \in Nat /\ ctx'.nFwd = ctx.nFwd + 1 /\ ctx.nFwd \in Nat
      BY <1>1, <1>7, ZenonT(40) DEF Sending, Called, Context
    <3>2. QED
      BY <3>1, SMTT(30) DEF NackOnlyWhenDone
  <2>9. awaiting' = awaiting \cup {f}
    BY <1>7, Zenon DEF Sending
  <2>10. QED
    BY <1>1, <1>2, <1>3, <2>6, <2>7, <2>8, <2>9, LiveFirst, Zenon
<1>8. QED
  BY <1>2, <1>6, <1>7, Zenon

\* FwFwd_RxNack keeps FirstUse: when it counts nobody as pending, nobody may answer.
LEMMA RxNackFirst ==
  ASSUME IInv1, NEW f \in Upstream, NEW n \in Nonce, NEW reason \in NackReason, NEW q \in Queueing,
         NEW fib \in BOOLEAN, NEW canModify \in BOOLEAN, RxNack(f, n, reason, q, fib, canModify)
  PROVE  FirstUse'
<1>1. /\ Types /\ FirstUse /\ e \in Entry /\ ctx \in Context /\ awaiting \subseteq Upstream /\ NoFace \notin Upstream
      /\ now \in Nat \ {0} /\ NackOnlyWhenDone
  BY FwFwdAssumption, ZenonT(40) DEF IInv1, IInv, Types, Face, FirstUse
<1>2. PICK i \in UpValid(e) :
        /\ Idle /\ e.live /\ lives' = lives
        /\ e.ups[i].face = f /\ e.ups[i].nonce = n
        /\ Retried(f, n, i) \/ Answered(f, n, reason, i)
  BY <1>1, RxNackCases, SMTT(30)
<1>3. UpsInOrder(e) /\ Awaited(e, awaiting) /\ e.ups[i] \in Up
  BY <1>1, <1>2, Tops, Zenon DEF FirstUse, Entry
<1>4. ASSUME NEW u, UpSet(e, e', i, u)
      PROVE  e'.live /\ e'.expiry = e.expiry /\ \A j \in DnIndex : e'.dns[j].expiry = e.dns[j].expiry
  BY <1>2, <1>4, Zenon DEF UpSet
<1>5. CASE Retried(f, n, i)
  <2>1. PICK v : \E k \in AnyNonce : /\ NackedUp(e.ups[i], v, n, NackDuplicate)
                                     /\ UpSet(e, e', i, PitUp_RecordTx(v, now, k))
    BY <1>5, Zenon DEF Retried
  <2>2. PICK m \in AnyNonce : /\ NackedUp(e.ups[i], v, n, NackDuplicate)
                              /\ UpSet(e, e', i, PitUp_RecordTx(v, now, m))
    BY <2>1, Zenon
  <2> DEFINE u == PitUp_RecordTx(v, now, m)
  <2>3. v \in Up /\ v.face = f
    BY <1>2, <2>2, ZenonT(40) DEF NackedUp
  <2>4. u.face = f /\ u.nack = NackNone /\ u.lastTx = now
    <3>1. v \in Up /\ v.face = f /\ now \in Nat /\ m \in AnyNonce
      BY <1>1, <2>3, Zenon
    <3>2. u = PitUp_RecordTx(v, now, m)
      BY Zenon
    <3> HIDE DEF u
    <3>3. QED
      BY <3>1, <3>2, RecordTxIs
  <2>5. UpSet(e, e', i, u)
    BY <2>2, Zenon
  <2> HIDE DEF u
  <2>6. UpsInOrder(e') /\ Awaited(e', awaiting \cup {f})
    BY <1>1, <1>2, <1>3, <2>4, <2>5, UpSetInOrder, SentAwaited, ZenonT(40)
  <2>7. awaiting' = awaiting \cup {f} /\ ctx' = ctx
    BY <1>5, Zenon DEF Retried
  <2>8. NackOnlyWhenDone'
    BY <1>2, <2>7, Zenon DEF NackOnlyWhenDone, Idle
  <2>9. QED
    BY <1>1, <1>2, <1>4, <2>5, <2>6, <2>7, <2>8, LiveFirst, ZenonT(40)
<1>6. CASE Answered(f, n, reason, i)
  <2>1. PICK v : NackedUp(e.ups[i], v, n, reason) /\ UpSet(e, e', i, v)
    BY <1>6, Zenon DEF Answered
  <2>2. v.face = f /\ v.lastTx = e.ups[i].lastTx
    BY <1>2, <2>1, ZenonT(40) DEF NackedUp
  <2>3. UpsInOrder(e') /\ Awaited(e', awaiting \ {f})
    BY <1>1, <1>2, <1>3, <2>1, <2>2, UpSetInOrder, AnsweredAwaited, ZenonT(40)
  <2>4. awaiting' = awaiting \ {f}
    BY <1>6, Zenon DEF Answered
  <2>5. NackOnlyWhenDone'
    <3>1. CASE ctx' = ctx
      BY <1>2, <3>1, Zenon DEF NackOnlyWhenDone, Idle
    <3>2. CASE ctx' \in Context /\ ctx'.nFwd = 0 /\ ctx'.pending = Cardinality(NackPending(f, n))
      <4>1. SUFFICES ASSUME ctx'.pending + ctx'.nFwd = 0 PROVE awaiting' = {}
        BY Zenon DEF NackOnlyWhenDone
      <4>2. Cardinality(NackPending(f, n)) = 0
        BY <3>2, <4>1 DEF Context
      <4>3. QED
        BY <1>1, <1>2, <1>3, <2>4, <4>2, PendingCounted, SMTT(30)
    <3>3. QED
      BY <1>6, <3>1, <3>2, Zenon DEF Answered
  <2>6. QED
    BY <1>1, <1>2, <1>4, <2>1, <2>3, <2>4, <2>5, LiveFirst, ZenonT(40)
<1>7. QED
  BY <1>2, <1>5, <1>6, Zenon

\* Steps that leave the entry keep FirstUse.
LEMMA QuietFirst ==
  ASSUME IInv1, Quiet
  PROVE  FirstUse'
<1>1. ctx \in Context /\ FirstUse /\ NackOnlyWhenDone
  BY Zenon DEF IInv1, IInv, Types, FirstUse
<1>2. NackOnlyWhenDone'
  BY <1>1, DoneKept, Zenon DEF Quiet, Unheard
<1>3. QED
  BY <1>1, <1>2, Zenon DEF FirstUse, Quiet, Unheard

\* Steps that set the timer keep FirstUse.
LEMMA RetimedFirst ==
  ASSUME IInv1, Retimed
  PROVE  FirstUse'
<1>1. ctx \in Context /\ FirstUse /\ NackOnlyWhenDone
  BY Zenon DEF IInv1, IInv, Types, FirstUse
<1>2. NackOnlyWhenDone'
  BY <1>1, DoneKept, Zenon DEF Retimed, Unheard
<1>3. UpValid(e') = UpValid(e) /\ e'.ups = e.ups /\ awaiting' = awaiting /\ e.live
  BY Zenon DEF UpValid, Retimed, Unheard
<1>4. UpsInOrder(e) /\ Awaited(e, awaiting)
  BY <1>1, <1>3, Zenon DEF FirstUse
<1>5. UpsInOrder(e') /\ Awaited(e', awaiting')
  BY <1>3, <1>4 DEF UpsInOrder, Awaited, SentTo
<1>6. QED
  BY <1>1, <1>2, <1>3, <1>5, LiveFirst, Zenon DEF Retimed

\* Steps that erase the entry keep FirstUse.
LEMMA GoneFirst ==
  ASSUME IInv1, Gone
  PROVE  FirstUse'
<1>1. FirstUse /\ e.live /\ e \in Entry
  BY Zenon DEF IInv1, IInv, Types, Gone
<1>2. lives' # 0
  BY <1>1 DEF FirstUse, Unused, Gone
<1>3. ~e'.live /\ awaiting' = {}
  BY <1>1, EraseProperties, Zenon DEF Gone, Erased
<1>4. QED
  BY <1>2, <1>3, Zenon DEF FirstUse, NackOnlyWhenDone, Gone

\* Every step keeps IInv1, in memory used for one entry.
LEMMA NextKeepsFirst ==
  ASSUME IInv1, Lives <= 1, [Next]_vars
  PROVE  IInv1'
<1>1. IInv /\ IInv' /\ Step
  BY NextCases, NextKeeps, Zenon DEF IInv1
<1>2. CASE UNCHANGED vars
  BY <1>1, <1>2, Zenon DEF IInv1, FirstUse, NackOnlyWhenDone, vars, seen
<1>3. FirstUse'
  BY <1>1, <1>2, QuietFirst, RetimedFirst, GoneFirst, RxInterestFirst, SgForwardFirst, RxNackFirst, SMTT(30) DEF Step, IInv1
<1>4. QED
  BY <1>1, <1>3, Zenon DEF IInv1

\* So it always holds.
LEMMA AlwaysFirst ==
  ASSUME Lives <= 1
  PROVE  Spec => []IInv1
<1>1. Init => IInv1
  BY InitIInv, InitFirstUse, Zenon DEF IInv1
<1>2. IInv1 /\ [Next]_vars => IInv1'
  BY NextKeepsFirst, Zenon
<1>3. QED
  BY <1>1, <1>2, PTL DEF Spec

\* In memory used for one entry, downstreams are kept as above and no DN record outlives its
\* entry, as the comment on PitEntry.expiry says. Lives <= 1 is needed: PitEntry_Init
\* clears only the first record, and those of an earlier entry may show.
THEOREM DownstreamsRemembered ==
  ASSUME Lives <= 1
  PROVE  Spec => []Remembered
<1>1. ASSUME IInv1 PROVE Remembered
  <2>1. e \in Entry /\ DownstreamsKept /\ FirstUse
    BY <1>1, Zenon DEF IInv1, IInv, Types
  <2>2. DnsInUse(e) \subseteq DnIndex
    BY <2>1, Tops, Zenon DEF DnsInUse
  <2>3. QED
    BY <2>1, <2>2, Zenon DEF Remembered, FirstUse, NoneOutlives
<1>2. QED
  BY <1>1, AlwaysFirst, PTL

\* In memory used for one entry, FwFwd_ProcessNack returns Nacks downstream only when no
\* upstream that was sent the Interest may still answer, whatever Interests the strategy
\* forwarded in between.
THEOREM NacksOnlyWhenDone ==
  ASSUME Lives <= 1
  PROVE  Spec => []NackOnlyWhenDone
<1>1. IInv1 => NackOnlyWhenDone
  BY Zenon DEF IInv1, FirstUse
<1>2. QED
  BY <1>1, AlwaysFirst, PTL

-----------------------------------------------------------------------------
(* Every step keeps Rejecting                                              *)

\* A rejected nonce goes in front of the rejected nonces of the record, and the
\* oldest one is forgotten by both.
LEMMA HoldsLatest ==
  ASSUME NEW s \in Seq(Nonce), NEW n \in Nonce, NEW rej, Holds(rej, s), NEW rej2,
         \A k \in 1 .. MaxRej : rej2[k] = IF k = 1 THEN n ELSE rej[k - 1]
  PROVE  Holds(rej2, Latest(Append(s, n)))
<1> DEFINE a == Append(s, n)
           L == Len(s)
           m == Max({1, Len(a) - MaxRej + 1})
           t == SubSeq(a, m, Len(a))
<1>1. L \in Nat /\ Len(a) = L + 1 /\ a \in Seq(Nonce) /\ a[L + 1] = n /\ \A j \in 1 .. L : a[j] = s[j]
  OBVIOUS
<1>2. L <= MaxRej /\ MaxRej \in Nat \ {0} /\ \A k \in 1 .. L : rej[k] = s[L + 1 - k]
  BY PitEntryAssumption, Zenon DEF Holds
<1> HIDE DEF a, L
<1>3. m = IF 1 >= Len(a) - MaxRej + 1 THEN 1 ELSE Len(a) - MaxRej + 1
  <2> DEFINE d == Len(a) - MaxRej + 1
  <2>1. 1 \in Int /\ d \in Int
    BY <1>1, <1>2
  <2>2. m = Max({1, d})
    OBVIOUS
  <2> HIDE DEF d, m
  <2>3. m = IF 1 >= d THEN 1 ELSE d
    BY <2>1, <2>2, MaxOfTwo, Zenon
  <2>4. QED
    BY <2>3, Zenon DEF d
<1>4. m \in {1, 2} /\ m <= L + 1 /\ L + 2 - m <= MaxRej
  BY <1>1, <1>2, <1>3, SMTT(30)
<1> HIDE DEF m
<1>5. Len(t) = L + 2 - m /\ \A j \in 1 .. L + 2 - m : t[j] = a[j + m - 1]
  BY <1>1, <1>4
<1> HIDE DEF t
<1>6. ASSUME NEW k \in 1 .. Len(t)
      PROVE  rej2[k] = t[Len(t) + 1 - k]
  <2>1. k \in Nat /\ 1 <= k /\ k <= L + 2 - m /\ k <= MaxRej /\ k \in 1 .. MaxRej
    BY <1>1, <1>2, <1>4, <1>5, <1>6, SMTT(30)
  <2>2. Len(t) + 1 - k \in 1 .. L + 2 - m /\ (Len(t) + 1 - k) + m - 1 = L + 2 - k
    BY <1>1, <1>4, <1>5, <2>1, SMTT(30)
  <2>3. t[Len(t) + 1 - k] = a[L + 2 - k]
    BY <1>5, <2>2, Zenon
  <2>4. CASE k = 1
    <3>1. L + 2 - k = L + 1
      BY <1>1, <2>4, SMTT(30)
    <3>2. QED
      BY <1>1, <2>1, <2>3, <2>4, <3>1, Zenon
  <2>5. CASE k # 1
    <3>1. k - 1 \in 1 .. L /\ L + 2 - k \in 1 .. L /\ L + 1 - (k - 1) = L + 2 - k
      BY <1>1, <1>4, <2>1, <2>5, SMTT(30)
    <3>2. rej2[k] = rej[k - 1] /\ rej[k - 1] = s[L + 2 - k] /\ a[L + 2 - k] = s[L + 2 - k]
      BY <1>1, <1>2, <2>1, <2>5, <3>1, Zenon
    <3>3. QED
      BY <2>3, <3>2, Zenon
  <2>6. QED
    BY <2>4, <2>5, Zenon
<1>7. Holds(rej2, t)
  BY <1>4, <1>5, <1>6, ZenonT(40) DEF Holds
<1>8. t = Latest(Append(s, n))
  BY Zenon DEF Latest, t, m, a
<1>9. QED
  BY <1>7, <1>8, Zenon

\* So a nonce that the record does not know is not among them.
LEMMA HoldsFresh ==
  ASSUME NEW s \in Seq(Nonce), NEW u, Holds(u.rej, s), NEW n, ~PitUp_HasRejectedNonce(u, n)
  PROVE  n \notin Range(s)
<1>1. SUFFICES ASSUME NEW j \in 1 .. Len(s), s[j] = n PROVE FALSE
  BY DEF Range
<1>2. Len(s) \in Nat /\ Len(s) <= MaxRej /\ MaxRej \in Nat
  BY PitEntryAssumption DEF Holds
<1>3. Len(s) + 1 - j \in 1 .. Len(s) /\ Len(s) + 1 - j \in 1 .. MaxRej /\ Len(s) + 1 - (Len(s) + 1 - j) = j
  BY <1>2
<1>4. u.rej[Len(s) + 1 - j] = s[j]
  BY <1>3, Zenon DEF Holds
<1>5. QED
  BY <1>1, <1>3, <1>4, Zenon DEF PitUp_HasRejectedNonce

\* A new entry in fresh memory has no rejected nonces to know of.
LEMMA BegunKnows ==
  ASSUME NEW it, NEW y, Begun(Unused, y, it)
  PROVE  KnowRejected(y, NoneRejected)
<1>1. \A i \in UpIndex : y.ups[i].lastTx = 0 /\ y.ups[i].nonce = NoNonce
  <2>1. \A i \in UpIndex : Unused.ups[i] = NoUp
    BY Zenon DEF Unused
  <2>2. NoUp.lastTx = 0 /\ NoUp.nonce = NoNonce
    BY Zenon DEF NoUp
  <2>3. y.ups[1].lastTx = 0 /\ y.ups[1].nonce = NoNonce
    <3>1. 1 \in UpIndex
      BY UnusedEntry, Tops, SMTT(30)
    <3>2. QED
      BY <2>1, <2>2, <3>1, Zenon DEF Begun
  <2>4. \A i \in UpIndex \ {1} : y.ups[i].lastTx = 0 /\ y.ups[i].nonce = NoNonce
    BY <2>1, <2>2, Zenon DEF Begun
  <2>5. QED
    BY <2>3, <2>4, Zenon
<1>2. QED
  BY <1>1, Zenon DEF KnowRejected, NoneRejected, SentTo

\* More UP records that are unused change nothing.
LEMMA UpsStayKnows ==
  ASSUME NEW x \in Entry, NEW y, UpsStay(x, y), UpsInOrder(x), NEW rj, KnowRejected(x, rj), NoFace \notin Upstream,
         \A i \in UpIndex : y.ups[i].lastTx = x.ups[i].lastTx /\ y.ups[i].nonce = x.ups[i].nonce
  PROVE  KnowRejected(y, rj)
<1>1. \A i \in UpIndex \ UpValid(x) : y.ups[i].face = NoFace
  BY Zenon DEF UpsStay, UpsInOrder
<1>2. ASSUME NEW f \in Upstream, NEW i \in UpIndex
      PROVE  /\ SentTo(x, i, f) => SentTo(y, i, f)
             /\ SentTo(y, i, f) => SentTo(x, i, f) /\ y.ups[i] = x.ups[i]
  BY <1>1, Zenon DEF SentTo, UpsStay
<1>3. QED
  BY <1>2, Zenon DEF KnowRejected

\* PitEntry_ReserveUp resets no record of a face that rejected a nonce.
LEMMA ReservedKnows ==
  ASSUME NEW x \in Entry, NEW r, NEW f \in Upstream, Reserved(x, r, f), UpsInOrder(x), NEW rj, KnowRejected(x, rj),
         NoFace \notin Upstream
  PROVE  KnowRejected(r.e, rj)
<1> DEFINE y == r.e
           k == r.i
<1>0. y \in Entry /\ UpValid(x) \subseteq UpValid(y)
  BY ZenonT(40) DEF Reserved
<1>1. UpValid(x) \subseteq UpIndex /\ UpValid(y) \subseteq UpIndex
  BY <1>0, Tops, ZenonT(40)
<1>2. /\ \A j \in UpValid(x) \ {k} : y.ups[j] = x.ups[j]
      /\ \A j \in UpIndex \ (UpValid(x) \cup {k}) : y.ups[j].face \in {x.ups[j].face, NoFace}
      /\ \A j \in UpIndex \ {k} : y.ups[j].lastTx = x.ups[j].lastTx /\ y.ups[j].nonce = x.ups[j].nonce
  BY Zenon DEF Reserved
<1>3. CASE k = 0 \/ (k \in UpValid(x) /\ y.ups[k] = x.ups[k])
  <2> HIDE DEF y, k
  <2>1. \A i \in UpValid(x) : y.ups[i] = x.ups[i]
    BY <1>2, <1>3, SMTT(30) DEF UpValid
  <2>2. \A i \in UpIndex \ UpValid(x) : i # k
    BY <1>3, SMTT(30) DEF UpIndex
  <2>3. UpsStay(x, y)
    BY <1>0, <1>2, <2>1, <2>2, Zenon DEF UpsStay
  <2>4. \A i \in UpIndex : y.ups[i].lastTx = x.ups[i].lastTx /\ y.ups[i].nonce = x.ups[i].nonce
    BY <1>2, <2>1, <2>2, Zenon
  <2>5. KnowRejected(y, rj)
    BY <2>3, <2>4, UpsStayKnows, SMTT(30)
  <2>6. QED
    BY <2>5, Zenon DEF y
<1>4. CASE k # 0 /\ y.ups[k] = PitUp_Reset(f)
           /\ (k \in UpValid(x) => x.ups[k].face # f /\ (x.ups[k].face = NoFace \/ x.ups[k].lastTx = 0))
  <2>1. y.ups[k].lastTx = 0 /\ y.ups[k].nonce = NoNonce
    BY <1>4, ResetProperties, Zenon
  <2> HIDE DEF y, k
  <2>2. \A j \in UpIndex \ UpValid(x) : j # k => y.ups[j].face = NoFace
    BY <1>2, Zenon DEF UpsInOrder
  <2>3. ASSUME NEW g \in Upstream, NEW i \in UpIndex
        PROVE  /\ SentTo(x, i, g) => SentTo(y, i, g)
               /\ SentTo(y, i, g) => SentTo(x, i, g) /\ y.ups[i] = x.ups[i]
    <3>1. CASE i = k
      BY <1>4, <2>1, <3>1, Zenon DEF SentTo
    <3>2. CASE i # k
      BY <1>0, <1>2, <2>2, <3>2, ZenonT(40) DEF SentTo
    <3>3. QED
      BY <3>1, <3>2, Zenon
  <2>4. \A i \in UpIndex : y.ups[i].lastTx = 0 => y.ups[i].nonce = NoNonce
    BY <1>2, <2>1, ZenonT(40) DEF KnowRejected
  <2>5. KnowRejected(y, rj)
    BY <2>3, <2>4, ZenonT(60) DEF KnowRejected
  <2>6. QED
    BY <2>5, Zenon DEF y
<1>5. QED
  BY <1>3, <1>4, ZenonT(40) DEF Reserved

\* A face has one UP record.
LEMMA OneUp ==
  ASSUME NEW x \in Entry, UpsInOrder(x), NoFace \notin Upstream, NEW f \in Upstream,
         NEW i \in UpValid(x), x.ups[i].face = f, NEW j \in UpValid(x), x.ups[j].face = f
  PROVE  i = j
<1>1. f # NoFace
  BY Zenon
<1>2. ~(j < i) /\ ~(i < j)
  BY <1>1, Zenon DEF UpsInOrder
<1>3. UpValid(x) = 1 .. UpTop(x) /\ UpTop(x) \in Nat
  BY Tops, Zenon
<1>4. QED
  BY <1>2, <1>3

\* An Interest is sent by record i, which knows what its face rejected.
LEMMA SentKnows ==
  ASSUME NEW x \in Entry, NEW y, NEW i \in UpValid(x), NEW u, UpSet(x, y, i, u), UpsInOrder(x),
         NEW rj, KnowRejected(x, rj), NoFace \notin Upstream, x.ups[i].face \in Upstream,
         rj \in [Upstream -> Seq(Nonce)],
         u.face = x.ups[i].face, u.lastTx # 0, u.rej = x.ups[i].rej
  PROVE  KnowRejected(y, rj) /\ Holds(u.rej, rj[u.face])
<1> DEFINE f == u.face
<1>1. UpValid(y) = UpValid(x) /\ UpValid(x) \subseteq UpIndex
  BY Tops, Zenon DEF UpValid, UpSet
<1>2. y.ups[i] = u /\ \A j \in UpIndex \ {i} : y.ups[j] = x.ups[j]
  BY Zenon DEF UpSet
<1>3. Holds(u.rej, rj[f])
  <2>1. CASE x.ups[i].lastTx # 0
    BY <1>1, <2>1, Zenon DEF KnowRejected, SentTo
  <2>2. CASE x.ups[i].lastTx = 0
    <3>1. rj[f] = <<>>
      <4>1. SUFFICES ASSUME rj[f] # <<>> PROVE FALSE
        BY Zenon
      <4>2. PICK j \in UpIndex : SentTo(x, j, f)
        BY <4>1, Zenon DEF KnowRejected
      <4>3. j = i
        BY <4>2, OneUp, Zenon DEF SentTo
      <4>4. QED
        BY <2>2, <4>2, <4>3, ZenonT(40) DEF SentTo
    <3>2. MaxRej \in Nat
      BY PitEntryAssumption, Zenon
    <3>3. QED
      BY <3>1, <3>2, SMTT(30) DEF Holds
  <2>3. QED
    BY <2>1, <2>2, Zenon
<1>4. ASSUME NEW g \in Upstream, NEW j \in UpIndex
      PROVE  /\ SentTo(x, j, g) => SentTo(y, j, g)
             /\ SentTo(y, j, g) => Holds(y.ups[j].rej, rj[g])
  <2>1. CASE j = i
    BY <1>1, <1>2, <1>3, <2>1, ZenonT(40) DEF SentTo
  <2>2. CASE j # i
    BY <1>1, <1>2, <2>2, ZenonT(40) DEF SentTo, KnowRejected
  <2>3. QED
    BY <2>1, <2>2, ZenonT(40)
<1>5. \A j \in UpIndex : y.ups[j].lastTx = 0 => y.ups[j].nonce = NoNonce
  BY <1>2, ZenonT(40) DEF KnowRejected
<1>6. KnowRejected(y, rj)
  BY <1>4, <1>5, ZenonT(40) DEF KnowRejected
<1>7. QED
  BY <1>3, <1>6, Zenon

\* Face f has rejected nonce n: from rj to rk.
Recorded(rj, rk, f, n) ==
  /\ rk \in [Upstream -> Seq(Nonce)] /\ rk[f] = Latest(Append(rj[f], n))
  /\ \A g \in Upstream \ {f} : rk[g] = rj[g]

\* A Nack for duplicate nonce n comes to record i, which has been sent to.
LEMMA NackedKnows ==
  ASSUME NEW x \in Entry, NEW y, NEW i \in UpValid(x), NEW u, UpSet(x, y, i, u), UpsInOrder(x),
         NEW rj, KnowRejected(x, rj), NoFace \notin Upstream, x.ups[i].face \in Upstream,
         rj \in [Upstream -> Seq(Nonce)], NEW n \in Nonce, x.ups[i].lastTx # 0,
         u.face = x.ups[i].face, u.lastTx # 0, Shifted(x.ups[i], u, n), NEW rk, Recorded(rj, rk, u.face, n)
  PROVE  KnowRejected(y, rk) /\ Holds(u.rej, rk[u.face])
<1> DEFINE f == u.face
<1>1. UpValid(y) = UpValid(x) /\ UpValid(x) \subseteq UpIndex
  BY Tops, ZenonT(40) DEF UpValid, UpSet
<1>2. y.ups[i] = u /\ \A j \in UpIndex \ {i} : y.ups[j] = x.ups[j]
  BY ZenonT(40) DEF UpSet
<1>3. Holds(u.rej, rk[f])
  <2>1. Holds(x.ups[i].rej, rj[f])
    BY <1>1, ZenonT(40) DEF KnowRejected, SentTo
  <2>2. rj[f] \in Seq(Nonce)
    BY ZenonT(40)
  <2> DEFINE s == rj[f]
             rej == x.ups[i].rej
             rej2 == u.rej
  <2>3. s \in Seq(Nonce) /\ Holds(rej, s) /\ \A k \in 1 .. MaxRej : rej2[k] = IF k = 1 THEN n ELSE rej[k - 1]
    BY <2>1, <2>2, ZenonT(40) DEF Shifted
  <2> HIDE DEF s, rej, rej2
  <2>4. Holds(rej2, Latest(Append(s, n)))
    BY <2>3, HoldsLatest, ZenonT(40)
  <2>5. QED
    BY <2>4, ZenonT(60) DEF s, rej2, Recorded
<1>4. ASSUME NEW g \in Upstream, NEW j \in UpIndex
      PROVE  /\ SentTo(x, j, g) => SentTo(y, j, g)
             /\ SentTo(y, j, g) => Holds(y.ups[j].rej, rk[g])
  <2>1. CASE j = i
    BY <1>1, <1>2, <1>3, <2>1, ZenonT(40) DEF SentTo
  <2>2. CASE j # i
    <3>1. SentTo(y, j, g) => SentTo(x, j, g) /\ y.ups[j] = x.ups[j]
      BY <1>1, <1>2, <2>2, ZenonT(40) DEF SentTo
    <3>2. SentTo(x, j, g) => g # f
      BY <2>2, OneUp, ZenonT(40) DEF SentTo
    <3>3. QED
      BY <1>1, <1>2, <2>2, <3>1, <3>2, ZenonT(40) DEF SentTo, KnowRejected, Recorded
  <2>3. QED
    BY <2>1, <2>2, ZenonT(40)
<1>5. \A j \in UpIndex : y.ups[j].lastTx = 0 => y.ups[j].nonce = NoNonce
  BY <1>2, ZenonT(40) DEF KnowRejected
<1>6. ASSUME NEW g \in Upstream, rk[g] # <<>>
      PROVE  \E j \in UpIndex : SentTo(y, j, g)
  <2>1. CASE g = f
    BY <1>1, <1>2, <2>1, ZenonT(40) DEF SentTo
  <2>2. CASE g # f
    BY <1>4, <1>6, <2>2, ZenonT(40) DEF KnowRejected, Recorded
  <2>3. QED
    BY <2>1, <2>2, ZenonT(40)
<1>7. KnowRejected(y, rk)
  BY <1>4, <1>5, <1>6, ZenonT(40) DEF KnowRejected
<1>8. QED
  BY <1>3, <1>7, ZenonT(40)

\* An entry with the same UP records, as far as the rejected nonces go.
LEMMA SameKnows ==
  ASSUME NEW x, NEW y, NEW rj, KnowRejected(x, rj), UpValid(y) = UpValid(x),
         \A j \in UpIndex : /\ y.ups[j].face = x.ups[j].face /\ y.ups[j].lastTx = x.ups[j].lastTx
                            /\ y.ups[j].nonce = x.ups[j].nonce /\ y.ups[j].rej = x.ups[j].rej
  PROVE  KnowRejected(y, rj)
<1>1. \A j \in UpIndex : \A f : SentTo(y, j, f) <=> SentTo(x, j, f)
  BY Zenon DEF SentTo
<1>2. \A j \in UpIndex : y.ups[j].lastTx = 0 => y.ups[j].nonce = NoNonce
  BY Zenon DEF KnowRejected
<1>3. ASSUME NEW f \in Upstream, rj[f] # <<>> PROVE \E j \in UpIndex : SentTo(y, j, f)
  BY <1>1, <1>3, Zenon DEF KnowRejected
<1>4. ASSUME NEW f \in Upstream, NEW j \in UpIndex, SentTo(y, j, f) PROVE Holds(y.ups[j].rej, rj[f])
  <2>1. Holds(x.ups[j].rej, rj[f])
    BY <1>1, <1>4, Zenon DEF KnowRejected
  <2>2. QED
    BY <2>1, Zenon
<1>5. QED
  BY <1>2, <1>3, <1>4, Zenon DEF KnowRejected

\* Any other Nack.
LEMMA OtherNackKnows ==
  ASSUME NEW x \in Entry, NEW y, NEW i \in UpValid(x), NEW u, UpSet(x, y, i, u), NEW rj, KnowRejected(x, rj),
         u.face = x.ups[i].face, u.lastTx = x.ups[i].lastTx, u.nonce = x.ups[i].nonce, u.rej = x.ups[i].rej
  PROVE  KnowRejected(y, rj)
<1>1. UpValid(y) = UpValid(x) /\ UpValid(x) \subseteq UpIndex
  BY Tops, Zenon DEF UpValid, UpSet
<1>2. \A j \in UpIndex : /\ y.ups[j].face = x.ups[j].face /\ y.ups[j].lastTx = x.ups[j].lastTx
                         /\ y.ups[j].nonce = x.ups[j].nonce /\ y.ups[j].rej = x.ups[j].rej
  BY Zenon DEF UpSet
<1>3. UpValid(y) = UpValid(x) /\ KnowRejected(x, rj)
  BY <1>1, Zenon
<1>4. QED
  BY <1>2, <1>3, SameKnows

\* Rejecting holds when the thread starts.
LEMMA InitRejecting == Init => Rejecting
<1> SUFFICES ASSUME Init PROVE Rejecting
  BY Zenon
<1>1. e = Unused /\ rejected = NoneRejected /\ out = <<>>
  BY Zenon DEF Init
<1>2. ~Unused.live
  BY Zenon DEF Unused
<1>3. NoRejectedNonce
  BY <1>1 DEF NoRejectedNonce
<1>4. QED
  BY <1>1, <1>2, <1>3, Zenon DEF Rejecting

\* A step that sends no Interest.
LEMMA SilentRejecting ==
  ASSUME NoInterestSent, e'.live => KnowRejected(e', rejected'), ~e'.live => rejected' = NoneRejected
  PROVE  Rejecting'
BY Zenon DEF Rejecting, NoRejectedNonce, NoInterestSent

\* A step that sends one, with a nonce that is not among the rejected ones.
LEMMA SendingRejecting ==
  ASSUME e'.live, KnowRejected(e', rejected'), NEW f, NEW n, NEW t, out' = <<TxInterest(f, n, t)>>,
         n \notin Range(rejected'[f])
  PROVE  Rejecting'
<1>1. \A k \in DOMAIN out' : out'[k].to = f /\ out'[k].nonce = n
  BY DEF TxInterest
<1>2. QED
  BY <1>1, Zenon DEF Rejecting, NoRejectedNonce

\* FwFwd_RxInterest keeps Rejecting.
LEMMA RxInterestRejecting ==
  ASSUME IInv2, Lives <= 1, NEW it \in Arrival, NEW canAlloc \in BOOLEAN, RxInterest(it, canAlloc)
  PROVE  Rejecting'
<1>1. /\ Types /\ FirstUse /\ Rejecting /\ e \in Entry /\ lives \in Nat /\ Lives \in Nat /\ NoFace \notin Upstream
  BY FwFwdAssumption, Zenon DEF IInv2, IInv1, IInv, Types, Face
<1>2. \/ ~e.live /\ lives < Lives /\ Begun(e, e', it) /\ Accepted(it)
      \/ e.live /\ Joined(e, e', it) /\ Accepted(it)
      \/ e.live /\ Declined
  BY <1>1, RxInterestCases, Zenon
<1>3. Accepted(it) => rejected' = rejected /\ NoInterestSent
  BY DEF Accepted, NoInterestSent
<1>4. CASE ~e.live /\ lives < Lives /\ Begun(e, e', it) /\ Accepted(it)
  <2>1. e = Unused /\ rejected = NoneRejected
    BY <1>1, <1>4, SMTT(30) DEF FirstUse, Rejecting
  <2>2. KnowRejected(e', rejected') /\ e'.live
    BY <1>3, <1>4, <2>1, BegunKnows, ZenonT(40) DEF Begun
  <2>3. QED
    BY <1>3, <1>4, <2>2, SilentRejecting, Zenon
<1>5. CASE e.live /\ Joined(e, e', it) /\ Accepted(it)
  <2>1. KnowRejected(e, rejected) /\ UpsInOrder(e)
    BY <1>1, <1>5, Zenon DEF FirstUse, Rejecting
  <2>2. /\ UpsStay(e, e') /\ e'.live
        /\ \A i \in UpIndex : e'.ups[i].lastTx = e.ups[i].lastTx /\ e'.ups[i].nonce = e.ups[i].nonce
    BY <1>5, ZenonT(40) DEF Joined, UpsStay
  <2>3. KnowRejected(e', rejected)
    BY <1>1, <2>1, <2>2, UpsStayKnows, SMTT(30)
  <2>4. QED
    BY <1>3, <1>5, <2>2, <2>3, SilentRejecting, ZenonT(40)
<1>6. CASE e.live /\ Declined
  BY <1>1, <1>6, SilentRejecting, Zenon DEF Declined, NoInterestSent, Rejecting
<1>7. QED
  BY <1>2, <1>4, <1>5, <1>6, Zenon

\* SgForwardInterest keeps Rejecting: the nonce it sends is fresh.
LEMMA SgForwardRejecting ==
  ASSUME IInv2, NEW f \in Upstream, NEW isDown \in BOOLEAN, NEW canAlloc \in BOOLEAN, NEW canModify \in BOOLEAN,
         SgForwardInterest(f, isDown, canAlloc, canModify)
  PROVE  Rejecting'
<1>1. /\ Types /\ FirstUse /\ Rejecting /\ e \in Entry /\ awaiting \subseteq Upstream /\ NoFace \notin Upstream
      /\ now \in Nat \ {0} /\ rejected \in [Upstream -> Seq(Nonce)]
  BY FwFwdAssumption, Zenon DEF IInv2, IInv1, IInv, Types, Face
<1>2. ~Idle /\ rejected' = rejected /\ (Reserving(f) \/ Sending(f))
  BY <1>1, SgForwardCases, Zenon
<1>3. e.live
  BY <1>2, Zenon DEF IInv2, IInv1, IInv, Working, Idle
<1>4. UpsInOrder(e) /\ Awaited(e, awaiting) /\ KnowRejected(e, rejected)
  BY <1>1, <1>3, Zenon DEF FirstUse, Rejecting
<1>5. ASSUME NEW r, Reserved(e, r, f)
      PROVE  UpsInOrder(r.e) /\ KnowRejected(r.e, rejected) /\ r.e.live /\ r.e \in Entry
  <2>1. UpsInOrder(r.e)
    BY <1>1, <1>4, <1>5, ReservedInOrder, Zenon
  <2>2. KnowRejected(r.e, rejected)
    BY <1>1, <1>4, <1>5, ReservedKnows, Zenon
  <2>3. QED
    BY <1>3, <1>5, <2>1, <2>2, ZenonT(40) DEF Reserved
<1>6. CASE Reserving(f)
  <2>1. NoInterestSent
    BY <1>6, SMTT(30) DEF Reserving, NoInterestSent
  <2>2. e'.live /\ KnowRejected(e', rejected)
    BY <1>3, <1>4, <1>5, <1>6, Zenon DEF Reserving
  <2>3. QED
    BY <1>2, <2>1, <2>2, SilentRejecting, Zenon
<1>7. CASE Sending(f)
  <2>0. PICK r : \E m \in AnyNonce : /\ Reserved(e, r, f) /\ r.i # 0
                                     /\ ~PitUp_HasRejectedNonce(r.e.ups[r.i], m)
                                     /\ UpSet(r.e, e', r.i, PitUp_RecordTx(r.e.ups[r.i], now, m))
                                     /\ out' = <<TxInterest(f, m, e.expiry - now)>>
    BY <1>7, ZenonT(40) DEF Sending
  <2>1. PICK n \in AnyNonce : /\ Reserved(e, r, f) /\ r.i # 0
                              /\ ~PitUp_HasRejectedNonce(r.e.ups[r.i], n)
                              /\ UpSet(r.e, e', r.i, PitUp_RecordTx(r.e.ups[r.i], now, n))
                              /\ out' = <<TxInterest(f, n, e.expiry - now)>>
    BY <2>0, ZenonT(40)
  <2> DEFINE u == PitUp_RecordTx(r.e.ups[r.i], now, n)
  <2>2. r.i \in UpValid(r.e) /\ r.e.ups[r.i].face = f /\ r.e \in Entry
    BY <2>1, ZenonT(40) DEF Reserved
  <2>3. r.e.ups[r.i] \in Up
    BY <2>2, Tops, Zenon DEF Entry
  <2>4. u.face = f /\ u.lastTx = now /\ u.rej = r.e.ups[r.i].rej
    <3> DEFINE w == r.e.ups[r.i]
    <3>1. w \in Up /\ w.face = f /\ now \in Nat /\ n \in AnyNonce
      BY <1>1, <2>2, <2>3, Zenon
    <3>2. u = PitUp_RecordTx(w, now, n)
      BY Zenon
    <3> HIDE DEF u, w
    <3>3. u.face = f /\ u.lastTx = now /\ u.rej = w.rej
      BY <3>1, <3>2, RecordTxIs
    <3>4. QED
      BY <3>3, Zenon DEF w
  <2>5. UpSet(r.e, e', r.i, u)
    BY <2>1, Zenon
  <2> HIDE DEF u
  <2>6. UpsInOrder(r.e) /\ KnowRejected(r.e, rejected) /\ r.e.live
    BY <1>5, <2>1, ZenonT(40)
  <2>7. KnowRejected(e', rejected) /\ Holds(u.rej, rejected[f])
    <3>1. r.e.ups[r.i].face \in Upstream /\ u.face = r.e.ups[r.i].face /\ u.lastTx # 0 /\ u.rej = r.e.ups[r.i].rej
      BY <1>1, <2>2, <2>4, Zenon
    <3>2. KnowRejected(e', rejected) /\ Holds(u.rej, rejected[u.face])
      BY <1>1, <2>2, <2>5, <2>6, <3>1, SentKnows, ZenonT(30)
    <3>3. QED
      BY <2>4, <3>2, Zenon
  <2>8. n \notin Range(rejected[f])
    <3>1. rejected[f] \in Seq(Nonce) /\ Holds(r.e.ups[r.i].rej, rejected[f])
      BY <1>1, <2>4, <2>7, Zenon
    <3>2. QED
      BY <2>1, <3>1, HoldsFresh, ZenonT(40)
  <2>9. e'.live
    BY <2>5, <2>6, Zenon DEF UpSet
  <2>10. QED
    BY <1>2, <2>1, <2>7, <2>8, <2>9, SendingRejecting, ZenonT(40)
<1>8. QED
  BY <1>2, <1>6, <1>7, Zenon

\* FwFwd_RxNack keeps Rejecting: so is the nonce FwFwd_RxNackDuplicate sends.
LEMMA RxNackRejecting ==
  ASSUME IInv2, NoNonce \notin Nonce,
         NEW f \in Upstream, NEW n \in Nonce, NEW reason \in NackReason, NEW q \in Queueing,
         NEW fib \in BOOLEAN, NEW canModify \in BOOLEAN, RxNack(f, n, reason, q, fib, canModify)
  PROVE  Rejecting'
<1>1. /\ Types /\ FirstUse /\ Rejecting /\ e \in Entry /\ NoFace \notin Upstream
      /\ now \in Nat \ {0} /\ rejected \in [Upstream -> Seq(Nonce)]
  BY FwFwdAssumption, ZenonT(40) DEF IInv2, IInv1, IInv, Types, Face
<1>2. PICK i \in UpValid(e) :
        /\ e.live
        /\ rejected' = IF reason = NackDuplicate
                       THEN [rejected EXCEPT ![f] = Latest(Append(@, n))] ELSE rejected
        /\ e.ups[i].face = f /\ e.ups[i].nonce = n
        /\ (reason = NackDuplicate /\ Retried(f, n, i)) \/ Answered(f, n, reason, i)
  BY <1>1, RxNackCases, SMTT(30)
<1>3. UpsInOrder(e) /\ KnowRejected(e, rejected)
  BY <1>1, <1>2, Zenon DEF FirstUse, Rejecting
<1>4. e.ups[i].lastTx # 0
  BY <1>1, <1>2, <1>3, Tops, ZenonT(40) DEF KnowRejected
<1>5. reason = NackDuplicate => Recorded(rejected, rejected', f, n)
  <2>1. rejected[f] \in Seq(Nonce)
    BY <1>1, Zenon
  <2>2. Latest(Append(rejected[f], n)) \in Seq(Nonce)
    BY <2>1, LatestType, Zenon
  <2>3. QED
    BY <1>1, <1>2, <2>2, Zenon DEF Recorded
<1>6. CASE reason = NackDuplicate /\ Retried(f, n, i)
  <2>0. PICK v : \E k \in AnyNonce : /\ NackedUp(e.ups[i], v, n, NackDuplicate)
                                     /\ ~PitUp_HasRejectedNonce(v, k)
                                     /\ UpSet(e, e', i, PitUp_RecordTx(v, now, k))
                                     /\ out' = <<TxInterest(f, k, e.expiry - now)>>
    BY <1>6, Zenon DEF Retried
  <2>1. PICK m \in AnyNonce : /\ NackedUp(e.ups[i], v, n, NackDuplicate)
                              /\ ~PitUp_HasRejectedNonce(v, m)
                              /\ UpSet(e, e', i, PitUp_RecordTx(v, now, m))
                              /\ out' = <<TxInterest(f, m, e.expiry - now)>>
    BY <2>0, Zenon
  <2> DEFINE u == PitUp_RecordTx(v, now, m)
  <2>2. v \in Up /\ v.face = f /\ Shifted(e.ups[i], v, n)
    BY <1>2, <2>1, ZenonT(40) DEF NackedUp
  <2>3. u.face = f /\ u.lastTx = now /\ u.rej = v.rej
    <3>1. v \in Up /\ v.face = f /\ now \in Nat /\ m \in AnyNonce
      BY <1>1, <2>2, Zenon
    <3>2. u = PitUp_RecordTx(v, now, m)
      BY Zenon
    <3> HIDE DEF u
    <3>3. QED
      BY <3>1, <3>2, RecordTxIs
  <2>4. UpSet(e, e', i, u)
    BY <2>1, Zenon
  <2> HIDE DEF u
  <2>5. KnowRejected(e', rejected') /\ Holds(u.rej, rejected'[f])
    <3>1. e.ups[i].face \in Upstream /\ u.face = e.ups[i].face /\ u.lastTx # 0 /\ Shifted(e.ups[i], u, n)
      BY <1>1, <1>2, <2>2, <2>3, ZenonT(40) DEF Shifted
    <3>2. Recorded(rejected, rejected', u.face, n)
      BY <1>5, <1>6, <2>3, ZenonT(60)
    <3>3. KnowRejected(e', rejected') /\ Holds(u.rej, rejected'[u.face])
      BY <1>1, <1>3, <1>4, <2>4, <3>1, <3>2, NackedKnows, ZenonT(30)
    <3>4. QED
      BY <2>3, <3>3, Zenon
  <2>6. m \notin Range(rejected'[f])
    <3>1. rejected'[f] \in Seq(Nonce) /\ Holds(v.rej, rejected'[f])
      BY <1>5, <1>6, <2>3, <2>5, ZenonT(40) DEF Recorded
    <3>2. QED
      BY <2>1, <3>1, HoldsFresh, Zenon
  <2>7. e'.live
    BY <1>2, <2>4, ZenonT(40) DEF UpSet
  <2>8. QED
    BY <2>1, <2>5, <2>6, <2>7, SendingRejecting, Zenon
<1>7. CASE Answered(f, n, reason, i)
  <2>1. PICK v : NackedUp(e.ups[i], v, n, reason) /\ UpSet(e, e', i, v)
    BY <1>7, Zenon DEF Answered
  <2>2. e'.live /\ NoInterestSent
    <3>1. e'.live
      BY <1>2, <2>1, Zenon DEF UpSet
    <3>2. out' = <<>>
      BY <1>7, Zenon DEF Answered
    <3>3. NoInterestSent
      BY <3>2 DEF NoInterestSent
    <3>4. QED
      BY <3>1, <3>3, Zenon
  <2>3. v.face = f /\ v.lastTx = e.ups[i].lastTx /\ v.nonce = e.ups[i].nonce
    BY <1>2, <2>1, Zenon DEF NackedUp
  <2>4. CASE reason = NackDuplicate
    <3>1. Shifted(e.ups[i], v, n)
      BY <2>1, <2>4, Zenon DEF NackedUp
    <3>2. KnowRejected(e', rejected')
      <4>1. e.ups[i].face \in Upstream /\ v.face = e.ups[i].face /\ v.lastTx # 0
        BY <1>2, <1>4, <2>3, ZenonT(40)
      <4>2. Recorded(rejected, rejected', v.face, n)
        BY <1>5, <2>3, <2>4, ZenonT(40)
      <4>3. QED
        BY <1>1, <1>3, <1>4, <2>1, <3>1, <4>1, <4>2, NackedKnows, ZenonT(30)
    <3>3. QED
      BY <2>2, <3>2, SilentRejecting, Zenon
  <2>5. CASE reason # NackDuplicate
    <3>1. v.rej = e.ups[i].rej /\ rejected' = rejected
      BY <1>2, <2>1, <2>5, ZenonT(40) DEF NackedUp
    <3>2. KnowRejected(e', rejected')
      BY <1>1, <1>2, <1>3, <2>1, <2>3, <3>1, OtherNackKnows, ZenonT(40)
    <3>3. QED
      BY <2>2, <3>2, SilentRejecting, Zenon
  <2>6. QED
    BY <2>4, <2>5, Zenon
<1>8. QED
  BY <1>2, <1>6, <1>7, Zenon

\* All other steps keep Rejecting.
LEMMA QuietRejecting ==
  ASSUME IInv2, Quiet \/ Retimed \/ Gone
  PROVE  Rejecting'
<1>1. Rejecting /\ e \in Entry
  BY Zenon DEF IInv2, IInv1, IInv, Types
<1>2. CASE Quiet
  BY <1>1, <1>2, SilentRejecting, Zenon DEF Quiet, Unheard, Rejecting
<1>3. CASE Retimed
  <2>1. UpValid(e') = UpValid(e) /\ e'.ups = e.ups /\ rejected' = rejected /\ e.live /\ e'.live /\ NoInterestSent
    BY <1>3, Zenon DEF UpValid, Retimed, Unheard
  <2>2. KnowRejected(e, rejected)
    BY <1>1, <2>1, Zenon DEF Rejecting
  <2>3. KnowRejected(e', rejected)
    BY <2>1, <2>2, SameKnows, Zenon
  <2>4. QED
    BY <2>1, <2>3, SilentRejecting, Zenon
<1>4. CASE Gone
  <2>1. ~e'.live /\ rejected' = NoneRejected /\ NoInterestSent
    BY <1>1, <1>4, EraseProperties, Zenon DEF Gone, Erased
  <2>2. QED
    BY <2>1, SilentRejecting, Zenon
<1>5. QED
  BY <1>2, <1>3, <1>4, Zenon

\* Every step keeps IInv2.
LEMMA NextKeepsRejecting ==
  ASSUME IInv2, Lives <= 1, NoNonce \notin Nonce, [Next]_vars
  PROVE  IInv2'
<1>1. IInv /\ IInv1 /\ IInv1' /\ Step
  BY NextCases, NextKeepsFirst, Zenon DEF IInv2, IInv1
<1>2. CASE UNCHANGED vars
  BY <1>1, <1>2, Zenon DEF IInv2, Rejecting, NoRejectedNonce, vars, seen
<1>3. Rejecting'
  BY <1>1, <1>2, QuietRejecting, RxInterestRejecting, SgForwardRejecting, RxNackRejecting, SMTT(30) DEF Step, IInv2
<1>4. QED
  BY <1>1, <1>3, Zenon DEF IInv2

\* In memory used for one entry, no Interest goes to an upstream with one of the last MaxRej
\* nonces that it rejected as duplicate, neither by SgForwardInterest nor by
\* FwFwd_RxNackDuplicate. NoNonce is the 0 of an UP record that was sent nothing, which a
\* Nack must not be able to name.
THEOREM NeverRejectedNonce ==
  ASSUME Lives <= 1, NoNonce \notin Nonce
  PROVE  Spec => []NoRejectedNonce
<1>1. Init => IInv2
  BY InitIInv, InitFirstUse, InitRejecting, Zenon DEF IInv2, IInv1
<1>2. IInv2 /\ [Next]_vars => IInv2'
  BY NextKeepsRejecting, Zenon
<1>3. IInv2 => NoRejectedNonce
  BY Zenon DEF IInv2, Rejecting
<1>4. QED
  BY <1>1, <1>2, <1>3, PTL DEF Spec
=============================================================================

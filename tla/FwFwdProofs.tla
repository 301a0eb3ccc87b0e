---------------------------- MODULE FwFwdProofs -----------------------------
(***************************************************************************)
(* Theorems about FwFwd, a forwarding thread at work on one PIT entry, in  *)
(* memory used for any number of entries in turn: the entry owns one       *)
(* Interest packet, and no downstream is lost before its time (IInv).      *)
(*                                                                         *)
(* First what the operators of PitEntry do to an entry, then the cases of  *)
(* each action, then that each case keeps IInv.                            *)
(***************************************************************************)
EXTENDS FwFwd, FiniteSetTheorems, TLAPS

-----------------------------------------------------------------------------
(* An entry and its DN and UP records, and what the operators of PitEntry  *)
(* do to them                                                              *)

AnyNonce == Nonce \cup {NoNonce}

Dn == [face : Downstream \cup {NoFace}, nonce : AnyNonce, cbp : BOOLEAN, expiry : Nat]
Up == [face : Upstream \cup {NoFace}, nonce : AnyNonce, nack : Nat, lastTx : Nat, suppress : Int,
       rej : [1 .. MaxRej -> AnyNonce]]
Entry == [live : BOOLEAN, repCbp : BOOLEAN, nCbp : Int, txHop : Int, expiry : Nat, timer : Nat, sg : BOOLEAN,
          nExts : 0 .. MaxExts, dns : [DnIndex -> Dn], ups : [UpIndex -> Up], ok : BOOLEAN]
-----------------------------------------------------------------------------
(* Least and greatest elements                                             *)

\* A nonempty set of naturals has its least element as Min, as the first-fit searches of PitEntry_ReserveUp assume.
LEMMA MinProperties ==
  ASSUME NEW S, S \subseteq Nat, S # {}
  PROVE  Min(S) \in S /\ \A y \in S : Min(S) <= y
<1>1. PICK n \in S : \A m \in S : ~(<<m, n>> \in OpToRel(<, Nat))
  BY NatLessThanWellFounded, WFMin, Zenon
<1>2. \A m \in S : ~(m < n)
  BY <1>1, Zenon DEF OpToRel
<1>3. \A m \in S : n <= m
  BY <1>2
<1>4. QED
  BY <1>3, Zenon DEF Min

\* A nonempty part of 1 .. n has a greatest element.
LEMMA MaxProperties ==
  ASSUME NEW n \in Nat, NEW S, S \subseteq 1 .. n, S # {}
  PROVE  Max(S) \in S
<1> DEFINE T == {n - x : x \in S}
<1>0. \A x \in S : n - x \in Nat
  OBVIOUS
<1>1. T \subseteq Nat /\ T # {}
  BY <1>0, Zenon
<1>2. Min(T) \in T /\ \A y \in T : Min(T) <= y
  BY <1>1, MinProperties, Zenon
<1>3. PICK x \in S : Min(T) = n - x
  BY <1>2, Zenon
<1>4. \A y \in S : n - x <= n - y
  BY <1>2, <1>3, Zenon
<1>5. \A y \in S : x >= y
  BY <1>4
<1>6. QED
  BY <1>5, Zenon DEF Max

\* The greater of two integers, as in PitSuppressConfig_Compute.
LEMMA MaxOfTwo ==
  ASSUME NEW a \in Int, NEW b \in Int
  PROVE  Max({a, b}) = IF a >= b THEN a ELSE b
BY DEF Max

\* The lesser of two integers.
LEMMA MinOfTwo ==
  ASSUME NEW a \in Int, NEW b \in Int
  PROVE  Min({a, b}) = IF a <= b THEN a ELSE b
BY DEF Min

-----------------------------------------------------------------------------
(* Entries                                                                 *)

\* The last DN and UP record of x.
DnTop(x) == MaxDns + x.nExts * MaxExtDns
UpTop(x) == MaxUps + x.nExts * MaxExtUps

\* The valid records are those up to a last index, inside the memory there is; while an
\* extension is left, the first record of the next one is inside too.
LEMMA Tops ==
  ASSUME NEW x \in Entry
  PROVE  /\ DnTop(x) \in Nat \ {0} /\ UpTop(x) \in Nat \ {0}
         /\ DnValid(x) = 1 .. DnTop(x) /\ UpValid(x) = 1 .. UpTop(x)
         /\ DnValid(x) \subseteq DnIndex /\ UpValid(x) \subseteq UpIndex
         /\ x.nExts < MaxExts => DnTop(x) + 1 \in DnIndex /\ UpTop(x) + 1 \in UpIndex
<1> USE PitEntryAssumption
<1>1. x.nExts \in Nat /\ x.nExts <= MaxExts /\ MaxExts \in Nat
  BY DEF Entry
<1>2. \A n, m, c \in Nat : n <= m => n * c \in Nat /\ m * c \in Nat /\ n * c <= m * c
  OBVIOUS
<1>3. \A n, m \in Nat, c \in Nat \ {0} : n < m => n * c + 1 <= m * c
  <2> SUFFICES ASSUME NEW n \in Nat, NEW m \in Nat, NEW c \in Nat \ {0}, n < m
               PROVE  n * c + 1 <= m * c
    BY Zenon
  <2>1. (n + 1) * c <= m * c
    BY <1>2
  <2>2. (n + 1) * c = n * c + c
    OBVIOUS
  <2>3. n * c \in Nat /\ m * c \in Nat
    BY <1>2
  <2>4. QED
    BY <2>1, <2>2, <2>3
<1>4. /\ x.nExts * MaxExtDns \in Nat /\ MaxExts * MaxExtDns \in Nat
      /\ x.nExts * MaxExtUps \in Nat /\ MaxExts * MaxExtUps \in Nat
      /\ x.nExts * MaxExtDns <= MaxExts * MaxExtDns
      /\ x.nExts * MaxExtUps <= MaxExts * MaxExtUps
  BY <1>1, <1>2, Zenon
<1>5. x.nExts < MaxExts => /\ x.nExts * MaxExtDns + 1 <= MaxExts * MaxExtDns
                           /\ x.nExts * MaxExtUps + 1 <= MaxExts * MaxExtUps
  BY <1>1, <1>3, Zenon
<1>6. QED
  BY <1>4, <1>5 DEF DnTop, UpTop, DnValid, UpValid, DnIndex, UpIndex

\* What PitDnUpIt_Extend_ leaves alone.
Extended(x, y) ==
  /\ y \in Entry
  /\ y.live = x.live /\ y.expiry = x.expiry /\ y.timer = x.timer /\ y.sg = x.sg /\ y.nCbp = x.nCbp
  /\ DnValid(x) \subseteq DnValid(y) /\ UpValid(x) \subseteq UpValid(y)
  /\ \A i \in DnValid(x) : y.dns[i] = x.dns[i]
  /\ \A i \in DnIndex : y.dns[i].expiry = x.dns[i].expiry
  /\ \A i \in UpValid(x) : y.ups[i] = x.ups[i]
  /\ \A i \in UpIndex \ UpValid(x) : y.ups[i].face \in {x.ups[i].face, NoFace}
  /\ \A i \in UpIndex : y.ups[i].lastTx = x.ups[i].lastTx /\ y.ups[i].nonce = x.ups[i].nonce

\* PitDnUpIt_Extend_ keeps the records there are and adds unused ones.
LEMMA ExtendProperties ==
  ASSUME NEW x \in Entry, x.nExts < MaxExts
  PROVE  /\ Extended(x, Extend(x))
         /\ DnTop(x) + 1 \in DnValid(Extend(x))
         /\ UpTop(x) + 1 \in UpValid(Extend(x)) /\ Extend(x).ups[UpTop(x) + 1].face = NoFace
<1> DEFINE d == DnTop(x) + 1
           u == UpTop(x) + 1
           dns == [x.dns EXCEPT ![d].face = NoFace]
           ups == [x.ups EXCEPT ![u].face = NoFace]
           y == Extend(x)
<1>1. d \in DnIndex /\ u \in UpIndex /\ x.nExts + 1 \in 0 .. MaxExts
  <2>1. x.nExts + 1 \in 0 .. MaxExts
    BY PitEntryAssumption DEF Entry
  <2>2. QED
    BY <2>1, Tops, Zenon
<1>2. dns \in [DnIndex -> Dn] /\ ups \in [UpIndex -> Up]
  <2>1. x.dns \in [DnIndex -> Dn] /\ x.ups \in [UpIndex -> Up]
    BY Zenon DEF Entry
  <2>2. [x.dns[d] EXCEPT !.face = NoFace] \in Dn
    BY <1>1, <2>1, Zenon DEF Dn
  <2>3. [x.ups[u] EXCEPT !.face = NoFace] \in Up
    BY <1>1, <2>1, Zenon DEF Up
  <2>4. QED
    BY <2>1, <2>2, <2>3, Zenon
<1>3. y = [x EXCEPT !.nExts = x.nExts + 1, !.dns = dns, !.ups = ups]
  BY Zenon DEF Extend, DnTop, UpTop
<1>4. /\ \A i \in DnIndex \ {d} : dns[i] = x.dns[i]
      /\ \A i \in UpIndex \ {u} : ups[i] = x.ups[i]
  BY Zenon DEF Entry
<1>5. /\ dns[d].expiry = x.dns[d].expiry
      /\ ups[u].face = NoFace /\ ups[u].lastTx = x.ups[u].lastTx /\ ups[u].nonce = x.ups[u].nonce
  BY <1>1 DEF Entry, Dn, Up
<1> HIDE DEF dns, ups
<1>6. y \in Entry /\ y.nExts = x.nExts + 1 /\ y.dns = dns /\ y.ups = ups
  BY <1>1, <1>2, <1>3, ZenonT(40) DEF Entry
<1>7. y.live = x.live /\ y.expiry = x.expiry /\ y.timer = x.timer /\ y.sg = x.sg /\ y.nCbp = x.nCbp
  BY <1>3, Zenon DEF Entry
<1> HIDE DEF y
<1>8. DnTop(y) >= DnTop(x) + 1 /\ UpTop(y) >= UpTop(x) + 1
  <2>1. \A n \in Nat, c \in Nat \ {0} : (n + 1) * c = n * c + c /\ n * c \in Nat
    OBVIOUS
  <2>2. x.nExts \in Nat
    BY DEF Entry
  <2>3. QED
    BY <1>6, <2>1, <2>2, PitEntryAssumption DEF DnTop, UpTop
<1>9. /\ d \in DnValid(y) /\ u \in UpValid(y)
      /\ DnValid(x) \subseteq DnValid(y) /\ UpValid(x) \subseteq UpValid(y)
      /\ d \notin DnValid(x) /\ u \notin UpValid(x)
      /\ DnValid(x) \subseteq DnIndex /\ UpValid(x) \subseteq UpIndex
  BY <1>6, <1>8, Tops
<1>10. Extended(x, y)
  BY <1>1, <1>4, <1>5, <1>6, <1>7, <1>9, Zenon DEF Extended
<1>11. QED
  BY <1>5, <1>6, <1>9, <1>10, Zenon DEF y

-----------------------------------------------------------------------------
(* PitEntry_InsertDn                                                       *)

Arrival == [face : Downstream, nonce : Nonce, cbp : BOOLEAN, lifetime : Nat \ {0}, hopLimit : Nat \ {0},
            ts : Nat \ {0}]

DnOf(it) == [face |-> it.face, nonce |-> it.nonce, cbp |-> it.cbp, expiry |-> it.ts + it.lifetime]

\* DN record i is refreshed for it; the expiration and its timer follow.
Refreshed(x, y, i, it) ==
  /\ y \in Entry
  /\ y.live = x.live /\ y.nExts = x.nExts /\ y.ups = x.ups
  /\ y.dns[i] = DnOf(it)
  /\ \A j \in DnIndex \ {i} : y.dns[j] = x.dns[j]
  /\ IF it.ts + it.lifetime > x.expiry
     THEN y.expiry = it.ts + it.lifetime /\ ~y.sg /\ y.timer = y.expiry
     ELSE y.expiry = x.expiry /\ y.sg = x.sg /\ y.timer = x.timer

\* The second half of PitEntry_InsertDn: DN record i becomes that of the Interest, the
\* expiration moves on if it has to, and one of two Interests is freed unless the entry
\* is new.
LEMMA RefreshProperties ==
  ASSUME NEW x \in Entry, NEW i \in DnIndex, NEW it \in Arrival, NEW fresh \in BOOLEAN
  PROVE  LET r == RefreshDn(x, i, it, fresh) IN
         /\ Refreshed(x, r.e, i, it)
         /\ r.found
         /\ r.freed = IF fresh /\ x.nCbp = B(it.cbp) THEN 0 ELSE 1
<1> DEFINE old == x.dns[i]
           evict == ~fresh /\ old.face # it.face /\ old.face # NoFace
           n == IF evict THEN (x.nCbp - B(old.cbp)) % CounterSize ELSE x.nCbp
           dn == DnOf(it)
           replace == n # B(it.cbp)
           rc == IF replace THEN it.cbp ELSE x.repCbp
           nc == (n + B(it.cbp)) % CounterSize
           th == Max({x.txHop, it.hopLimit - 1})
           k == x.ok /\ (evict => x.nCbp >= B(old.cbp)) /\ (replace => ~fresh) /\ (fresh => old.face = NoFace)
           dns == [x.dns EXCEPT ![i] = dn]
           y1 == [x EXCEPT !.dns = dns, !.repCbp = rc, !.nCbp = nc, !.txHop = th, !.ok = k]
           y2 == PitEntry_SetExpiryTimer([y1 EXCEPT !.expiry = dn.expiry])
           y == IF dn.expiry > x.expiry THEN y2 ELSE y1
           r == RefreshDn(x, i, it, fresh)
<1>1. r = [found |-> TRUE, freed |-> B(replace) + B(~replace /\ ~fresh), e |-> y]
  BY Zenon DEF RefreshDn, DnOf
<1>2. dn \in Dn /\ dn.expiry = it.ts + it.lifetime
  BY DEF DnOf, Dn, Arrival, AnyNonce
<1>3. dns \in [DnIndex -> Dn] /\ dns[i] = dn /\ \A j \in DnIndex \ {i} : dns[j] = x.dns[j]
  BY <1>2, Zenon DEF Entry
<1>4. rc \in BOOLEAN /\ k \in BOOLEAN
  BY Zenon DEF Entry, Arrival
<1>5. n \in Int /\ nc \in Int
  <2>1. x.nCbp \in Int /\ B(old.cbp) \in Int /\ B(it.cbp) \in Int /\ CounterSize \in Nat \ {0}
    BY PitEntryAssumption DEF Entry, B
  <2>2. n \in Int
    BY <2>1
  <2> HIDE DEF n
  <2>3. QED
    BY <2>1, <2>2
<1>6. th \in Int
  BY MaxOfTwo DEF Entry, Arrival
<1>7. r.found /\ r.freed = IF fresh /\ x.nCbp = B(it.cbp) THEN 0 ELSE 1
  BY <1>1 DEF B
<1>8. r.e = y
  BY <1>1
<1> HIDE DEF dn, dns, rc, nc, th, k
<1>9. /\ y1 \in Entry /\ y1.dns = dns /\ y1.live = x.live /\ y1.nExts = x.nExts /\ y1.ups = x.ups
      /\ y1.expiry = x.expiry /\ y1.sg = x.sg /\ y1.timer = x.timer
  BY <1>3, <1>4, <1>5, <1>6, Zenon DEF Entry
<1>10. dn.expiry \in Nat
  BY <1>2, Zenon DEF Dn
<1> HIDE DEF y1
<1>11. /\ y2 \in Entry /\ y2.dns = dns /\ y2.live = x.live /\ y2.nExts = x.nExts /\ y2.ups = x.ups
       /\ y2.expiry = dn.expiry /\ ~y2.sg /\ y2.timer = dn.expiry
  BY <1>9, <1>10, Zenon DEF PitEntry_SetExpiryTimer, Entry
<1> HIDE DEF y2, r
<1>12. Refreshed(x, y, i, it)
  <2>1. CASE dn.expiry > x.expiry
    BY <2>1, <1>2, <1>3, <1>11, Zenon DEF Refreshed, dn
  <2>2. CASE ~(dn.expiry > x.expiry)
    BY <2>2, <1>2, <1>3, <1>9, Zenon DEF Refreshed, dn
  <2>3. QED
    BY <2>1, <2>2, Zenon
<1>13. QED
  BY <1>7, <1>8, <1>12, Zenon DEF r

\* SeekDn: record s.i fits, all before it are in use by other faces.
Sought(x, s, it) ==
  /\ Extended(x, s.e)
  /\ s.i = 0 => s.e = x
  /\ s.i # 0 => /\ s.i \in DnValid(s.e)
                /\ \A j \in 1 .. s.i - 1 : j \in DnValid(x) /\ x.dns[j].face # NoFace
                /\ s.i \in DnValid(x) => x.dns[s.i].face \in {it.face, NoFace} \/ x.dns[s.i].expiry < it.ts

\* Nothing allocated, nothing changed.
LEMMA SameExtended ==
  ASSUME NEW x \in Entry
  PROVE  Extended(x, x)
BY Zenon DEF Extended

\* The first half of PitEntry_InsertDn: the record found is unused, expired or of the same
\* face, and all before it are in use.
LEMMA SeekProperties ==
  ASSUME NEW x \in Entry, NEW it \in Arrival, NEW canAlloc \in BOOLEAN
  PROVE  Sought(x, SeekDn(x, it.face, it.ts, canAlloc), it)
<1> DEFINE fits == DnFits(x, it.face, it.ts)
           s == SeekDn(x, it.face, it.ts, canAlloc)
<1>0. /\ DnTop(x) \in Nat \ {0} /\ DnValid(x) = 1 .. DnTop(x) /\ DnValid(x) \subseteq DnIndex
  BY Tops, Zenon
<1>1. CASE fits # {}
  <2>1. s = [e |-> x, i |-> Min(fits)]
    BY <1>1, Zenon DEF SeekDn
  <2>2. fits \subseteq Nat /\ fits \subseteq DnValid(x)
    BY <1>0 DEF DnFits
  <2>3. Min(fits) \in fits /\ \A y \in fits : Min(fits) <= y
    BY <1>1, <2>2, MinProperties, Zenon
  <2>4. \A j \in 1 .. Min(fits) - 1 : j \in DnValid(x) /\ j \notin fits
    BY <1>0, <2>2, <2>3
  <2>5. \A j \in 1 .. Min(fits) - 1 : x.dns[j].face # NoFace
    BY <2>4, Zenon DEF DnFits
  <2>6. x.dns[Min(fits)].face \in {it.face, NoFace} \/ x.dns[Min(fits)].expiry < it.ts
    BY <2>3, Zenon DEF DnFits
  <2>7. Min(fits) # 0
    BY <1>0, <2>2, <2>3
  <2> HIDE DEF fits, s
  <2>8. s.i = Min(fits) /\ s.e = x /\ s.i # 0 /\ s.i \in DnValid(x)
    BY <2>1, <2>2, <2>3, <2>7, Zenon
  <2>9. Sought(x, s, it)
    BY <2>4, <2>5, <2>6, <2>8, SameExtended, Zenon DEF Sought
  <2>10. QED
    BY <2>9, Zenon DEF s
<1>2. CASE fits = {} /\ canAlloc /\ x.nExts < MaxExts
  <2>1. s = [e |-> Extend(x), i |-> DnTop(x) + 1]
    BY <1>2, Zenon DEF SeekDn, DnTop
  <2>2. Extended(x, Extend(x)) /\ DnTop(x) + 1 \in DnValid(Extend(x))
    BY <1>2, ExtendProperties, Zenon
  <2>3. \A j \in DnValid(x) : x.dns[j].face # NoFace
    BY <1>2, Zenon DEF DnFits
  <2>4. DnTop(x) + 1 \notin DnValid(x) /\ DnTop(x) + 1 # 0
    BY <1>0
  <2>5. \A j \in 1 .. (DnTop(x) + 1) - 1 : j \in DnValid(x)
    BY <1>0
  <2> HIDE DEF s
  <2>6. QED
    BY <2>1, <2>2, <2>3, <2>4, <2>5 DEF Sought, s
<1>3. CASE fits = {} /\ ~(canAlloc /\ x.nExts < MaxExts)
  <2>1. s = [e |-> x, i |-> 0]
    BY <1>3, Zenon DEF SeekDn
  <2>2. QED
    BY <2>1, SameExtended DEF Sought
<1>4. QED
  BY <1>1, <1>2, <1>3, Zenon

\* What PitEntry_InsertDn does with an entry that has the packet's name already: of
\* the other faces it takes expired records only.
Joined(x, y, it) ==
  /\ y \in Entry /\ y.live = x.live
  /\ \E i \in DnsInUse(y) : y.dns[i].face = it.face /\ y.dns[i].expiry = it.ts + it.lifetime
  /\ \A i \in DnsInUse(x) :
       x.dns[i].face # it.face /\ x.dns[i].expiry >= it.ts => i \in DnsInUse(y) /\ y.dns[i] = x.dns[i]
  /\ y.expiry >= x.expiry /\ y.expiry >= it.ts + it.lifetime
  /\ \/ ~y.sg /\ y.timer = y.expiry
     \/ y.sg = x.sg /\ y.timer = x.timer /\ y.expiry = x.expiry
  /\ \A i \in DnIndex : y.dns[i].expiry \in {x.dns[i].expiry, it.ts + it.lifetime}
  /\ UpValid(x) \subseteq UpValid(y)
  /\ \A i \in UpValid(x) : y.ups[i] = x.ups[i]
  /\ \A i \in UpIndex \ UpValid(x) : y.ups[i].face \in {x.ups[i].face, NoFace}
  /\ \A i \in UpIndex : y.ups[i].lastTx = x.ups[i].lastTx /\ y.ups[i].nonce = x.ups[i].nonce

\* PitEntry_InsertDn on an existing entry: the Interest joins it and one packet is freed,
\* or no record is found and nothing changes.
LEMMA InsertProperties ==
  ASSUME NEW x \in Entry, NEW it \in Arrival, NEW canAlloc \in BOOLEAN, NoFace \notin Downstream
  PROVE  LET r == PitEntry_InsertDn(x, it, FALSE, canAlloc) IN
         IF r.found THEN Joined(x, r.e, it) /\ r.freed = 1 ELSE r.e = x
<1> DEFINE s == SeekDn(x, it.face, it.ts, canAlloc)
           r == PitEntry_InsertDn(x, it, FALSE, canAlloc)
           y == r.e
<1>1. Sought(x, s, it)
  BY SeekProperties, Zenon
<1>2. r = IF s.i = 0 THEN [found |-> FALSE, freed |-> 0, e |-> s.e] ELSE RefreshDn(s.e, s.i, it, FALSE)
  BY Zenon DEF PitEntry_InsertDn
<1> HIDE DEF s, r
<1>3. CASE s.i = 0
  <2>1. ~r.found /\ r.e = x
    BY <1>1, <1>2, <1>3, Zenon DEF Sought
  <2>2. QED
    BY <2>1, Zenon DEF r
<1>4. CASE s.i # 0
  <2>1. /\ s.e \in Entry /\ s.i \in DnValid(s.e) /\ Extended(x, s.e)
        /\ \A j \in 1 .. s.i - 1 : j \in DnValid(x) /\ x.dns[j].face # NoFace
        /\ s.i \in DnValid(x) => x.dns[s.i].face \in {it.face, NoFace} \/ x.dns[s.i].expiry < it.ts
    BY <1>1, <1>4, Zenon DEF Sought, Extended
  <2>2. /\ DnTop(s.e) \in Nat \ {0} /\ DnValid(s.e) = 1 .. DnTop(s.e) /\ DnValid(s.e) \subseteq DnIndex
        /\ DnTop(x) \in Nat \ {0} /\ DnValid(x) = 1 .. DnTop(x)
    BY <2>1, Tops, Zenon
  <2>3. r = RefreshDn(s.e, s.i, it, FALSE) /\ s.i \in DnIndex
    BY <1>2, <1>4, <2>1, <2>2, Zenon
  <2>4. Refreshed(s.e, y, s.i, it) /\ r.found /\ r.freed = 1
    BY <2>1, <2>3, RefreshProperties, ZenonT(40)
  <2> HIDE DEF y
  <2>5. /\ y \in Entry /\ y.live = x.live /\ y.nExts = s.e.nExts /\ y.ups = s.e.ups
        /\ y.dns[s.i] = DnOf(it)
        /\ \A j \in DnIndex \ {s.i} : y.dns[j] = s.e.dns[j]
        /\ y.expiry >= x.expiry /\ y.expiry >= it.ts + it.lifetime
        /\ \/ ~y.sg /\ y.timer = y.expiry
           \/ y.sg = x.sg /\ y.timer = x.timer /\ y.expiry = x.expiry
    <3>1. /\ y \in Entry /\ y.live = x.live /\ y.nExts = s.e.nExts /\ y.ups = s.e.ups
          /\ y.dns[s.i] = DnOf(it)
          /\ \A j \in DnIndex \ {s.i} : y.dns[j] = s.e.dns[j]
      BY <2>1, <2>4, Zenon DEF Refreshed, Extended
    <3>2. s.e.expiry = x.expiry /\ s.e.sg = x.sg /\ s.e.timer = x.timer
      BY <2>1, Zenon DEF Extended
    <3>3. x.expiry \in Nat /\ it.ts + it.lifetime \in Nat
      BY DEF Entry, Arrival
    <3>4. QED
      BY <2>4, <3>1, <3>2, <3>3 DEF Refreshed
  <2>6. DnValid(y) = DnValid(s.e) /\ UpValid(y) = UpValid(s.e)
    BY <2>5, Zenon DEF DnValid, UpValid
  <2>7. /\ DnOf(it).face = it.face /\ DnOf(it).expiry = it.ts + it.lifetime /\ it.face # NoFace
    BY Zenon DEF DnOf, Arrival
  <2>8. \A j \in DnValid(x) : s.e.dns[j] = x.dns[j] /\ j \in DnValid(s.e)
    BY <2>1, Zenon DEF Extended
  <2>9. s.i \in DnsInUse(y)
    <3>1. \A j \in 1 .. s.i : j # s.i => j \in 1 .. s.i - 1 /\ j \in DnIndex
      BY <2>1, <2>2, <2>8
    <3>2. \A j \in 1 .. s.i : y.dns[j].face # NoFace
      BY <2>1, <2>5, <2>7, <2>8, <3>1, Zenon
    <3>3. QED
      BY <2>1, <2>6, <3>2, Zenon DEF DnsInUse
  <2>10. ASSUME NEW i \in DnsInUse(x), x.dns[i].face # it.face, x.dns[i].expiry >= it.ts
         PROVE  i \in DnsInUse(y) /\ y.dns[i] = x.dns[i]
    <3>1. i \in DnValid(x) /\ i \in DnIndex /\ \A j \in 1 .. i : x.dns[j].face # NoFace
      BY <2>2, <2>8, Zenon DEF DnsInUse
    <3>2. i # s.i
      <4>1. x.dns[i].expiry \in Nat /\ it.ts \in Nat
        BY <3>1, Zenon DEF Entry, Dn, Arrival
      <4>2. x.dns[i].face # NoFace
        BY <2>2, <3>1
      <4>3. QED
        BY <2>1, <2>10, <3>1, <4>1, <4>2
    <3>3. y.dns[i] = x.dns[i]
      BY <2>5, <2>8, <3>1, <3>2, Zenon
    <3>4. \A j \in 1 .. i : j \in DnValid(x) /\ j \in DnIndex
      BY <2>2, <2>8, <3>1
    <3>5. \A j \in 1 .. i : y.dns[j].face # NoFace
      BY <2>5, <2>7, <2>8, <3>1, <3>4, Zenon
    <3>6. QED
      BY <2>6, <2>8, <3>1, <3>3, <3>5, Zenon DEF DnsInUse
  <2>11. \A i \in DnIndex : y.dns[i].expiry \in {x.dns[i].expiry, it.ts + it.lifetime}
    BY <2>1, <2>5, <2>7, SMTT(30) DEF Extended
  <2>12. /\ UpValid(x) \subseteq UpValid(y)
         /\ \A i \in UpValid(x) : y.ups[i] = x.ups[i]
         /\ \A i \in UpIndex \ UpValid(x) : y.ups[i].face \in {x.ups[i].face, NoFace}
         /\ \A i \in UpIndex : y.ups[i].lastTx = x.ups[i].lastTx /\ y.ups[i].nonce = x.ups[i].nonce
    BY <2>1, <2>5, <2>6, SMTT(30) DEF Extended
  <2>13. Joined(x, y, it)
    BY <2>5, <2>7, <2>9, <2>10, <2>11, <2>12, Zenon DEF Joined
  <2>14. QED
    BY <2>4, <2>13, Zenon DEF y, r
<1>5. QED
  BY <1>3, <1>4, Zenon

\* PitEntry_Init and PitEntry_InsertDn of the Interest that creates the entry.
Begun(x, y, it) ==
  /\ y \in Entry /\ y.live
  /\ 1 \in DnsInUse(y) /\ y.dns[1] = DnOf(it)
  /\ y.expiry = it.ts + it.lifetime /\ ~y.sg /\ y.timer = y.expiry
  /\ y.nExts = 0
  /\ \A i \in DnIndex \ {1} : y.dns[i] = x.dns[i]
  /\ y.ups[1].face = NoFace /\ y.ups[1].lastTx = x.ups[1].lastTx /\ y.ups[1].nonce = x.ups[1].nonce
  /\ \A i \in UpIndex \ {1} : y.ups[i] = x.ups[i]

\* PitEntry_Init and PitEntry_InsertDn on a new entry always find a record and free nothing.
LEMMA BeginProperties ==
  ASSUME NEW x \in Entry, NEW it \in Arrival, NEW canAlloc \in BOOLEAN, NoFace \notin Downstream
  PROVE  LET x0 == PitEntry_Init(x, it.cbp)
             r == PitEntry_InsertDn(x0, it, TRUE, canAlloc) IN
         /\ ~HasDuplicateNonce(x0, it.nonce, it.face)
         /\ r.found /\ r.freed = 0 /\ Begun(x, r.e, it)
<1> DEFINE x0 == PitEntry_Init(x, it.cbp)
           r == PitEntry_InsertDn(x0, it, TRUE, canAlloc)
           y == r.e
           dns == [x.dns EXCEPT ![1].face = NoFace]
           ups == [x.ups EXCEPT ![1].face = NoFace]
<1>0. 1 \in DnIndex /\ 1 \in UpIndex /\ 1 \in DnValid(x) /\ 0 \in 0 .. MaxExts
  <2>1. 1 \in DnIndex /\ 1 \in UpIndex /\ 1 \in DnValid(x)
    BY Tops
  <2>2. QED
    BY <2>1, PitEntryAssumption
<1>1. /\ dns \in [DnIndex -> Dn] /\ dns[1].face = NoFace /\ \A i \in DnIndex \ {1} : dns[i] = x.dns[i]
  <2>1. [x.dns[1] EXCEPT !.face = NoFace] \in Dn
    BY <1>0 DEF Entry, Dn
  <2>2. QED
    BY <1>0, <2>1, Zenon DEF Entry, Dn
<1>2. /\ ups \in [UpIndex -> Up] /\ ups[1].face = NoFace /\ \A i \in UpIndex \ {1} : ups[i] = x.ups[i]
      /\ ups[1].lastTx = x.ups[1].lastTx /\ ups[1].nonce = x.ups[1].nonce
  <2>0. x.ups[1] \in Up
    BY <1>0, Zenon DEF Entry
  <2>1. [x.ups[1] EXCEPT !.face = NoFace] \in Up
    BY <2>0, Zenon DEF Up
  <2>2. QED
    BY <1>0, <2>1, Zenon DEF Entry, Up
<1>3. x0 = [x EXCEPT !.live = TRUE, !.repCbp = it.cbp, !.timer = 0, !.expiry = 0, !.nCbp = B(it.cbp),
                     !.txHop = 0, !.nExts = 0, !.dns = dns, !.ups = ups]
  BY DEF PitEntry_Init
<1>4. B(it.cbp) \in Int /\ it.cbp \in BOOLEAN
  BY DEF B, Arrival
<1> HIDE DEF dns, ups
<1>a. x0 = [live |-> TRUE, repCbp |-> it.cbp, nCbp |-> B(it.cbp), txHop |-> 0, expiry |-> 0, timer |-> 0,
            sg |-> x.sg, nExts |-> 0, dns |-> dns, ups |-> ups, ok |-> x.ok]
  BY <1>3, ZenonT(40) DEF Entry
<1>5. /\ x0 \in Entry /\ x0.live /\ x0.expiry = 0 /\ x0.nCbp = B(it.cbp) /\ x0.nExts = 0
      /\ x0.dns = dns /\ x0.ups = ups
  BY <1>0, <1>1, <1>2, <1>a, <1>4 DEF Entry
<1> HIDE DEF x0
<1>6. ~HasDuplicateNonce(x0, it.nonce, it.face)
  <2>1. \A i \in DnValid(x0) : 1 \in 1 .. i
    BY <1>5, Tops
  <2>2. DnsInUse(x0) = {}
    BY <1>1, <1>5, <2>1, Zenon DEF DnsInUse
  <2>3. QED
    BY <2>2, Zenon DEF HasDuplicateNonce
<1>7. r = RefreshDn(x0, 1, it, TRUE)
  BY DEF PitEntry_InsertDn
<1> HIDE DEF r
<1>8. Refreshed(x0, y, 1, it) /\ r.found /\ r.freed = 0
  BY <1>0, <1>5, <1>7, RefreshProperties, ZenonT(40)
<1> HIDE DEF y
<1>9. it.ts + it.lifetime > 0 /\ DnOf(it).face = it.face /\ it.face # NoFace
  BY DEF Arrival, DnOf
<1>10. /\ y \in Entry /\ y.live /\ y.nExts = 0 /\ y.ups = ups /\ y.dns[1] = DnOf(it)
       /\ y.expiry = it.ts + it.lifetime /\ ~y.sg /\ y.timer = y.expiry
       /\ \A j \in DnIndex \ {1} : y.dns[j] = x.dns[j]
  BY <1>1, <1>5, <1>8, <1>9, Zenon DEF Refreshed
<1>11. 1 \in DnsInUse(y)
  <2>1. 1 \in DnValid(y)
    BY <1>10, Tops
  <2>2. QED
    BY <1>9, <1>10, <2>1 DEF DnsInUse
<1>12. Begun(x, y, it)
  BY <1>2, <1>10, <1>11, Zenon DEF Begun
<1>13. QED
  BY <1>6, <1>8, <1>12, Zenon DEF x0, r, y

-----------------------------------------------------------------------------
(* UP records                                                              *)

\* PitUp_Reset makes an UP record.
LEMMA ResetType ==
  ASSUME NEW f \in Upstream
  PROVE  /\ PitUp_Reset(f) \in Up
         /\ PitUp_Reset(f).face = f /\ PitUp_Reset(f).lastTx = 0 /\ PitUp_Reset(f).nonce = NoNonce
BY PitEntryAssumption DEF PitUp_Reset, NoUp, Up, AnyNonce, NackNone

\* PitEntry_ReserveUp: the first record that is free, or not used for sending yet, or
\* has the face already; a record of another face is reset.
Reserved(x, r, f) ==
  /\ r.e \in Entry
  /\ r.e.live = x.live /\ r.e.expiry = x.expiry /\ r.e.timer = x.timer /\ r.e.sg = x.sg
  /\ DnValid(x) \subseteq DnValid(r.e) /\ UpValid(x) \subseteq UpValid(r.e)
  /\ \A i \in DnValid(x) : r.e.dns[i] = x.dns[i]
  /\ \A i \in DnIndex : r.e.dns[i].expiry = x.dns[i].expiry
  /\ \A j \in UpValid(x) \ {r.i} : r.e.ups[j] = x.ups[j]
  /\ \A j \in UpIndex \ (UpValid(x) \cup {r.i}) : r.e.ups[j].face \in {x.ups[j].face, NoFace}
  /\ \A j \in UpIndex \ {r.i} : r.e.ups[j].lastTx = x.ups[j].lastTx /\ r.e.ups[j].nonce = x.ups[j].nonce
  /\ r.i # 0 =>
       /\ r.i \in UpValid(r.e)
       /\ r.e.ups[r.i].face = f
       /\ \A j \in 1 .. r.i - 1 : /\ j \in UpValid(x)
                                  /\ x.ups[j].face \notin {f, NoFace} /\ x.ups[j].lastTx # 0
       /\ \/ r.i \in UpValid(x) /\ r.e.ups[r.i] = x.ups[r.i]
          \/ /\ r.e.ups[r.i] = PitUp_Reset(f)
             /\ r.i \in UpValid(x) => x.ups[r.i].face # f /\ (x.ups[r.i].face = NoFace \/ x.ups[r.i].lastTx = 0)

\* UP record i of x is replaced.
UpSet(x, y, i, u) ==
  /\ y \in Entry
  /\ y.live = x.live /\ y.expiry = x.expiry /\ y.timer = x.timer /\ y.sg = x.sg /\ y.nExts = x.nExts
  /\ y.dns = x.dns
  /\ y.ups[i] = u
  /\ \A j \in UpIndex \ {i} : y.ups[j] = x.ups[j]

\* Assigning to one UP record.
LEMMA SetUpProperties ==
  ASSUME NEW x \in Entry, NEW i \in UpIndex, NEW u \in Up
  PROVE  UpSet(x, [x EXCEPT !.ups[i] = u], i, u)
<1> DEFINE ups == [x.ups EXCEPT ![i] = u]
           y == [x EXCEPT !.ups = ups]
<1>1. ups \in [UpIndex -> Up] /\ ups[i] = u /\ \A j \in UpIndex \ {i} : ups[j] = x.ups[j]
  BY Zenon DEF Entry
<1> HIDE DEF ups
<1>2. /\ y \in Entry /\ y.ups = ups
      /\ y.live = x.live /\ y.expiry = x.expiry /\ y.timer = x.timer /\ y.sg = x.sg /\ y.nExts = x.nExts
      /\ y.dns = x.dns
  BY <1>1, Zenon DEF Entry
<1> HIDE DEF y
<1>3. UpSet(x, y, i, u)
  BY <1>1, <1>2, Zenon DEF UpSet
<1>4. QED
  BY <1>3, Zenon DEF y, ups

\* PitEntry_ReserveUp does what Reserved says.
LEMMA ReserveProperties ==
  ASSUME NEW x \in Entry, NEW f \in Upstream, NEW canAlloc \in BOOLEAN, NoFace \notin Upstream
  PROVE  Reserved(x, PitEntry_ReserveUp(x, f, canAlloc), f)
<1> DEFINE r == PitEntry_ReserveUp(x, f, canAlloc)
           fits == UpFits(x, f)
           x1 == IF fits = {} /\ canAlloc /\ x.nExts < MaxExts THEN Extend(x) ELSE x
           fits1 == UpFits(x1, f)
           i == IF fits1 = {} THEN 0 ELSE Min(fits1)
<1>1. r = [i |-> i, e |-> IF i = 0 \/ x1.ups[i].face = f THEN x1 ELSE [x1 EXCEPT !.ups[i] = PitUp_Reset(f)]]
  BY Zenon DEF PitEntry_ReserveUp
<1>2. /\ UpTop(x) \in Nat \ {0} /\ UpValid(x) = 1 .. UpTop(x) /\ UpValid(x) \subseteq UpIndex
  BY Tops, Zenon
<1>3. /\ Extended(x, x1)
      /\ i = 0 \/ /\ i \in UpValid(x1)
                  /\ \A j \in 1 .. i - 1 : j \in UpValid(x) /\ x.ups[j].face \notin {f, NoFace} /\ x.ups[j].lastTx # 0
                  /\ IF i \in UpValid(x) THEN x.ups[i].face \in {f, NoFace} \/ x.ups[i].lastTx = 0
                     ELSE x1.ups[i].face # f
  <2>1. CASE fits # {}
    <3>1. x1 = x /\ fits1 = fits /\ i = Min(fits)
      BY <2>1, Zenon
    <3>2. fits \subseteq Nat /\ fits \subseteq UpValid(x)
      BY <1>2 DEF UpFits
    <3>3. Min(fits) \in fits /\ \A y \in fits : Min(fits) <= y
      BY <2>1, <3>2, MinProperties, Zenon
    <3>4. \A j \in 1 .. Min(fits) - 1 : j \in UpValid(x) /\ j \notin fits
      BY <1>2, <3>2, <3>3
    <3>5. \A j \in 1 .. Min(fits) - 1 : x.ups[j].face \notin {f, NoFace} /\ x.ups[j].lastTx # 0
      BY <3>4, Zenon DEF UpFits
    <3>6. x.ups[Min(fits)].face \in {f, NoFace} \/ x.ups[Min(fits)].lastTx = 0
      BY <3>3, Zenon DEF UpFits
    <3> HIDE DEF i, x1, fits
    <3>7. QED
      BY <3>1, <3>2, <3>3, <3>4, <3>5, <3>6, SameExtended, Zenon
  <2>2. CASE fits = {} /\ canAlloc /\ x.nExts < MaxExts
    <3>1. x1 = Extend(x)
      BY <2>2, Zenon
    <3>2. /\ Extended(x, x1) /\ UpTop(x) + 1 \in UpValid(x1) /\ x1.ups[UpTop(x) + 1].face = NoFace
      BY <2>2, <3>1, ExtendProperties, Zenon
    <3>3. \A j \in UpValid(x) : x.ups[j].face \notin {f, NoFace} /\ x.ups[j].lastTx # 0
      BY <2>2, Zenon DEF UpFits
    <3> HIDE DEF x1
    <3>4. \A j \in UpValid(x) : j \notin fits1
      BY <3>2, <3>3, Zenon DEF Extended, UpFits
    <3>5. UpTop(x) + 1 \in fits1
      BY <3>2, Zenon DEF UpFits
    <3>6. fits1 \subseteq Nat
      <4>1. x1 \in Entry
        BY <3>2, Zenon DEF Extended
      <4>2. UpValid(x1) \subseteq Nat
        BY <4>1, Tops
      <4>3. QED
        BY <4>2, Zenon DEF UpFits
    <3>7. Min(fits1) \in fits1 /\ \A y \in fits1 : Min(fits1) <= y
      BY <3>5, <3>6, MinProperties, Zenon
    <3>8. i = Min(fits1)
      BY <3>5, Zenon
    <3> HIDE DEF i, fits1
    <3>9. i = UpTop(x) + 1
      <4>1. i <= UpTop(x) + 1 /\ i \in Nat /\ i \notin UpValid(x)
        BY <3>4, <3>5, <3>6, <3>7, <3>8, ZenonT(40)
      <4>2. i # 0
        <5>1. i \in UpValid(x1) /\ x1 \in Entry
          BY <3>2, <3>7, <3>8, Zenon DEF fits1, UpFits, Extended
        <5>2. QED
          BY <5>1, Tops
      <4>3. QED
        BY <1>2, <4>1, <4>2
    <3>10. QED
      BY <1>2, <3>2, <3>3, <3>9
  <2>3. CASE fits = {} /\ ~(canAlloc /\ x.nExts < MaxExts)
    BY <2>3, SameExtended, ZenonT(40)
  <2>4. QED
    BY <2>1, <2>2, <2>3, ZenonT(40)
<1> HIDE DEF i, x1, r
<1>4. x1 \in Entry
  BY <1>3, Zenon DEF Extended
<1>5. i # 0 => i \in UpIndex
  BY <1>3, <1>4, Tops, Zenon
<1>6. CASE i = 0 \/ x1.ups[i].face = f
  <2>1. r.i = i /\ r.e = x1
    BY <1>1, <1>6, Zenon
  <2>2. i # 0 => i \in UpValid(x) /\ x1.ups[i] = x.ups[i]
    BY <1>3, <1>6, Zenon DEF Extended
  <2>3. QED
    BY <1>3, <1>6, <2>1, <2>2, Zenon DEF Reserved, Extended, r
<1>7. CASE ~(i = 0 \/ x1.ups[i].face = f)
  <2>1. r.i = i /\ r.e = [x1 EXCEPT !.ups[i] = PitUp_Reset(f)]
    BY <1>1, <1>7, Zenon
  <2>2. UpSet(x1, r.e, i, PitUp_Reset(f))
    BY <1>4, <1>5, <1>7, <2>1, SetUpProperties, ResetType, SMTT(30)
  <2>3. DnValid(r.e) = DnValid(x1) /\ UpValid(r.e) = UpValid(x1)
    BY <2>2, Zenon DEF UpSet, DnValid, UpValid
  <2>4. i \in UpValid(x) => x1.ups[i] = x.ups[i]
    BY <1>3, Zenon DEF Extended
  <2>5. /\ r.e \in Entry
        /\ r.e.live = x.live /\ r.e.expiry = x.expiry /\ r.e.timer = x.timer /\ r.e.sg = x.sg
        /\ DnValid(x) \subseteq DnValid(r.e) /\ UpValid(x) \subseteq UpValid(r.e)
        /\ \A j \in DnValid(x) : r.e.dns[j] = x.dns[j]
        /\ \A j \in DnIndex : r.e.dns[j].expiry = x.dns[j].expiry
    BY <1>3, <2>2, <2>3, ZenonT(40) DEF UpSet, Extended
  <2>6. /\ \A j \in UpValid(x) \ {r.i} : r.e.ups[j] = x.ups[j]
        /\ \A j \in UpIndex \ (UpValid(x) \cup {r.i}) : r.e.ups[j].face \in {x.ups[j].face, NoFace}
        /\ \A j \in UpIndex \ {r.i} : r.e.ups[j].lastTx = x.ups[j].lastTx /\ r.e.ups[j].nonce = x.ups[j].nonce
    BY <1>2, <1>3, <2>1, <2>2 DEF UpSet, Extended
  <2>7. /\ r.i \in UpValid(r.e) /\ r.e.ups[r.i].face = f /\ r.e.ups[r.i] = PitUp_Reset(f)
    BY <1>3, <1>7, <2>1, <2>2, <2>3, ResetType, SMTT(30) DEF UpSet
  <2>8. Reserved(x, r, f)
    BY <1>3, <1>7, <2>1, <2>4, <2>5, <2>6, <2>7 DEF Reserved
  <2>9. QED
    BY <2>8, Zenon DEF r
<1>8. QED
  BY <1>6, <1>7, Zenon

\* PitUp_RecordTx notes the nonce and the time, clears the Nack, and keeps the rejected nonces.
LEMMA RecordTxProperties ==
  ASSUME NEW u \in Up, NEW t \in Nat, NEW n \in AnyNonce
  PROVE  LET v == PitUp_RecordTx(u, t, n) IN
         v \in Up /\ v.face = u.face /\ v.rej = u.rej /\ v.nonce = n /\ v.nack = NackNone /\ v.lastTx = t
<1>1. PitSuppressConfig_Compute(u.suppress) \in Int
  <2>1. SuppressMin \in Int /\ SuppressMax \in Int /\ 2 * u.suppress \in Int
    BY PitEntryAssumption DEF Up
  <2>2. Max({SuppressMin, 2 * u.suppress}) \in Int
    BY <2>1, MaxOfTwo, Zenon
  <2>3. QED
    BY <2>1, <2>2, MinOfTwo, ZenonT(40) DEF PitSuppressConfig_Compute
<1>2. QED
  BY <1>1, Zenon DEF PitUp_RecordTx, Up, NackNone

\* PitUp_AddRejectedNonce puts the nonce in front and drops the last one.
LEMMA AddRejectedProperties ==
  ASSUME NEW u \in Up, NEW n \in AnyNonce
  PROVE  LET v == PitUp_AddRejectedNonce(u, n) IN
         /\ v \in Up /\ v.face = u.face /\ v.nonce = u.nonce /\ v.nack = u.nack /\ v.lastTx = u.lastTx
         /\ \A k \in 1 .. MaxRej : v.rej[k] = IF k = 1 THEN n ELSE u.rej[k - 1]
<1> DEFINE rej == [k \in 1 .. MaxRej |-> IF k = 1 THEN n ELSE u.rej[k - 1]]
<1>1. rej \in [1 .. MaxRej -> AnyNonce]
  <2>1. \A k \in 1 .. MaxRej : k # 1 => k - 1 \in 1 .. MaxRej
    BY PitEntryAssumption
  <2>2. QED
    BY <2>1, Zenon DEF Up
<1>2. PitUp_AddRejectedNonce(u, n) = [u EXCEPT !.rej = rej]
  BY Zenon DEF PitUp_AddRejectedNonce
<1>3. \A k \in 1 .. MaxRej : rej[k] = IF k = 1 THEN n ELSE u.rej[k - 1]
  BY Zenon
<1> HIDE DEF rej
<1>4. QED
  BY <1>1, <1>2, <1>3, Zenon DEF Up

\* PitUp_ChooseNonce never chooses a nonce the record shows as rejected.
LEMMA ChooseProperties ==
  ASSUME NEW x \in Entry, NEW u \in Up, NEW t, NEW m \in AnyNonce, NEW n \in PitUp_ChooseNonce(u, x, t, m)
  PROVE  n \in AnyNonce /\ ~PitUp_HasRejectedNonce(u, n)
<1> DEFINE alts == {i \in DnsInUse(x) : /\ x.dns[i].expiry >= t
                                        /\ ~PitUp_HasRejectedNonce(u, x.dns[i].nonce)}
<1>1. CASE ~PitUp_HasRejectedNonce(u, m)
  BY <1>1, Zenon DEF PitUp_ChooseNonce
<1>2. CASE PitUp_HasRejectedNonce(u, m) /\ alts # {}
  <2>1. n = x.dns[Min(alts)].nonce
    BY <1>2, Zenon DEF PitUp_ChooseNonce
  <2>2. alts \subseteq DnIndex /\ alts \subseteq Nat
    BY Tops, SMTT(30) DEF DnsInUse
  <2>3. Min(alts) \in alts
    BY <1>2, <2>2, MinProperties, Zenon
  <2>4. x.dns[Min(alts)] \in Dn
    BY <2>2, <2>3, Zenon DEF Entry
  <2>5. QED
    BY <2>1, <2>3, <2>4, ZenonT(40) DEF Dn
<1>3. CASE PitUp_HasRejectedNonce(u, m) /\ alts = {}
  BY <1>3, Zenon DEF PitUp_ChooseNonce
<1>4. QED
  BY <1>1, <1>2, <1>3, Zenon

-----------------------------------------------------------------------------
(* Types, and the inductive invariant                                      *)

Context == [event : {"none", "interest", "nack", "timer"}, nonce : AnyNonce, nFwd : Nat, pending : Nat,
            least : Nat, rxTime : Int, calls : Nat]

Types ==
  /\ e \in Entry
  /\ now \in Nat \ {0}
  /\ ctx \in Context
  /\ mbufs \in Int
  /\ lives \in Nat
  /\ want \in [Downstream -> Nat]
  /\ awaiting \subseteq Upstream
  /\ rejected \in [Upstream -> Seq(Nonce)]

\* The strategy works on an entry that exists.
Working == ctx.event # "none" => e.live

\* In memory used for any number of entries.
IInv == Types /\ Working /\ OwnsOneInterest /\ DownstreamsKept

-----------------------------------------------------------------------------
(* The invariant for any number of entries in the memory                   *)

\* Memory that was never used has the type of an entry.
LEMMA UnusedEntry == Unused \in Entry
<1>1. NoDn \in Dn
  BY Zenon DEF NoDn, Dn, AnyNonce
<1>2. NoUp \in Up
  BY DEF NoUp, Up, AnyNonce, NackNone
<1>3. [i \in DnIndex |-> NoDn] \in [DnIndex -> Dn] /\ [i \in UpIndex |-> NoUp] \in [UpIndex -> Up]
  BY <1>1, <1>2, Zenon
<1>4. QED
  BY <1>3, PitEntryAssumption DEF Unused, Entry

\* The empty context has the type of one.
LEMMA NoContext == NoCtx \in Context
BY DEF NoCtx, Context, AnyNonce

\* The invariant holds when the thread starts.
LEMMA InitIInv == Init => IInv
<1> SUFFICES ASSUME Init PROVE IInv
  BY Zenon
<1> USE DEF Init
<1>1. Types
  BY UnusedEntry, NoContext DEF Types, Nobody, NoneRejected
<1>2. ~e.live /\ Idle
  BY Zenon DEF Unused, Idle, NoCtx
<1>3. Working /\ OwnsOneInterest
  BY <1>2, Zenon DEF Working, OwnsOneInterest, Idle, B
<1>4. DownstreamsKept
  BY <1>2 DEF DownstreamsKept, Nobody
<1>5. QED
  BY <1>1, <1>3, <1>4, Zenon DEF IInv

\* The DN records of x are those of y, and so are expiration and timer.
DnsStay(x, y) ==
  /\ y \in Entry
  /\ y.live = x.live /\ y.expiry = x.expiry /\ y.timer = x.timer /\ y.sg = x.sg
  /\ DnValid(x) \subseteq DnValid(y)
  /\ \A i \in DnValid(x) : y.dns[i] = x.dns[i]

\* DN records in use stay in use.
LEMMA InUseStay ==
  ASSUME NEW x \in Entry, NEW y, DnsStay(x, y), NEW i \in DnsInUse(x)
  PROVE  i \in DnsInUse(y) /\ y.dns[i] = x.dns[i]
<1>1. i \in DnValid(x) /\ \A j \in 1 .. i : j \in DnValid(x)
  BY Tops DEF DnsInUse
<1>2. QED
  BY <1>1, Zenon DEF DnsInUse, DnsStay

\* Steps that leave the DN records and the packet alone.
LEMMA StayKeeps ==
  ASSUME IInv, DnsStay(e, e'), mbufs' = mbufs, want' = want, now' \in Nat, now' >= now,
         ctx' \in Context, ctx'.event # "none" => e.live,
         lives' = lives, awaiting' \subseteq Upstream, rejected' \in [Upstream -> Seq(Nonce)]
  PROVE  IInv'
<1> USE DEF IInv
<1>1. e \in Entry /\ e' \in Entry /\ e'.live = e.live
  BY Zenon DEF DnsStay, Types
<1>2. Types'
  BY <1>1 DEF Types
<1>3. Working' /\ OwnsOneInterest'
  BY <1>1, Zenon DEF Working, OwnsOneInterest
<1>4. DownstreamsKept'
  <2>1. ASSUME NEW f \in Downstream, want[f] >= now'
        PROVE  /\ e'.live /\ e'.expiry >= want[f]
               /\ \E i \in DnsInUse(e') : e'.dns[i].face = f /\ e'.dns[i].expiry = want[f]
    <3>1. want[f] >= now
      BY <2>1 DEF Types
    <3>2. /\ e.live /\ e.expiry >= want[f]
          /\ \E i \in DnsInUse(e) : e.dns[i].face = f /\ e.dns[i].expiry = want[f]
      BY <3>1, Zenon DEF DownstreamsKept
    <3>3. PICK i \in DnsInUse(e) : e.dns[i].face = f /\ e.dns[i].expiry = want[f]
      BY <3>2, Zenon
    <3>4. i \in DnsInUse(e') /\ e'.dns[i] = e.dns[i]
      BY <1>1, InUseStay, Zenon
    <3>5. QED
      BY <3>2, <3>3, <3>4, Zenon DEF DnsStay
  <2>2. e'.live => IF e'.sg THEN e'.timer <= e'.expiry ELSE e'.timer = e'.expiry
    BY Zenon DEF DownstreamsKept, DnsStay
  <2>3. QED
    BY <2>1, <2>2, Zenon DEF DownstreamsKept
<1>5. QED
  BY <1>2, <1>3, <1>4, Zenon

\* An entry keeps its own DN records.
LEMMA SameStay ==
  ASSUME NEW x \in Entry
  PROVE  DnsStay(x, x)
BY Zenon DEF DnsStay

\* Pit_Erase leaves memory of the same type that is no entry.
LEMMA EraseProperties ==
  ASSUME NEW x \in Entry
  PROVE  Pit_Erase(x) \in Entry /\ ~Pit_Erase(x).live
<1>1. 0 \in 0 .. MaxExts
  BY PitEntryAssumption
<1>2. QED
  BY <1>1, Zenon DEF Pit_Erase, Entry

\* Erasing the entry frees its packet and forgets its downstreams: IInv holds after.
LEMMA ErasedKeeps ==
  ASSUME IInv, Erased, e.live, now' = now, lives' = lives, ctx' \in Context, ctx'.event = "none"
  PROVE  IInv'
<1> USE DEF IInv
<1>1. e' \in Entry /\ ~e'.live
  BY EraseProperties, Zenon DEF Erased, Types
<1>2. Types'
  <2>1. Nobody \in [Downstream -> Nat] /\ NoneRejected \in [Upstream -> Seq(Nonce)]
    BY DEF Nobody, NoneRejected
  <2>2. QED
    BY <1>1, <2>1 DEF Types, Erased
<1>3. Working' /\ OwnsOneInterest'
  BY <1>1 DEF Working, OwnsOneInterest, Erased, B
<1>4. DownstreamsKept'
  BY <1>1 DEF DownstreamsKept, Erased, Nobody, Types
<1>5. QED
  BY <1>2, <1>3, <1>4, Zenon

\* An Interest was received no later than it is handled.
LEMMA ArrivalType ==
  ASSUME Types, NEW q \in Queueing, NEW it \in Interest(q)
  PROVE  it \in Arrival /\ it.ts <= now
<1>1. now \in Nat /\ q \in Nat /\ q < now
  BY FwFwdAssumption DEF Types, Queueing
<1>2. it.ts = now - q
  BY Zenon DEF Interest
<1>3. it.ts \in Nat \ {0} /\ it.ts <= now
  BY <1>1, <1>2
<1>4. QED
  BY <1>3, FwFwdAssumption, Zenon DEF Interest, Arrival

\* RxInterest: what becomes of the entry.
Accepted(it) ==
  /\ ctx' = [NoCtx EXCEPT !.event = "interest", !.nonce = it.nonce, !.rxTime = it.ts]
  /\ out' = <<>>
  /\ want' = [want EXCEPT ![it.face] = it.ts + it.lifetime]
  /\ UNCHANGED <<awaiting, rejected>>

Declined ==
  /\ \A k \in DOMAIN out' : out'[k].kind # "interest"
  /\ UNCHANGED <<e, ctx, mbufs, lives, want, awaiting, rejected>>

\* FwFwd_RxInterest begins an entry, joins one, or declines the Interest.
LEMMA RxInterestCases ==
  ASSUME Types, NEW it \in Arrival, NEW canAlloc \in BOOLEAN, RxInterest(it, canAlloc)
  PROVE  /\ now' = now /\ Idle
         /\ \/ ~e.live /\ lives < Lives /\ lives' = lives + 1 /\ Begun(e, e', it) /\ mbufs' = mbufs + 1 /\ Accepted(it)
            \/ e.live /\ lives' = lives /\ Joined(e, e', it) /\ mbufs' = mbufs /\ Accepted(it)
            \/ e.live /\ Declined
<1> DEFINE fresh == ~e.live
           e0 == IF fresh THEN PitEntry_Init(e, it.cbp) ELSE e
           ins == PitEntry_InsertDn(e0, it, fresh, canAlloc)
<1>0. e \in Entry /\ NoFace \notin Downstream /\ lives \in Nat /\ mbufs \in Int
  BY FwFwdAssumption, Zenon DEF Types, Face
<1>1. /\ now' = now /\ Idle /\ lives' = lives + B(fresh)
      /\ fresh => lives < Lives
  BY Zenon DEF RxInterest
<1>2. CASE ~e.live
  <2>1. e0 = PitEntry_Init(e, it.cbp) /\ ins = PitEntry_InsertDn(PitEntry_Init(e, it.cbp), it, TRUE, canAlloc)
    BY <1>2, Zenon
  <2>2. ~HasDuplicateNonce(e0, it.nonce, it.face) /\ ins.found /\ ins.freed = 0 /\ Begun(e, ins.e, it)
    BY <1>0, <2>1, BeginProperties, ZenonT(40)
  <2>3. e' = ins.e /\ mbufs' = mbufs + 1 - ins.freed /\ Accepted(it)
    <3> HIDE DEF e0, ins
    <3>1. QED
      BY <2>2, Zenon DEF RxInterest, Accepted, e0, ins
  <2> HIDE DEF e0, ins
  <2>4. mbufs' = mbufs + 1 /\ lives' = lives + 1
    BY <1>0, <1>1, <1>2, <2>2, <2>3, SMTT(30) DEF B
  <2>5. QED
    BY <1>1, <1>2, <2>2, <2>3, <2>4, Zenon
<1>3. CASE e.live
  <2>1. e0 = e /\ ins = PitEntry_InsertDn(e, it, FALSE, canAlloc)
    BY <1>3, Zenon
  <2>2. IF ins.found THEN Joined(e, ins.e, it) /\ ins.freed = 1 ELSE ins.e = e
    <3> DEFINE r == PitEntry_InsertDn(e, it, FALSE, canAlloc)
    <3>1. IF r.found THEN Joined(e, r.e, it) /\ r.freed = 1 ELSE r.e = e
      BY <1>0, InsertProperties, Zenon
    <3> HIDE DEF r, ins
    <3>2. ins = r
      BY <2>1, Zenon DEF r, ins
    <3>3. QED
      BY <3>1, <3>2, Zenon
  <2>3. lives' = lives
    BY <1>0, <1>1, <1>3 DEF B
  <2>4. \/ e' = e0 /\ \E reason : Reject(it, reason)
        \/ ~ins.found /\ e' = ins.e /\ \E reason : Reject(it, reason)
        \/ ins.found /\ e' = ins.e /\ mbufs' = mbufs + 1 - ins.freed /\ Accepted(it)
    BY Zenon DEF RxInterest, Accepted
  <2>5. ASSUME NEW reason, Reject(it, reason), e' = e
        PROVE  Declined
    BY <2>3, <2>5 DEF Reject, TxNack, Declined
  <2> HIDE DEF e0, ins
  <2>6. CASE e' = e0 /\ \E reason : Reject(it, reason)
    BY <1>1, <1>3, <2>1, <2>5, <2>6, Zenon
  <2>7. CASE ~ins.found /\ e' = ins.e /\ \E reason : Reject(it, reason)
    BY <1>1, <1>3, <2>2, <2>5, <2>7, Zenon
  <2>8. CASE ins.found /\ e' = ins.e /\ mbufs' = mbufs + 1 - ins.freed /\ Accepted(it)
    <3>1. Joined(e, e', it) /\ mbufs' = mbufs
      BY <1>0, <2>2, <2>8
    <3>2. QED
      BY <1>1, <1>3, <2>3, <2>8, <3>1, Zenon
  <2>9. QED
    BY <2>4, <2>6, <2>7, <2>8, Zenon
<1>4. QED
  BY <1>2, <1>3, Zenon

\* FwFwd_RxInterest keeps IInv.
LEMMA RxInterestKeeps ==
  ASSUME IInv, NEW it \in Arrival, it.ts <= now, NEW canAlloc \in BOOLEAN, RxInterest(it, canAlloc)
  PROVE  IInv'
<1> USE DEF IInv
<1>0. /\ now' = now /\ Idle /\ NoFace \notin Downstream
      /\ \/ ~e.live /\ lives < Lives /\ lives' = lives + 1 /\ Begun(e, e', it) /\ mbufs' = mbufs + 1 /\ Accepted(it)
         \/ e.live /\ lives' = lives /\ Joined(e, e', it) /\ mbufs' = mbufs /\ Accepted(it)
         \/ e.live /\ Declined
  BY RxInterestCases, FwFwdAssumption, Zenon DEF Face
<1>1. CASE e.live /\ Declined
  BY <1>0, <1>1, StayKeeps, SameStay DEF Declined, Types, Idle
<1>2. ASSUME Accepted(it), e' \in Entry, e'.live, lives' \in Nat, mbufs' = 1
      PROVE  Types' /\ Working' /\ OwnsOneInterest'
  <2>1. want' \in [Downstream -> Nat]
    BY <1>2 DEF Accepted, Types, Arrival
  <2>2. ctx' \in Context
    <3>1. ctx' = [event |-> "interest", nonce |-> it.nonce, nFwd |-> 0, pending |-> 0, least |-> 0,
                  rxTime |-> it.ts, calls |-> 0]
      BY <1>2, ZenonT(40) DEF Accepted, NoCtx
    <3>2. it.nonce \in AnyNonce /\ it.ts \in Int
      BY DEF Arrival, AnyNonce
    <3>3. QED
      BY <3>1, <3>2, Zenon DEF Context
  <2>3. QED
    BY <1>0, <1>2, <2>1, <2>2 DEF Types, Working, OwnsOneInterest, B, Accepted
<1>3. /\ it.face \in Downstream /\ want \in [Downstream -> Nat] /\ now \in Nat /\ it.ts \in Nat
      /\ it.ts + it.lifetime \in Nat /\ e \in Entry
  BY DEF Arrival, Types
<1>4. CASE ~e.live /\ lives' = lives + 1 /\ Begun(e, e', it) /\ mbufs' = mbufs + 1 /\ Accepted(it)
  <2>1. e' \in Entry /\ e'.live /\ lives' \in Nat /\ mbufs' = 1
    BY <1>4 DEF Begun, OwnsOneInterest, B, Types
  <2>2. Types' /\ Working' /\ OwnsOneInterest'
    BY <1>2, <1>4, <2>1, Zenon
  <2>3. \A f \in Downstream : ~(want[f] >= now)
    BY <1>4, Zenon DEF DownstreamsKept
  <2>4. \A f \in Downstream : want'[f] = IF f = it.face THEN it.ts + it.lifetime ELSE want[f]
    BY <1>3, <1>4, Zenon DEF Accepted
  <2>5. /\ e'.expiry = it.ts + it.lifetime /\ ~e'.sg /\ e'.timer = e'.expiry
        /\ 1 \in DnsInUse(e') /\ e'.dns[1].face = it.face /\ e'.dns[1].expiry = it.ts + it.lifetime
    BY <1>4 DEF Begun, DnOf
  <2>6. DownstreamsKept'
    BY <1>0, <1>3, <2>1, <2>3, <2>4, <2>5, SMTT(30) DEF DownstreamsKept
  <2>7. QED
    BY <2>2, <2>6, Zenon
<1>5. CASE e.live /\ lives' = lives /\ Joined(e, e', it) /\ mbufs' = mbufs /\ Accepted(it)
  <2>1. e' \in Entry /\ e'.live /\ lives' \in Nat /\ mbufs' = 1
    BY <1>5, Zenon DEF Joined, OwnsOneInterest, B, Types
  <2>2. Types' /\ Working' /\ OwnsOneInterest'
    BY <1>2, <1>5, <2>1, Zenon
  <2>4. \A f \in Downstream : want'[f] = IF f = it.face THEN it.ts + it.lifetime ELSE want[f]
    BY <1>3, <1>5, Zenon DEF Accepted
  <2>5. ASSUME NEW f \in Downstream, want'[f] >= now'
        PROVE  /\ e'.live /\ e'.expiry >= want'[f]
               /\ \E i \in DnsInUse(e') : e'.dns[i].face = f /\ e'.dns[i].expiry = want'[f]
    <3>1. CASE f = it.face
      BY <1>5, <2>1, <2>4, <3>1 DEF Joined
    <3>2. CASE f # it.face
      <4>1. want'[f] = want[f] /\ want[f] >= now
        BY <1>0, <2>4, <2>5, <3>2, Zenon
      <4>2. PICK i \in DnsInUse(e) : e.dns[i].face = f /\ e.dns[i].expiry = want[f]
        BY <4>1, Zenon DEF DownstreamsKept
      <4>3. e.dns[i].expiry >= it.ts
        BY <1>3, <4>1, <4>2, SMTT(30)
      <4>4. i \in DnsInUse(e') /\ e'.dns[i] = e.dns[i]
        BY <1>5, <3>2, <4>2, <4>3, Zenon DEF Joined
      <4>5. e'.expiry >= want[f]
        <5>1. e.expiry >= want[f] /\ e'.expiry >= e.expiry
          BY <1>5, <4>1, Zenon DEF DownstreamsKept, Joined
        <5>2. e.expiry \in Nat /\ e'.expiry \in Nat /\ want[f] \in Nat
          BY <1>3, <2>1, Zenon DEF Entry
        <5>3. QED
          BY <5>1, <5>2, SMTT(30)
      <4>6. QED
        BY <2>1, <4>1, <4>2, <4>4, <4>5, Zenon
    <3>3. QED
      BY <3>1, <3>2, Zenon
  <2>6. e'.live => IF e'.sg THEN e'.timer <= e'.expiry ELSE e'.timer = e'.expiry
    <3>1. IF e.sg THEN e.timer <= e.expiry ELSE e.timer = e.expiry
      BY <1>5, Zenon DEF DownstreamsKept
    <3>2. \/ ~e'.sg /\ e'.timer = e'.expiry
          \/ e'.sg = e.sg /\ e'.timer = e.timer /\ e'.expiry = e.expiry
      BY <1>5, Zenon DEF Joined
    <3>3. QED
      BY <3>1, <3>2, Zenon
  <2>7. DownstreamsKept'
    BY <2>5, <2>6, Zenon DEF DownstreamsKept
  <2>8. QED
    BY <2>2, <2>7, Zenon
<1>6. QED
  BY <1>0, <1>1, <1>4, <1>5, Zenon

\* The context after a call of the strategy API that sends k Interests.
Called(k) ==
  /\ ctx' \in Context /\ ctx'.event = ctx.event /\ ctx'.pending = ctx.pending
  /\ ctx'.nFwd = ctx.nFwd + k

\* The context after a call that sends k Interests.
LEMMA CalledProperties ==
  ASSUME ctx \in Context, NEW k \in Nat, ctx' = [ctx EXCEPT !.calls = @ + 1, !.nFwd = @ + k]
  PROVE  Called(k)
<1>1. ctx' = [event |-> ctx.event, nonce |-> ctx.nonce, nFwd |-> ctx.nFwd + k, pending |-> ctx.pending,
              least |-> ctx.least, rxTime |-> ctx.rxTime, calls |-> ctx.calls + 1]
  BY ZenonT(40) DEF Context
<1>2. ctx.nFwd + k \in Nat /\ ctx.calls + 1 \in Nat
  BY DEF Context
<1>3. QED
  BY <1>1, <1>2, Zenon DEF Context, Called

\* The context after a call that sends none.
LEMMA CalledNone ==
  ASSUME ctx \in Context, ctx' = [ctx EXCEPT !.calls = @ + 1]
  PROVE  Called(0)
<1>1. ctx' = [event |-> ctx.event, nonce |-> ctx.nonce, nFwd |-> ctx.nFwd, pending |-> ctx.pending,
              least |-> ctx.least, rxTime |-> ctx.rxTime, calls |-> ctx.calls + 1]
  BY Zenon DEF Context
<1>2. ctx.nFwd + 0 = ctx.nFwd /\ ctx.calls + 1 \in Nat
  BY DEF Context
<1>3. QED
  BY <1>1, <1>2, Zenon DEF Context, Called

\* SgForwardInterest: nothing but perhaps a reserved record, or an Interest is sent
\* with a nonce the upstream has not rejected.
Reserving(f) ==
  /\ Called(0)
  /\ \/ e' = e
     \/ \E r : Reserved(e, r, f) /\ e' = r.e
  /\ out' = <<>> /\ awaiting' = awaiting

Sending(f) ==
  /\ Called(1)
  /\ \E r : \E n \in AnyNonce :
       /\ Reserved(e, r, f) /\ r.i # 0
       /\ ~PitUp_HasRejectedNonce(r.e.ups[r.i], n)
       /\ UpSet(r.e, e', r.i, PitUp_RecordTx(r.e.ups[r.i], now, n))
       /\ out' = <<TxInterest(f, n, e.expiry - now)>>
  /\ awaiting' = awaiting \cup {f}

\* SgForwardInterest reserves a record or sends an Interest, and no more.
LEMMA SgForwardCases ==
  ASSUME Types, NEW f \in Upstream, NEW isDown \in BOOLEAN, NEW canAlloc \in BOOLEAN, NEW canModify \in BOOLEAN,
         SgForwardInterest(f, isDown, canAlloc, canModify)
  PROVE  /\ ~Idle /\ UNCHANGED <<now, mbufs, lives, cached, want, rejected>>
         /\ Reserving(f) \/ Sending(f)
<1> DEFINE r == PitEntry_ReserveUp(e, f, canAlloc)
           up == r.e.ups[r.i]
           nonces == IF r.i = 0 THEN {} ELSE PitUp_ChooseNonce(up, r.e, now, ctx.nonce)
           res == IF isDown THEN "BADFACE" ELSE ForwardResult(r, nonces, canModify)
<1>0. e \in Entry /\ ctx \in Context /\ now \in Nat /\ NoFace \notin Upstream
  BY FwFwdAssumption, Zenon DEF Types, Face
<1>1. Reserved(e, r, f)
  BY <1>0, ReserveProperties, Zenon
<1>2. ~Idle /\ UNCHANGED <<now, mbufs, lives, cached, want, rejected>>
  BY Zenon DEF SgForwardInterest, InStrategy
<1>3. ctx' = [ctx EXCEPT !.calls = @ + 1, !.nFwd = @ + B(res = "OK")]
  BY Zenon DEF SgForwardInterest
<1>4. \/ res = "BADFACE" /\ out' = <<>> /\ UNCHANGED <<e, awaiting>>
      \/ res \notin {"BADFACE", "OK"} /\ e' = r.e /\ out' = <<>> /\ UNCHANGED awaiting
      \/ /\ res = "OK"
         /\ \E n \in nonces : /\ e' = [r.e EXCEPT !.ups[r.i] = PitUp_RecordTx(up, now, n)]
                              /\ out' = <<TxInterest(f, n, e.expiry - now)>>
         /\ awaiting' = awaiting \cup {f}
  BY ZenonT(40) DEF SgForwardInterest
<1>5. res = "OK" => r.i # 0
  BY Zenon DEF ForwardResult
<1> HIDE DEF r, res
<1>6. CASE res # "OK"
  <2>1. Called(0)
    <3>1. ctx' = [ctx EXCEPT !.calls = @ + 1, !.nFwd = @ + 0]
      BY <1>3, <1>6, Zenon DEF B
    <3>2. QED
      BY <1>0, <3>1, CalledProperties, Zenon
  <2>2. QED
    BY <1>1, <1>2, <1>4, <1>6, <2>1, Zenon DEF Reserving
<1>7. CASE res = "OK"
  <2>1. PICK n \in nonces : /\ e' = [r.e EXCEPT !.ups[r.i] = PitUp_RecordTx(up, now, n)]
                            /\ out' = <<TxInterest(f, n, e.expiry - now)>>
    BY <1>4, <1>7, Zenon
  <2>2. r.e \in Entry /\ r.i \in UpIndex /\ r.i # 0
    BY <1>1, <1>5, <1>7, Tops, Zenon DEF Reserved
  <2>3. up \in Up
    BY <2>2, Zenon DEF Entry
  <2>4. n \in PitUp_ChooseNonce(up, r.e, now, ctx.nonce) /\ ctx.nonce \in AnyNonce
    BY <1>0, <2>1, <2>2, Zenon DEF Context
  <2> HIDE DEF up, nonces
  <2>5. n \in AnyNonce /\ ~PitUp_HasRejectedNonce(up, n)
    BY <2>2, <2>3, <2>4, ChooseProperties, Zenon
  <2>6. PitUp_RecordTx(up, now, n) \in Up
    BY <1>0, <2>3, <2>5, RecordTxProperties, Zenon
  <2>7. UpSet(r.e, e', r.i, PitUp_RecordTx(up, now, n))
    BY <2>1, <2>2, <2>6, SetUpProperties, Zenon
  <2>8. Called(1) /\ awaiting' = awaiting \cup {f}
    <3>1. ctx' = [ctx EXCEPT !.calls = @ + 1, !.nFwd = @ + 1]
      BY <1>3, <1>7, Zenon DEF B
    <3>2. QED
      BY <1>0, <1>4, <1>7, <3>1, CalledProperties, ZenonT(40)
  <2>9. Sending(f)
    BY <1>1, <2>1, <2>2, <2>5, <2>7, <2>8, Zenon DEF Sending, up
  <2>10. QED
    BY <1>2, <2>9, Zenon
<1>8. QED
  BY <1>6, <1>7, Zenon

\* Reserving an UP record leaves the DN records alone.
LEMMA ReservedStay ==
  ASSUME NEW x, NEW r, NEW f, Reserved(x, r, f)
  PROVE  DnsStay(x, r.e)
BY Zenon DEF Reserved, DnsStay

\* So does writing one.
LEMMA UpSetStay ==
  ASSUME NEW x, NEW y, NEW z, NEW i, NEW u, DnsStay(x, y), UpSet(y, z, i, u)
  PROVE  DnsStay(x, z)
BY Zenon DEF UpSet, DnsStay, DnValid

\* SgForwardInterest keeps IInv.
LEMMA SgForwardKeeps ==
  ASSUME IInv, NEW f \in Upstream, NEW isDown \in BOOLEAN, NEW canAlloc \in BOOLEAN, NEW canModify \in BOOLEAN,
         SgForwardInterest(f, isDown, canAlloc, canModify)
  PROVE  IInv'
<1>1. Types /\ e \in Entry /\ ctx \in Context /\ awaiting \subseteq Upstream /\ rejected \in [Upstream -> Seq(Nonce)]
      /\ now \in Nat
  BY Zenon DEF IInv, Types
<1>2. /\ ~Idle /\ UNCHANGED <<now, mbufs, lives, cached, want, rejected>>
      /\ Reserving(f) \/ Sending(f)
  BY <1>1, SgForwardCases, Zenon
<1>3. e.live
  BY <1>2, Zenon DEF Idle, IInv, Working
<1>4. DnsStay(e, e')
  <2>1. CASE Reserving(f)
    BY <1>1, <2>1, ReservedStay, SameStay, Zenon DEF Reserving
  <2>2. CASE Sending(f)
    BY <2>2, ReservedStay, UpSetStay, SMTT(30) DEF Sending
  <2>3. QED
    BY <1>2, <2>1, <2>2, Zenon
<1>5. ctx' \in Context
  BY <1>2, Zenon DEF Reserving, Sending, Called
<1>6. awaiting' \subseteq Upstream
  BY <1>1, <1>2, Zenon DEF Reserving, Sending
<1>7. QED
  BY <1>1, <1>2, <1>3, <1>4, <1>5, <1>6, StayKeeps, SMTT(30)

\* FwFwd_ProcessNack finds an UP record of the face with the nonce of the Nack.
LEMMA TargetProperties ==
  ASSUME NEW f \in Upstream, NEW n, e \in Entry, NackTargets(f, n) # {}
  PROVE  LET i == Max(NackTargets(f, n)) IN
         i \in UpValid(e) /\ i \in UpIndex /\ e.ups[i].face = f /\ e.ups[i].nonce = n
<1> DEFINE i == Max(NackTargets(f, n))
<1>1. UpValid(e) = 1 .. UpTop(e) /\ UpTop(e) \in Nat /\ UpValid(e) \subseteq UpIndex
  BY Tops, Zenon
<1>2. NackTargets(f, n) \subseteq UpValid(e)
  BY Zenon DEF NackTargets, NackScope
<1>3. i \in NackTargets(f, n)
  BY <1>1, <1>2, MaxProperties, Zenon
<1> HIDE DEF i
<1>4. i \in UpValid(e) /\ e.ups[i].face = f /\ \A j \in NackWrong(f, n) : i < j
  BY <1>3, Zenon DEF NackTargets, NackScope
<1>5. i \notin NackWrong(f, n)
  BY <1>1, <1>4
<1>6. e.ups[i].nonce = n
  BY <1>4, <1>5, Zenon DEF NackWrong
<1>7. QED
  BY <1>1, <1>4, <1>6, Zenon DEF i

\* Nonce n is in front of the rejected nonces of u, in v.
Shifted(u, v, n) == \A k \in 1 .. MaxRej : v.rej[k] = IF k = 1 THEN n ELSE u.rej[k - 1]

\* The UP record u after a Nack: the reason, and the nonce if it is a duplicate.
NackedUp(u, v, n, reason) ==
  /\ v \in Up /\ v.face = u.face /\ v.nonce = u.nonce /\ v.nack = reason /\ v.lastTx = u.lastTx
  /\ IF reason = NackDuplicate
     THEN Shifted(u, v, n)
     ELSE v.rej = u.rej

\* RxNack at UP record i: another nonce is tried, or the face has answered and
\* perhaps the strategy is invoked.
Retried(f, n, i) ==
  /\ ctx' = ctx
  /\ \E v : \E m \in AnyNonce :
       /\ NackedUp(e.ups[i], v, n, NackDuplicate)
       /\ ~PitUp_HasRejectedNonce(v, m)
       /\ UpSet(e, e', i, PitUp_RecordTx(v, now, m))
       /\ out' = <<TxInterest(f, m, e.expiry - now)>>
  /\ awaiting' = awaiting \cup {f}

Answered(f, n, reason, i) ==
  /\ \/ ctx' = ctx
     \/ /\ ctx' \in Context /\ ctx'.event = "nack" /\ ctx'.nFwd = 0
        /\ ctx'.pending = Cardinality(NackPending(f, n))
  /\ \E v : NackedUp(e.ups[i], v, n, reason) /\ UpSet(e, e', i, v)
  /\ out' = <<>>
  /\ awaiting' = awaiting \ {f}

\* The context FwFwd_ProcessNack makes for the strategy.
LEMMA NackContext ==
  ASSUME NEW p \in Nat, NEW l \in Nat, NEW t \in Int, NEW a \in Nat, NEW c,
         c = [event |-> "nack", nonce |-> NoNonce, nFwd |-> 0, pending |-> p, least |-> l, rxTime |-> t, calls |-> a]
  PROVE  c \in Context /\ c.event = "nack" /\ c.nFwd = 0 /\ c.pending = p
<1>1. NoNonce \in AnyNonce
  BY Zenon DEF AnyNonce
<1>2. c \in Context
  BY <1>1, Zenon DEF Context
<1>3. QED
  BY <1>2, Zenon

\* FwFwd_RxNack tries another nonce at the record the Nack is for, or notes the Nack there.
LEMMA RxNackCases ==
  ASSUME Types, NEW f \in Upstream, NEW n \in Nonce, NEW reason \in NackReason, NEW q \in Queueing,
         NEW fib \in BOOLEAN, NEW canModify \in BOOLEAN, RxNack(f, n, reason, q, fib, canModify)
  PROVE  /\ Idle /\ e.live /\ UNCHANGED <<now, mbufs, lives, cached, want>>
         /\ rejected' = IF reason = NackDuplicate
                        THEN [rejected EXCEPT ![f] = Latest(Append(@, n))] ELSE rejected
         /\ \E i \in UpValid(e) :
              /\ e.ups[i].face = f /\ e.ups[i].nonce = n
              /\ (reason = NackDuplicate /\ Retried(f, n, i)) \/ Answered(f, n, reason, i)
<1> DEFINE i == Max(NackTargets(f, n))
           up1 == [e.ups[i] EXCEPT !.nack = reason]
           up2 == IF reason = NackDuplicate THEN PitUp_AddRejectedNonce(up1, up1.nonce) ELSE up1
           alt == PitUp_ChooseNonce(up2, e, now, up2.nonce)
           p == Cardinality(NackPending(f, n))
           l == LeastSevere(f, n, reason)
           t == now - q
           a == IF fib THEN 0 ELSE MaxCalls
           c == [NoCtx EXCEPT !.event = "nack", !.pending = p, !.least = l, !.rxTime = t, !.calls = a]
<1>1. /\ Idle /\ e.live /\ UNCHANGED <<now, mbufs, lives, cached, want>> /\ NackTargets(f, n) # {}
      /\ rejected' = IF reason = NackDuplicate
                     THEN [rejected EXCEPT ![f] = Latest(Append(@, n))] ELSE rejected
  BY ZenonT(40) DEF RxNack
<1>2. \/ /\ reason = NackDuplicate
         /\ \E m \in alt : /\ e' = [e EXCEPT !.ups[i] = PitUp_RecordTx(up2, now, m)]
                           /\ out' = <<TxInterest(f, m, e.expiry - now)>>
         /\ awaiting' = awaiting \cup {f} /\ UNCHANGED ctx
      \/ /\ e' = [e EXCEPT !.ups[i] = up2] /\ out' = <<>> /\ awaiting' = awaiting \ {f}
         /\ ctx' = ctx \/ ctx' = c
  BY Zenon DEF RxNack
<1>3. e \in Entry /\ now \in Nat
  BY Zenon DEF Types
<1>4. i \in UpValid(e) /\ i \in UpIndex /\ e.ups[i].face = f /\ e.ups[i].nonce = n
  BY <1>1, <1>3, TargetProperties
<1>5. reason \in Nat /\ q \in Nat /\ MaxCalls \in Nat
  BY FwFwdAssumption DEF Queueing, NackCongestion, NackDuplicate, NackNoRoute
<1> HIDE DEF i
<1>6. e.ups[i] \in Up
  BY <1>3, <1>4, Zenon DEF Entry
<1>7. NackedUp(e.ups[i], up2, n, reason)
  <2>1. up1 \in Up /\ up1.face = f /\ up1.nonce = n /\ up1.nack = reason /\ up1.lastTx = e.ups[i].lastTx
        /\ up1.rej = e.ups[i].rej
    BY <1>4, <1>5, <1>6, Zenon DEF Up
  <2>2. n \in AnyNonce
    BY Zenon DEF AnyNonce
  <2> HIDE DEF up1
  <2>3. CASE reason = NackDuplicate
    BY <1>4, <2>1, <2>2, <2>3, AddRejectedProperties, SMTT(30) DEF NackedUp, Shifted
  <2>4. CASE reason # NackDuplicate
    BY <1>4, <2>1, <2>4, Zenon DEF NackedUp
  <2>5. QED
    BY <2>3, <2>4, Zenon
<1> HIDE DEF up2
<1>8. up2 \in Up /\ up2.nonce \in AnyNonce
  BY <1>7, Zenon DEF NackedUp, Up
<1>9. CASE /\ reason = NackDuplicate
           /\ \E m \in alt : /\ e' = [e EXCEPT !.ups[i] = PitUp_RecordTx(up2, now, m)]
                             /\ out' = <<TxInterest(f, m, e.expiry - now)>>
           /\ awaiting' = awaiting \cup {f} /\ UNCHANGED ctx
  <2>1. PICK m \in alt : /\ e' = [e EXCEPT !.ups[i] = PitUp_RecordTx(up2, now, m)]
                         /\ out' = <<TxInterest(f, m, e.expiry - now)>>
    BY <1>9, Zenon
  <2>2. m \in AnyNonce /\ ~PitUp_HasRejectedNonce(up2, m)
    BY <1>3, <1>8, <2>1, ChooseProperties, Zenon
  <2> HIDE DEF alt
  <2>3. PitUp_RecordTx(up2, now, m) \in Up
    BY <1>3, <1>8, <2>2, RecordTxProperties, Zenon
  <2>4. UpSet(e, e', i, PitUp_RecordTx(up2, now, m))
    BY <1>3, <1>4, <2>1, <2>3, SetUpProperties, Zenon
  <2>5. Retried(f, n, i)
    BY <1>7, <1>9, <2>1, <2>2, <2>4, Zenon DEF Retried
  <2>6. QED
    BY <1>1, <1>4, <1>9, <2>5, Zenon
<1>10. CASE /\ e' = [e EXCEPT !.ups[i] = up2] /\ out' = <<>> /\ awaiting' = awaiting \ {f}
            /\ ctx' = ctx \/ ctx' = c
  <2>1. UpSet(e, e', i, up2)
    BY <1>3, <1>4, <1>8, <1>10, SetUpProperties, Zenon
  <2>2. ctx' = c => ctx' \in Context /\ ctx'.event = "nack" /\ ctx'.nFwd = 0 /\ ctx'.pending = p
    <3>1. p \in Nat
      <4>1. NackPending(f, n) \subseteq 1 .. UpTop(e) /\ UpTop(e) \in Nat
        BY <1>3, Tops, Zenon DEF NackPending, NackScope
      <4>2. IsFiniteSet(1 .. UpTop(e))
        BY <4>1, FS_Interval
      <4>3. IsFiniteSet(NackPending(f, n))
        BY <4>1, <4>2, FS_Subset, Zenon
      <4>4. QED
        BY <4>3, FS_CardinalityType, Zenon
    <3>2. l \in Nat
      <4> DEFINE S == {e.ups[k].nack : k \in {j \in NackScope(f, n) : /\ e.ups[j].face \notin {NoFace, f}
                                                                      /\ e.ups[j].nack # NackNone}}
      <4>1. \A k \in NackScope(f, n) : e.ups[k].nack \in Nat
        BY <1>3, Tops, Zenon DEF NackScope, Entry, Up
      <4>2. {reason} \cup S \subseteq Nat /\ {reason} \cup S # {}
        BY <1>5, <4>1, Zenon
      <4>3. Min({reason} \cup S) \in Nat
        BY <4>2, MinProperties, Zenon
      <4>4. QED
        BY <4>3, Zenon DEF LeastSevere
    <3>3. t \in Int /\ a \in Nat /\ NoNonce \in AnyNonce
      BY <1>3, <1>5 DEF AnyNonce
    <3> HIDE DEF p, l, t, a
    <3> HIDE DEF p, l, t, a
    <3>4. ctx' = c => ctx' = [event |-> "nack", nonce |-> NoNonce, nFwd |-> 0, pending |-> p, least |-> l,
                              rxTime |-> t, calls |-> a]
      BY ZenonT(40) DEF NoCtx
    <3> HIDE DEF c
    <3>5. QED
      BY <3>1, <3>2, <3>3, <3>4, NackContext, SMTT(30)
  <2> HIDE DEF c
  <2>3. Answered(f, n, reason, i)
    BY <1>7, <1>10, <2>1, <2>2, Zenon DEF Answered
  <2>4. QED
    BY <1>1, <1>4, <2>3, Zenon
<1>11. QED
  BY <1>2, <1>9, <1>10, Zenon

-----------------------------------------------------------------------------
(* The steps that send no Interest                                         *)

NoInterestSent == \A k \in DOMAIN out' : out'[k].kind # "interest"

Unheard == want' = want /\ awaiting' = awaiting /\ rejected' = rejected

\* The entry is as it was.
Quiet ==
  /\ e' = e /\ now' \in Nat /\ now' >= now /\ mbufs' = mbufs /\ lives' = lives
  /\ ctx' \in Context /\ (ctx' = ctx \/ ctx'.event = "none" \/ Called(0))
  /\ Unheard /\ NoInterestSent

\* Only the timer of the entry has been set.
Retimed ==
  /\ e' \in Entry /\ e.live /\ e'.live /\ e'.expiry = e.expiry /\ e'.nExts = e.nExts
  /\ e'.dns = e.dns /\ e'.ups = e.ups
  /\ IF e'.sg THEN e'.timer <= e'.expiry ELSE e'.timer = e'.expiry
  /\ now' = now /\ mbufs' = mbufs /\ lives' = lives
  /\ ctx' \in Context /\ (ctx'.event \in {"none", "timer"} \/ Called(0))
  /\ Unheard /\ NoInterestSent

\* The entry has been erased.
Gone ==
  /\ e.live /\ Erased /\ now' = now /\ lives' = lives
  /\ ctx' \in Context /\ ctx'.event = "none"
  /\ NoInterestSent

\* An Interest without a route, in a full PIT, or answered by the CS changes nothing here.
LEMMA RefusedCases ==
  ASSUME Types, NEW it \in Arrival, RxInterestRefused(it) \/ RxInterestHitCs(it)
  PROVE  Quiet
<1>1. UNCHANGED <<e, now, ctx, mbufs, lives, want, awaiting, rejected>>
  BY Zenon DEF RxInterestRefused, RxInterestHitCs, Reject
<1>2. \E r : out' \in {<<TxNack(it.face, it.nonce, r)>>, <<TxData(it.face)>>, <<>>}
  BY Zenon DEF RxInterestRefused, RxInterestHitCs, Reject
<1>3. NoInterestSent
  BY <1>2 DEF NoInterestSent, TxNack, TxData
<1>4. QED
  BY <1>1, <1>3 DEF Quiet, Unheard, Types

\* FwFwd_TxNacks sends no Interest.
LEMMA NacksSent ==
  ASSUME NEW t, NEW r, NEW kind, kind # "interest", out' \in TxNacks(t, r, kind)
  PROVE  NoInterestSent
<1>1. PICK is \in SUBSET Receivers(t) :
        out' = [k \in DOMAIN InOrder(is) |->
                  [TxNack(InOrder(is)[k].face, InOrder(is)[k].nonce, r) EXCEPT !.kind = kind]]
  BY Zenon DEF TxNacks
<1>2. SUFFICES ASSUME NEW k \in DOMAIN out' PROVE out'[k].kind # "interest"
  BY Zenon DEF NoInterestSent
<1>3. out'[k] = [TxNack(InOrder(is)[k].face, InOrder(is)[k].nonce, r) EXCEPT !.kind = kind]
  BY <1>1, <1>2, Zenon
<1>4. out'[k].kind = kind
  BY <1>3, Zenon DEF TxNack
<1>5. QED
  BY <1>4, Zenon

\* SgReturnNacks leaves the entry.
LEMMA SgReturnNacksCases ==
  ASSUME Types, NEW r, SgReturnNacks(r)
  PROVE  Quiet
<1>1. /\ UNCHANGED <<e, now, mbufs, lives, want, awaiting, rejected>>
      /\ ctx' = [ctx EXCEPT !.calls = @ + 1] /\ out' \in TxNacks(now, r, "sgnack")
  BY Zenon DEF SgReturnNacks
<1>2. Called(0)
  BY <1>1, CalledNone, Zenon DEF Types
<1>3. NoInterestSent
  BY <1>1, NacksSent, Zenon
<1>4. QED
  BY <1>1, <1>2, <1>3 DEF Quiet, Unheard, Types, Called

\* When the program returns the entry is as it was, or is erased.
LEMMA SgReturnCases ==
  ASSUME Types, Working, SgReturn
  PROVE  Quiet \/ Gone
<1>1. ctx' = NoCtx /\ UNCHANGED <<now, lives>> /\ ~Idle
  BY Zenon DEF SgReturn
<1>2. ctx' \in Context /\ ctx'.event = "none" /\ e.live
  BY <1>1, NoContext, Zenon DEF NoCtx, Working, Idle
<1>3. CASE out' = <<>> /\ UNCHANGED <<e, mbufs, want, awaiting, rejected>>
  BY <1>1, <1>2, <1>3 DEF Quiet, Unheard, NoInterestSent, Types
<1>4. CASE out' \in TxNacks(ctx.rxTime, ctx.least, "nack") /\ Erased
  BY <1>1, <1>2, <1>4, NacksSent, Zenon DEF Gone
<1>5. QED
  BY <1>3, <1>4, Zenon DEF SgReturn

\* A Nack or Data that matches nothing, and the passing of time, leave the entry.
LEMMA StillCases ==
  ASSUME Types,
         \/ \E f, n : NackMismatch(f, n)
         \/ \E longer : DataUnsolicited(longer)
         \/ Tick
  PROVE  Quiet
<1>1. /\ UNCHANGED <<e, ctx, mbufs, lives, want, awaiting, rejected>> /\ out' = <<>>
      /\ now' = now \/ now' = now + 1
  BY Zenon DEF NackMismatch, DataUnsolicited, Tick
<1>2. QED
  BY <1>1 DEF Quiet, Unheard, NoInterestSent, Types

\* FwFwd_RxData erases the entry.
LEMMA RxDataCases ==
  ASSUME Types, NEW longer, NEW q, RxData(longer, q)
  PROVE  Gone
<1>1. PICK is : out' = [k \in DOMAIN InOrder(is) |-> TxData(InOrder(is)[k].face)]
  BY Zenon DEF RxData
<1>2. NoInterestSent
  BY <1>1, Zenon DEF NoInterestSent, TxData
<1>3. QED
  BY <1>2, Zenon DEF RxData, Gone, Idle, Types

\* PitEntry_SetSgTimer sets the timer no later than the expiration.
LEMMA SgTimerProperties ==
  ASSUME NEW x \in Entry, NEW t \in Nat, NEW after \in Nat, NEW y, y = PitEntry_SetSgTimer(x, t, after),
         IF x.sg THEN x.timer <= x.expiry ELSE x.timer = x.expiry
  PROVE  /\ y \in Entry /\ y.live = x.live /\ y.expiry = x.expiry /\ y.nExts = x.nExts
         /\ y.dns = x.dns /\ y.ups = x.ups
         /\ IF y.sg THEN y.timer <= y.expiry ELSE y.timer = y.expiry
<1>1. CASE y = x
  BY <1>1, Zenon
<1>2. CASE CanSetSgTimer(x, t, after)
  <2>1. y = [live |-> x.live, repCbp |-> x.repCbp, nCbp |-> x.nCbp, txHop |-> x.txHop, expiry |-> x.expiry,
             timer |-> t + after, sg |-> TRUE, nExts |-> x.nExts, dns |-> x.dns, ups |-> x.ups, ok |-> x.ok]
    BY <1>2, Zenon DEF PitEntry_SetSgTimer, Entry
  <2>2. t + after \in Nat /\ t + after <= x.expiry
    BY <1>2 DEF CanSetSgTimer
  <2>3. QED
    BY <2>1, <2>2 DEF Entry
<1>3. QED
  BY <1>1, <1>2, Zenon DEF PitEntry_SetSgTimer

\* PitEntry_SetExpiryTimer sets it to the expiration.
LEMMA ExpiryTimerProperties ==
  ASSUME NEW x \in Entry, NEW y, y = PitEntry_SetExpiryTimer(x)
  PROVE  /\ y \in Entry /\ y.live = x.live /\ y.expiry = x.expiry /\ y.nExts = x.nExts
         /\ y.dns = x.dns /\ y.ups = x.ups
         /\ IF y.sg THEN y.timer <= y.expiry ELSE y.timer = y.expiry
<1>1. y = [live |-> x.live, repCbp |-> x.repCbp, nCbp |-> x.nCbp, txHop |-> x.txHop, expiry |-> x.expiry,
           timer |-> x.expiry, sg |-> FALSE, nExts |-> x.nExts, dns |-> x.dns, ups |-> x.ups, ok |-> x.ok]
  BY Zenon DEF PitEntry_SetExpiryTimer, Entry
<1>2. QED
  BY <1>1 DEF Entry

\* SgSetTimer changes only the timer.
LEMMA SgSetTimerCases ==
  ASSUME IInv, NEW after \in SgDelay, SgSetTimer(after)
  PROVE  Retimed
<1>1. /\ e \in Entry /\ now \in Nat /\ ctx \in Context
  BY Zenon DEF IInv, Types
<1>2. after \in Nat
  BY FwFwdAssumption, Zenon
<1>3. /\ ~Idle /\ UNCHANGED <<now, mbufs, lives, want, awaiting, rejected>>
      /\ ctx' = [ctx EXCEPT !.calls = @ + 1] /\ out' = <<>> /\ e' = PitEntry_SetSgTimer(e, now, after)
  BY Zenon DEF SgSetTimer, InStrategy
<1>4. e.live
  BY <1>3, Zenon DEF IInv, Working, Idle
<1>5. IF e.sg THEN e.timer <= e.expiry ELSE e.timer = e.expiry
  BY <1>4, Zenon DEF IInv, DownstreamsKept
<1>6. /\ e' \in Entry /\ e'.live = e.live /\ e'.expiry = e.expiry /\ e'.nExts = e.nExts
      /\ e'.dns = e.dns /\ e'.ups = e.ups
      /\ IF e'.sg THEN e'.timer <= e'.expiry ELSE e'.timer = e'.expiry
  BY <1>1, <1>2, <1>3, <1>5, SgTimerProperties
<1>7. Called(0)
  BY <1>1, <1>3, CalledNone, Zenon
<1>8. QED
  BY <1>3, <1>4, <1>6, <1>7 DEF Retimed, Unheard, NoInterestSent, Called

\* The fields of a context that a timer makes.
LEMMA TimerRecord ==
  ASSUME NEW t \in Int, NEW c,
         c = [event |-> "timer", nonce |-> NoNonce, nFwd |-> 0, pending |-> 0, least |-> 0, rxTime |-> t, calls |-> 0]
  PROVE  c \in Context /\ c.event = "timer"
<1>1. NoNonce \in AnyNonce
  BY Zenon DEF AnyNonce
<1>2. QED
  BY <1>1, Zenon DEF Context

\* SgTriggerTimer invokes the strategy with such a context, or not at all.
LEMMA TimerContext ==
  ASSUME Types, NEW c, NEW fib,
         c = IF fib THEN [NoCtx EXCEPT !.event = "timer", !.rxTime = now] ELSE NoCtx
  PROVE  c \in Context /\ c.event \in {"none", "timer"}
<1>1. CASE c = NoCtx
  BY <1>1, NoContext DEF NoCtx
<1>2. CASE c = [NoCtx EXCEPT !.event = "timer", !.rxTime = now]
  <2>1. c = [event |-> "timer", nonce |-> NoNonce, nFwd |-> 0, pending |-> 0, least |-> 0,
             rxTime |-> now, calls |-> 0]
    BY <1>2, Zenon DEF NoCtx
  <2>2. now \in Int
    BY DEF Types
  <2>3. c \in Context /\ c.event = "timer"
    BY <2>1, <2>2, TimerRecord, Zenon
  <2>4. QED
    BY <2>3, Zenon
<1>3. QED
  BY <1>1, <1>2, Zenon

\* PitEntry_Timeout_ invokes the strategy, with the timer at the expiration, or erases the
\* entry.
LEMMA TimeoutCases ==
  ASSUME IInv, NEW fib \in BOOLEAN, Timeout(fib)
  PROVE  Retimed \/ Gone
<1>1. Types /\ e \in Entry /\ ctx \in Context
  BY Zenon DEF IInv, Types
<1>2. Idle /\ e.live /\ out' = <<>> /\ UNCHANGED <<now, lives>>
  BY Zenon DEF Timeout
<1>3. CASE /\ e' = PitEntry_SetExpiryTimer(e)
           /\ ctx' = IF fib THEN [NoCtx EXCEPT !.event = "timer", !.rxTime = now] ELSE NoCtx
           /\ UNCHANGED <<mbufs, want, awaiting, rejected>>
  <2>1. ctx' \in Context /\ ctx'.event \in {"none", "timer"}
    BY <1>1, <1>3, TimerContext, Zenon
  <2>2. /\ e' \in Entry /\ e'.live = e.live /\ e'.expiry = e.expiry /\ e'.nExts = e.nExts
        /\ e'.dns = e.dns /\ e'.ups = e.ups
        /\ IF e'.sg THEN e'.timer <= e'.expiry ELSE e'.timer = e'.expiry
    BY <1>1, <1>3, ExpiryTimerProperties, Zenon
  <2>3. QED
    BY <1>2, <1>3, <2>1, <2>2 DEF Retimed, Unheard, NoInterestSent
<1>4. CASE Erased /\ UNCHANGED ctx
  BY <1>1, <1>2, <1>4 DEF Gone, NoInterestSent, Idle
<1>5. QED
  BY <1>3, <1>4, Zenon DEF Timeout

-----------------------------------------------------------------------------
(* Every step keeps IInv                                                   *)

\* Steps that leave the entry keep IInv.
LEMMA QuietKeeps ==
  ASSUME IInv, Quiet
  PROVE  IInv'
<1>1. e \in Entry /\ awaiting \subseteq Upstream /\ rejected \in [Upstream -> Seq(Nonce)]
  BY Zenon DEF IInv, Types
<1>2. ctx'.event # "none" => e.live
  BY Zenon DEF IInv, Working, Quiet, Called
<1>3. DnsStay(e, e')
  BY <1>1, SameStay, Zenon DEF Quiet
<1>4. QED
  BY <1>1, <1>2, <1>3, StayKeeps, Zenon DEF Quiet, Unheard

\* Steps that set the timer keep IInv.
LEMMA RetimedKeeps ==
  ASSUME IInv, Retimed
  PROVE  IInv'
<1>1. Types /\ DownstreamsKept /\ OwnsOneInterest
  BY Zenon DEF IInv
<1>2. Types'
  BY <1>1, Zenon DEF Types, Retimed, Unheard
<1>3. Working' /\ OwnsOneInterest'
  BY <1>1, Zenon DEF Working, OwnsOneInterest, Retimed, B
<1>4. DnsInUse(e') = DnsInUse(e)
  BY Zenon DEF DnsInUse, DnValid, Retimed
<1>5. DownstreamsKept'
  BY <1>1, <1>4 DEF DownstreamsKept, Retimed, Unheard
<1>6. QED
  BY <1>2, <1>3, <1>5, Zenon DEF IInv

\* The last nonces an upstream rejected are nonces.
LEMMA LatestType ==
  ASSUME NEW s \in Seq(Nonce), NEW n \in Nonce
  PROVE  Latest(Append(s, n)) \in Seq(Nonce)
<1> DEFINE a == Append(s, n)
<1>1. a \in Seq(Nonce) /\ Len(a) = Len(s) + 1 /\ Len(s) \in Nat
  OBVIOUS
<1>2. MaxRej \in Nat \ {0}
  BY PitEntryAssumption, Zenon
<1> HIDE DEF a
<1>3. Max({1, Len(a) - MaxRej + 1}) = IF 1 >= Len(a) - MaxRej + 1 THEN 1 ELSE Len(a) - MaxRej + 1
  BY <1>1, <1>2, MaxOfTwo
<1>4. Max({1, Len(a) - MaxRej + 1}) \in 1 .. Len(a)
  BY <1>1, <1>2, <1>3
<1>5. ASSUME NEW m \in 1 .. Len(a)
      PROVE  SubSeq(a, m, Len(a)) \in Seq(Nonce)
  BY <1>1
<1>6. QED
  BY <1>4, <1>5, Zenon DEF Latest, a

\* FwFwd_RxNack keeps IInv.
LEMMA RxNackKeeps ==
  ASSUME IInv, NEW f \in Upstream, NEW n \in Nonce, NEW reason \in NackReason, NEW q \in Queueing,
         NEW fib \in BOOLEAN, NEW canModify \in BOOLEAN, RxNack(f, n, reason, q, fib, canModify)
  PROVE  IInv'
<1>1. Types /\ e \in Entry /\ ctx \in Context /\ awaiting \subseteq Upstream /\ rejected \in [Upstream -> Seq(Nonce)]
      /\ now \in Nat
  BY Zenon DEF IInv, Types
<1>2. PICK i \in UpValid(e) :
        /\ Idle /\ e.live /\ UNCHANGED <<now, mbufs, lives, cached, want>>
        /\ rejected' = IF reason = NackDuplicate
                       THEN [rejected EXCEPT ![f] = Latest(Append(@, n))] ELSE rejected
        /\ Retried(f, n, i) \/ Answered(f, n, reason, i)
  BY <1>1, RxNackCases
<1>3. DnsStay(e, e')
  BY <1>1, <1>2, SameStay, UpSetStay, Zenon DEF Retried, Answered
<1>4. rejected' \in [Upstream -> Seq(Nonce)]
  <2>1. rejected[f] \in Seq(Nonce)
    BY <1>1, Zenon
  <2>2. Latest(Append(rejected[f], n)) \in Seq(Nonce)
    BY <2>1, LatestType, Zenon
  <2>3. QED
    BY <1>1, <1>2, <2>2, Zenon
<1>5. ctx' \in Context /\ awaiting' \subseteq Upstream
  BY <1>1, <1>2, Zenon DEF Retried, Answered
<1>6. QED
  BY <1>1, <1>2, <1>3, <1>4, <1>5, StayKeeps

\* What a step does.
Step ==
  \/ \E it \in Arrival : \E canAlloc \in BOOLEAN : it.ts <= now /\ RxInterest(it, canAlloc)
  \/ \E f \in Upstream : \E isDown, canAlloc, canModify \in BOOLEAN : SgForwardInterest(f, isDown, canAlloc, canModify)
  \/ \E f \in Upstream : \E n \in Nonce : \E reason \in NackReason : \E q \in Queueing :
       \E fib, canModify \in BOOLEAN : RxNack(f, n, reason, q, fib, canModify)
  \/ Quiet
  \/ Retimed
  \/ Gone
  \/ UNCHANGED vars

\* Every step is one of these.
LEMMA NextCases ==
  ASSUME IInv, [Next]_vars
  PROVE  Step
<1>0. Types /\ Working
  BY Zenon DEF IInv
<1>1. ASSUME NEW q \in Queueing, NEW it \in Interest(q), RxInterestRefused(it) \/ RxInterestHitCs(it)
      PROVE  Step
  BY <1>0, <1>1, ArrivalType, RefusedCases, Zenon DEF Step
<1>2. ASSUME NEW q \in Queueing, NEW it \in Interest(q), NEW canAlloc \in BOOLEAN, RxInterest(it, canAlloc)
      PROVE  Step
  <2>1. it \in Arrival /\ it.ts <= now
    BY <1>0, ArrivalType, Zenon
  <2>2. QED
    BY <1>2, <2>1, Zenon DEF Step
<1>3. CASE \E f \in Upstream, isDown, canAlloc, canModify \in BOOLEAN : SgForwardInterest(f, isDown, canAlloc, canModify)
  BY <1>3, Zenon DEF Step
<1>4. CASE \E after \in SgDelay : SgSetTimer(after)
  BY <1>4, SgSetTimerCases, Zenon DEF Step
<1>5. CASE SgReturnNacks(NackNoRoute)
  BY <1>0, <1>5, SgReturnNacksCases, Zenon DEF Step
<1>6. CASE SgReturn
  BY <1>0, <1>6, SgReturnCases, Zenon DEF Step
<1>7. CASE \E f \in Upstream, n \in Nonce : NackMismatch(f, n)
  BY <1>0, <1>7, StillCases, Zenon DEF Step
<1>8. CASE \E f \in Upstream, n \in Nonce, reason \in NackReason, q \in Queueing, fib, canModify \in BOOLEAN :
             RxNack(f, n, reason, q, fib, canModify)
  BY <1>8, Zenon DEF Step
<1>9. CASE \E longer \in BOOLEAN : DataUnsolicited(longer)
  BY <1>0, <1>9, StillCases, Zenon DEF Step
<1>10. CASE \E longer \in BOOLEAN, q \in Queueing : RxData(longer, q)
  BY <1>0, <1>10, RxDataCases, Zenon DEF Step
<1>11. CASE \E fib \in BOOLEAN : Timeout(fib)
  BY <1>11, TimeoutCases, Zenon DEF Step
<1>12. CASE Tick
  BY <1>0, <1>12, StillCases, Zenon DEF Step
<1>13. QED
  <2>1. CASE Next
    BY <1>1, <1>2, <1>3, <1>4, <1>5, <1>6, <1>7, <1>8, <1>9, <1>10, <1>11, <1>12, <2>1, Zenon DEF Next
  <2>2. CASE UNCHANGED vars
    BY <2>2, Zenon DEF Step
  <2>3. QED
    BY <2>1, <2>2, Zenon

\* Every step keeps IInv.
LEMMA NextKeeps ==
  ASSUME IInv, [Next]_vars
  PROVE  IInv'
<1>1. Step
  BY NextCases, Zenon
<1>2. CASE Gone
  BY <1>2, ErasedKeeps, Zenon DEF Gone
<1>3. CASE UNCHANGED vars
  <2>1. e \in Entry /\ awaiting \subseteq Upstream /\ rejected \in [Upstream -> Seq(Nonce)] /\ now \in Nat
        /\ ctx \in Context /\ (ctx.event # "none" => e.live)
    BY Zenon DEF IInv, Types, Working
  <2>2. UNCHANGED <<e, now, ctx, mbufs, lives, want, awaiting, rejected>>
    BY <1>3, Zenon DEF vars, seen
  <2>3. QED
    BY <2>1, <2>2, SameStay, StayKeeps
<1>4. QED
  BY <1>1, <1>2, <1>3, QuietKeeps, RetimedKeeps, RxInterestKeeps, SgForwardKeeps, RxNackKeeps DEF Step

\* Whatever happens to a PIT entry, and however often its memory is used again, it owns
\* exactly one Interest packet while it exists and none after: PitEntry_InsertDn,
\* FwFwd_RxData, FwFwd_RxNack and PitEntry_Timeout_ neither leak a packet nor free one twice.
THEOREM EntryOwnsOneInterest == Spec => []OwnsOneInterest
<1>1. IInv /\ [Next]_vars => IInv'
  BY NextKeeps, Zenon
<1>2. IInv => OwnsOneInterest
  BY Zenon DEF IInv
<1>3. QED
  BY InitIInv, <1>1, <1>2, PTL DEF Spec

\* However often the memory of the entry is used again, a downstream whose Interest was
\* accepted by PitEntry_InsertDn and has not expired is on record with its expiration,
\* the entry lives at least as long, and its timer is set for then unless the strategy
\* set it for an earlier time.
THEOREM DownstreamsAlwaysKept == Spec => []DownstreamsKept
<1>1. IInv /\ [Next]_vars => IInv'
  BY NextKeeps, Zenon
<1>2. IInv => DownstreamsKept
  BY Zenon DEF IInv
<1>3. QED
  BY InitIInv, <1>1, <1>2, PTL DEF Spec

=============================================================================

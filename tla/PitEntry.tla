-------------------------------- MODULE PitEntry --------------------------------
(***************************************************************************)
(* A PIT entry (csrc/pcct/pit-entry.[ch], pit-up.[ch], pit-iterator.[ch]):  *)
(* its downstream (DN) and upstream (UP) records, CanBePrefix counter,      *)
(* representative Interest, expiration and timer, as operators on a record. *)
(*                                                                          *)
(* DN and UP records sit in arrays inside the entry and in chained          *)
(* extensions.  The arrays are memory: PitEntry_Init and                    *)
(* PitDnUpIt_Extend_ clear the face of the first record only, and what the  *)
(* others hold is whatever the previous use of the object left there.       *)
(* Record i of the model is record i of the iteration order, extensions     *)
(* included.  NoFace marks an unused record, time 0 is "never", and NoNonce  *)
(* is the nonce 0 that cleared memory holds.                               *)
(***************************************************************************)
EXTENDS Integers, FiniteSetsExt

CONSTANTS
  NoFace, NoNonce,      \* the value 0 of a FaceID, of a nonce
  MaxDns, MaxUps,       \* PitMaxDns, PitMaxUps
  MaxExtDns, MaxExtUps, \* PitMaxExtDns, PitMaxExtUps
  MaxExts,              \* bound: extensions the mempool can provide
  MaxRej,               \* PIT_UP_MAX_REJ_NONCES
  CounterSize,          \* values of the uint8_t nCanBePrefix
  SuppressMin, SuppressMax \* PitSuppressConfig, with multiplier 2

ASSUME PitEntryAssumption ==
  /\ {MaxDns, MaxUps, MaxExtDns, MaxExtUps, MaxRej, CounterSize} \subseteq Nat \ {0}
  /\ {MaxExts, SuppressMin, SuppressMax} \subseteq Nat

DnIndex == 1 .. MaxDns + MaxExts * MaxExtDns
UpIndex == 1 .. MaxUps + MaxExts * MaxExtUps

NackNone == 0
NackCongestion == 50
NackDuplicate == 100
NackNoRoute == 150

NoDn == [face |-> NoFace, nonce |-> NoNonce, cbp |-> FALSE, expiry |-> 0]
NoUp == [face |-> NoFace, nonce |-> NoNonce, nack |-> NackNone, lastTx |-> 0, suppress |-> 0,
         rej |-> [i \in 1 .. MaxRej |-> NoNonce]]

\* An entry in memory that was never used.
Unused ==
  [live |-> FALSE, repCbp |-> FALSE, nCbp |-> 0, txHop |-> 0, expiry |-> 0,
   timer |-> 0, sg |-> FALSE, nExts |-> 0,
   dns |-> [i \in DnIndex |-> NoDn], ups |-> [i \in UpIndex |-> NoUp], ok |-> TRUE]

B(b) == IF b THEN 1 ELSE 0

\* The records the iterators visit: PitDnIt_Valid, PitUpIt_Valid.
DnValid(e) == 1 .. MaxDns + e.nExts * MaxExtDns
UpValid(e) == 1 .. MaxUps + e.nExts * MaxExtUps

\* Loops over DN records stop at the first unused one.
DnsInUse(e) == {i \in DnValid(e) : \A j \in 1 .. i : e.dns[j].face # NoFace}

\* PitDnUpIt_Extend_: chain one more extension, with its first DN and UP unused.
Extend(e) ==
  [e EXCEPT !.nExts = @ + 1,
            !.dns[MaxDns + e.nExts * MaxExtDns + 1].face = NoFace,
            !.ups[MaxUps + e.nExts * MaxExtUps + 1].face = NoFace]

-----------------------------------------------------------------------------
(* Life cycle and timer *)

PitEntry_Init(e, cbp) ==
  [e EXCEPT !.live = TRUE, !.repCbp = cbp, !.timer = 0, !.expiry = 0,
            !.nCbp = B(cbp), !.txHop = 0, !.nExts = 0,
            !.dns[1].face = NoFace, !.ups[1].face = NoFace]

\* Pit_Erase with PitEntry_Finalize: timer cancelled, extensions released.
Pit_Erase(e) == [e EXCEPT !.live = FALSE, !.timer = 0, !.nExts = 0]

PitEntry_SetExpiryTimer(e) == [e EXCEPT !.sg = FALSE, !.timer = e.expiry]

\* The strategy timer cannot be set past the expiration of the entry.
CanSetSgTimer(e, now, after) == now + after <= e.expiry
PitEntry_SetSgTimer(e, now, after) ==
  IF CanSetSgTimer(e, now, after) THEN [e EXCEPT !.sg = TRUE, !.timer = now + after]
  ELSE e

-----------------------------------------------------------------------------
(* Downstream records *)

\* PitEntry_FindDuplicateNonce
HasDuplicateNonce(e, nonce, rxFace) ==
  \E i \in DnsInUse(e) : e.dns[i].face # rxFace /\ e.dns[i].nonce = nonce

MutDnFitsEarly(e, face, ts) ==
  {i \in DnValid(e) : e.dns[i].face \in {face, NoFace} \/ e.dns[i].expiry <= ts}

\* The DN records PitEntry_InsertDn may take for face at the arrival time ts;
\* it takes the first one, extending the entry when there is none.
DnFits(e, face, ts) ==
  {i \in DnValid(e) : e.dns[i].face \in {face, NoFace} \/ e.dns[i].expiry < ts}

\* The entry with a DN record for face, and that record's index; 0 if the entry
\* cannot be extended.
SeekDn(e, face, ts, canAlloc) ==
  LET fits == DnFits(e, face, ts)
      grown == Extend(e)
  IN CASE fits # {} -> [e |-> e, i |-> Min(fits)]
       [] fits = {} /\ canAlloc /\ e.nExts < MaxExts ->
            [e |-> grown, i |-> MaxDns + e.nExts * MaxExtDns + 1]
       [] OTHER -> [e |-> e, i |-> 0]

MutRefreshFreesBoth(e, i, it, fresh) ==
  LET old == e.dns[i]
      evict == ~fresh /\ old.face # it.face /\ old.face # NoFace
      n == IF evict THEN (e.nCbp - B(old.cbp)) % CounterSize ELSE e.nCbp
      dn == [face |-> it.face, nonce |-> it.nonce, cbp |-> it.cbp,
             expiry |-> it.ts + it.lifetime]
      replace == n # B(it.cbp)
      e1 == [e EXCEPT !.dns[i] = dn,
                      !.repCbp = IF replace THEN it.cbp ELSE @,
                      !.nCbp = (n + B(it.cbp)) % CounterSize,
                      !.txHop = Max({@, it.hopLimit - 1}),
                      !.ok = @ /\ (evict => e.nCbp >= B(old.cbp))
                               /\ (replace => ~fresh)
                               /\ (fresh => old.face = NoFace)]
  IN [found |-> TRUE,
      freed |-> B(replace) + B(~fresh),
      e |-> IF dn.expiry > e.expiry
            THEN PitEntry_SetExpiryTimer([e1 EXCEPT !.expiry = dn.expiry])
            ELSE e1]

\* Refresh DN record i of e for Interest it, and what follows: CanBePrefix and
\* representative Interest, hop limit, expiration timer.  fresh: the entry was
\* created by this Interest and owns it.  freed: how many of the two Interests,
\* the representative and the new one, are freed.
RefreshDn(e, i, it, fresh) ==
  LET old == e.dns[i]
      evict == ~fresh /\ old.face # it.face /\ old.face # NoFace
      n == IF evict THEN (e.nCbp - B(old.cbp)) % CounterSize ELSE e.nCbp
      dn == [face |-> it.face, nonce |-> it.nonce, cbp |-> it.cbp,
             expiry |-> it.ts + it.lifetime]
      replace == n # B(it.cbp)
      e1 == [e EXCEPT !.dns[i] = dn,
                      !.repCbp = IF replace THEN it.cbp ELSE @,
                      !.nCbp = (n + B(it.cbp)) % CounterSize,
                      !.txHop = Max({@, it.hopLimit - 1}),
                      !.ok = @ /\ (evict => e.nCbp >= B(old.cbp))
                               /\ (replace => ~fresh)
                               /\ (fresh => old.face = NoFace)]
  IN [found |-> TRUE,
      freed |-> B(replace) + B(~replace /\ ~fresh),
      e |-> IF dn.expiry > e.expiry
            THEN PitEntry_SetExpiryTimer([e1 EXCEPT !.expiry = dn.expiry])
            ELSE e1]

\* PitEntry_InsertDn: the entry, and whether a DN record was available.
PitEntry_InsertDn(e, it, fresh, canAlloc) ==
  LET s == IF fresh THEN [e |-> e, i |-> 1] ELSE SeekDn(e, it.face, it.ts, canAlloc)
  IN IF s.i = 0 THEN [found |-> FALSE, freed |-> 0, e |-> s.e]
     ELSE RefreshDn(s.e, s.i, it, fresh)

-----------------------------------------------------------------------------
(* Upstream records *)

PitUp_Reset(face) == [NoUp EXCEPT !.face = face]

UpFits(e, face) ==
  {i \in UpValid(e) : e.ups[i].face \in {face, NoFace} \/ e.ups[i].lastTx = 0}

\* PitEntry_ReserveUp: the entry with an UP record for face, and its index.
PitEntry_ReserveUp(e, face, canAlloc) ==
  LET fits == UpFits(e, face)
      e1 == IF fits = {} /\ canAlloc /\ e.nExts < MaxExts THEN Extend(e) ELSE e
      fits1 == UpFits(e1, face)
      i == IF fits1 = {} THEN 0 ELSE Min(fits1)
  IN [i |-> i,
      e |-> IF i = 0 \/ e1.ups[i].face = face THEN e1
            ELSE [e1 EXCEPT !.ups[i] = PitUp_Reset(face)]]

PitUp_ShouldSuppress(up, now) == up.lastTx + up.suppress > now

MutKeepOldRejection(up, nonce) ==
  [up EXCEPT !.rej = [i \in 1 .. MaxRej |-> IF i = 1 /\ @[1] = NoNonce THEN nonce ELSE @[i]]]

PitUp_HasRejectedNonce(up, nonce) == \E i \in 1 .. MaxRej : up.rej[i] = nonce

PitUp_AddRejectedNonce(up, nonce) ==
  [up EXCEPT !.rej = [i \in 1 .. MaxRej |-> IF i = 1 THEN nonce ELSE @[i - 1]]]

\* PitUp_ChooseNonce: the suggested nonce, or that of the first unexpired DN
\* record, which upstream has not rejected.  A set with at most one element.
PitUp_ChooseNonce(up, e, now, nonce) ==
  LET alts == {i \in DnsInUse(e) : /\ e.dns[i].expiry >= now
                                   /\ ~PitUp_HasRejectedNonce(up, e.dns[i].nonce)}
  IN CASE ~PitUp_HasRejectedNonce(up, nonce) -> {nonce}
       [] PitUp_HasRejectedNonce(up, nonce) /\ alts # {} -> {e.dns[Min(alts)].nonce}
       [] OTHER -> {}

PitSuppressConfig_Compute(d) == Min({SuppressMax, Max({SuppressMin, 2 * d})})

PitUp_RecordTx(up, now, nonce) ==
  [up EXCEPT !.nonce = nonce, !.nack = NackNone, !.lastTx = now,
             !.suppress = PitSuppressConfig_Compute(@)]
=============================================================================

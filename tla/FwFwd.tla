--------------------------------- MODULE FwFwd ---------------------------------
(***************************************************************************)
(* One forwarding thread (csrc/fwdp/fwd-interest.c, fwd-data.c, fwd-nack.c, *)
(* strategy.c) working on one name: Interests, Data, Nacks and timers in    *)
(* any order, on one PIT entry slot whose memory is reused from one PIT     *)
(* entry to the next.                                                       *)
(*                                                                          *)
(* The forwarding strategy is an eBPF program supplied at run time: here it *)
(* is any program, which may call SgForwardInterest, SgSetTimer and         *)
(* SgReturnNacks in any order.  The thread is inside the program while      *)
(* ctx.event # "none" and handles nothing else meanwhile.  Packets carry    *)
(* the time they arrived at, up to MaxQueue before they are handled; timers *)
(* fire up to MaxLag after their time.                                      *)
(***************************************************************************)
EXTENDS PitEntry, Sequences, Functions, TLC

CONSTANTS
  Downstream, Upstream, \* faces Interests come from, FIB nexthops
  Nonce, Lifetime, HopLimit, Cbp, \* fields of arriving Interests
  NackReason,           \* reasons of arriving Nacks
  SgDelay,              \* durations the strategy sets timers to
  MaxTime, MaxQueue, MaxLag,
  MaxCbp,               \* bound: Interests with CanBePrefix on one entry
  MaxCalls,             \* bound: API calls in one strategy invocation
  Lives                 \* bound: how many PIT entries use the slot, in turn

Face == Downstream \cup Upstream

ASSUME FwFwdAssumption ==
  /\ NoFace \notin Face
  /\ NackReason \subseteq {NackCongestion, NackDuplicate, NackNoRoute}
  /\ Lifetime \cup HopLimit \cup SgDelay \subseteq Nat \ {0}
  /\ Cbp \subseteq BOOLEAN
  /\ {MaxTime, MaxQueue, MaxLag, MaxCbp, MaxCalls, Lives} \subseteq Nat

VARIABLES
  e,        \* the PIT entry slot
  now,
  ctx,      \* FwFwdCtx of the strategy invocation in progress
  mbufs,    \* Interest mbufs that are neither freed nor sent
  lives,    \* how many PIT entries have used the slot
  cached,   \* the Content Store has Data that may match the next Interest
  out,      \* what the last step sent
  want,     \* when the last accepted Interest of each downstream expires
  awaiting, \* upstreams that were sent an Interest and did not answer
  rejected  \* the MaxRej nonces each upstream last rejected as duplicate

\* Observations, which no handler reads.
seen == <<out, want, awaiting, rejected>>
vars == <<e, now, ctx, mbufs, lives, cached, seen>>

NoCtx == [event |-> "none", nonce |-> NoNonce, nFwd |-> 0, pending |-> 0, least |-> 0,
          rxTime |-> 0, calls |-> 0]

Nobody == [f \in Downstream |-> 0]
NoneRejected == [f \in Upstream |-> <<>>]

Init ==
  /\ e = Unused
  /\ now = 1
  /\ ctx = NoCtx
  /\ mbufs = 0
  /\ lives = 0
  /\ cached = FALSE
  /\ out = <<>>
  /\ want = Nobody
  /\ awaiting = {}
  /\ rejected = NoneRejected

Idle == ctx.event = "none"

TxInterest(f, nonce, lifetime) ==
  [kind |-> "interest", to |-> f, nonce |-> nonce, info |-> lifetime]
TxNack(f, nonce, reason) == [kind |-> "nack", to |-> f, nonce |-> nonce, info |-> reason]
TxData(f) == [kind |-> "data", to |-> f, nonce |-> NoNonce, info |-> 0]

\* The DN records a Data or Nack goes to at time t: unexpired.
Receivers(t) == {i \in DnsInUse(e) : e.dns[i].expiry >= t}

\* The DN records with indices is, in order.
InOrder(is) ==
  [k \in 1 .. Cardinality(is) |->
     e.dns[CHOOSE i \in is : Cardinality({j \in is : j < i}) = k - 1]]

\* FwFwd_TxNacks sends a Nack to each receiver whose face is up, and gives up
\* where an allocation fails; either may happen at any record.
TxNacks(t, reason, kind) ==
  {LET r == InOrder(is) IN [k \in DOMAIN r |-> [TxNack(r[k].face, r[k].nonce, reason) EXCEPT !.kind = kind]]
     : is \in SUBSET Receivers(t)}

\* The entry is erased: nothing of it is left to be answered.
Erased ==
  /\ e' = Pit_Erase(e)
  /\ mbufs' = mbufs - 1
  /\ want' = Nobody
  /\ awaiting' = {}
  /\ rejected' = NoneRejected

-----------------------------------------------------------------------------
(* Interest *)

Interest(q) ==
  [face : Downstream, nonce : Nonce, cbp : Cbp, lifetime : Lifetime,
   hopLimit : HopLimit, ts : {now - q}]

\* FwFwd_InterestRejectNack: the Interest becomes the Nack, unless an allocation
\* fails.
Reject(it, reason) ==
  /\ out' \in {<<TxNack(it.face, it.nonce, reason)>>, <<>>}
  /\ UNCHANGED <<ctx, mbufs, want, awaiting, rejected>>

\* No FIB entry has a nexthop other than the downstream, or the PIT is full.
RxInterestRefused(it) ==
  /\ Idle
  /\ \/ Reject(it, NackNoRoute)
     \/ ~e.live /\ Reject(it, NackCongestion)
  /\ UNCHANGED <<e, now, lives, cached>>

\* FwFwd_InterestHitCs
RxInterestHitCs(it) ==
  /\ Idle
  /\ cached
  /\ out' \in {<<TxData(it.face)>>, <<>>}
  /\ UNCHANGED <<e, now, ctx, mbufs, lives, cached, want, awaiting, rejected>>

\* FwFwd_RxInterest from Pit_Insert to the strategy invocation.
RxInterest(it, canAlloc) ==
  LET fresh == ~e.live
      e0 == IF fresh THEN PitEntry_Init(e, it.cbp) ELSE e
      ins == PitEntry_InsertDn(e0, it, fresh, canAlloc)
  IN /\ Idle
     /\ fresh => lives < Lives
     /\ it.ts + it.lifetime <= MaxTime \* bound
     /\ it.cbp /\ ~fresh => e.nCbp < MaxCbp \* bound
     /\ lives' = lives + B(fresh)
     /\ cached' = FALSE
     /\ \/ /\ HasDuplicateNonce(e0, it.nonce, it.face)
           /\ Reject(it, NackDuplicate)
           /\ e' = e0
        \/ /\ ~HasDuplicateNonce(e0, it.nonce, it.face)
           /\ ~ins.found
           /\ Reject(it, NackCongestion)
           /\ e' = ins.e
        \/ /\ ~HasDuplicateNonce(e0, it.nonce, it.face)
           /\ ins.found
           /\ e' = ins.e
           /\ mbufs' = mbufs + 1 - ins.freed
           /\ ctx' = [NoCtx EXCEPT !.event = "interest", !.nonce = it.nonce,
                                   !.rxTime = it.ts]
           /\ out' = <<>>
           /\ want' = [want EXCEPT ![it.face] = it.ts + it.lifetime]
           /\ UNCHANGED <<awaiting, rejected>>
     /\ UNCHANGED now

-----------------------------------------------------------------------------
(* The strategy's API *)

InStrategy ==
  /\ ~Idle
  /\ ctx.calls < MaxCalls

\* SgForwardInterestResult for a face that is up, given the reserved UP record.
ForwardResult(r, nonces, canModify) ==
  CASE r.i = 0 -> "ALLOCERR"
    [] r.i # 0 /\ PitUp_ShouldSuppress(r.e.ups[r.i], now) -> "SUPPRESSED"
    [] r.i # 0 /\ ~PitUp_ShouldSuppress(r.e.ups[r.i], now) ->
         CASE nonces = {} -> "NONONCE"
           [] nonces # {} /\ r.e.txHop = 0 -> "HOPZERO"
           [] nonces # {} /\ r.e.txHop # 0 -> IF canModify THEN "OK" ELSE "ALLOCERR"

\* isDown: the management thread has marked the face down.
SgForwardInterest(nh, isDown, canAlloc, canModify) ==
  LET r == PitEntry_ReserveUp(e, nh, canAlloc)
      up == r.e.ups[r.i]
      nonces == IF r.i = 0 THEN {} ELSE PitUp_ChooseNonce(up, r.e, now, ctx.nonce)
      res == IF isDown THEN "BADFACE" ELSE ForwardResult(r, nonces, canModify)
  IN /\ InStrategy
     /\ ctx' = [ctx EXCEPT !.calls = @ + 1, !.nFwd = @ + B(res = "OK")]
     /\ \/ /\ res = "BADFACE"
           /\ out' = <<>>
           /\ UNCHANGED <<e, awaiting>>
        \/ /\ res \notin {"BADFACE", "OK"}
           /\ e' = r.e
           /\ out' = <<>>
           /\ UNCHANGED awaiting
        \/ /\ res = "OK"
           /\ \E nonce \in nonces :
                /\ e' = [r.e EXCEPT !.ups[r.i] = PitUp_RecordTx(up, now, nonce)]
                /\ out' = <<TxInterest(nh, nonce, e.expiry - now)>>
           /\ awaiting' = awaiting \cup {nh}
     /\ UNCHANGED <<now, mbufs, lives, cached, want, rejected>>

SgSetTimer(after) ==
  /\ InStrategy
  /\ e' = PitEntry_SetSgTimer(e, now, after)
  /\ ctx' = [ctx EXCEPT !.calls = @ + 1]
  /\ out' = <<>>
  /\ UNCHANGED <<now, mbufs, lives, cached, want, awaiting, rejected>>

SgReturnNacks(reason) ==
  /\ InStrategy
  /\ ctx.event = "interest"
  /\ out' \in TxNacks(now, reason, "sgnack")
  /\ ctx' = [ctx EXCEPT !.calls = @ + 1]
  /\ UNCHANGED <<e, now, mbufs, lives, cached, want, awaiting, rejected>>

\* The program returns.  After a Nack the entry goes, and Nacks go downstream,
\* unless an upstream is still pending or the strategy sent a new Interest.
SgReturn ==
  /\ ~Idle
  /\ ctx' = NoCtx
  /\ \/ /\ ctx.event # "nack" \/ ctx.pending + ctx.nFwd > 0
        /\ out' = <<>>
        /\ UNCHANGED <<e, mbufs, want, awaiting, rejected>>
     \/ /\ ctx.event = "nack"
        /\ ctx.pending + ctx.nFwd = 0
        /\ out' \in TxNacks(ctx.rxTime, ctx.least, "nack")
        /\ Erased
  /\ UNCHANGED <<now, lives, cached>>

-----------------------------------------------------------------------------
(* Nack *)

\* FwFwd_ProcessNack reads the UP records in order, and stops at one of the
\* same face whose nonce is not the Nack's.
NackWrong(face, nonce) ==
  {i \in UpValid(e) : e.ups[i].face = face /\ e.ups[i].nonce # nonce}
NackScope(face, nonce) ==
  {i \in UpValid(e) : \A j \in NackWrong(face, nonce) : i < j}

NackTargets(face, nonce) == {i \in NackScope(face, nonce) : e.ups[i].face = face}

MutPendingNoRoute(face, nonce) ==
  {i \in NackScope(face, nonce) : e.ups[i].face \notin {NoFace, face} /\ e.ups[i].nack # NackNone}

\* Upstreams other than face whose record shows no Nack.
NackPending(face, nonce) ==
  {i \in NackScope(face, nonce) : /\ e.ups[i].face \notin {NoFace, face}
                                  /\ e.ups[i].nack = NackNone}

LeastSevere(face, nonce, reason) ==
  Min({reason} \cup {e.ups[i].nack :
        i \in {j \in NackScope(face, nonce) : /\ e.ups[j].face \notin {NoFace, face}
                                              /\ e.ups[j].nack # NackNone}})

NackMismatch(face, nonce) ==
  /\ Idle
  /\ e.live
  /\ NackTargets(face, nonce) = {}
  /\ out' = <<>>
  /\ UNCHANGED <<e, now, ctx, mbufs, lives, cached, want, awaiting, rejected>>

Latest(s) == SubSeq(s, Max({1, Len(s) - MaxRej + 1}), Len(s))

\* FwFwd_RxNack of a Nack that matches UP record i.  fib: the FIB entry is
\* still there, so the strategy is invoked.
RxNack(face, nonce, reason, q, fib, canModify) ==
  LET i == Max(NackTargets(face, nonce))
      up1 == [e.ups[i] EXCEPT !.nack = reason]
      up2 == IF reason = NackDuplicate THEN PitUp_AddRejectedNonce(up1, up1.nonce) ELSE up1
      alt == PitUp_ChooseNonce(up2, e, now, up2.nonce)
  IN /\ Idle
     /\ e.live
     /\ NackTargets(face, nonce) # {}
     /\ rejected' = IF reason = NackDuplicate
                    THEN [rejected EXCEPT ![face] = Latest(Append(@, nonce))]
                    ELSE rejected
     /\ \/ /\ reason = NackDuplicate
           /\ alt # {}
           /\ canModify
           /\ \E n \in alt :
                /\ e' = [e EXCEPT !.ups[i] = PitUp_RecordTx(up2, now, n)]
                /\ out' = <<TxInterest(face, n, e.expiry - now)>>
           /\ awaiting' = awaiting \cup {face}
           /\ UNCHANGED ctx
        \/ /\ reason = NackDuplicate
           /\ alt # {}
           /\ ~canModify
           /\ e' = [e EXCEPT !.ups[i] = up2]
           /\ out' = <<>>
           /\ awaiting' = awaiting \ {face}
           /\ UNCHANGED ctx
        \/ /\ reason = NackDuplicate => alt = {}
           /\ e' = [e EXCEPT !.ups[i] = up2]
           /\ out' = <<>>
           /\ awaiting' = awaiting \ {face}
           /\ ctx' = [NoCtx EXCEPT !.event = "nack",
                                   !.pending = Cardinality(NackPending(face, nonce)),
                                   !.least = LeastSevere(face, nonce, reason),
                                   !.rxTime = now - q,
                                   !.calls = IF fib THEN 0 ELSE MaxCalls]
     /\ UNCHANGED <<now, mbufs, lives, cached, want>>

-----------------------------------------------------------------------------
(* Data *)

\* Pit_FindByData: Data whose name is longer than the Interest's only matches
\* a representative Interest with CanBePrefix.
DataMatches(longer) == longer => e.repCbp

DataUnsolicited(longer) ==
  /\ Idle
  /\ e.live
  /\ ~DataMatches(longer)
  /\ out' = <<>>
  /\ UNCHANGED <<e, now, ctx, mbufs, lives, cached, want, awaiting, rejected>>

\* FwFwd_RxData: FwFwd_DataSatisfy, then Cs_Insert erases the PIT entry.
\* Faces may be down; copies of the Data, and the CS entry, may fail to be allocated.
RxData(longer, q) ==
  /\ Idle
  /\ e.live
  /\ DataMatches(longer)
  /\ \E is \in SUBSET Receivers(now - q) :
       LET r == InOrder(is)
       IN out' = [k \in DOMAIN r |-> TxData(r[k].face)]
  /\ cached' \in BOOLEAN
  /\ Erased
  /\ UNCHANGED <<now, ctx, lives>>

-----------------------------------------------------------------------------
(* Timers and time *)

MutTimeoutKeepsTimer(fib) ==
  /\ Idle
  /\ e.live
  /\ now >= e.timer
  /\ out' = <<>>
  /\ \/ /\ e.sg
        /\ ctx' = IF fib THEN [NoCtx EXCEPT !.event = "timer", !.rxTime = now] ELSE NoCtx
        /\ UNCHANGED <<e, mbufs, want, awaiting, rejected>>
     \/ /\ ~e.sg
        /\ Erased
        /\ UNCHANGED ctx
  /\ UNCHANGED <<now, lives, cached>>

\* PitEntry_Timeout_ with SgTriggerTimer.
Timeout(fib) ==
  /\ Idle
  /\ e.live
  /\ now >= e.timer
  /\ out' = <<>>
  /\ \/ /\ e.sg
        /\ e' = PitEntry_SetExpiryTimer(e)
        /\ ctx' = IF fib THEN [NoCtx EXCEPT !.event = "timer", !.rxTime = now] ELSE NoCtx
        /\ UNCHANGED <<mbufs, want, awaiting, rejected>>
     \/ /\ ~e.sg
        /\ Erased
        /\ UNCHANGED ctx
  /\ UNCHANGED <<now, lives, cached>>

Tick ==
  /\ Idle
  /\ now < MaxTime
  /\ e.live => now < e.timer + MaxLag
  /\ now' = now + 1
  /\ out' = <<>>
  /\ UNCHANGED <<e, ctx, mbufs, lives, cached, want, awaiting, rejected>>

Queueing == {q \in 0 .. MaxQueue : q < now}

Next ==
  \/ \E q \in Queueing : \E it \in Interest(q) :
       \/ RxInterestRefused(it)
       \/ RxInterestHitCs(it)
       \/ \E canAlloc \in BOOLEAN : RxInterest(it, canAlloc)
  \/ \E nh \in Upstream, isDown, canAlloc, canModify \in BOOLEAN :
       SgForwardInterest(nh, isDown, canAlloc, canModify)
  \/ \E after \in SgDelay : SgSetTimer(after)
  \/ SgReturnNacks(NackNoRoute)
  \/ SgReturn
  \/ \E f \in Upstream, n \in Nonce : NackMismatch(f, n)
  \/ \E f \in Upstream, n \in Nonce, reason \in NackReason,
       q \in Queueing, fib, canModify \in BOOLEAN :
       RxNack(f, n, reason, q, fib, canModify)
  \/ \E longer \in BOOLEAN : DataUnsolicited(longer)
  \/ \E longer \in BOOLEAN, q \in Queueing : RxData(longer, q)
  \/ \E fib \in BOOLEAN : Timeout(fib)
  \/ Tick

Spec == Init /\ [][Next]_vars

\* Time passes whatever the thread does, its main loop triggers the timers
\* between bursts however many packets arrive, and a strategy program returns.
FairSpec ==
  /\ Spec
  /\ WF_vars(SgReturn)
  /\ SF_vars(Tick)
  /\ SF_vars(\E fib \in BOOLEAN : Timeout(fib))

-----------------------------------------------------------------------------
(* Properties *)

\* The entry owns exactly one Interest packet while it exists: PitEntry_InsertDn
\* frees the old representative or the new Interest, never both or neither, and
\* every way out of the PIT frees the last one.
OwnsOneInterest == mbufs = B(e.live)

\* No NDNDPDK_ASSERT of PitEntry_InsertDn fails.
NoAssertFailure == e.ok

\* An accepted Interest that has not expired is on record with its own
\* expiration, and the entry stays at least as long, its timer set for then unless
\* the strategy set it for an earlier time: aggregation, slot reuse, Nacks and
\* strategy timers lose no downstream.
DownstreamsKept ==
  /\ \A f \in Downstream :
       want[f] >= now => /\ e.live
                         /\ e.expiry >= want[f]
                         /\ \E i \in DnsInUse(e) : /\ e.dns[i].face = f
                                                   /\ e.dns[i].expiry = want[f]
  /\ e.live => IF e.sg THEN e.timer <= e.expiry ELSE e.timer = e.expiry

\* ... and no record outlives its entry: "when all DNs expire" (PitEntry.expiry) is
\* true of every record that Data, Nacks and loop detection look at.
Remembered ==
  /\ DownstreamsKept
  /\ e.live => \A i \in DnsInUse(e) : e.dns[i].expiry <= e.expiry

\* A Nack is not returned downstream while some upstream that was sent the
\* Interest may still answer (nPending in FwFwd_ProcessNack).
NackOnlyWhenDone ==
  ctx.event = "nack" /\ ctx.pending + ctx.nFwd = 0 => awaiting = {}

\* No Interest goes to an upstream with a nonce that is among the last ones this
\* upstream has rejected as duplicate, as many as the UP record has room for
\* (PitUp_ChooseNonce, FwFwd_RxNackDuplicate).
NoRejectedNonce ==
  \A k \in DOMAIN out :
    out[k].kind = "interest" => out[k].nonce \notin Range(rejected[out[k].to])

\* A PIT entry is erased eventually, by Data, Nacks or its timer, whatever the
\* strategy does with the timer.
EventuallyErased == e.live ~> ~e.live

(* Faces and nonces are told apart only by being equal or not. *)
Sym == Permutations(Downstream) \cup Permutations(Upstream) \cup Permutations(Nonce)
=============================================================================

--------------------------------- MODULE LpLink ---------------------------------
(***************************************************************************)
(* One direction of a point-to-point face: the sending face's output queue, *)
(* TxLoop and TxProc (csrc/iface/txloop.c, tx-proc.c), which turn a network *)
(* layer packet into one or more NDNLPv2 frames; a network that loses,      *)
(* duplicates and reorders frames; and the receiving face's RxProc and      *)
(* Reassembler (rx-proc.c, reassembler.c) on each of its RX threads.        *)
(*                                                                          *)
(* Lengths are counted in fragment payloads, so DIV_CEIL(pkt_len, payload)  *)
(* is the length itself.  An mbuf is counted from its allocation to its     *)
(* release; a chain counts as its first segment.  "ok" turns FALSE where an *)
(* NDNDPDK_ASSERT would abort.                                              *)
(***************************************************************************)
EXTENDS Integers, Sequences, FiniteSets, FiniteSetsExt, SequencesExt

CONSTANTS
  LpMaxFragments, \* most fragments of a packet
  MaxBurstSize,   \* packets per dequeue, and frames per L2 burst
  Capacity,       \* Reassembler.capacity
  RxThread,       \* RX threads of the receiving face
  MaxLen,         \* bound: length of a packet
  MaxPackets,     \* bound: packets handed to Face_TxBurst
  MaxNoise,       \* bound: frames duplicated on the way, or that are not NDNLPv2
  MaxRestarts,    \* bound: times either face is closed and created again
  HashMayFail,    \* whether rte_hash_add_key_with_hash_data may fail
  AllocMayFail    \* whether an mbuf allocation of TxProc may fail

VARIABLES
  tx,      \* the sending face
  net,     \* frames in flight
  rx,      \* RxProcThread of each RX thread of the receiving face
  budget,  \* what is left of the bounds
  out      \* what the last frame completed: the fragments chained together

vars == <<tx, net, rx, budget, out>>

Packet == [id : 1 .. MaxPackets, len : 1 .. MaxLen, parses : BOOLEAN]

Frame == [pkt : Packet, seqNum : Nat, fragIndex : Nat, fragCount : Nat]

\* "linearize" is PacketTxAlign.linearize; "leaked" counts packets that nobody
\* releases and "renewed" says that the face was created again.
NewTx(linearize, renewed) ==
         [linearize |-> linearize, renewed |-> renewed, leaked |-> 0, queue |-> <<>>, burst |-> <<>>, frames |-> <<>>, busy |-> FALSE, nextSeqNum |-> 0,
          nFrames |-> 0, nDropped |-> 0, nOctets |-> 0, nDroppedOctets |-> 0, sent |-> 0,
          octets |-> 0, mbufs |-> 0, ok |-> TRUE]

Reassembler_Init ==
  [table |-> {}, list |-> <<>>, count |-> 0,
   nDeliverPackets |-> 0, nDeliverFragments |-> 0, nDropFragments |-> 0]

NewRx == [reass |-> Reassembler_Init, nL3 |-> 0, nDecodeErr |-> 0,
          arrived |-> 0, mbufs |-> 0, ok |-> TRUE]

Init ==
  /\ \E linearize \in BOOLEAN : tx = NewTx(linearize, FALSE)
  /\ net = {}
  /\ rx = [th \in RxThread |-> NewRx]
  /\ budget = [packets |-> MaxPackets, noise |-> MaxNoise, restarts |-> MaxRestarts]
  /\ out = <<>>

-----------------------------------------------------------------------------
(* Sending *)

\* The LpHeader_Prepend of fragment i of n: only a packet of several
\* fragments carries the sequence number and the fragment fields.
LpHeader_Prepend(p, base, i, n) ==
  [pkt |-> p, seqNum |-> IF n > 1 THEN base + i ELSE 0, fragIndex |-> i, fragCount |-> n]

TxProc_One(t, p) == [t EXCEPT !.frames = Append(@, LpHeader_Prepend(p, 0, 0, 1))]

\* Mutant: the sequence numbers are not taken.
MutSeqNumKept(t, p) ==
  [t EXCEPT !.frames = @ \o [i \in 1 .. p.len |-> LpHeader_Prepend(p, t.nextSeqNum, i - 1, p.len)],
            !.ok = @ /\ p.len <= LpMaxFragments]

\* The frames of packet p, with as many sequence numbers taken; LpHeader_Prepend
\* asserts that there are not too many.
Fragments(t, p) ==
  [t EXCEPT !.frames = @ \o [i \in 1 .. p.len |-> LpHeader_Prepend(p, t.nextSeqNum, i - 1, p.len)],
            !.nextSeqNum = @ + p.len, !.ok = @ /\ p.len <= LpMaxFragments]

\* The segments of the packet are unchained and become the frames.
TxProc_LinearFrag(t, p) ==
  [Fragments(t, p) EXCEPT !.mbufs = @ - 1 + p.len]

\* New header mbufs with indirect payloads; the packet is released, also when
\* an allocation fails, but not when it is too long.
TxProc_ChainedFrag(t, p, alloc) ==
  IF p.len > LpMaxFragments THEN [t EXCEPT !.leaked = @ + 1]
  ELSE IF ~alloc THEN [t EXCEPT !.mbufs = @ - 1]
  ELSE [Fragments(t, p) EXCEPT !.mbufs = @ + p.len - 1]

TxProc_Output(t, p, alloc) ==
  IF p.len <= 1 THEN TxProc_One(t, p)
  ELSE IF t.linearize THEN TxProc_LinearFrag(t, p)
  ELSE TxProc_ChainedFrag(t, p, alloc)

\* The last fragment of a packet is shorter than the others.
Octets(s) == FoldLeft(LAMBDA n, f : n + (IF f.fragIndex = f.fragCount - 1 THEN 1 ELSE 2), 0, s)

\* l2Burst accepts the first n frames; the rest are counted and released.
\* The accepted ones are released by the driver.
TxLoop_TxFrames(t, n) ==
  [t EXCEPT !.nFrames = @ + Len(t.frames), !.nDropped = @ + Len(t.frames) - n,
            !.nOctets = @ + Octets(t.frames), !.sent = @ + n,
            !.nDroppedOctets = @ + Octets(SubSeq(t.frames, n + 1, Len(t.frames))),
            !.octets = @ + Octets(SubSeq(t.frames, 1, n)),
            !.mbufs = @ - Len(t.frames), !.frames = <<>>]

Face_TxBurst(p) ==
  /\ budget.packets > 0
  /\ p.id = MaxPackets - budget.packets + 1
  /\ tx.linearize => p.len < LpMaxFragments  \* asserted by Clone_Linear
  /\ budget' = [budget EXCEPT !.packets = @ - 1]
  /\ tx' = [tx EXCEPT !.queue = Append(@, p), !.mbufs = @ + 1]
  /\ out' = <<>>
  /\ UNCHANGED <<net, rx>>

\* TxLoop_Transfer dequeues a burst ...
TxDequeue ==
  /\ ~tx.busy /\ tx.queue # <<>>
  /\ LET n == Min({Len(tx.queue), MaxBurstSize}) IN
       tx' = [tx EXCEPT !.burst = SubSeq(tx.queue, 1, n), !.busy = TRUE,
                        !.queue = SubSeq(@, n + 1, Len(@))]
  /\ out' = <<>>
  /\ UNCHANGED <<net, rx, budget>>

\* ... makes frames of each packet ...
TxOutput(alloc) ==
  /\ tx.busy /\ tx.burst # <<>> /\ Len(tx.frames) < MaxBurstSize
  /\ alloc \/ AllocMayFail
  /\ tx' = TxProc_Output([tx EXCEPT !.burst = Tail(@)], Head(tx.burst), alloc)
  /\ out' = <<>>
  /\ UNCHANGED <<net, rx, budget>>

\* ... and passes them down when there are enough, or no packet is left.
TxFrames(n) ==
  /\ tx.busy /\ tx.frames # <<>>
  /\ Len(tx.frames) >= MaxBurstSize \/ tx.burst = <<>>
  /\ n \in 0 .. Len(tx.frames)
  /\ net' = net \cup Range(SubSeq(tx.frames, 1, n))
  /\ tx' = TxLoop_TxFrames(tx, n)
  /\ out' = <<>>
  /\ UNCHANGED <<rx, budget>>

TxDone ==
  /\ tx.busy /\ tx.burst = <<>> /\ tx.frames = <<>>
  /\ tx' = [tx EXCEPT !.busy = FALSE]
  /\ out' = <<>>
  /\ UNCHANGED <<net, rx, budget>>

-----------------------------------------------------------------------------
(* Receiving *)

\* LpHeader_Parse: the sequence number of the packet's first fragment.
SeqNumBase(f) == f.seqNum - f.fragIndex

Held(pm) == pm.fragCount - Cardinality(pm.missing)

PosOf(r, base) == CHOOSE i \in DOMAIN r.list : r.list[i].base = base

\* Reassembler_Delete_ asserts that the message is in the table.
Deletable(r, i) == r.list[i].base \in r.table

Reassembler_Delete(r, i) ==
  [r EXCEPT !.table = @ \ {r.list[i].base}, !.list = RemoveAt(@, i), !.count = @ - 1]

Reassembler_Drop(r, i) ==
  [Reassembler_Delete(r, i) EXCEPT !.nDropFragments = @ + Held(r.list[i])]

NewMessage(f) ==
  [base |-> SeqNumBase(f), fragCount |-> f.fragCount,
   missing |-> (0 .. f.fragCount - 1) \ {f.fragIndex}, frags |-> (f.fragIndex :> f)]

Full(r) == r.count >= Capacity

\* The first message on the list makes room.  When the table refuses the new
\* message its fragment is released, and the message is listed all the same.
Reassembler_Insert(r, f, added) ==
  LET r1 == IF Full(r) THEN Reassembler_Drop(r, 1) ELSE r
      r2 == IF added THEN [r1 EXCEPT !.table = @ \cup {SeqNumBase(f)}]
            ELSE [r1 EXCEPT !.nDropFragments = @ + 1]
  IN  [r2 EXCEPT !.list = Append(@, NewMessage(f)), !.count = @ + 1]

Reassembler_Reassemble(r, i) ==
  [Reassembler_Delete(r, i) EXCEPT !.nDeliverPackets = @ + 1,
                                   !.nDeliverFragments = @ + r.list[i].fragCount]

\* A fragment goes to the message of its base; "done" are the fragments of a
\* message it completes, "freed" the mbufs released and "ok" the assertion.
Reassembler_Accept(r, f, added) ==
  IF SeqNumBase(f) \notin r.table
  THEN [r |-> Reassembler_Insert(r, f, added), done |-> <<>>,
        freed |-> (IF Full(r) THEN Held(r.list[1]) ELSE 0) + (IF added THEN 0 ELSE 1),
        ok |-> Full(r) => Deletable(r, 1)]
  ELSE
    LET i == PosOf(r, SeqNumBase(f))
        pm == r.list[i]
        next == [pm EXCEPT !.missing = @ \ {f.fragIndex}, !.frags = (f.fragIndex :> f) @@ @]
    IN  IF pm.fragCount # f.fragCount
        THEN [r |-> [Reassembler_Drop(r, i) EXCEPT !.nDropFragments = @ + 1], done |-> <<>>,
              freed |-> Held(pm) + 1, ok |-> TRUE]
        ELSE IF f.fragIndex \notin pm.missing
        THEN [r |-> [r EXCEPT !.nDropFragments = @ + 1], done |-> <<>>, freed |-> 1, ok |-> TRUE]
        ELSE IF next.missing # {}
        THEN [r |-> [r EXCEPT !.list = Append(RemoveAt(@, i), next)], done |-> <<>>, freed |-> 0,
              ok |-> TRUE]
        ELSE [r |-> Reassembler_Reassemble([r EXCEPT !.list[i] = next], i),
              done |-> [j \in 1 .. pm.fragCount |-> next.frags[j - 1]], freed |-> 0, ok |-> TRUE]

\* What the chain of fragments says when it is parsed as one packet: whole
\* packets parse if their sender made them so, and a mixture may not.
Parses(done) ==
  IF \A j \in DOMAIN done : done[j].pkt = done[1].pkt THEN {done[1].pkt.parses} ELSE BOOLEAN

\* RxProc_Input of an mbuf that has a frame in it.
RxProc_Input(x, f, added, parses) ==
  IF f.fragCount = 1
  THEN IF f.pkt.parses
       THEN [x EXCEPT !.arrived = @ + 1, !.nL3 = @ + 1]
       ELSE [x EXCEPT !.arrived = @ + 1, !.nDecodeErr = @ + 1]
  ELSE
    LET a == Reassembler_Accept(x.reass, f, added)
        y == [x EXCEPT !.reass = a.r, !.arrived = @ + 1, !.ok = @ /\ a.ok,
                       !.mbufs = @ + 1 - a.freed - Len(a.done)]
    IN  IF a.done = <<>> THEN y
        ELSE IF parses THEN [y EXCEPT !.nL3 = @ + 1]
        ELSE [y EXCEPT !.nDecodeErr = @ + 1]

Completes(x, f, added) ==
  IF f.fragCount = 1 THEN <<f>> ELSE Reassembler_Accept(x.reass, f, added).done

\* RxLoop_Transfer: the frame is the last copy in the network, or one more
\* is still on its way.
Receive(th, f, last, added, parses) ==
  /\ last \/ budget.noise > 0
  /\ added \/ HashMayFail
  /\ LET done == Completes(rx[th], f, added) IN
       /\ parses \in IF done = <<>> THEN {FALSE} ELSE Parses(done)
       /\ out' = IF parses THEN done ELSE <<>>
  /\ rx' = [rx EXCEPT ![th] = RxProc_Input(@, f, added, parses)]
  /\ net' = IF last THEN net \ {f} ELSE net
  /\ budget' = IF last THEN budget ELSE [budget EXCEPT !.noise = @ - 1]
  /\ UNCHANGED tx

\* A frame that LpHeader_Parse rejects.
ReceiveJunk(th) ==
  /\ budget.noise > 0
  /\ budget' = [budget EXCEPT !.noise = @ - 1]
  /\ rx' = [rx EXCEPT ![th].arrived = @ + 1, ![th].nDecodeErr = @ + 1]
  /\ out' = <<>>
  /\ UNCHANGED <<tx, net>>

Lose(f) ==
  /\ net' = net \ {f}
  /\ out' = <<>>
  /\ UNCHANGED <<tx, rx, budget>>

\* The receiving face is closed, so that every partial message is released,
\* and created again.
Reassembler_Close(x) ==
  [x EXCEPT !.mbufs = @ - FoldLeft(LAMBDA n, pm : n + Held(pm), 0, x.reass.list),
            !.reass = Reassembler_Init, !.nL3 = 0, !.nDecodeErr = 0, !.arrived = 0]

RestartRx ==
  /\ budget.restarts > 0
  /\ budget' = [budget EXCEPT !.restarts = @ - 1]
  /\ rx' = [th \in RxThread |-> Reassembler_Close(rx[th])]
  /\ out' = <<>>
  /\ UNCHANGED <<tx, net>>

\* The sending face is closed between two bursts, its queue empty, and created
\* again: FaceImpl is zeroed memory, so sequence numbers start over.
RestartTx ==
  /\ budget.restarts > 0
  /\ ~tx.busy /\ tx.queue = <<>>
  /\ budget' = [budget EXCEPT !.restarts = @ - 1]
  /\ tx' = [NewTx(tx.linearize, TRUE) EXCEPT !.mbufs = tx.mbufs, !.leaked = tx.leaked, !.ok = tx.ok]
  /\ out' = <<>>
  /\ UNCHANGED <<net, rx>>

Next ==
  \/ \E p \in Packet : Face_TxBurst(p)
  \/ TxDequeue
  \/ \E alloc \in BOOLEAN : TxOutput(alloc)
  \/ \E n \in 0 .. Len(tx.frames) : TxFrames(n)
  \/ TxDone
  \/ \E th \in RxThread, f \in net, last, added, parses \in BOOLEAN :
       Receive(th, f, last, added, parses)
  \/ \E th \in RxThread : ReceiveJunk(th)
  \/ \E f \in net : Lose(f)
  \/ RestartRx
  \/ RestartTx

Spec == Init /\ [][Next]_vars

-----------------------------------------------------------------------------
(* Properties *)

HeldIn(r) == FoldLeft(LAMBDA n, pm : n + Held(pm), 0, r.list)

\* The reassembler's list, its table and its count describe the same partial
\* messages, no more than its capacity, each of them keyed once, holding the
\* fragments its bitmap says have arrived and lacking at least one.  No assertion
\* of TxProc or of the Reassembler fails: a packet never has too many fragments
\* (LpHeader_Prepend), and the message that is dropped to make room is in the
\* table (Reassembler_Delete_).
TypeOK ==
  /\ tx.ok /\ \A th \in RxThread : rx[th].ok
  /\ tx.burst \in Seq(Packet) /\ tx.queue \in Seq(Packet) /\ tx.mbufs \in Nat
  /\ \A th \in RxThread :
       LET r == rx[th].reass IN
       /\ r.count = Len(r.list) /\ r.count <= Capacity
       /\ r.table = {r.list[i].base : i \in DOMAIN r.list}
       /\ Cardinality(r.table) = r.count
       /\ \A i \in DOMAIN r.list :
            LET pm == r.list[i] IN
            /\ pm.missing # {} /\ pm.missing \subseteq 0 .. pm.fragCount - 1
            /\ DOMAIN pm.frags = (0 .. pm.fragCount - 1) \ pm.missing

\* Whatever is lost, duplicated or reordered, a packet that leaves RxProc is
\* the packet that was sent: all the fragments of one packet, each once, in
\* order, headed by the first, which carries the PIT token (Reassembler_Accept,
\* Reassembler_Reassemble_).  This is so until the sending face is created
\* again, when its sequence numbers start over.
IntactDelivery ==
  ~tx.renewed /\ out # <<>> =>
    \A j \in DOMAIN out :
      out[j].pkt = out[1].pkt /\ out[j].fragIndex = j - 1 /\ out[j].fragCount = Len(out)

\* RxCounters.readFrom: RxFrames is not counted, it is computed from what
\* RxProc and the reassembler count.
RxFrames(x) ==
  x.nL3 - x.reass.nDeliverPackets + x.reass.nDeliverFragments + x.reass.nDropFragments

\* The number RxCounters.readFrom computes for received frames is right: with
\* the decode errors and the fragments still held it adds up to the frames that
\* arrived, whether reassembled packets parse or not and however messages are
\* dropped.  Sent frames and octets less the dropped ones are those the lower
\* layer accepted, though what a burst rejects is only known after all of it was
\* counted (TxLoop_TxFrames).
FramesAccounted ==
  /\ \A th \in RxThread :
       rx[th].arrived = RxFrames(rx[th]) + rx[th].nDecodeErr + HeldIn(rx[th].reass)
  /\ tx.nFrames - tx.nDropped = tx.sent
  /\ tx.nOctets - tx.nDroppedOctets = tx.octets

\* Every mbuf the receiver has not handed on or released is a fragment held in
\* a partial message, so evicting, mismatching, duplicate and closing leak
\* none and release none twice.  Every mbuf the sending face owns is a packet in
\* its output queue or burst or a frame about to be passed down, except the
\* packets with more fragments than LpMaxFragments, which TxProc_ChainedFrag does
\* not release.
MbufsAccounted ==
  /\ \A th \in RxThread : rx[th].mbufs = HeldIn(rx[th].reass)
  /\ tx.mbufs = Len(tx.queue) + Len(tx.burst) + Len(tx.frames) + tx.leaked
=================================================================================

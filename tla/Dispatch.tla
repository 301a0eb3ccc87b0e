------------------------------ MODULE Dispatch ------------------------------
(***************************************************************************)
(* How packets find their forwarding thread.  Input threads (FwInput)      *)
(* dispatch Interests by the Name Dispatch Table and Data and Nacks by the *)
(* PIT token the forwarding thread put into the Interest; forwarding       *)
(* threads (FwFwd) poll three bounded queues; Data that may answer an      *)
(* Interest with an implicit digest takes a detour through the crypto      *)
(* helper (FwCrypto), which dispatches it once more.                       *)
(* (csrc/iface/input-demux.c, csrc/ndt, csrc/fwdp/fwd.[ch], crypto.c,      *)
(* container/ndt, app/fwdp)                                                *)
(*                                                                         *)
(* A forwarding thread's PIT is the map from its tokens to names.  What    *)
(* the tables and the strategy decide is a choice here: see FwFwd, Pcct.   *)
(***************************************************************************)
EXTENDS Integers, FiniteSets, Sequences, Functions

CONSTANTS
  NFwd,      \* forwarding threads
  Input,     \* input threads, each with its RxLoop
  Crypto,    \* crypto helpers: {} or a set of one
  Socket, SocketOf, \* NUMA socket of each input thread and crypto helper
  Name, DataName,   \* Interest names, and the name of the Data each asks for
  Index, IndexOf,   \* NDT entries, and the entry that a name's hash leads to
  Value,     \* values that NDT entries are updated to
  PccToken,  \* tokens of a PCCT
  None,
  QueueCapacity, RingCapacity, BurstSize,
  MaxInterests, MaxReplies, MaxUpdates, MaxUpdaters \* bounds

Fwd == 0 .. NFwd - 1
PktType == {"I", "D", "N"}

\* An Interest for n with an ImplicitSha256DigestComponent: the Data's name is
\* one component shorter.
HasDigestComp(n) == DataName[n] # n

\* Names have Data and an NDT entry, threads a socket; the bounds are numbers.
ASSUME DispatchAssumption ==
  /\ NFwd \in Nat /\ QueueCapacity \in Nat /\ RingCapacity \in Nat /\ BurstSize \in Nat \ {0}
  /\ MaxInterests \in Nat /\ MaxReplies \in Nat /\ MaxUpdates \in Nat /\ MaxUpdaters \in Nat
  /\ Socket # {} /\ SocketOf \in [Input \cup Crypto -> Socket]
  /\ DataName \in [Name -> Name] /\ IndexOf \in [Name -> Index] /\ None \notin Name
  /\ IsFiniteSet(PccToken)

FwTokenLength == 7
FwTokenOffsetFwdID == 6

VARIABLES
  ndt,     \* replica of each socket
  updates, \* calls of Ndt.Update in progress: [index, value, todo]
  queue,   \* FwFwd.queueI, queueD, queueN
  fwd,     \* main loop of each forwarding thread: queue being served, burst in hand
  pit,     \* PIT of each forwarding thread: token -> name
  sent,    \* Interests that upstreams may answer
  ring,    \* FwCrypto.input
  cqp,     \* crypto operations in the cryptodev
  mbufs,   \* packets in the hands of the data plane
  left,    \* what is left of the bounds
  moved    \* history: NDT entries that were updated

vars == <<ndt, updates, queue, fwd, pit, sent, ring, cqp, mbufs, left, moved>>

\* A packet with the token its LpHeader carries.  History: whose Interest it
\* answers, and the kind of thread that dispatched it.
Packet(name, token, of) ==
  [name |-> name, token |-> token, hasDigest |-> FALSE, of |-> of, by |-> "input"]

NoToken == [length |-> 0, fwdID |-> None, pccToken |-> None]

MutFwToken_Set(f, pccToken) ==
  [length |-> FwTokenLength, fwdID |-> 0, pccToken |-> pccToken]

FwToken_Set(f, pccToken) ==
  [length |-> FwTokenLength, fwdID |-> f, pccToken |-> pccToken]

\* Randomize(len(lcFwd)): all replicas get the same values, below NFwd.
Init ==
  /\ \E table \in [Index -> Fwd] : ndt = [s \in Socket |-> table]
  /\ updates = {}
  /\ queue = [f \in Fwd |-> [t \in PktType |-> <<>>]]
  /\ fwd = [f \in Fwd |-> [at |-> "I", burst |-> <<>>]]
  /\ pit = [f \in Fwd |-> [k \in PccToken |-> None]]
  /\ sent = {} /\ ring = <<>> /\ cqp = <<>> /\ mbufs = 0 /\ moved = {}
  /\ left = [interests |-> MaxInterests, replies |-> MaxReplies, updates |-> MaxUpdates]

-----------------------------------------------------------------------------
(* InputDemux                                                              *)

\* InputDemux_PassTo, for a packet among the m the data plane has: it is dropped
\* if the index has no destination or the destination's ring is full.
InputDemux_PassTo(type, pkt, index, m) ==
  IF index \in Fwd /\ Len(queue[index][type]) < QueueCapacity
  THEN /\ queue' = [queue EXCEPT ![index][type] = Append(@, pkt)]
       /\ mbufs' = m
  ELSE queue' = queue /\ mbufs' = m - 1

\* NdtQuerier_Lookup on the replica of the thread's socket.
NdtQuerier_Lookup(th, name) == ndt[SocketOf[th]][IndexOf[name]]

InputDemux_DispatchByToken(type, pkt, m) ==
  IF pkt.token.length <= FwTokenOffsetFwdID
  THEN queue' = queue /\ mbufs' = m - 1
  ELSE InputDemux_PassTo(type, pkt, pkt.token.fwdID, m)

\* RxLoop_Transfer: an Interest arrives on a face of input thread i.
RxInterest(i, n) ==
  /\ left.interests > 0
  /\ left' = [left EXCEPT !.interests = @ - 1]
  /\ InputDemux_PassTo("I", Packet(n, NoToken, None), NdtQuerier_Lookup(i, n), mbufs + 1)
  /\ UNCHANGED <<ndt, updates, fwd, pit, sent, ring, cqp, moved>>

\* RxLoop_Transfer: an upstream answers Interest x with Data or a Nack, and
\* returns the PIT token as it was, without some octets, or with more of them.
RxReply(i, x, type, length) ==
  /\ left.replies > 0
  /\ left' = [left EXCEPT !.replies = @ - 1]
  /\ InputDemux_DispatchByToken(type,
       Packet(IF type = "D" THEN DataName[x.name] ELSE x.name,
              [x.token EXCEPT !.length = length], x.of), mbufs + 1)
  /\ UNCHANGED <<ndt, updates, fwd, pit, sent, ring, cqp, moved>>

-----------------------------------------------------------------------------
(* Ndt.Update: one replica after the other, by any goroutine               *)

UpdateNdt(i, v) ==
  /\ left.updates > 0 /\ Cardinality(updates) < MaxUpdaters
  /\ left' = [left EXCEPT !.updates = @ - 1]
  /\ updates' = updates \cup {[index |-> i, value |-> v, todo |-> Socket, id |-> left.updates]}
  /\ moved' = moved \cup {i}
  /\ UNCHANGED <<ndt, queue, fwd, pit, sent, ring, cqp, mbufs>>

UpdateReplica(u, s) ==
  /\ ndt' = [ndt EXCEPT ![s][u.index] = u.value]
  /\ updates' = (updates \ {u}) \cup
                (IF u.todo = {s} THEN {} ELSE {[u EXCEPT !.todo = @ \ {s}]})
  /\ UNCHANGED <<queue, fwd, pit, sent, ring, cqp, mbufs, left, moved>>

-----------------------------------------------------------------------------
(* FwFwd_Run                                                               *)

Pending(f) == {k \in PccToken : pit[f][k] # None}

MutAfter(type) == IF type = "I" THEN "D" ELSE "I"

After(type) == CASE type = "I" -> "D" [] type = "D" -> "N" [] type = "N" -> "I"

\* The queue served next: the first that has packets, from the one whose turn it
\* is.  Polling an empty queue changes nothing.
Served(f) ==
  LET at == fwd[f].at
  IN IF queue[f][at] # <<>> THEN at
     ELSE IF queue[f][After(at)] # <<>> THEN After(at)
     ELSE IF queue[f][After(After(at))] # <<>> THEN After(After(at)) ELSE None

\* FwFwd_RxByType pops a burst.
FwFwd_RxByType(f) ==
  LET type == Served(f)
      q == queue[f][type]
      n == IF BurstSize < Len(q) THEN BurstSize ELSE Len(q)
  IN /\ fwd[f].burst = <<>> /\ type # None
     /\ fwd' = [fwd EXCEPT ![f] = [at |-> type, burst |-> SubSeq(q, 1, n)]]
     /\ queue' = [queue EXCEPT ![f][type] = SubSeq(q, n + 1, Len(q))]
     /\ UNCHANGED <<ndt, updates, pit, sent, ring, cqp, mbufs, left, moved>>

\* Pit_TriggerTimers, between two bursts: a PIT entry expires and releases its
\* Interest.
Pit_TriggerTimers(f, k) ==
  /\ fwd[f].burst = <<>>
  /\ pit' = [pit EXCEPT ![f][k] = None]
  /\ mbufs' = mbufs - 1
  /\ UNCHANGED <<ndt, updates, queue, fwd, sent, ring, cqp, left, moved>>

\* The next packet of the burst, of the given type, is taken in hand; the turn
\* of the queue ends with the burst.
Take(f, type) ==
  /\ fwd[f].at = type /\ fwd[f].burst # <<>>
  /\ fwd' = [fwd EXCEPT ![f] = [at |-> IF Len(@.burst) = 1 THEN After(type) ELSE type,
                                burst |-> Tail(@.burst)]]
  /\ UNCHANGED <<ndt, updates, queue, cqp, left, moved>>

Drop == mbufs' = mbufs - 1 /\ UNCHANGED <<pit, sent, ring>>

\* The entry of token k is erased, and n packets besides its Interest leave.
Erase(f, k, n) == pit' = [pit EXCEPT ![f][k] = None] /\ mbufs' = mbufs - 1 - n

\* SgForwardInterest, if the strategy calls it and it succeeds.
Forward(f, k, name, forward) ==
  sent' = IF forward THEN sent \cup {[name |-> name, token |-> FwToken_Set(f, k), of |-> f]} ELSE sent

\* FwFwd_RxInterest: not accepted (no crypto helper, no FIB entry, PIT full, or
\* answered from the CS), or put into the PIT entry of its name, a new one if
\* need be, and forwarded or not.
FwFwd_RxInterest(f, accepted, forward) ==
  LET name == Head(fwd[f].burst).name
      entry == {k \in Pending(f) : pit[f][k] = name}
  IN /\ Take(f, "I")
     /\ \/ ~accepted /\ ~forward /\ Drop
        \/ /\ accepted /\ (HasDigestComp(name) => Crypto # {})
           /\ \E k \in IF entry # {} THEN entry ELSE PccToken \ Pending(f) :
                /\ pit' = [pit EXCEPT ![f][k] = name]
                /\ mbufs' = mbufs - Cardinality(entry)
                /\ Forward(f, k, name, forward)
                /\ UNCHANGED ring

\* Pit_FindByData, Pit_FindByNack: the entry with the token of the packet.
Find(f, token) == IF token.pccToken \in Pending(f) THEN pit[f][token.pccToken] ELSE None

\* FwFwd_DataNeedDigest
FwFwd_DataNeedDigest(pkt) ==
  IF Len(ring) < RingCapacity
  THEN ring' = Append(ring, pkt) /\ UNCHANGED <<pit, sent, mbufs>>
  ELSE Drop

\* PData_CanSatisfy.  Whether a digest that is known is the one asked for is a
\* choice.
PData_CanSatisfy(pkt, name, sameDigest) ==
  IF name = None THEN "No"
  ELSE IF DataName[name] # pkt.name THEN "No"
  ELSE IF ~HasDigestComp(name) THEN "Yes"
  ELSE IF ~pkt.hasDigest THEN "NeedDigest"
  ELSE IF sameDigest THEN "Yes" ELSE "No"

\* FwFwd_RxData
FwFwd_RxData(f, sameDigest) ==
  LET pkt == Head(fwd[f].burst)
      found == IF pkt.token.length # FwTokenLength THEN "No"
               ELSE PData_CanSatisfy(pkt, Find(f, pkt.token), sameDigest)
  IN /\ Take(f, "D")
     /\ \/ found = "No" /\ Drop
        \/ found = "NeedDigest" /\ FwFwd_DataNeedDigest(pkt)
        \/ found = "Yes" /\ Erase(f, pkt.token.pccToken, 1) /\ UNCHANGED <<sent, ring>>

\* FwFwd_RxNack: the Nack is for no entry or no longer for the last Interest
\* (~accepted), or answers it: the entry is erased, or waits for other upstreams,
\* after the strategy may have tried again.
FwFwd_RxNack(f, accepted, erase, forward) ==
  LET pkt == Head(fwd[f].burst)
      k == pkt.token.pccToken
  IN /\ Take(f, "N")
     /\ \/ ~accepted /\ Drop
        \/ /\ accepted /\ pkt.token.length = FwTokenLength /\ Find(f, pkt.token) = pkt.name
           /\ IF erase THEN Erase(f, k, 1) ELSE mbufs' = mbufs - 1 /\ pit' = pit
           /\ Forward(f, k, pkt.name, forward /\ ~erase)
           /\ UNCHANGED ring

-----------------------------------------------------------------------------
(* FwCrypto_Run                                                            *)

\* FwCrypto_Input: the Data becomes a crypto operation, unless there is none
\* left or the cryptodev refuses it.
FwCrypto_Input(c, ok) ==
  /\ ring # <<>>
  /\ ring' = Tail(ring)
  /\ IF ok THEN cqp' = Append(cqp, Head(ring)) /\ mbufs' = mbufs
     ELSE cqp' = cqp /\ mbufs' = mbufs - 1
  /\ UNCHANGED <<ndt, updates, queue, fwd, pit, sent, left, moved>>

\* FwCrypto_Output: unless the operation failed, the Data has its digest and is
\* dispatched by the NDT.
FwCrypto_Output(c, ok) ==
  /\ cqp # <<>>
  /\ cqp' = Tail(cqp)
  /\ LET pkt == [Head(cqp) EXCEPT !.hasDigest = TRUE, !.by = "crypto"]
     IN IF ok THEN InputDemux_PassTo("D", pkt, NdtQuerier_Lookup(c, pkt.name), mbufs)
        ELSE queue' = queue /\ mbufs' = mbufs - 1
  /\ UNCHANGED <<ndt, updates, fwd, pit, sent, ring, left, moved>>

-----------------------------------------------------------------------------
Loop(f) ==
  \/ FwFwd_RxByType(f)
  \/ \E accepted, forward \in BOOLEAN : FwFwd_RxInterest(f, accepted, forward)
  \/ \E same \in BOOLEAN : FwFwd_RxData(f, same)
  \/ \E accepted, erase, forward \in BOOLEAN : FwFwd_RxNack(f, accepted, erase, forward)

Helper(c) == \E ok \in BOOLEAN : FwCrypto_Input(c, ok) \/ FwCrypto_Output(c, ok)

Next ==
  \/ \E i \in Input, n \in Name : RxInterest(i, n)
  \/ \E i \in Input, x \in sent, t \in {"D", "N"}, l \in {FwTokenLength - 1, FwTokenLength, FwTokenLength + 1} :
       RxReply(i, x, t, l)
  \/ \E i \in Index, v \in Value : UpdateNdt(i, v)
  \/ \E u \in updates : \E s \in u.todo : UpdateReplica(u, s)
  \/ \E f \in Fwd : Loop(f) \/ \E k \in Pending(f) : Pit_TriggerTimers(f, k)
  \/ \E c \in Crypto : Helper(c)

Spec == Init /\ [][Next]_vars

\* Forwarding threads and crypto helpers keep polling until they are stopped.
FairSpec ==
  Spec /\ \A f \in Fwd : WF_vars(Loop(f)) 
       /\ \A c \in Crypto : WF_vars(\E ok \in BOOLEAN : FwCrypto_Input(c, ok))
                            /\ WF_vars(\E ok \in BOOLEAN : FwCrypto_Output(c, ok))

-----------------------------------------------------------------------------
(* Properties                                                              *)

Waiting(f, t) == Range(queue[f][t]) \cup (IF fwd[f].at = t THEN Range(fwd[f].burst) ELSE {})

\* "Returning Data or Nack can be dispatched to the same FwFwd" (app/fwdp): Data
\* and Nacks that an input thread dispatched wait at the forwarding thread whose
\* Interest they answer, however the NDT changed since this Interest arrived.
BackToSender ==
  \A f \in Fwd, t \in {"D", "N"} : \A pkt \in Waiting(f, t) :
    pkt.by = "input" => pkt.of = f

\* Interests with the same NDT entry meet in one PIT whichever input thread
\* received them, unless the entry was updated; and when no update is in
\* progress the replicas are equal.
OneShard ==
  /\ updates = {} => \A s1, s2 \in Socket : ndt[s1] = ndt[s2]
  /\ \A f, g \in Fwd : \A k \in Pending(f), l \in Pending(g) :
       f # g /\ IndexOf[pit[f][k]] = IndexOf[pit[g][l]] => IndexOf[pit[f][k]] \in moved

\* The packets forwarding thread f has: in its burst, its PIT and its queues.
Load(f) ==
  Len(fwd[f].burst) + Cardinality(Pending(f))
  + Len(queue[f]["I"]) + Len(queue[f]["D"]) + Len(queue[f]["N"])

\* The sum of the values of c, as the number of units in all of them.
Total(c) == Cardinality(UNION {{x} \X (1 .. c[x]) : x \in DOMAIN c})

\* Every packet the data plane has not sent, cached or released is in a queue, in
\* the hands of a forwarding thread, in a PIT entry, or on its way through the
\* crypto helper: no drop on the way leaks a packet or releases it twice.
PacketsAccounted == mbufs = Len(ring) + Len(cqp) + Total([f \in Fwd |-> Load(f)])

\* Data and Nacks that input threads dispatch reach the forwarding thread whose
\* Interest they answer (BackToSender), Interests with one NDT entry meet in one
\* PIT (OneShard), and no packet is leaked or released twice on the way through
\* input, forwarding and crypto threads (InputDemux_Dispatch, FwFwd_Run, FwCrypto).
Dispatched == BackToSender /\ OneShard /\ PacketsAccounted

\* No queue is starved by the others and no Data goes round between a forwarding
\* thread and the crypto helper for ever: when no more packets arrive, all are
\* handled.
AllHandled ==
  <>[](/\ ring = <<>> /\ cqp = <<>>
       /\ \A f \in Fwd : fwd[f].burst = <<>> /\ \A t \in PktType : queue[f][t] = <<>>)

\* "The FwCrypto then ... re-dispatches the Data to FwFwd in the same fashion as an
\* input thread" (app/fwdp/README.md): Data comes back to the forwarding thread
\* that sent the Interest, also through the crypto helper.
DataGoesBack ==
  \A f \in Fwd : \A pkt \in Waiting(f, "D") : pkt.of = f
=============================================================================

------------------------------ MODULE TgTraffic ------------------------------
(***************************************************************************)
(* The traffic generator at work: a consumer (app/tgconsumer and           *)
(* csrc/tgconsumer) sends Interests by pattern, a producer                 *)
(* (app/tgproducer and csrc/tgproducer) answers them, and the network      *)
(* between them loses and reorders packets but never duplicates one.       *)
(* The consumer keeps no table of what it asked: what it knows of a reply  *)
(* is in the reply's PIT token, which holds the pattern and the number of  *)
(* the run that sent the Interest.                                         *)
(*                                                                         *)
(* A name is a prefix and a sequence number; a burst is one Interest.      *)
(* Sequence numbers are 64 bits in the code and SeqRange values here, and    *)
(* the UINT32_MAX of the offset rule is SeqWindow.                         *)
(***************************************************************************)
EXTENDS Integers, Sequences, SequencesExt, FiniteSets, FiniteSetsExt

CONSTANTS
  ConsumerConfigs,  \* consumer configurations: sequences of patterns [prefix, weight, offset, digest]
  ProducerConfigs,  \* producer configurations: sequences of patterns [prefix, replies]
  NThreads,         \* producer worker threads
  SeqStart,         \* values rand.Uint64 may give a pattern's sequence number
  SeqRange, SeqWindow,
  MaxPatterns, MaxSumWeight, MaxReplyWeight, MaxReplies,
  DigestLowWatermark, DigestBurstSize,
  MaxInterests,     \* bound on the attempts to make an Interest
  MaxLaunches       \* bound on Consumer.Launch

VARIABLES
  cfg,      \* Consumer.cfg after Validate, and the weight table of TgcTx
  pcfg,     \* Producer.cfg after Validate
  rx,       \* TgcRx: runNum, running, and per pattern the Data (rtt samples) and Nacks
  tx,       \* TgcTx: runNum, running, trying (inside the loop of a burst), and the patterns
  rxQueue,  \* the consumer's queue
  workers,  \* Tgp of each worker: its queue, reply counters, nNoMatch
  demux,    \* the Interest demultiplexer: the worker next in turn
  net,      \* packets on their way
  attempts, launches,
  asked     \* per pattern, the sequence numbers requested so far, in order

vars == <<cfg, pcfg, rx, tx, rxQueue, workers, demux, net, attempts, launches, asked>>

TotalWeight(s) == FoldLeft(LAMBDA n, r : n + r.weight, 0, s)

-----------------------------------------------------------------------------
(* tgconsumer/config.go and tgproducer/config.go *)

ApplyDefaults(r) == [r EXCEPT !.weight = Max({1, @})]

ValidateConsumer(ps) ==
  LET qs == [i \in DOMAIN ps |-> ApplyDefaults(ps[i])]
      ok == /\ Len(ps) \in 1..MaxPatterns
            /\ ps[1].offset = 0
            /\ TotalWeight(qs) <= MaxSumWeight
  IN  [ok |-> ok, patterns |-> qs]

DefaultReply == [weight |-> 1, nack |-> FALSE, timeout |-> FALSE]

ApplyPatternDefaults(p) ==
  LET rs == IF p.replies = << >> THEN <<DefaultReply>> ELSE p.replies
  IN  [p EXCEPT !.replies = [k \in DOMAIN rs |-> ApplyDefaults(rs[k])]]

(* ErrTooManyReplies is declared and never returned. *)
ValidateProducer(ps) ==
  LET qs == [i \in DOMAIN ps |-> ApplyPatternDefaults(ps[i])]
      ok == /\ Len(ps) \in 1..MaxPatterns
            /\ \A i \in DOMAIN qs : TotalWeight(qs[i].replies) <= MaxReplyWeight
  IN  [ok |-> ok, patterns |-> qs]

Kind(r) == IF r.timeout THEN "timeout" ELSE IF r.nack THEN "nack" ELSE "data"

-----------------------------------------------------------------------------
(* Patterns of the consumer *)

WeightTable(s) ==
  FoldLeft(LAMBDA t, i : t \o [j \in 1..s[i].weight |-> i], << >>, [i \in DOMAIN s |-> i])

MakeSuffixOf(p) ==
  IF p.digest THEN "digest" ELSE IF p.offset # 0 THEN "offset" ELSE "increment"

AssignPattern(p, v) ==
  [makeSuffix |-> MakeSuffixOf(p), seqNumV |-> v, seqNumOffset |-> p.offset,
   nInterests |-> 0, dataSeqNum |-> v, ops |-> << >>]

InitPatterns(c, start) ==
  /\ rx = [runNum |-> 0, running |-> FALSE,
           pattern |-> [i \in DOMAIN c |-> [nData |-> 0, nNacks |-> 0]]]
  /\ tx = [runNum |-> 0, running |-> FALSE, trying |-> FALSE, weight |-> WeightTable(c),
           pattern |-> [i \in DOMAIN c |-> AssignPattern(c[i], start[i])]]

(* setPatterns of a worker: one counter for each reply, and the weights of the replies.
   The arrays of the C structure hold MaxReplies replies: the next one panics. *)
SetPatterns(ps) ==
  [queue |-> << >>, running |-> FALSE, nNoMatch |-> 0,
   weight |-> [i \in DOMAIN ps |-> WeightTable(ps[i].replies)],
   nInterests |-> [i \in DOMAIN ps |-> [k \in DOMAIN ps[i].replies |-> 0]]]

Fits(ps) == \A i \in DOMAIN ps : Len(ps[i].replies) <= MaxReplies

Init ==
  /\ \E c \in ConsumerConfigs : ValidateConsumer(c).ok /\ cfg = ValidateConsumer(c).patterns
  /\ \E c \in ProducerConfigs :
        ValidateProducer(c).ok /\ Fits(ValidateProducer(c).patterns) /\ pcfg = ValidateProducer(c).patterns
  /\ \E start \in [DOMAIN cfg -> SeqStart] : InitPatterns(cfg, start)
  /\ rxQueue = << >>
  /\ workers = [w \in 1..NThreads |-> SetPatterns(pcfg)]
  /\ demux = 1
  /\ net = {}
  /\ attempts = 0 /\ launches = 0
  /\ asked = [i \in DOMAIN cfg |-> << >>]

-----------------------------------------------------------------------------
(* TrafficGen.Launch and Stop, as far as these two modules go: Producer.Launch and             *)
(* Consumer.Launch; then Producer.Stop, and StopDelay, which stops the sender, waits and stops *)
(* the receiver.                                                                               *)

AllStopped == ~tx.running /\ ~rx.running /\ \A w \in DOMAIN workers : ~workers[w].running

LaunchedWorkers == [w \in DOMAIN workers |-> [workers[w] EXCEPT !.running = TRUE]]

MutLaunch ==
  /\ AllStopped /\ launches < MaxLaunches
  /\ workers' = LaunchedWorkers
  /\ rx' = [rx EXCEPT !.running = TRUE]
  /\ tx' = [tx EXCEPT !.running = TRUE]
  /\ launches' = launches + 1
  /\ UNCHANGED <<cfg, pcfg, rxQueue, demux, net, attempts, asked>>

Launch ==
  /\ AllStopped /\ launches < MaxLaunches
  /\ workers' = LaunchedWorkers
  /\ rx' = [rx EXCEPT !.running = TRUE, !.runNum = (@ + 1) % 256]
  /\ tx' = [tx EXCEPT !.running = TRUE, !.runNum = (rx.runNum + 1) % 256]
  /\ launches' = launches + 1
  /\ UNCHANGED <<cfg, pcfg, rxQueue, demux, net, attempts, asked>>

StopWorker(w) ==
  /\ workers[w].running
  /\ workers' = [workers EXCEPT ![w].running = FALSE]
  /\ UNCHANGED <<cfg, pcfg, rx, tx, rxQueue, demux, net, attempts, launches, asked>>

StopTx ==
  /\ tx.running /\ ~tx.trying
  /\ \A w \in DOMAIN workers : ~workers[w].running
  /\ tx' = [tx EXCEPT !.running = FALSE]
  /\ UNCHANGED <<cfg, pcfg, rx, rxQueue, workers, demux, net, attempts, launches, asked>>

StopRx ==
  /\ ~tx.running /\ rx.running
  /\ rx' = [rx EXCEPT !.running = FALSE]
  /\ UNCHANGED <<cfg, pcfg, tx, rxQueue, workers, demux, net, attempts, launches, asked>>

ClearedRx(r) == [r EXCEPT !.pattern = [i \in DOMAIN @ |-> [nData |-> 0, nNacks |-> 0]]]
ClearedTx(t) == [t EXCEPT !.pattern = [i \in DOMAIN @ |-> [t.pattern[i] EXCEPT !.nInterests = 0]]]

ClearCounters ==
  /\ AllStopped
  /\ rx' = ClearedRx(rx) /\ tx' = ClearedTx(tx)
  /\ UNCHANGED <<cfg, pcfg, rxQueue, workers, demux, net, attempts, launches, asked>>

-----------------------------------------------------------------------------
(* tx.c: each suffix rule gives the pattern as it is left, and whether there is a suffix *)

MakeSuffixIncrement(p) == [ok |-> TRUE, p |-> [p EXCEPT !.seqNumV = (@ + 1) % SeqRange]]

(* The number the base pattern was at, unless this pattern has asked for it already. *)
MakeSuffixOffset(base, p) ==
  LET n == (base.seqNumV - p.seqNumOffset) % SeqRange
      asked_ == (p.seqNumV - n) % SeqRange <= SeqWindow
  IN  [ok |-> TRUE, p |-> [p EXCEPT !.seqNumV = IF asked_ THEN (@ + 1) % SeqRange ELSE n]]

(* A burst of Data goes to the crypto device, unless no crypto operation can be allocated. *)
DigestFill(p, alloc) ==
  IF ~alloc THEN p
  ELSE [p EXCEPT !.dataSeqNum = (@ + DigestBurstSize) % SeqRange,
                 !.ops = @ \o [i \in 1..DigestBurstSize |-> (p.dataSeqNum + i) % SeqRange]]

(* The device may have nothing finished yet, or report that the digest failed. *)
MakeSuffixDigest(p, alloc, deq, digested) ==
  LET low == (p.dataSeqNum - p.seqNumV) % SeqRange <= DigestLowWatermark
      f == IF low THEN DigestFill(p, alloc) ELSE p
  IN  CASE ~deq \/ f.ops = << >> -> [ok |-> FALSE, p |-> f]
        [] ~digested -> [ok |-> FALSE, p |-> [f EXCEPT !.ops = Tail(@)]]
        [] OTHER -> [ok |-> TRUE, p |-> [f EXCEPT !.ops = Tail(@), !.seqNumV = Head(f.ops)]]

MakeSuffix(i, alloc, deq, digested) ==
  CASE tx.pattern[i].makeSuffix = "increment" -> MakeSuffixIncrement(tx.pattern[i])
    [] tx.pattern[i].makeSuffix = "offset" -> MakeSuffixOffset(tx.pattern[i - 1], tx.pattern[i])
    [] tx.pattern[i].makeSuffix = "digest" -> MakeSuffixDigest(tx.pattern[i], alloc, deq, digested)

(* TgcTx_MakeInterest counts the Interest before it knows whether it can be made; TgcTx_Burst
   tries again until one is made, and does not look at the stop flag meanwhile. *)
MakeInterest(w, alloc, deq, digested) ==
  LET i == tx.weight[w]
      s == MakeSuffix(i, alloc, deq, digested)
      p == [s.p EXCEPT !.nInterests = @ + 1]
  IN  /\ tx.running /\ attempts < MaxInterests
      /\ tx.pattern[i].makeSuffix = "digest" \/ (alloc /\ deq /\ digested)
      /\ attempts' = attempts + 1
      /\ tx' = [tx EXCEPT !.pattern[i] = p, !.trying = ~s.ok]
      /\ net' = net \cup (IF s.ok
                          THEN {[kind |-> "interest", name |-> [prefix |-> cfg[i].prefix, seq |-> p.seqNumV],
                                 token |-> [id |-> i, runNum |-> tx.runNum], n |-> attempts]}
                          ELSE {})
      /\ asked' = IF s.ok THEN [asked EXCEPT ![i] = Append(@, p.seqNumV)] ELSE asked
      /\ UNCHANGED <<cfg, pcfg, rx, rxQueue, workers, demux, launches>>

-----------------------------------------------------------------------------
(* The network, and the demultiplexers of the receive loop *)

Lose(k) ==
  /\ net' = net \ {k}
  /\ UNCHANGED <<cfg, pcfg, rx, tx, rxQueue, workers, demux, attempts, launches, asked>>

(* Producer.ConnectRxQueues: Interests go to the workers in turn. *)
DeliverInterest(k) ==
  /\ k.kind = "interest"
  /\ workers' = [workers EXCEPT ![demux].queue = Append(@, k)]
  /\ demux' = 1 + (demux % NThreads)
  /\ net' = net \ {k}
  /\ UNCHANGED <<cfg, pcfg, rx, tx, rxQueue, attempts, launches, asked>>

(* Consumer.ConnectRxQueues: Data and Nacks go to the one queue. *)
DeliverReply(k) ==
  /\ k.kind \in {"data", "nack"}
  /\ rxQueue' = Append(rxQueue, k)
  /\ net' = net \ {k}
  /\ UNCHANGED <<cfg, pcfg, rx, tx, workers, demux, attempts, launches, asked>>

-----------------------------------------------------------------------------
(* producer.c *)

Matching(name) == {i \in DOMAIN pcfg : IsPrefix(pcfg[i].prefix, name.prefix)}

(* The first pattern that matches, or 0. *)
FindPattern(name) == IF Matching(name) = {} THEN 0 ELSE Min(Matching(name))

(* The reply keeps the name without the digest, and the PIT token. DataGen_Encode and
   Nack_FromInterest may find no buffer (`encoded` is FALSE): then nothing is sent. *)
Respond(r, k, encoded) ==
  IF Kind(r) = "timeout" \/ ~encoded THEN {} ELSE {[k EXCEPT !.kind = Kind(r)]}

ProcessInterest(w, v, encoded) ==
  LET k == Head(workers[w].queue)
      i == FindPattern(k.name)
      r == workers[w].weight[i][v]
  IN  /\ workers[w].running /\ workers[w].queue # << >>
      /\ IF i = 0
         THEN /\ v = 1 /\ encoded
              /\ workers' = [workers EXCEPT ![w].queue = Tail(@), ![w].nNoMatch = @ + 1]
              /\ UNCHANGED net
         ELSE /\ v \in DOMAIN workers[w].weight[i]
              /\ workers' = [workers EXCEPT ![w].queue = Tail(@), ![w].nInterests[i][r] = @ + 1]
              /\ net' = net \cup Respond(pcfg[i].replies[r], k, encoded)
      /\ UNCHANGED <<cfg, pcfg, rx, tx, rxQueue, demux, attempts, launches, asked>>

-----------------------------------------------------------------------------
(* rx.c *)

ProcessData(r, id) == [r EXCEPT !.pattern[id].nData = @ + 1]
ProcessNack(r, id) == [r EXCEPT !.pattern[id].nNacks = @ + 1]

RxRun ==
  LET k == Head(rxQueue)
      ours == k.token.runNum = rx.runNum /\ k.token.id \in DOMAIN rx.pattern
  IN  /\ rx.running /\ rxQueue # << >>
      /\ rxQueue' = Tail(rxQueue)
      /\ rx' = IF ~ours THEN rx
               ELSE IF k.kind = "data" THEN ProcessData(rx, k.token.id) ELSE ProcessNack(rx, k.token.id)
      /\ UNCHANGED <<cfg, pcfg, tx, workers, demux, net, attempts, launches, asked>>

-----------------------------------------------------------------------------
Next ==
  \/ Launch
  \/ StopTx
  \/ StopRx
  \/ ClearCounters
  \/ \E w \in DOMAIN tx.weight, alloc, deq, digested \in BOOLEAN : MakeInterest(w, alloc, deq, digested)
  \/ \E k \in net : Lose(k) \/ DeliverInterest(k) \/ DeliverReply(k)
  \/ \E w \in DOMAIN workers : \/ StopWorker(w)
                               \/ \E v \in 1..MaxReplyWeight, encoded \in BOOLEAN : ProcessInterest(w, v, encoded)
  \/ RxRun

Spec == Init /\ [][Next]_vars

-----------------------------------------------------------------------------
(* Counters, as Counters() of each side reports them *)

ConsumerCounters ==
  [i \in DOMAIN cfg |-> [nInterests |-> tx.pattern[i].nInterests,
                         nData |-> rx.pattern[i].nData, nNacks |-> rx.pattern[i].nNacks]]

-----------------------------------------------------------------------------
(* Properties *)

(* The Data and Nacks a pattern has counted never exceed the Interests it has counted, over    *)
(* every stop, ClearCounters and relaunch: a reply to an earlier run, still in the network or  *)
(* in the receive queue when the counters are cleared, is not counted in the next              *)
(* (Counters, TgcRx_Run and the run number Launch puts in the PIT token).                      *)
RepliesBounded ==
  \A i \in DOMAIN cfg :
     ConsumerCounters[i].nData + ConsumerCounters[i].nNacks <= ConsumerCounters[i].nInterests

(* No pattern requests a sequence number twice: not the offset pattern, whose numbers follow   *)
(* another pattern's, and not the digest pattern, whose numbers come back from the crypto      *)
(* device (the three TgcTxPattern_MakeSuffix functions).                                       *)
NeverAsksTwice == \A i \in DOMAIN asked : IsInjective(asked[i])
=============================================================================

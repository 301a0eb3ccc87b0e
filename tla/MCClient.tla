------------------------------ MODULE MCClient ------------------------------
(***************************************************************************)
(* The client side for TLC: the NDN library's forwarder and endpoints      *)
(* (NdnEndpoint), its transports (NdnTransport), its segmented object      *)
(* protocol (Segmented), and the congestion aware fetcher of the traffic   *)
(* generator (Fetch).  A behaviour is one of the component that `which`    *)
(* names; the others hold no state.                                        *)
(***************************************************************************)
EXTENDS Integers, Sequences, FiniteSets, TLC

CONSTANTS Chosen,
          c1, c2, p1, p2, p3, p4, t

VARIABLES which,
          faces, routes, loopTx, rxHeld, ep2fw, fw2ep, epClosed, fwClosed,
          draining, pc, tries, token, result, handlers, ctxDone, ann, jobs,
          mgmtRoutes, remoteFib, panic,
          kind, state, tx, txClosed, rx, rxClosed, conn, connNo, arrived,
          sentByPeer, buffer, posting, err, closing, closed, rxPc, txPc,
          redialPc, got,
          size, seekable, segmentEnd, interests, datas, st, segNext, segLast,
          pendings, retxQ, finalBlock, count, held, next, segBuffer, output,
          segResult, failedOn,
          fp, running, nActive, bench, served, net, trouble, gotSegs

epVars == <<faces, routes, loopTx, rxHeld, ep2fw, fw2ep, epClosed, fwClosed,
            draining, pc, tries, token, result, handlers, ctxDone, ann, jobs,
            mgmtRoutes, remoteFib, panic>>
trVars == <<kind, state, tx, txClosed, rx, rxClosed, conn, connNo, arrived,
            sentByPeer, buffer, posting, err, closing, closed, rxPc, txPc,
            redialPc, got>>
segVars == <<size, seekable, segmentEnd, interests, datas, st, segNext, segLast,
             pendings, retxQ, finalBlock, count, held, next, segBuffer, output,
             segResult, failedOn>>
fetchVars == <<fp, running, nActive, bench, served, net, trouble, gotSegs>>

-----------------------------------------------------------------------------
(* NdnEndpoint: a consumer that retransmits and one that does not,         *)
(* producers of a prefix and of a longer one, two that announce.           *)
Consumers == {c1, c2}
Producers == {p1, p2, p3, p4}
Wants == (c1 :> <<1, 2>>) @@ (c2 :> <<1, 2>>)
Prefixes == (p1 :> <<1>>) @@ (p2 :> <<1, 2>>) @@ (p3 :> <<1>>) @@ (p4 :> <<1>>)
RetxLimits == (c1 :> 1) @@ (c2 :> 0)
OwnTokens == (c1 :> <<>>) @@ (c2 :> <<t>>)
Together == {{c1, p1}, {c1, c2}, {c2, p1, p2}, {p3, p4}}
E == INSTANCE NdnEndpoint WITH
  Consumer <- Consumers, Producer <- Producers, Want <- Wants, Prefix <- Prefixes,
  Answers <- {"data", "nack", "none"}, ChanCap <- 1, RetxLimit <- RetxLimits, OwnToken <- OwnTokens,
  NoAdvertise <- {p1, p2}, Scenarios <- Together, Advertising <- TRUE

(* NdnTransport: every kind, two redials.                                  *)
T == INSTANCE NdnTransport WITH
  Kinds <- {"stream", "datagram", "packet", "memif"}, WriteErrors <- {"datagram"}, Packets <- 2,
  MaxConnections <- 2, PacketSize <- 2, RxQueueSize <- 1

(* Segmented: an empty object, one with a short last chunk, a whole one.   *)
O == INSTANCE Segmented WITH
  Sizes <- {0, 3, 4}, ChunkSize <- 2, SegmentBegin <- 0, SegmentEnds <- {2, 3}, RetxLimit <- 1, MaxCwnd <- 3,
  buffer <- segBuffer, result <- segResult

(* Fetch: benchmarks of one template, of two, and of one too many.         *)
F == INSTANCE Fetch WITH
  NProcs <- 2, Capacity <- 2, Benchmarks <- {<<2>>, <<0, 0>>, <<0, 0, 0>>}, MaxBenchmarks <- 2,
  MaxCwnd <- 3, MaxTrouble <- 2, got <- gotSegs

-----------------------------------------------------------------------------
EpRests == /\ faces = 0 /\ routes = 0 /\ loopTx = 0 /\ rxHeld = 0
           /\ ep2fw = 0 /\ fw2ep = 0 /\ epClosed = 0 /\ fwClosed = 0
           /\ draining = 0 /\ pc = 0 /\ tries = 0 /\ token = 0
           /\ result = 0 /\ handlers = 0 /\ ctxDone = 0 /\ ann = 0
           /\ jobs = 0 /\ mgmtRoutes = 0 /\ remoteFib = 0 /\ panic = 0
TrRests == /\ kind = 0 /\ state = 0 /\ tx = 0 /\ txClosed = 0
           /\ rx = 0 /\ rxClosed = 0 /\ conn = 0 /\ connNo = 0
           /\ arrived = 0 /\ sentByPeer = 0 /\ buffer = 0
           /\ posting = 0 /\ err = 0 /\ closing = 0 /\ closed = 0
           /\ rxPc = 0 /\ txPc = 0 /\ redialPc = 0 /\ got = 0
SegRests == /\ size = 0 /\ seekable = 0 /\ segmentEnd = 0 /\ interests = 0
            /\ datas = 0 /\ st = 0 /\ segNext = 0 /\ segLast = 0
            /\ pendings = 0 /\ retxQ = 0 /\ finalBlock = 0 /\ count = 0
            /\ held = 0 /\ next = 0 /\ segBuffer = 0 /\ output = 0
            /\ segResult = 0 /\ failedOn = 0
FetchRests == /\ fp = 0 /\ running = 0 /\ nActive = 0 /\ bench = 0
              /\ served = 0 /\ net = 0 /\ trouble = 0 /\ gotSegs = 0

MCInit == /\ which \in Chosen
          /\ IF which = "endpoint" THEN E!Init ELSE EpRests
          /\ IF which = "transport" THEN T!Init ELSE TrRests
          /\ IF which = "segmented" THEN O!Init ELSE SegRests
          /\ IF which = "fetch" THEN F!Init ELSE FetchRests

MCNext ==
  /\ UNCHANGED which
  /\ \/ which = "endpoint" /\ E!Next /\ UNCHANGED <<trVars, segVars, fetchVars>>
     \/ which = "transport" /\ T!Next /\ UNCHANGED <<epVars, segVars, fetchVars>>
     \/ which = "segmented" /\ O!Next /\ UNCHANGED <<epVars, trVars, fetchVars>>
     \/ which = "fetch" /\ F!Next /\ UNCHANGED <<epVars, trVars, segVars>>

(* The fairness of each component, while it is the one that runs.          *)
EpFairness ==
  /\ WF_epVars(which = "endpoint" /\ E!loopWrite)
  /\ WF_epVars(which = "endpoint" /\ \E a \in E!Endpoint : E!loopRx(a))
  /\ WF_epVars(which = "endpoint" /\ E!Command)
  /\ \A a \in Consumers \cup Producers : WF_epVars(which = "endpoint" /\ (E!rxLoop(a) \/ E!drain(a)))
  /\ \A c \in Consumers : /\ WF_epVars(which = "endpoint" /\ E!consumeTimeout(c, FALSE))
                          /\ WF_epVars(which = "endpoint" /\ E!consumeReturn(c))
  /\ \A p \in Producers : /\ WF_epVars(which = "endpoint" /\ E!Handle(p))
                          /\ WF_epVars(which = "endpoint" /\ (E!produceRx(p) \/ E!produceDone(p) \/ E!produceWait(p)))
  /\ WF_epVars(which = "endpoint" /\ E!Readvertise)
TrFairness ==
  /\ WF_trVars(which = "transport" /\ T!rxLoop)
  /\ WF_trVars(which = "transport" /\ T!txLoop)
  /\ WF_trVars(which = "transport" /\ T!appReads)
  /\ WF_trVars(which = "transport" /\ (T!redialError \/ T!redialDrain \/ T!redialClose))
  /\ SF_trVars(which = "transport" /\ T!redialClosing)
  /\ SF_trVars(which = "transport" /\ T!redialSucceeds)
SegFairness ==
  /\ WF_segVars(which = "segmented" /\ O!Turn)
  /\ WF_segVars(which = "segmented" /\ O!Emit)
  /\ WF_segVars(which = "segmented" /\ O!Finish)
  /\ \A s \in O!Segments : WF_segVars(which = "segmented" /\ O!TurnExpiring(s))
FetchFairness ==
  \A i \in F!Procs :
     /\ WF_fetchVars(which = "fetch" /\ F!TxInterest(i))
     /\ \A n \in F!SegNums :
          /\ WF_fetchVars(which = "fetch" /\ F!RtoTimeout(i, n))
          /\ WF_fetchVars(which = "fetch" /\ <<i, n>> \in net /\ F!RxData(<<i, n>>, FALSE, FALSE))

MCSpec == /\ MCInit
          /\ [][MCNext]_<<which, epVars, trVars, segVars, fetchVars>>
          /\ EpFairness /\ TrFairness /\ SegFairness /\ FetchFairness

-----------------------------------------------------------------------------
(* Properties.                                                             *)

\* What the forwarder of the library delivers to a consumer answers that consumer's
\* own Interest, and no goroutine writes to a closed channel (forwarder.processPacket,
\* LFace.Close).
RepliesToAsker == which = "endpoint" => E!RepliesToAsker /\ E!NoPanic

\* In the end every Consume has returned, every producer that was closed has
\* released its face, and the forwarder's loop holds no packet it cannot write,
\* whichever channel is full (forwarder.loop, Consume, Produce); and a transport whose
\* Tx was closed has closed Rx and reports TransportClosed, whatever the connection
\* did (sockettransport redialLoop, rxLoop).
AllReturn ==
  <>[](/\ which = "endpoint" => /\ \A c \in Consumers : pc[c] = "done"
                                /\ \A p \in Producers \cap ctxDone : pc[p] = "done"
                                /\ loopTx = <<>>
       /\ which = "transport" => (txClosed => rxClosed /\ state = "closed"))

\* A fetch ends: no loss, duplicate or late answer leaves its window full of segments
\* nobody will send again (segmented.Fetch), and the procedures of a benchmark that
\* runs on all finish (FetchThread_Run).
FetchesEnd ==
  <>[](/\ which = "segmented" => segResult # "none"
       /\ which = "fetch" => (running => \A i \in F!Procs : i <= nActive => F!Finished(fp[i])))

\* What the application is given is whole and in order: from Rx the packets the peer
\* sent, over several connections and reads (StreamRxLoop, sockettransport rxLoop);
\* from a segmented object its payload without a gap or a repetition, and every octet
\* of it when the fetch returns no error (segmented.Fetch).
DeliveredWhole == /\ which = "transport" => T!WholePackets
                  /\ which = "segmented" => O!PayloadExact

\* Every segment of the window that has no Data has its timer running or stands in
\* the retransmission queue, and what is passed over was received (FetchLogic).
SegmentsTracked == which = "fetch" => F!SegmentsTracked /\ F!ReceivedInFull
=============================================================================

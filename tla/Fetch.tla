-------------------------------- MODULE Fetch --------------------------------
(***************************************************************************)
(* The congestion aware fetcher of the traffic generator (app/fetch,       *)
(* csrc/fetch): fetch procedures that each retrieve segments 0..final of   *)
(* one name prefix through a sliding window kept in a ring array, with a   *)
(* retransmission queue, an RTO timer for each segment and a congestion    *)
(* window; and the benchmark request that resets, configures, launches and *)
(* stops them.                                                             *)
(*                                                                         *)
(* The network loses, delays, duplicates and reorders.  Time is left out:  *)
(* a running RTO timer may fire whenever it likes.  The congestion window  *)
(* keeps its integer part; in the cubic region it may stay or grow by one. *)
(***************************************************************************)
EXTENDS Integers, Sequences, SequencesExt, FiniteSets, FiniteSetsExt

CONSTANTS
  NProcs,
  Capacity,       \* WindowCapacity, a power of two
  Benchmarks,     \* benchmark requests: for each template its final segment number
  MaxBenchmarks,  \* bound on benchmark requests
  MaxCwnd,        \* bound on the congestion window
  MaxTrouble      \* bound on packets lost or duplicated and on timers that fire early

VARIABLES
  fp,        \* the FetchProc array: window, retxQ, counters and congestion control of each
  running,   \* the fetch threads run
  nActive,   \* Fetcher.nActiveProcs: the first nActive procedures are linked to threads
  bench,     \* the benchmark in progress: the templates still to add, or its state
  served,    \* benchmarks answered
  net,       \* [proc, seg] for each Interest or Data on its way
  trouble,
  got        \* per procedure, the segments received since Reset

vars == <<fp, running, nActive, bench, served, net, trouble, got>>

Procs == 1..NProcs
NoFinal == 1000  \* UINT64_MAX: no final segment number

-----------------------------------------------------------------------------
(* window.h and seg.h *)

EmptySeg == [segNum |-> 0, deleted |-> FALSE, inRetxQ |-> FALSE, rto |-> FALSE]
SegInit(n) == [EmptySeg EXCEPT !.segNum = n]

InWindow(w, n) == w.loSegNum <= n /\ n < w.hiSegNum
Access(w, n) == (n - w.loSegNum + w.loPos) % Capacity
Live(w, n) == InWindow(w, n) /\ ~w.array[Access(w, n)].deleted
Full(w) == w.hiSegNum - w.loSegNum > Capacity - 1

Appended(w) ==
  LET v == [w EXCEPT !.hiSegNum = @ + 1]
  IN  [v EXCEPT !.array[Access(v, w.hiSegNum)] = SegInit(w.hiSegNum)]

(* FetchWindow_Delete, with FetchWindow_Advance_ past every deleted segment at the low end. *)
Deleted(w, n) ==
  LET a == [w.array EXCEPT ![Access(w, n)].deleted = TRUE]
      alive == {m \in w.loSegNum..(w.hiSegNum - 1) : ~a[Access(w, m)].deleted}
      lo == IF n # w.loSegNum THEN w.loSegNum
            ELSE IF alive = {} THEN w.hiSegNum ELSE Min(alive)
  IN  [w EXCEPT !.array = a, !.loSegNum = lo, !.loPos = (@ + lo - w.loSegNum) % Capacity]

WindowInit == [array |-> [p \in 0..(Capacity - 1) |-> EmptySeg], loPos |-> 0, loSegNum |-> 0, hiSegNum |-> 0]

(* Window.Reset leaves the array as it is. *)
WindowReset(w) == [w EXCEPT !.loPos = 0, !.loSegNum = 0, !.hiSegNum = 0]

-----------------------------------------------------------------------------
(* tcpcubic.c *)

CubicInit == [cwnd |-> 2, ssthresh |-> MaxCwnd + 1]

CubicIncrease(ca, grow) ==
  IF ca.cwnd < ca.ssthresh \/ grow THEN [ca EXCEPT !.cwnd = Min({@ + 1, MaxCwnd})] ELSE ca

CubicDecrease(ca) ==
  LET c == (ca.cwnd * 7) \div 10 IN [cwnd |-> Max({c, 1}), ssthresh |-> Max({c, 2})]

-----------------------------------------------------------------------------
(* Logic.Init, Reset and SetFinalSegNum *)

LogicInit(w) ==
  [win |-> w, ca |-> CubicInit, retxQ |-> << >>, nTxRetx |-> 0, nRxData |-> 0, finalSegNum |-> NoFinal,
   hiDataSegNum |-> 0, cwndDecreaseInterestSegNum |-> 0, nInFlight |-> 0]

LogicReset(f) == LogicInit(WindowReset(f.win))

SetFinalSegNum(f, n) == [f EXCEPT !.finalSegNum = n]

Finished(f) == f.win.loSegNum > f.finalSegNum

-----------------------------------------------------------------------------
(* fetcher.go *)

Idle == [state |-> "idle", finals |-> << >>]

Init ==
  /\ fp = [i \in Procs |-> LogicInit(WindowInit)]
  /\ running = FALSE /\ nActive = 0
  /\ bench = Idle /\ served = 0
  /\ net = {} /\ trouble = 0
  /\ got = [i \in Procs |-> {}]

(* runFetchBenchmark begins with Fetcher.Reset: stop the threads, forget every procedure. *)
Reset ==
  /\ bench.state = "idle" /\ served < MaxBenchmarks
  /\ \E b \in Benchmarks : bench' = [state |-> "adding", finals |-> b]
  /\ running' = FALSE /\ nActive' = 0
  /\ fp' = [i \in Procs |-> LogicReset(fp[i])]
  /\ got' = [i \in Procs |-> {}]
  /\ UNCHANGED <<served, net, trouble>>

(* AddTemplate and SetFinalSegNum: a template too many ends the request with an error. *)
AddTemplate ==
  /\ bench.state = "adding" /\ bench.finals # << >>
  /\ IF nActive >= NProcs
     THEN /\ bench' = Idle /\ served' = served + 1
          /\ UNCHANGED <<fp, nActive>>
     ELSE /\ bench' = [bench EXCEPT !.finals = Tail(@)]
          /\ fp' = [fp EXCEPT ![nActive + 1] = SetFinalSegNum(@, Head(bench.finals))]
          /\ nActive' = nActive + 1
          /\ UNCHANGED served
  /\ UNCHANGED <<running, net, trouble, got>>

Launch ==
  /\ bench.state = "adding" /\ bench.finals = << >>
  /\ bench' = [bench EXCEPT !.state = "collecting"]
  /\ running' = TRUE
  /\ UNCHANGED <<fp, nActive, served, net, trouble, got>>

(* After `count` ticks, whatever the procedures have reached. *)
Stop ==
  /\ bench.state = "collecting"
  /\ bench' = Idle /\ served' = served + 1 /\ running' = FALSE
  /\ UNCHANGED <<fp, nActive, net, trouble, got>>

(* The GraphQL mutation, one step at a time: the threads run between them. *)
RunFetchBenchmark == Reset \/ AddTemplate \/ Launch \/ Stop

-----------------------------------------------------------------------------
(* logic.c *)

(* The segment to ask for next: the head of the retransmission queue, or a new one. *)
CanTx(f) ==
  /\ f.nInFlight < f.ca.cwnd
  /\ f.retxQ # << >> \/ (f.win.hiSegNum <= f.finalSegNum /\ ~Full(f.win))

Retransmitted(f) ==
  LET p == Access(f.win, Head(f.retxQ))
  IN  [f EXCEPT !.retxQ = Tail(@), !.nTxRetx = @ + 1, !.nInFlight = @ + 1,
                !.win.array[p] = [@ EXCEPT !.inRetxQ = FALSE, !.rto = TRUE]]

Requested(f) ==
  LET w == Appended(f.win)
  IN  [f EXCEPT !.win = [w EXCEPT !.array[Access(w, f.win.hiSegNum)].rto = TRUE], !.nInFlight = @ + 1]

(* TxInterestBurst and TxBurst, one Interest at a time.  With no buffer for the Interest it is *)
(* not sent, and its timer runs all the same.                                                  *)
TxInterest(i) ==
  LET f == fp[i]
      n == IF f.retxQ # << >> THEN Head(f.retxQ) ELSE f.win.hiSegNum
  IN  /\ running /\ i <= nActive /\ CanTx(f)
      /\ fp' = [fp EXCEPT ![i] = IF f.retxQ # << >> THEN Retransmitted(f) ELSE Requested(f)]
      /\ \/ net' = net \cup {<<i, n>>} /\ UNCHANGED trouble
         \/ trouble < MaxTrouble /\ trouble' = trouble + 1 /\ UNCHANGED net
      /\ UNCHANGED <<running, nActive, bench, served, got>>

(* At most one decrease for what was in flight at the last one. *)
MayDecrease(f) == f.hiDataSegNum > f.cwndDecreaseInterestSegNum

DecreaseCwnd(f) ==
  IF MayDecrease(f)
  THEN [f EXCEPT !.ca = CubicDecrease(@), !.cwndDecreaseInterestSegNum = f.win.hiSegNum]
  ELSE f

MutAccept(f, n) ==
  LET p == Access(f.win, n)
      q == f.win.array[p].inRetxQ
  IN  [f EXCEPT !.nRxData = @ + 1,
                !.retxQ = IF q THEN SelectSeq(@, LAMBDA m : m # n) ELSE @,
                !.nInFlight = @ - 1,
                !.win.array[p].rto = FALSE]

(* Data for a segment waiting for retransmission cancels that; otherwise its timer. *)
Accept(f, n) ==
  LET p == Access(f.win, n)
      q == f.win.array[p].inRetxQ
  IN  [f EXCEPT !.nRxData = @ + 1,
                !.retxQ = IF q THEN SelectSeq(@, LAMBDA m : m # n) ELSE @,
                !.nInFlight = IF q THEN @ ELSE @ - 1,
                !.win.array[p].rto = IF q THEN @ ELSE FALSE]

LogicRxData(f, n, congMark, grow) ==
  IF ~Live(f.win, n) THEN f
  ELSE LET a == Accept(f, n)
           c == IF congMark THEN DecreaseCwnd(a) ELSE [a EXCEPT !.ca = CubicIncrease(@, grow)]
       IN  [c EXCEPT !.hiDataSegNum = Max({@, n}), !.win = Deleted(@, n)]

(* A Data packet reaches the procedure its PIT token names (ConnectRxQueues, RxBurst, Decode).  *)
(* The same Data may come again.                                                               *)
RxData(k, congMark, grow) ==
  LET i == k[1] IN
  /\ running /\ i <= nActive
  /\ fp' = [fp EXCEPT ![i] = LogicRxData(@, k[2], congMark, grow)]
  /\ got' = IF Live(fp[i].win, k[2]) THEN [got EXCEPT ![i] = @ \cup {k[2]}] ELSE got
  /\ \/ net' = net \ {k} /\ UNCHANGED trouble
     \/ trouble < MaxTrouble /\ trouble' = trouble + 1 /\ UNCHANGED net
  /\ UNCHANGED <<running, nActive, bench, served>>

TimedOut(f, n) ==
  LET g == [f EXCEPT !.nInFlight = @ - 1, !.win.array[Access(f.win, n)].rto = FALSE]
  IN  IF n > f.finalSegNum THEN g
      ELSE [DecreaseCwnd(g) EXCEPT !.retxQ = Append(@, n), !.win.array[Access(f.win, n)].inRetxQ = TRUE]

Armed(f) == {n \in f.win.loSegNum..(f.win.hiSegNum - 1) :
               Live(f.win, n) /\ f.win.array[Access(f.win, n)].rto}

(* MinSched_Trigger in the thread's loop.  Early: what was asked is still on its way. *)
RtoTimeout(i, n) ==
  /\ running /\ i <= nActive /\ n \in Armed(fp[i])
  /\ fp' = [fp EXCEPT ![i] = TimedOut(@, n)]
  /\ IF <<i, n>> \in net THEN trouble < MaxTrouble /\ trouble' = trouble + 1 ELSE UNCHANGED trouble
  /\ UNCHANGED <<running, nActive, bench, served, net, got>>

Lose(k) ==
  /\ trouble < MaxTrouble /\ trouble' = trouble + 1
  /\ net' = net \ {k}
  /\ UNCHANGED <<fp, running, nActive, bench, served, got>>

-----------------------------------------------------------------------------
SegNums == UNION {0..Max({0} \cup Range(b)) : b \in Benchmarks}

Next ==
  \/ RunFetchBenchmark
  \/ \E i \in Procs : \/ TxInterest(i)
                      \/ \E n \in SegNums : RtoTimeout(i, n)
  \/ \E k \in net : \/ Lose(k)
                    \/ \E congMark, grow \in BOOLEAN : RxData(k, congMark, grow)

(* The thread comes round to every procedure, and the network delivers in the end. *)
Fairness ==
  \A i \in Procs :
     /\ WF_vars(TxInterest(i))
     /\ \A n \in SegNums : /\ WF_vars(RtoTimeout(i, n))
                           /\ WF_vars(<<i, n>> \in net /\ RxData(<<i, n>>, FALSE, FALSE))

Spec == Init /\ [][Next]_vars /\ Fairness

-----------------------------------------------------------------------------
(* Properties *)

(* nInFlight is at every moment the number of segments whose RTO timer runs, and every segment *)
(* of the window that has no Data yet either has its timer running or stands exactly once in   *)
(* the retransmission queue: no segment is forgotten, and the 32-bit counter cannot go below 0 *)
(* (FetchLogic_TxInterestBurst, FetchLogic_RxData, FetchLogic_RtoTimeout).                     *)
SegmentsTracked ==
  \A i \in Procs :
     LET f == fp[i]
         live == {n \in f.win.loSegNum..(f.win.hiSegNum - 1) : Live(f.win, n)}
     IN  /\ f.nInFlight = Cardinality(Armed(f))
         /\ live \ Armed(f) = Range(f.retxQ) /\ IsInjective(f.retxQ)
         /\ \A n \in live : f.win.array[Access(f.win, n)].segNum = n

(* The low end of the window moves over received segments only, and each segment is counted    *)
(* once however often its Data comes: Finished means that all segments up to the final one     *)
(* have been received (FetchWindow_Advance_, FetchLogic_Finished).                             *)
ReceivedInFull ==
  \A i \in Procs : /\ 0..(fp[i].win.loSegNum - 1) \subseteq got[i]
                   /\ fp[i].nRxData = Cardinality(got[i])
=============================================================================

----------------------------- MODULE DataPlane -----------------------------
(***************************************************************************)
(* Activating the service as a forwarder, and building and closing its     *)
(* data plane: lcores are given to roles (dpdk/ealthread), threads are     *)
(* launched and stopped through the main lcore (dpdk/eal), and the shared  *)
(* memory of the threads is allocated and released (app/fwdp, iface,       *)
(* cmd/ndndpdk-svc).                                                       *)
(*                                                                         *)
(* A thread is named by its lcore, which runs one thread at a time.  The   *)
(* heap is the set of objects allocated and not freed; what a running      *)
(* thread reaches through its pointers is Reach.                           *)
(***************************************************************************)
EXTENDS Integers, FiniteSets, FiniteSetsExt, SequencesExt, Functions

CONSTANTS
  Worker,     \* worker lcores, numbered as Workers is sorted
  SocketOf,   \* NUMA socket of each
  Configs,    \* values of LCoreAlloc in the activation arguments
  MayFail     \* steps that may fail: "hrlog", "fwd", "fib", "crypto"

Socket == Range(SocketOf)
None == 0
AnySocket == -1

RoleInput == "RX"
RoleOutput == "TX"
RoleCrypto == "CRYPTO"
RoleFwd == "FWD"
CommonRoles == [r \in {"HRLOG", "PDUMP"} |-> 0]
ForwarderRoles == [r \in {RoleInput, RoleOutput, RoleCrypto, RoleFwd} |-> IF r = RoleCrypto THEN 0 ELSE 1]

VARIABLES
  allocated,  \* role of each lcore, or ""
  busy,       \* lcoreIsBusy
  running,    \* lcores executing a thread
  stop,       \* ThreadCtrl stop flags
  mainq,      \* functions posted to the main thread
  heap,       \* objects allocated
  dp,         \* fields of DataPlane: the lcores of its threads; rings: what fwd.c.crypto points to
  loops,      \* rxLoopThreads and txLoopThreads
  ctl,        \* the goroutine that activates and closes: pc, lcores to do, lcore being stopped
  svc,        \* isActivated, the configuration, and shutdown
  wrong       \* memory freed twice, memory used after free, panics

vars == <<allocated, busy, running, stop, mainq, heap, dp, loops, ctl, svc, wrong>>

-----------------------------------------------------------------------------
(* dpdk/ealthread: allocation of lcores *)

lcAllocatedTo(role) == {lc \in Worker : allocated[lc] = role}
OnSocket(lcs, s) == {lc \in lcs : SocketOf[lc] = s}

\* A RoleConfig lists lcores, or counts them per NUMA socket.
Count(rc) == Len(rc.lcores) + MapThenSumSet(LAMBDA s : rc.perNuma[s], DOMAIN rc.perNuma)
NoRole == [lcores |-> <<>>, perNuma |-> [s \in {} |-> 0]]
OfRole(c, role) == IF role \in DOMAIN c THEN c[role] ELSE NoRole

ValidateRoles(c, roles) ==
  /\ \A role \in DOMAIN roles : Count(OfRole(c, role)) >= roles[role]
  /\ DOMAIN c \subseteq DOMAIN roles

\* Extract moves the specified roles to another Config.
Extracted(c, roles) == Restrict(c, DOMAIN c \cap DOMAIN roles)
Remaining(c, roles) == Restrict(c, DOMAIN c \ DOMAIN roles)

\* The assignments that assignWorkers may return: listed lcores must be free and listed
\* once; the others come from the sockets asked for, in the order of a map.  Empty on error.
assignWorkers(c, free) ==
  LET listed(r) == ToSet(c[r].lcores)
      asked(r, s) == IF s \in DOMAIN c[r].perNuma THEN c[r].perNuma[s] ELSE 0
      unused == free \ UNION {listed(r) : r \in DOMAIN c}
      ok == /\ \A r \in DOMAIN c : listed(r) \subseteq free /\ Cardinality(listed(r)) = Len(c[r].lcores)
            /\ \A q, r \in DOMAIN c : q # r => listed(q) \cap listed(r) = {}
            /\ \A s \in UNION {DOMAIN c[r].perNuma : r \in DOMAIN c} :
                 MapThenSumSet(LAMBDA r : asked(r, s), DOMAIN c) <= Cardinality(OnSocket(unused, s))
      picks(r) == {p \in SUBSET unused : \A s \in Socket : Cardinality(OnSocket(p, s)) = asked(r, s)}
      fits(m) == /\ \A r \in DOMAIN c : m[r] \in picks(r)
                 /\ \A q, r \in DOMAIN c : q # r => m[q] \cap m[r] = {}
      all == [DOMAIN c -> UNION {picks(r) : r \in DOMAIN c}]
  IN IF ok THEN {[r \in DOMAIN c |-> m[r] \cup listed(r)] : m \in {x \in all : fits(x)}}
     ELSE {}

\* AllocConfig records an assignment.
Assign(m) ==
  [lc \in Worker |-> IF \E r \in DOMAIN m : lc \in m[r] THEN CHOOSE r \in DOMAIN m : lc \in m[r] ELSE allocated[lc]]

\* AllocRequest: requests for a socket take from it while they can; the others take from
\* the socket with most lcores left.  <<>> on error, as there are fewer lcores than requests.
TakeFrom(st, i, s) ==
  LET lc == Min(OnSocket(st.free, s))
  IN [st EXCEPT !.list[i] = lc, !.free = st.free \ {lc}]
TakePreferred(st, i) ==
  IF st.reqs[i].socket # AnySocket /\ OnSocket(st.free, st.reqs[i].socket) # {}
  THEN TakeFrom(st, i, st.reqs[i].socket)
  ELSE [st EXCEPT !.any = Append(st.any, i)]
TakeAny(st, i) ==
  TakeFrom(st, i, CHOOSE s \in Socket : \A t \in Socket :
                    Cardinality(OnSocket(st.free, s)) >= Cardinality(OnSocket(st.free, t)))
AllocRequest(reqs, free) ==
  IF Len(reqs) > Cardinality(free) THEN <<>>
  ELSE LET st0 == [reqs |-> reqs, free |-> free, any |-> <<>>, list |-> [i \in DOMAIN reqs |-> None]]
           st1 == FoldLeft(TakePreferred, st0, [i \in DOMAIN reqs |-> i])
       IN FoldLeft(TakeAny, st1, st1.any).list

\* Requests of DefaultAlloc, and what it gives to each role.
Req(role, s) == [role |-> role, socket |-> s]
FirstReqs ==
  <<Req(RoleCrypto, AnySocket)>> \o
  FlattenSeq([i \in 1 .. Cardinality(Socket) |->
     LET s == SetToSortSeq(Socket, <)[i]
     IN <<Req(RoleFwd, AnySocket), Req(RoleInput, s), Req(RoleOutput, s)>>])
MoreReqs == <<Req(RoleFwd, AnySocket), Req(RoleOutput, AnySocket), Req(RoleInput, AnySocket), Req(RoleFwd, AnySocket)>>
Give(m, reqs, list) == [r \in DOMAIN ForwarderRoles |-> m[r] \cup {list[i] : i \in {j \in DOMAIN reqs : reqs[j].role = r}}]

RECURSIVE AllocMore(_, _, _)
AllocMore(m, reqs, free) ==
  LET list == AllocRequest(reqs, free)
  IN IF list # <<>> THEN AllocMore(Give(m, reqs, list), reqs, free \ Range(list))
     ELSE IF Len(reqs) = 1 THEN m
     ELSE AllocMore(m, Tail(reqs), free)

DefaultAlloc(free) ==
  LET none == [r \in DOMAIN ForwarderRoles |-> {}]
      small == [i \in 1 .. 4 |-> Req(FirstReqs[i].role, AnySocket)]
      reqs == IF AllocRequest(FirstReqs, free) # <<>> THEN FirstReqs ELSE small
      list == AllocRequest(reqs, free)
  IN IF list = <<>> THEN {}
     ELSE {AllocMore(Give(none, reqs, list), MoreReqs, free \ Range(list))}

-----------------------------------------------------------------------------
(* Objects in memory, and threads *)

\* What fwd.Init, newCryptoShared and the loops allocate.
FwdObjects(lc) == {<<"FwFwd", lc>>, <<"queues", lc>>, <<"pcct", lc>>}
CryptoObjects(s) == {<<"ring", s>>, <<"opPool", s>>, <<"cryptodev", s>>}
LoopObject(lc) == <<"loop", lc>>
CryptoObject(lc) == <<"FwCrypto", lc>>
NdtObject == <<"ndt", None>>
FibObject == <<"fib", None>>

\* The memory a running thread uses: its own structure, and what its structure points to.
Reach(lc) ==
  CASE allocated[lc] = RoleInput  -> {LoopObject(lc), NdtObject} \cup {<<"queues", f>> : f \in dp.fwds}
    [] allocated[lc] = RoleOutput -> {LoopObject(lc)}
    [] allocated[lc] = RoleCrypto -> {CryptoObject(lc), NdtObject} \cup CryptoObjects(SocketOf[lc])
                                       \cup {<<"queues", f>> : f \in dp.fwds}
    [] allocated[lc] = RoleFwd    -> FwdObjects(lc) \cup {FibObject} \cup {<<"ring", s>> : s \in dp.rings[lc]}
    [] OTHER -> {}

Initial ==
  [allocated |-> [lc \in Worker |-> ""],
   dp |-> [fwds |-> {}, fwcs |-> {}, fwcsh |-> {}, fwis |-> {}, rings |-> [lc \in Worker |-> {}]],
   ctl |-> [pc |-> "idle", todo |-> {}, stopping |-> None, waited |-> FALSE, lcores |-> {}],
   svc |-> [isActivated |-> FALSE, config |-> <<>>, failed |-> FALSE, shutdown |-> FALSE],
   wrong |-> [twice |-> FALSE, touched |-> FALSE, panics |-> {}]]

Init ==
  /\ allocated = Initial.allocated
  /\ busy = {}
  /\ running = {}
  /\ stop = {}
  /\ mainq = <<>>
  /\ heap = {}
  /\ dp = Initial.dp
  /\ loops = [rx |-> {}, tx |-> {}]
  /\ ctl = Initial.ctl
  /\ svc = Initial.svc
  /\ wrong = Initial.wrong

\* ealthread.Launch, with LCore.RemoteLaunch: the lcore is marked busy, and the main
\* thread is asked to start the thread.
Launch(lc) ==
  IF lc \in busy
  THEN /\ wrong' = [wrong EXCEPT !.panics = @ \cup {"lcore is busy"}]
       /\ UNCHANGED <<busy, mainq>>
  ELSE /\ busy' = busy \cup {lc}
       /\ mainq' = Append(mainq, <<"launch", lc>>)
       /\ UNCHANGED wrong

\* Memory is released: an object not in the heap is freed a second time.
Release(objs) ==
  /\ heap' = heap \ objs
  /\ wrong' = [wrong EXCEPT !.twice = @ \/ ~(objs \subseteq heap)]

\* The main thread runs what was posted to it.
MainLaunch ==
  /\ mainq # <<>> /\ Head(mainq)[1] = "launch"
  /\ LET lc == Head(mainq)[2]
     IN IF lc \in running
        THEN wrong' = [wrong EXCEPT !.panics = @ \cup {"RemoteLaunch error"}] /\ UNCHANGED running
        ELSE running' = running \cup {lc} /\ UNCHANGED wrong
  /\ mainq' = Tail(mainq)
  /\ UNCHANGED <<allocated, busy, stop, heap, dp, loops, ctl, svc>>

\* rte_eal_wait_lcore blocks the main thread until the lcore has finished.
MainWait ==
  /\ mainq # <<>> /\ Head(mainq)[1] = "wait"
  /\ Head(mainq)[2] \notin running
  /\ mainq' = Tail(mainq)
  /\ ctl' = [ctl EXCEPT !.waited = TRUE]
  /\ UNCHANGED <<allocated, busy, running, stop, heap, dp, loops, svc, wrong>>

\* A thread that polls uses what it reaches, freed or not; it then sees that it should stop.
ThreadPoll(lc) ==
  /\ lc \in running /\ ~(Reach(lc) \subseteq heap) /\ ~wrong.touched
  /\ wrong' = [wrong EXCEPT !.touched = TRUE]
  /\ UNCHANGED <<allocated, busy, running, stop, mainq, heap, dp, loops, ctl, svc>>

ThreadExit(lc) ==
  /\ lc \in running \cap stop
  /\ running' = running \ {lc}
  /\ UNCHANGED <<allocated, busy, stop, mainq, heap, dp, loops, ctl, svc, wrong>>

-----------------------------------------------------------------------------
(* cmd/ndndpdk-svc: activation as a forwarder *)

Goto(pc, todo) == ctl' = [ctl EXCEPT !.pc = pc, !.todo = todo]

\* CommonArgs.apply takes the lcores of the packet logger and of the packet dumper, then the
\* configuration without them is the forwarder's.  Only the first activation does anything.
ActivateStart(c, m, hrlogFails) ==
  /\ ctl.pc = "idle" /\ ~svc.isActivated /\ ~svc.shutdown
  /\ svc' = [svc EXCEPT !.isActivated = TRUE, !.config = Remaining(c, CommonRoles), !.failed = hrlogFails]
  /\ allocated' = Assign(m)
  /\ LET hrlog == IF "HRLOG" \in DOMAIN m THEN m["HRLOG"] ELSE {}
     IN IF hrlogFails
        THEN hrlog # {} /\ "hrlog" \in MayFail /\ Goto("failed", {}) /\ UNCHANGED <<busy, mainq, wrong>>
        ELSE /\ Goto("alloc", {})
             /\ IF hrlog # {} THEN Launch(Min(hrlog)) ELSE UNCHANGED <<busy, mainq, wrong>>
  /\ UNCHANGED <<running, stop, heap, dp, loops>>

\* The arguments are refused: unknown lcores, or too few of them.
ActivateRefused(c) ==
  /\ ctl.pc = "idle" /\ ~svc.isActivated /\ ~svc.shutdown
  /\ assignWorkers(Extracted(c, CommonRoles), lcAllocatedTo("")) = {}
  /\ svc' = [svc EXCEPT !.isActivated = TRUE, !.failed = TRUE]
  /\ Goto("failed", {})
  /\ UNCHANGED <<allocated, busy, running, stop, mainq, heap, dp, loops, wrong>>

-----------------------------------------------------------------------------
(* app/fwdp: New *)

\* validate; then AllocConfig or DefaultAlloc.
ForwarderAlloc(c, free) ==
  IF c = <<>> THEN DefaultAlloc(free)
  ELSE IF ValidateRoles(c, ForwarderRoles) THEN assignWorkers(c, free)
  ELSE {}

NewAlloc ==
  /\ ctl.pc = "alloc"
  /\ \E m \in ForwarderAlloc(svc.config, lcAllocatedTo("")) :
       /\ allocated' = Assign(m)
       /\ Goto("tx", m[RoleOutput])
  /\ heap' = heap \cup {NdtObject}
  /\ UNCHANGED <<busy, running, stop, mainq, dp, loops, svc, wrong>>

NewRefused ==
  /\ ctl.pc = "alloc"
  /\ ForwarderAlloc(svc.config, lcAllocatedTo("")) = {}
  /\ svc' = [svc EXCEPT !.failed = TRUE]
  /\ Goto("failed", {})
  /\ UNCHANGED <<allocated, busy, running, stop, mainq, heap, dp, loops, wrong>>

\* Each loop of New takes the lcores of a role one by one.
First == Min(ctl.todo)
NextOr(pc, todo) == IF ctl.todo = {First} THEN Goto(pc, todo) ELSE Goto(ctl.pc, ctl.todo \ {First})

NewTxLoop ==
  /\ ctl.pc = "tx"
  /\ heap' = heap \cup {LoopObject(First)}
  /\ loops' = [loops EXCEPT !.tx = @ \cup {First}]
  /\ Launch(First)
  /\ NextOr("fwd", lcAllocatedTo(RoleFwd))
  /\ UNCHANGED <<allocated, running, stop, dp, svc>>

\* When New fails it closes what dp holds by then.
LoopLCores == loops.rx \cup loops.tx
BeginClose(failed) ==
  /\ svc' = [svc EXCEPT !.failed = failed]
  /\ ctl' = [ctl EXCEPT !.pc = "close_rx", !.todo = loops.rx, !.lcores = LoopLCores]

FwdInit ==
  /\ ctl.pc = "fwd"
  /\ heap' = heap \cup FwdObjects(First)
  /\ dp' = [dp EXCEPT !.fwds = @ \cup {First}]
  /\ NextOr("fib", {})
  /\ UNCHANGED <<allocated, busy, running, stop, mainq, loops, svc, wrong>>

\* A failure leaves what was allocated before it, and the thread is not in dp.fwds.
FwdInitFails ==
  /\ ctl.pc = "fwd" /\ "fwd" \in MayFail
  /\ \E objs \in {{}, {<<"queues", First>>}} : heap' = heap \cup {<<"FwFwd", First>>} \cup objs
  /\ BeginClose(TRUE)
  /\ UNCHANGED <<allocated, busy, running, stop, mainq, dp, loops, wrong>>

NewFib ==
  /\ ctl.pc = "fib"
  /\ heap' = heap \cup {FibObject}
  /\ IF lcAllocatedTo(RoleCrypto) = {} THEN Goto("launch_fwd", dp.fwds)
     ELSE Goto("crypto", {SocketOf[lc] : lc \in lcAllocatedTo(RoleCrypto)})
  /\ UNCHANGED <<allocated, busy, running, stop, mainq, dp, loops, svc, wrong>>

NewFibFails ==
  /\ ctl.pc = "fib" /\ "fib" \in MayFail
  /\ BeginClose(TRUE)
  /\ UNCHANGED <<allocated, busy, running, stop, mainq, heap, dp, loops, wrong>>

\* Crypto.Init of the helpers on a socket, and newCryptoShared; sockets in the order of a map.
CryptoInit(s) ==
  /\ ctl.pc = "crypto" /\ s \in ctl.todo
  /\ LET fwcs == OnSocket(lcAllocatedTo(RoleCrypto), s)
     IN /\ heap' = heap \cup {CryptoObject(lc) : lc \in fwcs} \cup CryptoObjects(s)
        /\ dp' = [dp EXCEPT !.fwcs = @ \cup fwcs, !.fwcsh = @ \cup {s}]
        /\ IF ctl.todo = {s} THEN Goto("launch_fwc", dp'.fwcs) ELSE Goto("crypto", ctl.todo \ {s})
  /\ UNCHANGED <<allocated, busy, running, stop, mainq, loops, svc, wrong>>

CryptoInitFails(s) ==
  /\ ctl.pc = "crypto" /\ s \in ctl.todo /\ "crypto" \in MayFail
  /\ LET fwcs == OnSocket(lcAllocatedTo(RoleCrypto), s)
     IN /\ \E objs \in {{}, {<<"ring", s>>}, {<<"ring", s>>, <<"opPool", s>>}} :
             heap' = heap \cup {CryptoObject(lc) : lc \in fwcs} \cup objs
        /\ dp' = [dp EXCEPT !.fwcs = @ \cup fwcs]
  /\ BeginClose(TRUE)
  /\ UNCHANGED <<allocated, busy, running, stop, mainq, loops, wrong>>

LaunchCrypto ==
  /\ ctl.pc = "launch_fwc"
  /\ Launch(First)
  /\ NextOr("launch_fwd", dp.fwds)
  /\ UNCHANGED <<allocated, running, stop, heap, dp, loops, svc>>

\* ConnectTo: the crypto ring of the thread's socket, or of a random socket.
LaunchFwd ==
  /\ ctl.pc = "launch_fwd"
  /\ \E ring \in IF SocketOf[First] \in dp.fwcsh THEN {{SocketOf[First]}}
                 ELSE IF dp.fwcsh = {} THEN {{}} ELSE {{s} : s \in dp.fwcsh} :
       dp' = [dp EXCEPT !.rings[First] = ring]
  /\ Launch(First)
  /\ NextOr("rx", lcAllocatedTo(RoleInput))
  /\ UNCHANGED <<allocated, running, stop, heap, loops, svc>>

NewInput ==
  /\ ctl.pc = "rx"
  /\ heap' = heap \cup {LoopObject(First)}
  /\ loops' = [loops EXCEPT !.rx = @ \cup {First}]
  /\ dp' = [dp EXCEPT !.fwis = @ \cup {First}]
  /\ Launch(First)
  /\ NextOr("up", {})
  /\ UNCHANGED <<allocated, running, stop, svc>>

-----------------------------------------------------------------------------
(* DataPlane.Close, iface.CloseAll, and Thread.Stop *)

CloseDataPlane ==
  /\ ctl.pc = "up" /\ ~svc.shutdown
  /\ BeginClose(FALSE)
  /\ UNCHANGED <<allocated, busy, running, stop, mainq, heap, dp, loops, wrong>>

\* delayedShutdown closes faces and loops only; the process then exits.
Shutdown ==
  /\ ctl.pc \in {"idle", "up", "failed"} /\ ~svc.shutdown
  /\ svc' = [svc EXCEPT !.shutdown = TRUE]
  /\ ctl' = [ctl EXCEPT !.pc = "close_rx", !.todo = loops.rx, !.lcores = LoopLCores]
  /\ UNCHANGED <<allocated, busy, running, stop, mainq, heap, dp, loops, wrong>>

\* Threads are closed kind by kind: input and output loops (iface.CloseAll), crypto helpers,
\* their shared resources, forwarding threads, and once more the input loops.
Closing == {"close_rx", "close_tx", "close_fwc", "close_fwd", "close_fwi"}
AfterClosing(pc) ==
  CASE pc = "close_rx"  -> [pc |-> "close_tx", todo |-> loops.tx]
    [] pc = "close_tx"  -> IF svc.shutdown THEN [pc |-> "exited", todo |-> {}]
                           ELSE [pc |-> "close_fwc", todo |-> dp.fwcs]
    [] pc = "close_fwc" -> [pc |-> "close_fwcsh", todo |-> dp.fwcsh]
    [] pc = "close_fwd" -> [pc |-> "close_fwi", todo |-> dp.fwis]
    [] pc = "close_fwi" -> [pc |-> "free", todo |-> {}]

\* What Close of a thread frees, once the thread is stopped.
Held(lc, pc) ==
  CASE pc \in {"close_rx", "close_tx", "close_fwi"} -> {LoopObject(lc)}
    [] pc = "close_fwc" -> {CryptoObject(lc)} \cup (IF SocketOf[lc] \in dp.fwcsh THEN {<<"ring", SocketOf[lc]>>} ELSE {})
    [] pc = "close_fwd" -> FwdObjects(lc)

\* Stop: the stop flag is set and the main thread asked to wait for the lcore.
MutRequestStop(lc) ==
  /\ UNCHANGED stop
  /\ mainq' = Append(mainq, <<"wait", lc>>)
RequestStop(lc) ==
  /\ stop' = stop \cup {lc}
  /\ mainq' = Append(mainq, <<"wait", lc>>)
StopThread ==
  /\ ctl.pc \in Closing /\ ctl.todo # {} /\ ctl.stopping = None
  /\ First \in busy
  /\ RequestStop(First)
  /\ ctl' = [ctl EXCEPT !.stopping = First]
  /\ UNCHANGED <<allocated, busy, running, heap, dp, loops, svc, wrong>>

\* The lcore has finished, or was not running: the thread's memory is freed.
CloseThread ==
  /\ ctl.pc \in Closing /\ ctl.todo # {}
  /\ IF First \in busy THEN ctl.stopping = First /\ ctl.waited ELSE ctl.stopping = None
  /\ busy' = busy \ {First}
  /\ stop' = stop \ {First}
  /\ Release(Held(First, ctl.pc))
  /\ loops' = [rx |-> loops.rx \ {First}, tx |-> loops.tx \ {First}]
  /\ ctl' = [ctl EXCEPT !.todo = @ \ {First}, !.stopping = None, !.waited = FALSE,
                        !.lcores = IF ctl.pc = "close_fwi" THEN @ ELSE @ \cup {First}]
  /\ UNCHANGED <<allocated, running, mainq, dp, svc>>

ClosedKind ==
  /\ ctl.pc \in Closing /\ ctl.todo = {}
  /\ ctl' = [ctl EXCEPT !.pc = AfterClosing(ctl.pc).pc, !.todo = AfterClosing(ctl.pc).todo]
  /\ UNCHANGED <<allocated, busy, running, stop, mainq, heap, dp, loops, svc, wrong>>

MutCloseCryptoShared ==
  /\ ctl.pc = "close_fwcsh"
  /\ Release({<<"cryptodev", s>> : s \in dp.fwcsh})
  /\ Goto("close_fwd", dp.fwds)
  /\ UNCHANGED <<allocated, busy, running, stop, mainq, dp, loops, svc>>
CloseCryptoShared ==
  /\ ctl.pc = "close_fwcsh"
  /\ Release(UNION {{<<"cryptodev", s>>, <<"opPool", s>>} : s \in dp.fwcsh})
  /\ Goto("close_fwd", dp.fwds)
  /\ UNCHANGED <<allocated, busy, running, stop, mainq, dp, loops, svc>>

\* The FIB if it exists, the NDT, and AllocFree of the lcores of the closed threads.
CloseTables ==
  /\ ctl.pc = "free"
  /\ heap' = heap \ {FibObject, NdtObject}
  /\ allocated' = [lc \in Worker |-> IF lc \in ctl.lcores THEN "" ELSE allocated[lc]]
  /\ wrong' = IF \E lc \in ctl.lcores : allocated[lc] = ""
              THEN [wrong EXCEPT !.panics = @ \cup {"lcore double free"}] ELSE wrong
  /\ Goto(IF svc.failed THEN "failed" ELSE "closed", {})
  /\ UNCHANGED <<busy, running, stop, mainq, dp, loops, svc>>

\* The environment activates, closes or shuts down; everything else the code does by itself.
Command ==
  \/ \E c \in Configs : \/ ActivateRefused(c)
                        \/ \E fails \in BOOLEAN : \E m \in assignWorkers(Extracted(c, CommonRoles), lcAllocatedTo("")) :
                             ActivateStart(c, m, fails)
  \/ CloseDataPlane
  \/ Shutdown

Create ==
  \/ NewAlloc \/ NewRefused \/ NewTxLoop \/ FwdInit \/ FwdInitFails \/ NewFib \/ NewFibFails
  \/ \E s \in Socket : CryptoInit(s) \/ CryptoInitFails(s)
  \/ LaunchCrypto \/ LaunchFwd \/ NewInput

Close == StopThread \/ CloseThread \/ ClosedKind \/ CloseCryptoShared \/ CloseTables
MainThread == MainLaunch \/ MainWait
ThreadsExit == \E lc \in Worker : ThreadExit(lc)

Next == Command \/ Create \/ Close \/ MainThread \/ ThreadsExit \/ \E lc \in Worker : ThreadPoll(lc)

\* The goroutine that closes and the main thread are scheduled; threads check their stop flags; the
\* service shuts down after a failed activation.
Fairness ==
  /\ WF_vars(Close)
  /\ WF_vars(MainThread)
  /\ WF_vars(ThreadsExit)
  /\ WF_vars(svc.failed /\ Shutdown)

Spec == Init /\ [][Next]_vars /\ Fairness

-----------------------------------------------------------------------------
(* Properties *)

\* Lcores are given out once, launched when idle and freed once: Launch never finds its lcore
\* busy, the EAL accepts every launch, and AllocFree frees no lcore twice.
NoPanic == wrong.panics = {}

\* A data plane that was created and then closed has left nothing behind: its lcores are
\* free and idle, and everything New allocated is freed.
NothingLeft ==
  ctl.pc = "closed" =>
    /\ \A lc \in Worker : allocated[lc] \notin DOMAIN ForwarderRoles
    /\ \A lc \in busy \cup running : allocated[lc] = "HRLOG"
    /\ heap = {} /\ stop = {} /\ LoopLCores = {}

\* Closing ends, although the main lcore, which launches the threads, is blocked while it
\* waits for each of them; and a failed activation ends the process.
CloseReturns == (svc.failed \/ ctl.pc = "close_rx") ~> ctl.pc \in {"closed", "exited"}

\* Closing stops the threads before it frees what they use, and frees everything once.
\* Not so: the input ring of the crypto helpers is freed by each helper of a socket, and
\* before the forwarding threads that enqueue into it are stopped; and the input loops,
\* closed by iface.CloseAll, are closed again as dp.fwis.
FreedOnceUnused == ~wrong.twice /\ ~wrong.touched
=============================================================================

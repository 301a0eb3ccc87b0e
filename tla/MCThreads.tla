------------------------------ MODULE MCThreads ------------------------------
(***************************************************************************)
(* The threads of the forwarder for TLC: the timers of a forwarding thread *)
(* (MinTmr), the start and the end of all threads (DataPlane), the         *)
(* processors they are given (EalConfig), and the goroutines that report   *)
(* on them (GqlSub).  A behaviour is one of the component that `which`     *)
(* names; the others rest in an initial state, or hold none.               *)
(***************************************************************************)
EXTENDS MinTmr, Sequences, TLC

CONSTANT Chosen
VARIABLES which,
          allocated, busy, dpRunning, stop, mainq, heap, dp, loops, ctl, svc, wrong,
          hw, cfg, args,
          open, inner, updaters, sub, subRunning, launches, generator, items

dpVars == <<allocated, busy, dpRunning, stop, mainq, heap, dp, loops, ctl, svc, wrong>>
ealVars == <<hw, cfg, args>>
subVars == <<open, inner, updaters, sub, subRunning, launches, generator, items>>

\* MinTmr: all delays the wheel can hold, and one too long.
AllDelays == -1..Interval * NSlots

-----------------------------------------------------------------------------
(* DataPlane: six workers on two NUMA sockets; no configuration; lists;    *)
(* lists and counts per socket, with the auxiliary threads; an unknown     *)
(* role; an lcore named twice; a socket with too few lcores.               *)

MCSocketOf == [lc \in 1..6 |-> (lc - 1) % 2]
List(lcs) == [lcores |-> lcs, perNuma |-> [s \in {} |-> 0]]
PerNuma(n, m) == [lcores |-> <<>>, perNuma |-> [s \in {0, 1} |-> IF s = 0 THEN n ELSE m]]
MCConfigs ==
  {<<>>,
   [RX |-> List(<<1>>), TX |-> List(<<2>>), CRYPTO |-> List(<<3, 4>>), FWD |-> List(<<5, 6>>)],
   [RX |-> List(<<1>>), TX |-> List(<<2>>), CRYPTO |-> List(<<3, 5>>), FWD |-> List(<<6>>)],
   [RX |-> PerNuma(1, 0), TX |-> PerNuma(0, 1), FWD |-> PerNuma(1, 0), HRLOG |-> List(<<2>>), PDUMP |-> List(<<4>>)],
   [RX |-> List(<<1>>), TX |-> List(<<2>>), FWD |-> List(<<3>>), DISK |-> List(<<4>>)],
   [RX |-> List(<<1>>), TX |-> List(<<2>>), FWD |-> List(<<2>>)],
   [RX |-> PerNuma(2, 1), TX |-> PerNuma(1, 1), FWD |-> PerNuma(1, 0)],
   [HRLOG |-> List(<<7>>)]}
P == INSTANCE DataPlane WITH
  Worker <- 1..6, SocketOf <- MCSocketOf, Configs <- MCConfigs,
  MayFail <- {"hrlog", "fwd", "fib", "crypto"}, running <- dpRunning

-----------------------------------------------------------------------------
(* EalConfig: two sockets of two cores with two threads each, and a        *)
(* smaller machine with another numbering.                                 *)

Core(s, p, l) == [socket |-> s, physical |-> p, logical |-> l]
EalMachines == {<<Core(0, 0, 0), Core(1, 0, 1), Core(0, 1, 2), Core(1, 1, 3),
                  Core(0, 0, 4), Core(1, 0, 5), Core(0, 1, 6), Core(1, 1, 7)>>,
                <<Core(0, 0, 0), Core(0, 0, 1), Core(0, 1, 2), Core(1, 0, 3), Core(1, 0, 4)>>}
Maps(values) == UNION {[d -> values] : d \in SUBSET {0, 1, 2}}
EalSettings == {[cores |-> c, coresPerNuma |-> n, lcoresPerNuma |-> l, memPerNuma |-> m,
                 preallocateMem |-> TRUE] :
                  c \in {<<>>, <<0, 5, 9>>}, n \in Maps({-5, -1, 0, 3}), l \in Maps({0, 3}),
                  m \in {<<>>, (0 :> 0 @@ 2 :> 8)}}
E == INSTANCE EalConfig WITH Machines <- EalMachines, Settings <- EalSettings

(* GqlSub: two subscriptions one after the other on a connection.          *)
G == INSTANCE GqlSub WITH
  Conns <- {"c1"}, SubIDs <- {"x"}, NSubs <- 2, CounterBits <- 1, MaxLaunches <- 2,
  running <- subRunning

-----------------------------------------------------------------------------
MCInit == /\ which \in Chosen
          /\ Init /\ P!Init /\ G!Init
          /\ IF which = "eal" THEN E!Init ELSE hw = 0 /\ cfg = 0 /\ args = 0
MCNext ==
  /\ UNCHANGED which
  /\ \/ which = "mintmr" /\ Next /\ UNCHANGED <<dpVars, ealVars, subVars>>
     \/ which = "dataplane" /\ P!Next /\ UNCHANGED <<vars, ealVars, subVars>>
     \/ which = "eal" /\ E!Next /\ UNCHANGED <<vars, dpVars, subVars>>
     \/ which = "gqlsub" /\ G!Next /\ UNCHANGED <<vars, dpVars, ealVars>>

(* The fairness of each component, while it runs: the goroutine that       *)
(* closes and the main thread are scheduled, threads check their stop      *)
(* flags and the service shuts down after a failed activation; goroutines  *)
(* of subscriptions run, and select does not pass over a ready case for    *)
(* ever.                                                                   *)
Fairness ==
  /\ WF_dpVars(which = "dataplane" /\ P!Close)
  /\ WF_dpVars(which = "dataplane" /\ P!MainThread)
  /\ WF_dpVars(which = "dataplane" /\ P!ThreadsExit)
  /\ WF_dpVars(which = "dataplane" /\ svc.failed /\ P!Shutdown)
  /\ \A s \in G!Subs :
       /\ WF_subVars(/\ which = "gqlsub"
                     /\ G!GetArgs(s) \/ G!Send(s) \/ G!Execute(s) \/ G!EndExecutor(s))
       /\ SF_subVars(which = "gqlsub" /\ G!Done(s))

MCSpec == MCInit /\ [][MCNext]_<<which, vars, dpVars, ealVars, subVars>> /\ Fairness

-----------------------------------------------------------------------------
(* Properties.                                                             *)

\* No lcore is given out, launched or freed twice, and a data plane that was
\* closed has left nothing behind (ealthread.AllocConfig, DataPlane.Close).
NothingLeft == which = "dataplane" => P!NothingLeft /\ P!NoPanic

\* Closing the data plane ends, and so does a process whose activation failed
\* (DataPlane.Close, ealthread.Thread.Stop).
CloseReturns == P!CloseReturns

\* The processors and the memory EAL is given are those the configuration asks
\* for (ealconfig.Config.Args).
ArgsAsConfigured == which = "eal" => E!ArgsAsConfigured

\* The goroutines of a subscription end once it is removed or its subject is
\* closed (gqlserver, gqlsub).
GoroutinesEnd == G!GoroutinesEnd

\* What threadLoadStat reports adds up to the work the thread did, across
\* wraparound of the counters (LoadStat.Sub).
LoadAddsUp == which = "gqlsub" => G!LoadAddsUp
=============================================================================

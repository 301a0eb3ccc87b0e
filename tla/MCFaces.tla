------------------------------- MODULE MCFaces -------------------------------
(***************************************************************************)
(* Faces for TLC: their creation and closing beside the threads that use   *)
(* them (FaceLife), Ethernet ports and adapters (EthPort), the packet      *)
(* queue in front of every forwarding thread and application (PktQueue),   *)
(* and the proxy that manages faces and FIB over JSON-RPC (JrProxy).  A    *)
(* behaviour is one of the component that `which` names; the others rest   *)
(* and hold no state, but for FaceLife, which rests in its initial state.  *)
(***************************************************************************)
EXTENDS FaceLife, TLC

CONSTANT Chosen
VARIABLES which,
          FaceLocator, devs, memifs, ports, obj, nObj, portsMutex, ethFace, rxl, txl, req, ethMain, panic,
          q, ring, firstAboveTime, now, hand, popNow, burst, drop, pop, nMade, nDrops, freed, popped, phase, above,
          key, active, faces, fib, faceNidGid, fibNameGid, faceLock, fibLock, call, made, elsewhere

ethVars == <<FaceLocator, devs, memifs, ports, obj, nObj, portsMutex, ethFace, rxl, txl, req, ethMain, panic>>
queueVars == <<q, ring, firstAboveTime, now, hand, popNow, burst, drop, pop, nMade, nDrops, freed, popped,
               phase, above>>
jrVars == <<key, active, faces, fib, faceNidGid, fibNameGid, faceLock, fibLock, call, made, elsewhere>>

\* FaceLife: faces of every kind.
Mixed == <<"socket", "socket", "flow", "table">>

-----------------------------------------------------------------------------
(* EthPort: a PCI adapter with three RX queues shared by two faces; two    *)
(* memif adapters on one socket; and an XDP adapter with two faces, of all *)
(* pairs of locators.                                                      *)

MCDriver == [pci |-> "PCI", xdp |-> "XDP", memif1 |-> "memif", memif2 |-> "memif"]
MCNetIf ==
  [d \in DOMAIN MCDriver |->
     [rx |-> 2, maxRx |-> 4, combined |-> 0, maxCombined |-> 0, rxvlan |-> "on", xdp |-> TRUE]]
MCRxQueues == [pci |-> 3, xdp |-> 0, memif1 |-> 0, memif2 |-> 0]
MCMaxRxQueues == [pci |-> 3, xdp |-> 1, memif1 |-> 1, memif2 |-> 1]
MCMemifLoc ==
  [memif1 |-> [socketName |-> "s", role |-> "server", id |-> 1],
   memif2 |-> [socketName |-> "s", role |-> "server", id |-> 2]]
MCNumaSocket == [pci |-> 1, xdp |-> 2, memif1 |-> 0, memif2 |-> 0, loopA |-> 1, loopB |-> 1]

Ether(remote, vlan) ==
  [scheme |-> "ether", local |-> 1, remote |-> remote, vlan |-> vlan]
Udp(remoteIP, localUDP, remoteUDP) ==
  [scheme |-> "udpe", local |-> 1, remote |-> 2, vlan |-> 0, localIP |-> <<4, 1>>, remoteIP |-> remoteIP,
   localUDP |-> localUDP, remoteUDP |-> remoteUDP]
Vxlan(vni, innerLocal) ==
  [scheme |-> "vxlan", local |-> 1, remote |-> 2, vlan |-> 0, localIP |-> <<4, 1>>, remoteIP |-> <<4, 2>>,
   vxlan |-> vni, innerLocal |-> innerLocal, innerRemote |-> 4]
Locators ==
  <<Ether(2, 0), Ether(2, 5), Ether(9, 0), Ether(9, 5), Udp(<<4, 2>>, 6, 6), Udp(<<4, 2>>, 7, 6),
    Udp(<<4, 2>>, 4789, 4790), Vxlan(0, 3), Vxlan(1, 3)>>

MCFaceLocators ==
  {[f1 |-> [dev |-> "pci", loc |-> Ether(2, 0), nRxQueues |-> 0],
    f2 |-> [dev |-> "pci", loc |-> Vxlan(0, 3), nRxQueues |-> 2]],
   [f3 |-> [dev |-> "memif1", loc |-> {}, nRxQueues |-> 0],
    f4 |-> [dev |-> "memif2", loc |-> {}, nRxQueues |-> 0]]}
  \cup {[f1 |-> [dev |-> "xdp", loc |-> Locators[i], nRxQueues |-> 0],
         f2 |-> [dev |-> "xdp", loc |-> Locators[j], nRxQueues |-> 0]]
          : <<i, j>> \in {p \in (1 .. 9) \X (1 .. 9) : p[1] <= p[2]}}

E == INSTANCE EthPort WITH
  Multicast <- 8, VxlanPort <- 4789, DevMayFail <- {"create"}, NetIf <- MCNetIf, Driver <- MCDriver,
  Dev <- {"pci", "xdp", "memif1", "memif2"}, RxQueues <- MCRxQueues, MaxRxQueues <- MCMaxRxQueues,
  MemifLoc <- MCMemifLoc, Request <- {1, 2}, FaceLocators <- MCFaceLocators,
  Loop <- {"loopA", "loopB"}, NumaSocket <- MCNumaSocket, MaxPorts <- 2,
  MayFail <- {"pool", "flow", "destroy"}, Orderly <- TRUE, face <- ethFace, main <- ethMain

-----------------------------------------------------------------------------
(* PktQueue: plain, delaying and CoDel queues.                             *)

Cfg(capacity, size, delay, plain, target, interval) ==
    [Capacity |-> capacity, DequeueBurstSize |-> size, Delay |-> delay,
     DisableCoDel |-> plain, Target |-> target, Interval |-> interval]

SmallConfigs ==
    {Cfg(3, 0, 0, TRUE, 0, 0), Cfg(5, 1, 0, TRUE, 0, 0), Cfg(4, 0, 1, FALSE, 0, 0),
     Cfg(4, 1, 0, FALSE, 1, 1), Cfg(4, 0, 0, FALSE, 2, 2), Cfg(0, 0, 0, FALSE, 0, 0)}

Q == INSTANCE PktQueue WITH
  Configs <- SmallConfigs, Producers <- {"p1", "p2"}, NPkts <- 4, MaxPush <- 2, MaxBurstSize <- 2,
  MaxNow <- 6, Orderly <- TRUE

-----------------------------------------------------------------------------
(* JrProxy: three calls, one restart of the service, one other client.     *)

J == INSTANCE JrProxy WITH
  Nids <- {1}, Names <- {1}, NCalls <- 3, MaxKeys <- 2, MaxElsewhere <- 1, Orderly <- TRUE

-----------------------------------------------------------------------------
EthRests ==
  /\ FaceLocator = 0 /\ devs = 0 /\ memifs = 0 /\ ports = 0 /\ obj = 0 /\ nObj = 0 /\ portsMutex = 0
  /\ ethFace = 0 /\ rxl = 0 /\ txl = 0 /\ req = 0 /\ ethMain = 0 /\ panic = 0
QueueRests ==
  /\ q = 0 /\ ring = 0 /\ firstAboveTime = 0 /\ now = 0 /\ hand = 0 /\ popNow = 0 /\ burst = 0 /\ drop = 0
  /\ pop = 0 /\ nMade = 0 /\ nDrops = 0 /\ freed = 0 /\ popped = 0 /\ phase = 0 /\ above = 0
JrRests ==
  /\ key = 0 /\ active = 0 /\ faces = 0 /\ fib = 0 /\ faceNidGid = 0 /\ fibNameGid = 0 /\ faceLock = 0
  /\ fibLock = 0 /\ call = 0 /\ made = 0 /\ elsewhere = 0

MCInit == /\ which \in Chosen
          /\ Init
          /\ IF which = "ethport" THEN E!Init ELSE EthRests
          /\ IF which = "pktqueue" THEN Q!Init ELSE QueueRests
          /\ IF which = "jrproxy" THEN J!Init ELSE JrRests
MCNext == /\ UNCHANGED which
          /\ \/ which = "facelife" /\ Next /\ UNCHANGED <<ethVars, queueVars, jrVars>>
             \/ which = "ethport" /\ E!Next /\ UNCHANGED <<vars, queueVars, jrVars>>
             \/ which = "pktqueue" /\ Q!Next /\ UNCHANGED <<vars, ethVars, jrVars>>
             \/ which = "jrproxy" /\ J!Next /\ UNCHANGED <<vars, ethVars, queueVars>>
MCSpec == MCInit /\ [][MCNext]_<<which, vars, ethVars, queueVars, jrVars>>

-----------------------------------------------------------------------------
(* Properties.                                                             *)

\* A face that is up is known to its open port and served by one RX loop per
\* queue and one TX loop; no RX queue has two owners; CoexistMap knows the memif
\* adapters that exist (ethport, rxFlow, ActivateRxGroup, CoexistMap); and a frame
\* received on a port is accepted by at most one of its faces
\* (EthLocator_CanCoexist, EthRxMatch).
EthFacesServed == which = "ethport" => E!FacesServed /\ E!QueuesOwned /\ E!CoexistAgrees /\ E!OneReceiver

\* CoDel drops only after a whole interval of slow bursts, a delaying queue holds
\* every packet as long as it should, and each packet is queued, handed out or
\* freed, once (PktQueue_Pop, CoDel_ShouldDrop, PktQueue.Close).
QueueKept == which = "pktqueue" => Q!CoDelPatient /\ Q!DelayKept /\ Q!PacketsOwned

\* The proxy can name every face it created and nobody deleted, with an ID that the
\* running service understands (Face.Create, Face.List with faceNidGid); and its calls
\* do not wait in a circle for faceLock and fibLock (Fib.Insert, Fib.Find).
KnowsWhatItMade == which = "jrproxy" => J!KnowsWhatItMade /\ J!SomeCallGoesOn
=============================================================================

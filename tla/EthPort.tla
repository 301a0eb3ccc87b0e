------------------------------ MODULE EthPort ------------------------------
(***************************************************************************)
(* Ethernet devices (dpdk/ethdev): how one is found or created for a       *)
(* kernel network interface (dpdk/ethdev/ethnetif) or a memif locator, how *)
(* it is started and stopped, and which memif locators may coexist         *)
(* (ndn/memiftransport).  The locators of faces on an Ethernet port        *)
(* (iface/ethface): which ones are valid, which may coexist on a port,     *)
(* which frames the face of a locator receives, and which it sends.  And   *)
(* the ports and the faces on them (iface/ethport, iface/memifface), with  *)
(* the RX and TX loops that serve them (iface).                            *)
(*                                                                         *)
(* Addresses are numbers: an address below Multicast is unicast, zero is   *)
(* no address.  A locator has the fields of EthLocator in csrc/ethface; IP *)
(* addresses are <<family, number>>.  An operation on a device that may    *)
(* fail denotes the set of its outcomes; DevMayFail has the steps that     *)
(* may: "ethtool", "create", "start", "close".                             *)
(*                                                                         *)
(* GraphQL requests run in goroutines of their own.  Faces are created and *)
(* closed on the main thread; ports are created and closed by the          *)
(* goroutine of the request, under portsMutex.  A section of code under    *)
(* port.mutex is one step.  Port objects are numbered in the order of      *)
(* their creation, because a request keeps a pointer to a port.            *)
(***************************************************************************)
EXTENDS Integers, FiniteSets, FiniteSetsExt, SequencesExt

CONSTANTS
  DevMayFail,
  NetIf,       \* what the kernel has for each device before it is created
  Driver,      \* "PCI", "XDP", "AF_PACKET" or "memif"
  Multicast,   \* smallest multicast MAC address
  VxlanPort    \* UDP port of VXLAN

Fails(step) == IF step \in DevMayFail THEN BOOLEAN ELSE {FALSE}

-----------------------------------------------------------------------------
(* Network interfaces: [rx, maxRx, combined, maxCombined, rxvlan, xdp] *)

SetOneChannel(n) ==
  {IF failed THEN n ELSE [n EXCEPT !.rx = Min({n.maxRx, 1}), !.combined = Min({n.maxCombined, 1})]
    : failed \in Fails("ethtool")}
DisableVLANOffload(n) ==
  {IF failed \/ n.rxvlan # "on" THEN n ELSE [n EXCEPT !.rxvlan = "off"] : failed \in Fails("ethtool")}
UnloadXDP(n) == {IF failed THEN n ELSE [n EXCEPT !.xdp = FALSE] : failed \in Fails("ethtool")}

\* createXDP reduces the interface to one channel, which XDP needs, then creates the device.
createXDP(dev) ==
  {[dev EXCEPT !.exists = ~failed, !.nif = n] :
     n \in UNION {UnloadXDP(n2) : n2 \in UNION {DisableVLANOffload(n1) : n1 \in SetOneChannel(dev.nif)}},
     failed \in Fails("create")}
createPCI(dev) == {[dev EXCEPT !.exists = ~failed] : failed \in Fails("create")}
createAfPacket(dev) == {[dev EXCEPT !.exists = ~failed] : failed \in Fails("create")}

\* CreateEthDev finds the device of the interface, or creates it.
CreateEthDev(d, dev) ==
  CASE dev.exists -> {dev}
    [] ~dev.exists /\ Driver[d] = "PCI" -> createPCI(dev)
    [] ~dev.exists /\ Driver[d] = "XDP" -> createXDP(dev)
    [] ~dev.exists /\ Driver[d] = "AF_PACKET" -> createAfPacket(dev)
    [] OTHER -> {}

-----------------------------------------------------------------------------
(* Devices: [exists, queues, nif], queues being zero unless the device is started *)

NoDev(d) == [exists |-> FALSE, queues |-> 0, nif |-> NetIf[d]]

\* stop: without close the device is reset and remains; with close the callbacks of OnClose
\* destroy the virtual device.
devStop(dev, close) ==
  {IF failed THEN dev ELSE [dev EXCEPT !.queues = 0, !.exists = ~close] : failed \in Fails("close")}

\* Start configures and starts the device: outcomes [ok, dev].  When a step fails the device
\* is stopped and reset.
devStart(dev, nRxQueues) ==
  {[ok |-> TRUE, dev |-> [dev EXCEPT !.queues = nRxQueues]]}
  \cup (IF "start" \in DevMayFail THEN {[ok |-> FALSE, dev |-> d] : d \in devStop(dev, FALSE)} ELSE {})

-----------------------------------------------------------------------------
(* CoexistMap: socketName -> [role, ids], for memif locators [socketName, role, id] *)

coexistHas(m, socketName) == socketName \in DOMAIN m
coexistCheck(m, loc) == coexistHas(m, loc.socketName) => m[loc.socketName].role = loc.role /\ loc.id \notin m[loc.socketName].ids
coexistAdd(m, loc) ==
  [s \in DOMAIN m \cup {loc.socketName} |->
     IF s # loc.socketName THEN m[s]
     ELSE IF s \in DOMAIN m THEN [m[s] EXCEPT !.ids = @ \cup {loc.id}]
     ELSE [role |-> loc.role, ids |-> {loc.id}]]
coexistRemove(m, loc) ==
  LET left == m[loc.socketName].ids \ {loc.id}
  IN [s \in DOMAIN m \ (IF left = {} THEN {loc.socketName} ELSE {}) |->
        IF s = loc.socketName THEN [m[s] EXCEPT !.ids = left] ELSE m[s]]

-----------------------------------------------------------------------------
(* Locators.                                                               *)

NoIP == <<0, 0>>
IsUnicast(a) == a # 0 /\ a < Multicast
IsMulticast(a) == a >= Multicast

\* Locator.Validate of each scheme; each scheme embeds the one before.
ValidateEther(loc) == IsUnicast(loc.local) /\ loc.remote # 0 /\ loc.vlan \in 0 .. 4094
ValidateIP(loc) ==
  /\ ValidateEther(loc)
  /\ IsUnicast(loc.remote)
  /\ loc.localIP # NoIP /\ loc.remoteIP # NoIP
  /\ loc.localIP[1] = loc.remoteIP[1]
  /\ loc.localIP[2] < Multicast /\ loc.remoteIP[2] < Multicast
ValidateUDP(loc) == ValidateIP(loc) /\ loc.localUDP \in 1 .. 65535 /\ loc.remoteUDP \in 1 .. 65535
ValidateVxlan(loc) == ValidateIP(loc) /\ IsUnicast(loc.innerLocal) /\ IsUnicast(loc.innerRemote)
Validate(loc) ==
  CASE loc.scheme = "ether" -> ValidateEther(loc)
    [] loc.scheme = "udpe"  -> ValidateUDP(loc)
    [] loc.scheme = "vxlan" -> ValidateVxlan(loc)

\* EthCLocator keeps what the scheme has and leaves the rest zero.
EtherCLocator(loc) ==
  [local |-> loc.local, remote |-> loc.remote, vlan |-> loc.vlan, localIP |-> NoIP, remoteIP |-> NoIP,
   localUDP |-> 0, remoteUDP |-> 0, vxlan |-> 0, innerLocal |-> 0, innerRemote |-> 0]
IPcLoc(loc) == [EtherCLocator(loc) EXCEPT !.localIP = loc.localIP, !.remoteIP = loc.remoteIP]
UDPCLocator(loc) == [IPcLoc(loc) EXCEPT !.localUDP = loc.localUDP, !.remoteUDP = loc.remoteUDP]
VxlanCLocator(loc) ==
  [IPcLoc(loc) EXCEPT !.localUDP = VxlanPort, !.remoteUDP = VxlanPort, !.vxlan = loc.vxlan,
                      !.innerLocal = loc.innerLocal, !.innerRemote = loc.innerRemote]
EthCLocator(loc) ==
  CASE loc.scheme = "ether" -> EtherCLocator(loc)
    [] loc.scheme = "udpe"  -> UDPCLocator(loc)
    [] loc.scheme = "vxlan" -> VxlanCLocator(loc)

Classify(c) ==
  [multicast |-> IsMulticast(c.remote), udp |-> c.remoteUDP # 0, v4 |-> c.remoteIP[1] = 4,
   vxlan |-> c.innerRemote # 0,
   etherType |-> IF c.local = 0 THEN "none"
                 ELSE IF c.remoteUDP = 0 THEN "NDN"
                 ELSE IF c.remoteIP[1] = 4 THEN "IPv4" ELSE "IPv6"]

MutCanCoexist(a, b) ==
  LET ac == Classify(a)  bc == Classify(b)
  IN /\ ac.etherType # "none" /\ bc.etherType # "none"
     /\ \/ ac.multicast # bc.multicast \/ ac.udp # bc.udp \/ ac.v4 # bc.v4
        \/ /\ ~ac.multicast
           /\ \/ a.vlan # b.vlan
              \/ ~ac.udp /\ (a.local # b.local \/ a.remote # b.remote)
              \/ ac.udp /\ (a.localIP # b.localIP \/ a.remoteIP # b.remoteIP)
              \/ ac.udp /\ (a.localUDP # b.localUDP \/ a.remoteUDP # b.remoteUDP)
              \/ ac.vxlan # bc.vxlan
              \/ a.vxlan # b.vxlan \/ a.innerLocal # b.innerLocal \/ a.innerRemote # b.innerRemote

\* EthLocator_CanCoexist: different kinds and different VLANs may; then the addresses of
\* the kind decide.
CanCoexist(a, b) ==
  LET ac == Classify(a)  bc == Classify(b)
      ports == a.localUDP # b.localUDP \/ a.remoteUDP # b.remoteUDP
      bothPorts == a.localUDP # b.localUDP /\ a.remoteUDP # b.remoteUDP
      inner == a.vxlan # b.vxlan \/ a.innerLocal # b.innerLocal \/ a.innerRemote # b.innerRemote
  IN /\ ac.etherType # "none" /\ bc.etherType # "none"
     /\ \/ ac.multicast # bc.multicast \/ ac.udp # bc.udp \/ ac.v4 # bc.v4
        \/ /\ ~ac.multicast
           /\ \/ a.vlan # b.vlan
              \/ ~ac.udp /\ (a.local # b.local \/ a.remote # b.remote)
              \/ ac.udp /\ (a.localIP # b.localIP \/ a.remoteIP # b.remoteIP)
              \/ ac.udp /\ ~ac.vxlan /\ ~bc.vxlan /\ ports
              \/ ac.udp /\ (ac.vxlan \/ bc.vxlan) /\ bothPorts
              \/ ac.vxlan /\ bc.vxlan /\ inner

\* EthTxHdr: the frame sent to the remote side.  The source port of VXLAN varies.
TxHdr(c, sport) ==
  [dst |-> c.remote, src |-> c.local, vlan |-> c.vlan, etherType |-> Classify(c).etherType,
   dstIP |-> c.remoteIP, srcIP |-> c.localIP, dstPort |-> c.remoteUDP,
   srcPort |-> IF Classify(c).vxlan THEN sport ELSE c.localUDP,
   vni |-> c.vxlan, innerDst |-> c.innerRemote, innerSrc |-> c.innerLocal]

\* EthRxMatch: whether the face of a locator receives a frame.
MatchVlan(c, f) == f.vlan = c.vlan
MatchEtherUnicast(c, f) ==
  /\ f.dst = c.local /\ f.src = c.remote /\ f.etherType = Classify(c).etherType
  /\ MatchVlan(c, f)
MatchEtherMulticast(c, f) == IsMulticast(f.dst) /\ f.etherType = Classify(c).etherType /\ MatchVlan(c, f)
MatchUdp(c, f) == MatchEtherUnicast(c, f) /\ f.srcIP = c.remoteIP /\ f.dstIP = c.localIP
MatchVxlan(c, f) ==
  /\ MatchUdp(c, f)
  /\ f.dstPort = c.localUDP /\ f.vni = c.vxlan
  /\ f.innerDst = c.innerLocal /\ f.innerSrc = c.innerRemote
RxMatch(c, f) ==
  LET k == Classify(c)
  IN CASE k.etherType = "none" -> TRUE
       [] k.multicast -> MatchEtherMulticast(c, f)
       [] k.vxlan     -> MatchVxlan(c, f)
       [] k.udp       -> MatchUdp(c, f) /\ f.srcPort = c.remoteUDP /\ f.dstPort = c.localUDP
       [] OTHER       -> MatchEtherUnicast(c, f)

-----------------------------------------------------------------------------
(* Ports and faces. *)

CONSTANTS
  Dev,         \* Ethernet adapters
  RxQueues,    \* RxFlowQueues of each, or 0 to use RxTable
  MaxRxQueues, \* limit of the driver of each
  MemifLoc,    \* locators of the memif adapters
  Request,     \* goroutines
  FaceLocators,\* the faces that requests create: functions from names to [dev, loc, nRxQueues]
  Loop,        \* RX loops, and TX loops
  NumaSocket,  \* socket of each adapter and loop; 0 matches any
  MaxPorts,    \* bound on port objects
  MayFail,     \* steps that may fail: "pool", "flow", "destroy"
  Orderly      \* whether no request creates a port or face while another deletes an adapter

Face == UNION {DOMAIN fl : fl \in FaceLocators}
PortObj == 1 .. MaxPorts
None == 0
NoLoop == ""

VARIABLES
  FaceLocator,  \* one of FaceLocators
  devs,      \* devices
  memifs,    \* memifCoexist
  ports,     \* ports: Dev -> port object
  obj,       \* the fields of each port object
  nObj,      \* port objects created
  portsMutex,\* the request that holds it, or None
  face,      \* state of each face: port object, RX queues
  rxl, txl,  \* loop -> RX groups, faces
  req,       \* requests
  main,      \* the request the main thread works for
  panic

vars == <<FaceLocator, devs, memifs, ports, obj, nObj, portsMutex, face, rxl, txl, req, main, panic>>

NoPort == [dev |-> "", open |-> FALSE, rxImpl |-> "nil", avail |-> <<>>, lost |-> {}, faces |-> {},
           txl |-> NoLoop, pool |-> FALSE, autoClose |-> FALSE]
NoFace == [state |-> "none", port |-> None, queues |-> <<>>]
Idle == [op |-> "idle", face |-> "", dev |-> "", port |-> None]

Init ==
  /\ FaceLocator \in FaceLocators
  /\ devs = [d \in Dev |-> NoDev(d)]
  /\ memifs = << >>
  /\ ports = [d \in Dev |-> None]
  /\ obj = [p \in PortObj |-> NoPort]
  /\ nObj = 0
  /\ portsMutex = None
  /\ face = [f \in Face |-> NoFace]
  /\ rxl = [l \in Loop |-> {}]
  /\ txl = [l \in Loop |-> {}]
  /\ req = [r \in Request |-> Idle]
  /\ main = None
  /\ panic = FALSE

-----------------------------------------------------------------------------
(* RX and TX loops: iface *)

\* RX groups: one for the table of a port, one for each RX queue of a face.
TableGroup(p) == <<"rxt", p, 0>>
FlowGroups(f, queues) == {<<"rxf", f, q>> : q \in ToSet(queues)}

\* The loops that ActivateRxGroup or ActivateTxFace may choose for a device: the least loaded
\* on its socket, or on any.
Score(loops, l, d) ==
  Cardinality(loops[l]) + (IF NumaSocket[d] \in {0, NumaSocket[l]} \/ NumaSocket[l] = 0 THEN 0 ELSE 1000000)
Least(loops, d) == {l \in Loop : \A k \in Loop : Score(loops, l, d) <= Score(loops, k, d)}
\* ActivateRxGroup for each of several groups; DeactivateRxGroup.
RECURSIVE ActivateRxGroups(_, _, _)
ActivateRxGroups(loops, groups, d) ==
  IF groups = {} THEN {loops}
  ELSE LET g == CHOOSE x \in groups : TRUE
       IN UNION {ActivateRxGroups([loops EXCEPT ![l] = loops[l] \cup {g}], groups \ {g}, d) : l \in Least(loops, d)}
DeactivateRxGroups(loops, groups) == [l \in Loop |-> loops[l] \ groups]

-----------------------------------------------------------------------------
(* New and Close of a port *)

\* What New selects by the driver and by RxFlowQueues.
RxImplOf(d) ==
  CASE Driver[d] = "memif" -> "memif"
    [] OTHER -> IF RxQueues[d] > 0 THEN "flow" ELSE "table"

\* rxImpl.Init: outcomes [ok, dev].  RxMemif starts the device with the face.
rxFlowInit(d, dev) ==
  IF RxQueues[d] > MaxRxQueues[d] THEN {[ok |-> FALSE, dev |-> dev]} ELSE devStart(dev, RxQueues[d])
rxTableInit(d, dev) == devStart(dev, 1)
rxMemifInit(d, dev) == {[ok |-> TRUE, dev |-> dev]}
rxImplInit(d, dev) ==
  CASE RxImplOf(d) = "flow" -> rxFlowInit(d, dev)
    [] RxImplOf(d) = "table" -> rxTableInit(d, dev)
    [] RxImplOf(d) = "memif" -> rxMemifInit(d, dev)

\* Init succeeds: the port is in the table, with every queue available to faces.
PortOpened(d, dev, auto) ==
  /\ nObj' = nObj + 1
  /\ obj' = [obj EXCEPT ![nObj + 1] =
       [NoPort EXCEPT !.dev = d, !.open = TRUE, !.rxImpl = RxImplOf(d), !.autoClose = auto,
                      !.avail = IF RxImplOf(d) = "flow" THEN [q \in 1 .. dev.queues |-> q] ELSE <<>>,
                      !.pool = Driver[d] = "XDP"]]
  /\ ports' = [ports EXCEPT ![d] = nObj + 1]
  /\ devs' = [devs EXCEPT ![d] = dev]
  /\ rxl' \in IF RxImplOf(d) = "table" THEN ActivateRxGroups(rxl, {TableGroup(nObj + 1)}, d) ELSE {rxl}
  /\ UNCHANGED portsMutex

\* New, given the device.
New(r, d, dev, auto) ==
  \/ /\ ~dev.exists \/ ports[d] # None \/ (Driver[d] = "XDP" /\ "pool" \in MayFail)
     /\ devs' = [devs EXCEPT ![d] = dev]
     /\ UNCHANGED <<nObj, obj, ports, rxl, portsMutex>>
  \/ /\ dev.exists /\ ports[d] = None
     /\ \E started \in rxImplInit(d, dev) :
          IF started.ok
          THEN PortOpened(d, started.dev, auto)
          ELSE \* New, which holds portsMutex, calls port.Close, which locks it again
               /\ portsMutex' = r
               /\ devs' = [devs EXCEPT ![d] = started.dev]
               /\ UNCHANGED <<nObj, obj, ports, rxl>>

\* dev.Close; the callback of NewMemif removes the locator from memifCoexist.
CloseDev(d) ==
  /\ devs' \in {[devs EXCEPT ![d] = dev] : dev \in devStop(devs[d], TRUE)}
  /\ memifs' = IF devs[d].exists /\ ~devs'[d].exists /\ Driver[d] = "memif"
               THEN coexistRemove(memifs, MemifLoc[d]) ELSE memifs

\* closeWithPortsMutex: refuses while there are faces.
closeWithPortsMutex(p) ==
  IF obj[p].faces # {} \/ ~obj[p].open
  THEN UNCHANGED <<obj, devs, memifs, ports, rxl>>
  ELSE /\ obj' = [obj EXCEPT ![p].open = FALSE, ![p].rxImpl = "nil", ![p].pool = FALSE]
       /\ CloseDev(obj[p].dev)
       /\ ports' = [ports EXCEPT ![obj[p].dev] = None]
       /\ rxl' = DeactivateRxGroups(rxl, {TableGroup(p)})

-----------------------------------------------------------------------------
(* Requests about ports *)

\* createEthPort
CreateEthPort(r, d) ==
  /\ req[r].op = "idle" /\ portsMutex = None /\ nObj < MaxPorts
  /\ Orderly => \A q \in Request : req[q].op # "delete"
  /\ \E dev \in CreateEthDev(d, devs[d]) : New(r, d, dev, FALSE)
  /\ req' = IF portsMutex' = r THEN [req EXCEPT ![r].op = "stuck"] ELSE req
  /\ UNCHANGED <<memifs, face, txl, main, panic>>

\* delete of an EthDev: Find, then Close of the port found, or of a device without port.
DeleteEthDevFind(r, d) ==
  /\ req[r].op = "idle" /\ portsMutex = None /\ devs[d].exists
  /\ Orderly => \A q \in Request : req[q].op = "idle"
  /\ req' = [req EXCEPT ![r] = [Idle EXCEPT !.op = "delete", !.dev = d, !.port = ports[d]]]
  /\ UNCHANGED <<devs, memifs, ports, obj, nObj, portsMutex, face, rxl, txl, main, panic>>

DeleteEthDev(r) ==
  /\ req[r].op = "delete"
  /\ IF req[r].port = None
     THEN CloseDev(req[r].dev) /\ UNCHANGED <<obj, ports, rxl>>
     ELSE portsMutex = None /\ closeWithPortsMutex(req[r].port)
  /\ req' = [req EXCEPT ![r] = Idle]
  /\ UNCHANGED <<nObj, portsMutex, face, txl, main, panic>>

-----------------------------------------------------------------------------
(* Creating a face *)

DevOf(f) == FaceLocator[f].dev
Creating(q, f) == req[q].op \in {"new", "init", "start"} /\ req[q].face = f
Unused(f) == face[f].state = "none" /\ \A q \in Request : ~Creating(q, f)

\* CreateFace of ether, udpe and vxlan: FindPort, and NewFace reads port.dev.
FindPort(r, f) ==
  /\ req[r].op = "idle" /\ Unused(f) /\ portsMutex = None
  /\ Orderly => \A q \in Request : req[q].op # "delete"
  /\ Driver[DevOf(f)] # "memif" /\ Validate(FaceLocator[f].loc)
  /\ req' = [req EXCEPT ![r] = IF ports[DevOf(f)] = None THEN Idle
                               ELSE [Idle EXCEPT !.op = "new", !.face = f, !.port = ports[DevOf(f)]]]
  /\ UNCHANGED <<devs, memifs, ports, obj, nObj, portsMutex, face, rxl, txl, main, panic>>

\* CreateFace of memif: NewMemif, and New with AutoClose.
CreateMemif(r, f) ==
  /\ req[r].op = "idle" /\ Unused(f) /\ portsMutex = None /\ nObj < MaxPorts
  /\ Orderly => \A q \in Request : req[q].op # "delete"
  /\ Driver[DevOf(f)] = "memif"
  /\ coexistCheck(memifs, MemifLoc[DevOf(f)])
  /\ memifs' = coexistAdd(memifs, MemifLoc[DevOf(f)])
  /\ New(r, DevOf(f), [devs[DevOf(f)] EXCEPT !.exists = TRUE], TRUE)
  /\ req' = [req EXCEPT ![r] = [Idle EXCEPT !.op = "new", !.face = f, !.port = nObj + 1]]
  /\ UNCHANGED <<face, txl, main, panic>>

\* iface.New: the main thread allocates the face and calls Init.
FaceInit(r) ==
  LET f == req[r].face  p == req[r].port
      conflict == \E other \in obj[p].faces :
                    ~CanCoexist(EthCLocator(FaceLocator[f].loc), EthCLocator(FaceLocator[other].loc))
  IN /\ req[r].op = "new" /\ main = None
     /\ IF ~obj[p].open
        THEN panic' = TRUE /\ UNCHANGED <<req, main, face>>     \* port.dev is nil
        ELSE /\ UNCHANGED panic
             /\ IF conflict
                THEN req' = [req EXCEPT ![r] = Idle] /\ UNCHANGED <<main, face>>
                ELSE /\ req' = [req EXCEPT ![r].op = "start"]
                     /\ main' = r
                     /\ face' = [face EXCEPT ![f] = [NoFace EXCEPT !.state = "init", !.port = p]]
     /\ UNCHANGED <<devs, memifs, ports, obj, nObj, portsMutex, rxl, txl>>

\* What rxImpl.Start takes for the face: RX queues, or <<>> if there are too few.
Needed(f) == Max({1, FaceLocator[f].nRxQueues})
StartQueues(f, p) ==
  CASE obj[p].rxImpl = "flow"  -> IF Needed(f) > Len(obj[p].avail) THEN <<>> ELSE SubSeq(obj[p].avail, 1, Needed(f))
    [] obj[p].rxImpl = "memif" -> <<1>>
    [] OTHER -> <<>>

\* Start: rxImpl.Start, then activateTx: all faces of a port are in one TX loop.
activateTx(f, p) ==
  \E l \in IF obj[p].txl = NoLoop THEN Least(txl, obj[p].dev) ELSE {obj[p].txl} :
    /\ txl' = [txl EXCEPT ![l] = @ \cup {f}]
    /\ obj' = [obj EXCEPT ![p].txl = l, ![p].faces = @ \cup {f},
                          ![p].avail = SubSeq(obj[p].avail, Len(StartQueues(f, p)) + 1, Len(obj[p].avail))]

FaceStart(r) ==
  LET f == req[r].face  p == req[r].port
      queues == StartQueues(f, p)
      groups == IF obj[p].rxImpl = "table" THEN {} ELSE FlowGroups(f, queues)
  IN /\ main = r /\ req[r].op = "start" /\ obj[p].open
     /\ obj[p].rxImpl = "flow" => queues # <<>>
     /\ face' = [face EXCEPT ![f].state = "up", ![f].queues = queues]
     /\ rxl' \in ActivateRxGroups(rxl, groups, obj[p].dev)
     /\ activateTx(f, p)
     /\ obj[p].rxImpl = "memif" => \E started \in devStart(devs[obj[p].dev], 1) :
                                   started.ok /\ devs' = [devs EXCEPT ![obj[p].dev] = started.dev]
     /\ obj[p].rxImpl # "memif" => UNCHANGED devs
     /\ req' = [req EXCEPT ![r] = Idle]
     /\ main' = None
     /\ UNCHANGED <<memifs, ports, nObj, portsMutex, panic>>

\* No queue left, the NIC refuses the flow, or the memif device does not start: the face is cleared.
FaceStartFails(r) ==
  LET f == req[r].face  p == req[r].port
  IN /\ main = r /\ req[r].op = "start" /\ obj[p].open
     /\ \/ obj[p].rxImpl = "flow" /\ (StartQueues(f, p) = <<>> \/ "flow" \in MayFail)
        \/ obj[p].rxImpl = "memif" /\ \E started \in devStart(devs[obj[p].dev], 1) : ~started.ok
     /\ face' = [face EXCEPT ![f] = NoFace]
     /\ req' = [req EXCEPT ![r] = Idle]
     /\ main' = None
     /\ UNCHANGED <<devs, memifs, ports, obj, nObj, portsMutex, rxl, txl, panic>>

\* The port was closed between Init and Start: rxImpl is nil.
FaceStartPanics(r) ==
  /\ main = r /\ req[r].op = "start" /\ ~obj[req[r].port].open
  /\ panic' = TRUE
  /\ UNCHANGED <<devs, memifs, ports, obj, nObj, portsMutex, face, rxl, txl, req, main>>

-----------------------------------------------------------------------------
(* Closing a face *)

\* What rxImpl.Stop returns to the port: the queues of the face, unless the flow cannot be destroyed.
Stopped(f, p, destroyed) ==
  [obj[p] EXCEPT !.faces = @ \ {f},
                 !.avail = IF obj[p].rxImpl = "flow" /\ destroyed THEN @ \o face[f].queues ELSE @,
                 !.lost = IF obj[p].rxImpl = "flow" /\ ~destroyed THEN @ \cup ToSet(face[f].queues) ELSE @]

deactivateTx(f, p) == IF p.faces = {} THEN [p EXCEPT !.txl = NoLoop] ELSE p

\* face.Close on the main thread: Stop, clear, and the Close callback, which may close the port.
FaceStop(r, f) ==
  LET p == face[f].port
  IN /\ req[r].op = "idle" /\ main = None /\ face[f].state = "up"
     /\ \E destroyed \in IF "destroy" \in MayFail THEN BOOLEAN ELSE {TRUE} :
          obj' = [obj EXCEPT ![p] = deactivateTx(f, Stopped(f, p, destroyed))]
     /\ rxl' = DeactivateRxGroups(rxl, FlowGroups(f, face[f].queues))
     /\ txl' = [l \in Loop |-> txl[l] \ {f}]
     /\ face' = [face EXCEPT ![f] = NoFace]
     /\ IF obj[p].autoClose /\ obj[p].faces = {f}
        THEN main' = r /\ req' = [req EXCEPT ![r] = [Idle EXCEPT !.op = "autoclose", !.port = p]]
        ELSE UNCHANGED <<main, req>>
     /\ UNCHANGED <<devs, memifs, ports, nObj, portsMutex, panic>>

AutoClose(r) ==
  /\ main = r /\ req[r].op = "autoclose" /\ portsMutex = None
  /\ closeWithPortsMutex(req[r].port)
  /\ req' = [req EXCEPT ![r] = Idle]
  /\ main' = None
  /\ UNCHANGED <<nObj, portsMutex, face, txl, panic>>

-----------------------------------------------------------------------------
Proceed(r) == DeleteEthDev(r) \/ FaceInit(r) \/ FaceStart(r) \/ FaceStartFails(r) \/ FaceStartPanics(r) \/ AutoClose(r)

Next ==
  /\ ~panic
  /\ UNCHANGED FaceLocator
  /\ \E r \in Request :
       \/ \E d \in {DevOf(f) : f \in DOMAIN FaceLocator} : CreateEthPort(r, d) \/ DeleteEthDevFind(r, d)
       \/ \E f \in DOMAIN FaceLocator : FindPort(r, f) \/ CreateMemif(r, f) \/ FaceStop(r, f)
       \/ Proceed(r)

Spec == Init /\ [][Next]_vars

-----------------------------------------------------------------------------
(* Properties *)

Up == {f \in Face : face[f].state = "up"}

\* An RX queue of a port with RxFlow is available, or belongs to one face, or was lost with a
\* flow that could not be destroyed; never two of them, whatever the order of starts and stops.
QueuesOwned ==
  \A p \in PortObj : obj[p].rxImpl = "flow" =>
    LET used == {f \in Up : face[f].port = p}
        all == Len(obj[p].avail) + Cardinality(obj[p].lost) + MapThenSumSet(LAMBDA f : Len(face[f].queues), used)
    IN /\ all = RxQueues[obj[p].dev]
       /\ ToSet(obj[p].avail) \cup obj[p].lost \cup UNION {ToSet(face[f].queues) : f \in used} = 1 .. RxQueues[obj[p].dev]

\* A face that is up is on an open port whose device is running, is known to the port, and
\* is served: each of its RX queues by one RX loop, its output queue by one TX loop,
\* the same for all faces of a port, because two threads may not use its TX queue at once.
\* An XDP adapter, which receives from channel 0 only, has no other channel.
FacesServed ==
  \A f \in Up :
    LET p == face[f].port
        groups == IF obj[p].rxImpl = "table" THEN {TableGroup(p)} ELSE FlowGroups(f, face[f].queues)
    IN /\ obj[p].open /\ f \in obj[p].faces /\ ports[obj[p].dev] = p
       /\ devs[obj[p].dev].exists /\ devs[obj[p].dev].queues > 0
       /\ Driver[obj[p].dev] = "XDP" => devs[obj[p].dev].nif.rx <= 1
       /\ \A g \in groups : Cardinality({l \in Loop : g \in rxl[l]}) = 1
       /\ Cardinality({l \in Loop : f \in txl[l]}) = 1
       /\ \A g \in Up : face[g].port = p => \A l \in Loop : f \in txl[l] <=> g \in txl[l]

\* A frame received on a port is accepted by at most one of its faces, so that the order of
\* the faces in EthRxTable does not matter.  Frames are those that some locator's remote
\* side sends.
Mirror(c) ==
  [c EXCEPT !.local = c.remote, !.remote = c.local, !.localIP = c.remoteIP, !.remoteIP = c.localIP,
            !.localUDP = c.remoteUDP, !.remoteUDP = c.localUDP,
            !.innerLocal = c.innerRemote, !.innerRemote = c.innerLocal]
C(f) == EthCLocator(FaceLocator[f].loc)
Frames ==
  {TxHdr(Mirror(C(f)), sport) : f \in {g \in DOMAIN FaceLocator : Driver[DevOf(g)] # "memif"}, sport \in {VxlanPort, VxlanPort + 1}}
OneReceiver ==
  \A p \in PortObj : \A frame \in Frames :
    Cardinality({f \in obj[p].faces : obj[p].rxImpl # "memif" /\ RxMatch(C(f), frame)}) <= 1

\* CoexistMap knows exactly the memif devices that exist, so that a locator is refused when and
\* only when a device has it.
CoexistAgrees ==
  LET existing == {d \in Dev : Driver[d] = "memif" /\ devs[d].exists}
  IN /\ DOMAIN memifs = {MemifLoc[d].socketName : d \in existing}
     /\ \A d \in existing : memifs[MemifLoc[d].socketName].role = MemifLoc[d].role
     /\ \A s \in DOMAIN memifs : memifs[s].ids = {MemifLoc[d].id : d \in {e \in existing : MemifLoc[e].socketName = s}}
=============================================================================

-------------------------- MODULE FaceLifeProofs --------------------------
(***************************************************************************)
(* No thread of the data plane touches the memory of a face after          *)
(* face.close freed it, for any set of faces of any kind, any number of    *)
(* creations and any queue length, provided that no ID is reused.          *)
(*                                                                         *)
(* The argument is that of RCU.  A reader that holds a face either still   *)
(* finds it on the list it traverses, or face.close is in the step after   *)
(* it took the face off that list and the grace period begun there still   *)
(* waits for this reader (Reading).  The memory is freed in face.clear,    *)
(* after both barriers, when no reader holds the face.                     *)
(***************************************************************************)
EXTENDS FaceLife, FiniteSetTheorems, TLAPS

-----------------------------------------------------------------------------
(* The inductive invariant                                                 *)

Pcs == {"idle", "init", "startrx", "starttx", "publish", "stoprx", "stoptx", "clear", "closed"}
States == {"unused", "up", "down", "removed"}

\* The type of every variable the argument is about.
Types ==
  /\ face \in [ID -> [state : States, impl : Nat, ring : Nat]]
  /\ gFaces \subseteq ID
  /\ heap \in [impl : SUBSET Nat, ring : SUBSET Nat, made : Nat, twice : BOOLEAN]
  /\ main \in [pc : Pcs, f : ID \cup {None}]
  /\ main.f = None <=> main.pc = "idle"
  /\ rxList \subseteq ID /\ txList \subseteq ID /\ known \subseteq ID /\ bad \subseteq ID
  /\ tr \in [ID -> [st : {"none", "up", "down", "closed"}, rx : BOOLEAN, closing : BOOLEAN]]
  /\ {rxAt, txAt, fwdAt} \subseteq ID \cup {None}
  /\ wait \subseteq Reader

\* The faces whose memory is allocated, in whole or in part.
Holders == gFaces \cup (IF main.pc \in {"idle", "closed"} THEN {} ELSE {main.f})

\* A FaceImpl is named by the creation it belongs to, an output queue by its
\* FaceImpl, and no two faces share one; an ID never used points to nothing.
Numbered ==
  /\ \A f \in ID : IF Used(f) THEN face[f].impl \in 1 .. heap.made /\ face[f].ring \in {None, face[f].impl}
                   ELSE face[f].ring = None /\ tr[f].st = "none"
  /\ \A f, g \in ID : Used(f) /\ Used(g) /\ face[f].impl = face[g].impl => f = g
  /\ main.pc = "init" => face[main.f].impl = heap.made

\* What is allocated is what the holders point to.
Owned ==
  /\ \A f \in Holders : Used(f)
  /\ heap.impl = {face[f].impl : f \in Holders}
  /\ heap.ring = {face[f].ring : f \in Holders} \ {None}
  /\ ~heap.twice
  /\ \A f \in gFaces : face[f].ring # None

\* Where newFace and close stand, and what they have done by then.
Phase ==
  /\ main.pc \in {"init", "startrx", "starttx", "publish", "closed"} => main.f \notin gFaces
  /\ main.pc \in {"stoprx", "stoptx"} => main.f \in gFaces
  /\ main.pc = "init" => face[main.f].ring = None
  /\ main.pc \in {"startrx", "starttx", "publish"} => face[main.f].ring # None

\* The lists the RxLoop and the TxLoop traverse name faces that have memory; the
\* face under creation or closing is on a list only between its start and stop.
Listed ==
  /\ \A f \in rxList : /\ ~IsSocket(f) /\ f \in Holders /\ face[f].ring # None
                       /\ f = main.f => main.pc \in {"starttx", "publish", "stoprx"}
  /\ \A f \in txList : /\ f \in Holders /\ face[f].ring # None
                       /\ f = main.f => main.pc \in {"publish", "stoprx", "stoptx"}

\* A reader that holds a face found it before it was unlinked, or is waited for.
Reading ==
  /\ rxAt # None /\ ~IsSocket(rxAt) =>
       \/ rxAt \in rxList
       \/ rxAt = main.f /\ main.pc = "stoptx" /\ "rx" \in wait
  /\ txAt # None =>
       \/ txAt \in txList
       \/ txAt = main.f /\ main.pc = "clear" /\ "tx" \in wait /\ face[txAt].ring # None
  /\ fwdAt # None /\ ~IsSocket(fwdAt) =>
       /\ fwdAt \in known
       /\ \/ face[fwdAt].state = "up"
          \/ fwdAt = main.f /\ main.pc = "stoprx"
          \/ fwdAt = main.f /\ main.pc = "stoptx" /\ "fwd" \in wait

\* Only a face that received a packet, or was published, is known to the tables.
Known ==
  \A f \in known : ~IsSocket(f) =>
    /\ face[f].ring # None
    /\ f = main.f /\ face[f].state = "up" => main.pc \in {"starttx", "publish"}

\* An Ethernet face has no socket transport; while up it has memory, and it is
\* down from the first step of close on.
Ether ==
  \A f \in ID : ~IsSocket(f) =>
    /\ tr[f].st = "none" /\ ~tr[f].rx
    /\ face[f].state = "up" => f \in Holders
    /\ f = main.f /\ main.pc \in {"stoprx", "stoptx"} => face[f].state = "down"

\* The inductive invariant.
IInv == Types /\ Numbered /\ Owned /\ Phase /\ Listed /\ Reading /\ Known /\ Ether /\ NoUseAfterFree

-----------------------------------------------------------------------------
(* The readers                                                             *)

\* A step of a reader leaves what concerns the memory and its owners as it was.
LEMMA MemoryKept ==
  ASSUME Numbered, Owned, Phase, Listed, Ether,
         UNCHANGED <<face, gFaces, heap, main, rxList, txList, tr>>
  PROVE  Numbered' /\ Owned' /\ Phase' /\ Listed' /\ Ether'
<1>1. Holders' = Holders
  BY DEF Holders
<1>2. Numbered'
  BY DEF Numbered, Used
<1>3. Owned'
  BY <1>1 DEF Owned, Used
<1>4. Phase'
  BY DEF Phase
<1>5. Listed'
  BY <1>1 DEF Listed, IsSocket
<1>6. Ether'
  BY <1>1 DEF Ether, IsSocket
<1>7. QED
  BY <1>2, <1>3, <1>4, <1>5, <1>6

\* Before the first face is created the invariant holds.
LEMMA InitIInv == Init => IInv
<1> SUFFICES ASSUME Init PROVE IInv
  OBVIOUS
<1> USE FaceLifeAssumption DEF Init
<1>1. Types
  BY DEF Types, Pcs, States, Reader, None
<1>2. Holders = {}
  BY DEF Holders
<1>3. Numbered
  BY DEF Numbered, Used
<1>4. Owned
  BY <1>2 DEF Owned
<1>5. Phase /\ Listed /\ Reading /\ Known /\ NoUseAfterFree
  BY DEF Phase, Listed, Reading, Known, NoUseAfterFree
<1>6. Ether
  BY DEF Ether
<1>7. QED
  BY <1>1, <1>3, <1>4, <1>5, <1>6 DEF IInv

\* The FaceImpl of a holder is allocated, and so is its output queue if it has one.
LEMMA HoldersOwn ==
  ASSUME Owned, NEW f \in Holders
  PROVE  /\ face[f].impl \in heap.impl
         /\ face[f].ring # None => face[f].ring \in heap.ring
BY DEF Owned

\* RxLoop_Transfer receives a frame for a face.
LEMMA RxBurstKeeps ==
  ASSUME IInv, NEW f \in ID, RxBurst(f)
  PROVE  IInv'
<1> USE FaceLifeAssumption DEF IInv
<1>1. UNCHANGED <<face, gFaces, heap, main, rxList, txList, tr>>
  BY DEF RxBurst, readers
<1>2. Numbered' /\ Owned' /\ Phase' /\ Listed' /\ Ether'
  BY <1>1, MemoryKept
<1>3. Types'
  BY SMTT(30) DEF RxBurst, Types, Touch, readers
<1>4. Reading'
  BY DEF RxBurst, Types, Reading, Listed, Owned, IsSocket, Used, readers, Reader
<1>5. Known'
  BY DEF RxBurst, Types, Known, Listed, Reading, Ether, IsSocket, readers, Phase, Owned
<1>6. NoUseAfterFree'
  BY HoldersOwn
  DEF RxBurst, Types, NoUseAfterFree, Touch, Listed, Reading, Ether, Known, IsSocket, readers, Phase, Holders
<1>7. QED
  BY <1>2, <1>3, <1>4, <1>5, <1>6, SMTT(30)

\* ... and passes it to RxProc_Input, through the FaceImpl.
LEMMA RxInputKeeps ==
  ASSUME IInv, RxInput
  PROVE  IInv'
<1> USE FaceLifeAssumption DEF IInv
<1>1. UNCHANGED <<face, gFaces, heap, main, rxList, txList, tr>>
  BY DEF RxInput, readers
<1>2. Numbered' /\ Owned' /\ Phase' /\ Listed' /\ Ether'
  BY <1>1, MemoryKept
<1>3. Types'
  BY DEF RxInput, Types, Touch, readers
<1>4. Reading'
  BY DEF RxInput, Types, Reading, Listed, Owned, IsSocket, Used, readers, Reader
<1>5. Known'
  BY DEF RxInput, Types, Known, Listed, Reading, Ether, IsSocket, readers, Phase, Owned
<1>6. NoUseAfterFree'
  BY HoldersOwn, SMTT(30)
  DEF RxInput, Types, NoUseAfterFree, Touch, Listed, Reading, Ether, Known, IsSocket, readers, Phase, Holders
<1>7. QED
  BY <1>2, <1>3, <1>4, <1>5, <1>6, SMTT(30)

\* The goroutine of a socket face puts a frame in the ring all socket faces share.
LEMMA SocketRxKeeps ==
  ASSUME IInv, NEW f \in ID, SocketRx(f)
  PROVE  IInv'
<1> USE FaceLifeAssumption DEF IInv
<1>1. UNCHANGED <<face, gFaces, heap, main, rxList, txList, tr>>
  BY DEF SocketRx, readers
<1>2. Numbered' /\ Owned' /\ Phase' /\ Listed' /\ Ether'
  BY <1>1, MemoryKept
<1>3. Types'
  BY ZenonT(40) DEF SocketRx, Types, Touch, readers
<1>4. Reading'
  BY DEF SocketRx, Types, Reading, Listed, Owned, IsSocket, Used, readers, Reader
<1>5. Known'
  BY DEF SocketRx, Types, Known, Listed, Reading, Ether, IsSocket, readers, Phase, Owned
<1>6. NoUseAfterFree'
  BY HoldersOwn
  DEF SocketRx, Types, NoUseAfterFree, Touch, Listed, Reading, Ether, Known, IsSocket, readers, Phase, Holders
<1>7. QED
  BY <1>2, <1>3, <1>4, <1>5, <1>6

\* TxLoop_Run comes to a face of its list.
LEMMA TxPickKeeps ==
  ASSUME IInv, NEW f \in ID, TxPick(f)
  PROVE  IInv'
<1> USE FaceLifeAssumption DEF IInv
<1>1. UNCHANGED <<face, gFaces, heap, main, rxList, txList, tr>>
  BY DEF TxPick, readers
<1>2. Numbered' /\ Owned' /\ Phase' /\ Listed' /\ Ether'
  BY <1>1, MemoryKept
<1>3. Types'
  BY DEF TxPick, Types, Touch, readers
<1>4. Reading'
  BY DEF TxPick, Types, Reading, Listed, Owned, IsSocket, Used, readers, Reader
<1>5. Known'
  BY DEF TxPick, Types, Known, Listed, Reading, Ether, IsSocket, readers, Phase, Owned
<1>6. NoUseAfterFree'
  BY HoldersOwn, SMTT(30)
  DEF TxPick, Types, NoUseAfterFree, Touch, Listed, Reading, Ether, Known, IsSocket, readers, Phase, Holders
<1>7. QED
  BY <1>2, <1>3, <1>4, <1>5, <1>6

\* ... and takes packets from its output queue.
LEMMA TxTransferKeeps ==
  ASSUME IInv, TxTransfer
  PROVE  IInv'
<1> USE FaceLifeAssumption DEF IInv
<1>1. UNCHANGED <<face, gFaces, heap, main, rxList, txList, tr>>
  BY DEF TxTransfer, readers
<1>2. Numbered' /\ Owned' /\ Phase' /\ Listed' /\ Ether'
  BY <1>1, MemoryKept
<1>3. Types'
  BY DEF TxTransfer, Types, Touch, readers
<1>4. Reading'
  BY DEF TxTransfer, Types, Reading, Listed, Owned, IsSocket, Used, readers, Reader
<1>5. Known'
  BY DEF TxTransfer, Types, Known, Listed, Reading, Ether, IsSocket, readers, Phase, Owned
<1>6. NoUseAfterFree'
  BY HoldersOwn, SMTT(30)
  DEF TxTransfer, Types, NoUseAfterFree, Touch, Listed, Reading, Ether, Known, IsSocket, readers, Phase, Holders
<1>7. QED
  BY <1>2, <1>3, <1>4, <1>5, <1>6

\* A forwarding thread finds the face up in Face_TxBurst.
LEMMA FwdCheckKeeps ==
  ASSUME IInv, NEW f \in ID, FwdCheck(f)
  PROVE  IInv'
<1> USE FaceLifeAssumption DEF IInv
<1>1. UNCHANGED <<face, gFaces, heap, main, rxList, txList, tr>>
  BY DEF FwdCheck, readers
<1>2. Numbered' /\ Owned' /\ Phase' /\ Listed' /\ Ether'
  BY <1>1, MemoryKept
<1>3. Types'
  BY DEF FwdCheck, Types, Touch, readers
<1>4. Reading'
  BY DEF FwdCheck, Types, Reading, Listed, Owned, IsSocket, Used, readers, Reader
<1>5. Known'
  BY DEF FwdCheck, Types, Known, Listed, Reading, Ether, IsSocket, readers, Phase, Owned
<1>6. NoUseAfterFree'
  BY HoldersOwn, SMTT(30)
  DEF FwdCheck, Types, NoUseAfterFree, Touch, Listed, Reading, Ether, Known, IsSocket, readers, Phase, Holders
<1>7. QED
  BY <1>2, <1>3, <1>4, <1>5, <1>6

\* ... and enqueues on its output queue.
LEMMA FwdEnqueueKeeps ==
  ASSUME IInv, FwdEnqueue
  PROVE  IInv'
<1> USE FaceLifeAssumption DEF IInv
<1>1. UNCHANGED <<face, gFaces, heap, main, rxList, txList, tr>>
  BY DEF FwdEnqueue, readers
<1>2. Numbered' /\ Owned' /\ Phase' /\ Listed' /\ Ether'
  BY <1>1, MemoryKept
<1>3. Types'
  BY DEF FwdEnqueue, Types, Touch, readers
<1>4. Reading'
  BY DEF FwdEnqueue, Types, Reading, Listed, Owned, IsSocket, Used, readers, Reader
<1>5. Known'
  BY DEF FwdEnqueue, Types, Known, Listed, Reading, Ether, IsSocket, readers, Phase, Owned
<1>6. NoUseAfterFree'
  BY HoldersOwn
  DEF FwdEnqueue, Types, NoUseAfterFree, Touch, Listed, Reading, Ether, Known, IsSocket, readers, Phase, Holders
<1>7. QED
  BY <1>2, <1>3, <1>4, <1>5, <1>6

\* A reader holding no face reports a quiescent state.
LEMMA QuiescentKeeps ==
  ASSUME IInv, NEW r \in Reader, Quiescent(r)
  PROVE  IInv'
<1> USE FaceLifeAssumption DEF IInv
<1>1. UNCHANGED <<face, gFaces, heap, main, rxList, txList, tr>>
  BY DEF Quiescent, readers
<1>2. Numbered' /\ Owned' /\ Phase' /\ Listed' /\ Ether'
  BY <1>1, MemoryKept
<1>3. Types'
  BY DEF Quiescent, Types, Touch, readers
<1>4. Reading'
  BY DEF Quiescent, Types, Reading, Listed, Owned, IsSocket, Used, readers, Reader
<1>5. Known'
  BY DEF Quiescent, Types, Known, Listed, Reading, Ether, IsSocket, readers, Phase, Owned
<1>6. NoUseAfterFree'
  BY HoldersOwn
  DEF Quiescent, Types, NoUseAfterFree, Touch, Listed, Reading, Ether, Known, IsSocket, readers, Phase, Holders
<1>7. QED
  BY <1>2, <1>3, <1>4, <1>5, <1>6, SMTT(30)

-----------------------------------------------------------------------------
(* newFace and close                                                       *)

\* newFace allocates the FaceImpl of an ID not used before.
LEMMA NewFaceKeeps ==
  ASSUME ~ReuseIDs, IInv, NEW f \in ID, NewFace(f)
  PROVE  IInv'
<1> USE FaceLifeAssumption DEF IInv, readers
<1>0. /\ main.pc = "idle" /\ f \notin gFaces /\ ~Used(f) /\ face[f].ring = None
      /\ face' \in [ID -> [state : States, impl : Nat, ring : Nat]]
      /\ face'[f] = [state |-> "up", impl |-> heap.made + 1, ring |-> None]
      /\ \A g \in ID \ {f} : face'[g] = face[g]
      /\ heap' = [heap EXCEPT !.made = heap.made + 1, !.impl = heap.impl \cup {heap.made + 1}]
      /\ main' = [pc |-> "init", f |-> f]
      /\ UNCHANGED <<gFaces, rxList, txList, tr, rxAt, txAt, fwdAt, wait, known, bad>>
  <2>1. main.pc = "idle" /\ f \notin gFaces /\ ~Used(f) /\ face[f].ring = None
    BY DEF NewFace, AllocID, Numbered
  <2>2. face' = [face EXCEPT ![f].state = "up", ![f].impl = heap.made + 1]
    BY DEF NewFace
  <2>3. heap.made \in Nat /\ face \in [ID -> [state : States, impl : Nat, ring : Nat]]
    BY DEF Types
  <2>4. \A g \in ID \ {f} : face'[g] = face[g]
    BY <2>2, <2>3
  <2>5. face'[f] = [state |-> "up", impl |-> heap.made + 1, ring |-> None]
    BY <2>1, <2>2, <2>3, ZenonT(40)
  <2>6. face' \in [ID -> [state : States, impl : Nat, ring : Nat]]
    <3>1. face'[f] \in [state : States, impl : Nat, ring : Nat]
      BY <2>3, <2>5 DEF States, None
    <3>2. QED
      BY <2>2, <2>3, <2>4, <3>1
  <2>7. QED
    BY <2>1, <2>4, <2>5, <2>6, SMTT(30) DEF NewFace
<1>1. Types'
  <2>1. heap' \in [impl : SUBSET Nat, ring : SUBSET Nat, made : Nat, twice : BOOLEAN]
    <3>1. heap.made \in Nat /\ heap.impl \subseteq Nat /\ heap.made + 1 \in Nat
      BY DEF Types
    <3>2. heap.impl \cup {heap.made + 1} \in SUBSET Nat
      BY <3>1
    <3>3. QED
      BY <1>0, <3>1, <3>2, Zenon DEF Types
  <2>2. QED
    BY <1>0, <2>1 DEF Types, Pcs
<1>2. Numbered'
  <2>1. heap'.made = heap.made + 1 /\ heap.made \in Nat
    BY <1>0 DEF Types
  <2>2. \A g \in ID : Used(g) => face[g].impl \in 1 .. heap.made
    BY DEF Numbered
  <2>3. \A g \in ID \ {f} : Used(g)' <=> Used(g)
    BY <1>0 DEF Used
  <2>4. QED
    BY <1>0, <2>1, <2>2, <2>3, SMTT(30) DEF Numbered
<1>3. Holders = gFaces /\ Holders' = gFaces \cup {f}
  BY <1>0 DEF Holders
<1>4. Owned'
  <2>1. \A g \in Holders' : Used(g)'
    BY <1>0, <1>3 DEF Owned, Used, Types
  <2>2. heap.impl' = {face[g].impl : g \in Holders}'
    <3>1. \A g \in gFaces : face'[g] = face[g]
      BY <1>0 DEF Types
    <3>2. {face'[g].impl : g \in gFaces \cup {f}} = {face'[g].impl : g \in gFaces} \cup {face'[f].impl}
      OBVIOUS
    <3>3. {face'[g].impl : g \in gFaces} = {face[g].impl : g \in gFaces}
      BY <3>1
    <3>4. heap'.impl = heap.impl \cup {heap.made + 1} /\ face'[f].impl = heap.made + 1
      BY <1>0 DEF Types
    <3>5. QED
      BY <1>3, <3>2, <3>3, <3>4, Zenon DEF Owned
  <2>3. heap.ring' = {face[g].ring : g \in Holders}' \ {None}
    <3>1. \A g \in gFaces : face'[g] = face[g]
      BY <1>0 DEF Types
    <3>2. {face'[g].ring : g \in gFaces \cup {f}} = {face'[g].ring : g \in gFaces} \cup {face'[f].ring}
      OBVIOUS
    <3>3. {face'[g].ring : g \in gFaces} = {face[g].ring : g \in gFaces}
      BY <3>1
    <3>4. heap'.ring = heap.ring /\ face'[f].ring = None
      BY <1>0 DEF Types
    <3>5. QED
      BY <1>3, <3>2, <3>3, <3>4, Zenon DEF Owned
  <2>4. (~heap.twice)' /\ \A g \in gFaces' : (face[g].ring # None)'
    BY <1>0, SMTT(30) DEF Owned, Types
  <2>5. QED
    BY <2>1, <2>2, <2>3, <2>4, SMTT(30) DEF Owned
<1>5. Phase'
  BY <1>0 DEF Phase
<1>6. Listed'
  BY <1>0, <1>3 DEF Listed, Owned, Used, Types, IsSocket
<1>7. Reading'
  BY <1>0, <1>3, SMTT(30) DEF Reading, Listed, Types, IsSocket, Owned, Used
<1>8. Known'
  BY <1>0 DEF Known, Types, IsSocket
<1>9. Ether'
  BY <1>0, <1>3 DEF Ether, Types, IsSocket
<1>10. NoUseAfterFree'
  BY <1>0 DEF NoUseAfterFree, IsSocket
<1>11. QED
  BY <1>1, <1>2, <1>4, <1>5, <1>6, <1>7, <1>8, <1>9, <1>10, SMTT(30)

\* newFace allocates the output queue, or fails.
LEMMA NewQueueKeeps ==
  ASSUME IInv, NEW fails \in BOOLEAN, NewQueue(fails)
  PROVE  IInv'
<1> USE FaceLifeAssumption DEF IInv, readers
<1>0. main.pc = "init" /\ main.f \in ID
  BY DEF NewQueue, Types
<1>1. CASE fails
  <2>1. main' = [main EXCEPT !.pc = "clear"] /\ UNCHANGED <<face, heap, gFaces, rxList, txList, tr, rxAt, txAt, fwdAt, wait, known, bad>>
    BY <1>1 DEF NewQueue
  <2>2. main' \in [pc : Pcs, f : ID \cup {None}] /\ main'.pc = "clear" /\ main'.f = main.f
    BY <2>1 DEF Types, Pcs
  <2>3. Types'
    BY <2>1, <2>2, <1>0 DEF Types
  <2>4. Holders' = Holders
    BY <2>1, <2>2, <1>0 DEF Holders
  <2>5. Numbered' /\ Phase'
    BY <2>1, <2>2 DEF Numbered, Used, Phase
  <2>6. Owned'
    BY <2>1, <2>4 DEF Owned, Used
  <2>7. Listed' /\ Reading'
    BY <2>1, <2>2, <2>4, <1>0 DEF Listed, Reading, IsSocket
  <2>8. Known' /\ Ether' /\ NoUseAfterFree'
    BY <2>1, <2>2, <2>4, <1>0 DEF Known, Ether, NoUseAfterFree, IsSocket, Phase
  <2>9. QED
    BY <2>3, <2>5, <2>6, <2>7, <2>8
<1>2. CASE ~fails
  <2>0. heap.made \in Nat \ {0} /\ face[main.f].impl = heap.made /\ Used(main.f) /\ main.f \in Holders
    BY <1>0 DEF Numbered, Owned, Types, Holders
  <2>1. /\ face' \in [ID -> [state : States, impl : Nat, ring : Nat]]
        /\ face'[main.f] = [state |-> face[main.f].state, impl |-> heap.made, ring |-> heap.made]
        /\ \A g \in ID \ {main.f} : face'[g] = face[g]
        /\ heap' = [heap EXCEPT !.ring = heap.ring \cup {heap.made}]
        /\ main' = [pc |-> "startrx", f |-> main.f]
        /\ UNCHANGED <<gFaces, rxList, txList, tr, rxAt, txAt, fwdAt, wait, known, bad>>
    BY <1>0, <1>2, <2>0, SMTT(30) DEF NewQueue, Types, States
  <2>2. Types'
    BY <2>1, <1>0, <2>0, Zenon DEF Types, Pcs
  <2>3. Numbered'
    <3>1. heap'.made = heap.made /\ face'[main.f].impl = face[main.f].impl /\ face'[main.f].ring = heap.made
      BY <2>0, <2>1 DEF Types
    <3>2. \A g \in ID : (Used(g)' <=> Used(g)) /\ face'[g].impl = face[g].impl
      BY <1>0, <2>0, <2>1 DEF Used
    <3>3. QED
      BY <1>0, <2>0, <2>1, <3>1, <3>2, SMTT(30) DEF Numbered
  <2>4. Holders' = Holders
    BY <2>1, <1>0 DEF Holders
  <2>5. Owned'
    <3>1. \A g \in Holders : Used(g)' /\ face'[g].impl = face[g].impl
      BY <2>1, <2>0 DEF Owned, Used, Holders, Types
    <3>2. {face'[g].ring : g \in Holders} = {face[g].ring : g \in Holders \ {main.f}} \cup {heap.made}
      <4>1. \A g \in Holders \ {main.f} : face'[g].ring = face[g].ring
        BY <2>1 DEF Holders, Types
      <4>2. face'[main.f].ring = heap.made
        BY <2>1
      <4>3. QED
        BY <4>1, <4>2, <2>0
    <3>3. {face[g].ring : g \in Holders \ {main.f}} \ {None} = {face[g].ring : g \in Holders} \ {None}
      BY <1>0 DEF Phase
    <3>4. heap'.ring = heap.ring \cup {heap.made} /\ heap'.impl = heap.impl /\ heap'.twice = heap.twice
      BY <2>1 DEF Types
    <3>5. heap'.ring = {face'[g].ring : g \in Holders} \ {None}
      BY <3>2, <3>3, <3>4, <2>0, Zenon DEF Owned, None
    <3>6. heap'.impl = {face'[g].impl : g \in Holders}
      BY <3>1, <3>4 DEF Owned
    <3>7. \A g \in gFaces' : (face[g].ring # None)'
      BY <2>1, <2>0 DEF Owned, Types, None
    <3>8. QED
      BY <2>4, <3>1, <3>4, <3>5, <3>6, <3>7, Zenon DEF Owned
  <2>6. Phase'
    BY <2>1, <1>0, <2>0 DEF Phase, None
  <2>7. Listed' /\ Reading'
    BY <2>1, <2>4, <1>0 DEF Listed, Reading, IsSocket, Types
  <2>8. Known' /\ Ether'
    <3>1. main.f \notin known \/ IsSocket(main.f)
      BY <1>0 DEF Known, Phase
    <3>2. Known'
      BY <2>1, <3>1 DEF Known, IsSocket, Types
    <3>3. Ether'
      BY <1>0, <2>1, <2>4 DEF Ether, IsSocket
    <3>4. QED
      BY <3>2, <3>3
  <2>9. NoUseAfterFree'
    BY <2>1 DEF NoUseAfterFree, IsSocket
  <2>10. QED
    BY <2>2, <2>3, <2>5, <2>6, <2>7, <2>8, <2>9, SMTT(30)
<1>3. QED
  BY <1>1, <1>2

\* The face joins an RX group (Start of the scheme).
LEMMA StartRxKeeps ==
  ASSUME IInv, NEW fails \in BOOLEAN, StartRx(fails)
  PROVE  IInv'
<1> USE FaceLifeAssumption DEF IInv, readers
<1>1. Types'
  <2>1. tr' \in [ID -> [st : {"none", "up", "down", "closed"}, rx : BOOLEAN, closing : BOOLEAN]]
    <3>1. CASE IsSocket(main.f)
      <4>1. PICK st \in {"up", "down"} : tr' = [tr EXCEPT ![main.f] = [st |-> st, rx |-> ~fails, closing |-> FALSE]]
        BY <3>1 DEF StartRx, addFace
      <4>2. QED
        BY <4>1, Zenon DEF Types
    <3>2. CASE ~IsSocket(main.f)
      BY <3>2 DEF StartRx, Types
    <3>3. QED
      BY <3>1, <3>2
  <2>2. main' \in [pc : Pcs, f : ID \cup {None}] /\ main'.pc \in {"clear", "starttx"} /\ main'.f = main.f
    BY DEF StartRx, Types, Pcs
  <2>3. rxList' \subseteq ID
    BY DEF StartRx, addFace, Types
  <2>4. QED
    BY <2>1, <2>2, <2>3 DEF StartRx, Types
<1> USE <1>1
<1>2. Numbered'
  BY DEF StartRx, addFace, Types, Numbered, Used, Phase, None
<1>3. Owned'
  BY DEF StartRx, addFace, Types, Numbered, Owned, Used, Phase, Holders, None
<1>4. Phase'
  BY DEF StartRx, addFace, Types, Phase, Owned, Used, Holders, Numbered, None
<1>5. Listed'
  BY DEF StartRx, addFace, Types, Listed, Owned, Phase, Used, Holders, IsSocket
<1>6. Reading'
  BY DEF StartRx, addFace, Types, Reading, Listed, Owned, Known, IsSocket, Used, Reader, Holders, Ether
<1>7. Known'
  BY DEF StartRx, addFace, Types, Known, Listed, Reading, Ether, IsSocket, Phase, Owned, Holders, Used, Numbered
<1>8. Ether'
  BY DEF StartRx, addFace, Types, Ether, IsSocket, Holders, Phase
<1>9. NoUseAfterFree'
  BY DEF StartRx, NoUseAfterFree, IsSocket
<1>10. QED
  BY <1>2, <1>3, <1>4, <1>5, <1>6, <1>7, <1>8, <1>9, SMTT(30)

\* The face joins a TxLoop (ActivateTxFace).
LEMMA StartTxKeeps ==
  ASSUME IInv, StartTx
  PROVE  IInv'
<1> USE FaceLifeAssumption DEF IInv, readers
<1>1. Types'
  BY DEF StartTx, Types, Pcs, States, Reader, None
<1> USE <1>1
<1>2. Numbered'
  BY DEF StartTx, Types, Numbered, Used, Phase, None
<1>3. Owned'
  BY DEF StartTx, Types, Numbered, Owned, Used, Phase, Holders, None
<1>4. Phase'
  BY DEF StartTx, Types, Phase, Owned, Used, Holders, Numbered, None
<1>5. Listed'
  BY DEF StartTx, Types, Listed, Owned, Phase, Used, Holders, IsSocket
<1>6. Reading'
  BY DEF StartTx, Types, Reading, Listed, Owned, Known, IsSocket, Used, Reader, Holders, Ether
<1>7. Known'
  BY DEF StartTx, Types, Known, Listed, Reading, Ether, IsSocket, Phase, Owned, Holders, Used, Numbered
<1>8. Ether'
  BY DEF StartTx, Types, Ether, IsSocket, Holders, Phase
<1>9. NoUseAfterFree'
  BY SMTT(30) DEF StartTx, NoUseAfterFree, IsSocket
<1>10. QED
  BY <1>2, <1>3, <1>4, <1>5, <1>6, <1>7, <1>8, <1>9, SMTT(30)

\* newFace enters the face in gFaces, where Get finds it.
LEMMA PublishKeeps ==
  ASSUME IInv, Publish
  PROVE  IInv'
<1> USE FaceLifeAssumption DEF IInv, readers
<1>1. Types'
  BY DEF Publish, Types, Pcs, States, Reader, None
<1> USE <1>1
<1>2. Numbered'
  BY DEF Publish, Types, Numbered, Used, Phase, None
<1>3. Owned'
  BY DEF Publish, Types, Numbered, Owned, Used, Phase, Holders, None
<1>4. Phase'
  BY DEF Publish, Types, Phase, Owned, Used, Holders, Numbered, None
<1>5. Listed'
  BY DEF Publish, Types, Listed, Owned, Phase, Used, Holders, IsSocket
<1>6. Reading'
  BY DEF Publish, Types, Reading, Listed, Owned, Known, IsSocket, Used, Reader, Holders, Ether
<1>7. Known'
  BY DEF Publish, Types, Known, Listed, Reading, Ether, IsSocket, Phase, Owned, Holders, Used, Numbered
<1>8. Ether'
  BY DEF Publish, Types, Ether, IsSocket, Holders, Phase
<1>9. NoUseAfterFree'
  BY DEF Publish, NoUseAfterFree, IsSocket
<1>10. QED
  BY <1>2, <1>3, <1>4, <1>5, <1>6, <1>7, <1>8, <1>9

\* face.close marks the face down.
LEMMA CloseKeeps ==
  ASSUME IInv, NEW f \in ID, Close(f)
  PROVE  IInv'
<1> USE FaceLifeAssumption DEF IInv, readers
<1>1. Types'
  BY DEF Close, Types, Pcs, States, Reader, None
<1> USE <1>1
<1>2. Numbered'
  <2>1. \A g \in ID : /\ face'[g].impl = face[g].impl /\ face'[g].ring = face[g].ring
                      /\ Used(g)' <=> Used(g)
    BY DEF Close, Types, Used, Owned, Holders
  <2>2. QED
    BY <2>1 DEF Close, Numbered
<1>3. Owned'
  BY DEF Close, Types, Numbered, Owned, Used, Phase, Holders, None
<1>4. Phase'
  BY DEF Close, Types, Phase, Owned, Used, Holders, Numbered, None
<1>5. Listed'
  BY DEF Close, Types, Listed, Owned, Phase, Used, Holders, IsSocket
<1>6. Reading'
  BY DEF Close, Types, Reading, Listed, Owned, Known, IsSocket, Used, Reader, Holders, Ether
<1>7. Known'
  BY DEF Close, Types, Known, Listed, Reading, Ether, IsSocket, Phase, Owned, Holders, Used, Numbered
<1>8. Ether'
  BY DEF Close, Types, Ether, IsSocket, Holders, Phase
<1>9. NoUseAfterFree'
  BY SMTT(30) DEF Close, NoUseAfterFree, IsSocket
<1>10. QED
  BY <1>2, <1>3, <1>4, <1>5, <1>6, <1>7, <1>8, <1>9, SMTT(30)

\* The face leaves its RX group, and a grace period begins.
LEMMA StopRxKeeps ==
  ASSUME IInv, StopRx
  PROVE  IInv'
<1> USE FaceLifeAssumption DEF IInv, readers
<1>1. Types'
  BY DEF StopRx, Barrier, Types, Pcs, States, Reader, None
<1> USE <1>1
<1>2. Numbered'
  BY DEF StopRx, Barrier, Types, Numbered, Used, Phase, None
<1>3. Owned'
  BY DEF StopRx, Barrier, Types, Numbered, Owned, Used, Phase, Holders, None
<1>4. Phase'
  BY DEF StopRx, Barrier, Types, Phase, Owned, Used, Holders, Numbered, None
<1>5. Listed'
  BY DEF StopRx, Barrier, Types, Listed, Owned, Phase, Used, Holders, IsSocket
<1>6. Reading'
  BY DEF StopRx, Barrier, Types, Reading, Listed, Owned, Known, IsSocket, Used, Reader, Holders, Ether
<1>7. Known'
  BY DEF StopRx, Barrier, Types, Known, Listed, Reading, Ether, IsSocket, Phase, Owned, Holders, Used, Numbered
<1>8. Ether'
  BY DEF StopRx, Barrier, Types, Ether, IsSocket, Holders, Phase
<1>9. NoUseAfterFree'
  BY SMTT(30) DEF StopRx, NoUseAfterFree, IsSocket
<1>10. QED
  BY <1>2, <1>3, <1>4, <1>5, <1>6, <1>7, <1>8, <1>9

\* The grace period is over; the face leaves its TxLoop and another begins.
LEMMA StopTxKeeps ==
  ASSUME IInv, StopTx
  PROVE  IInv'
<1> USE FaceLifeAssumption DEF IInv, readers
<1>1. Types'
  BY DEF StopTx, Barrier, Types, Pcs, States, Reader, None
<1> USE <1>1
<1>2. Numbered'
  BY DEF StopTx, Barrier, Types, Numbered, Used, Phase, None
<1>3. Owned'
  BY DEF StopTx, Barrier, Types, Numbered, Owned, Used, Phase, Holders, None
<1>4. Phase'
  BY DEF StopTx, Barrier, Types, Phase, Owned, Used, Holders, Numbered, None
<1>5. Listed'
  BY DEF StopTx, Barrier, Types, Listed, Owned, Phase, Used, Holders, IsSocket
<1>6. Reading'
  BY DEF StopTx, Barrier, Types, Reading, Listed, Owned, Known, IsSocket, Used, Reader, Holders, Ether
<1>7. Known'
  BY DEF StopTx, Barrier, Types, Known, Listed, Reading, Ether, IsSocket, Phase, Owned, Holders, Used, Numbered
<1>8. Ether'
  BY DEF StopTx, Barrier, Types, Ether, IsSocket, Holders, Phase
<1>9. NoUseAfterFree'
  BY DEF StopTx, NoUseAfterFree, IsSocket
<1>10. QED
  BY <1>2, <1>3, <1>4, <1>5, <1>6, <1>7, <1>8, <1>9

\* The grace period is over; face.clear frees the memory of the face.
LEMMA ClearKeeps ==
  ASSUME IInv, Clear
  PROVE  IInv'
<1> USE FaceLifeAssumption DEF IInv, readers
<1>0. main.pc = "clear" /\ wait = {} /\ main.f \in ID /\ main.f \in Holders
  BY DEF Clear, Types, Holders
<1>1. /\ heap' \in [impl : SUBSET Nat, ring : SUBSET Nat, made : Nat, twice : BOOLEAN]
      /\ heap'.impl = heap.impl \ {face[main.f].impl} /\ heap'.ring = heap.ring \ {face[main.f].ring}
      /\ heap'.made = heap.made
      /\ heap'.twice <=> heap.twice \/ (face[main.f].ring # None /\ face[main.f].ring \notin heap.ring)
  BY Zenon DEF Clear, Types
<1>2. /\ face' \in [ID -> [state : States, impl : Nat, ring : Nat]]
      /\ \A g \in ID : /\ face'[g].impl = face[g].impl /\ face'[g].ring = face[g].ring
                       /\ face'[g].state = IF g = main.f THEN "removed" ELSE face[g].state
  BY <1>0 DEF Clear, Types, States
<1>3. /\ gFaces' = gFaces \ {main.f}
      /\ main' \in [pc : Pcs, f : ID \cup {None}] /\ main'.pc = "closed" /\ main'.f = main.f
      /\ UNCHANGED <<rxList, txList, tr, rxAt, txAt, fwdAt, wait, known, bad>>
  BY DEF Clear, Types, Pcs
<1>4. Types'
  BY <1>0, <1>1, <1>2, <1>3, SMTT(30) DEF Types
<1>5. \A g \in ID : Used(g)' <=> Used(g)
  BY <1>0, <1>2, SMTT(30) DEF Used, Owned
<1>6. Numbered'
  BY <1>1, <1>2, <1>3, <1>5, SMTT(30) DEF Numbered
<1>7. Holders' = Holders \ {main.f} /\ Holders \subseteq ID
  BY <1>0, <1>3, SMTT(30) DEF Holders, Types
<1>8. Owned'
  <2>1. \A g \in Holders' : Used(g)' /\ face'[g].impl # face[main.f].impl
                            /\ (face[g].ring # None => face[g].ring # face[main.f].ring)
    BY <1>0, <1>2, <1>5, <1>7, SMTT(30) DEF Owned, Numbered
  <2>2. heap'.impl = {face'[g].impl : g \in Holders'}
    BY <1>0, <1>1, <1>2, <1>7, <2>1, SMTT(30) DEF Owned
  <2>3. heap'.ring = {face'[g].ring : g \in Holders'} \ {None}
    BY <1>0, <1>1, <1>2, <1>7, <2>1, SMTT(30) DEF Owned
  <2>4. ~heap'.twice
    BY <1>0, <1>1, HoldersOwn DEF Owned
  <2>5. QED
    BY <1>2, <1>3, <2>1, <2>2, <2>3, <2>4, SMTT(30) DEF Owned, Types
<1>9. Phase'
  BY <1>3 DEF Phase
<1>10. Listed'
  BY <1>0, <1>2, <1>3, <1>7, SMTT(30) DEF Listed, IsSocket
<1>11. Reading'
  <2>1. rxAt # main.f \/ IsSocket(rxAt)
    BY <1>0 DEF Reading, Listed, Types
  <2>2. txAt # main.f
    BY <1>0 DEF Reading, Listed, Types
  <2>3. fwdAt # main.f \/ IsSocket(fwdAt)
    BY <1>0 DEF Reading, Known, Types
  <2>4. QED
    BY <1>0, <1>2, <1>3, <2>1, <2>2, <2>3, SMTT(30) DEF Reading, IsSocket, Types
<1>12. Known'
  BY <1>0, <1>2, <1>3, SMTT(30) DEF Known, IsSocket, Types
<1>13. Ether'
  BY <1>0, <1>2, <1>3, <1>7, SMTT(30) DEF Ether, IsSocket
<1>14. NoUseAfterFree'
  BY <1>3, SMTT(30) DEF NoUseAfterFree, IsSocket
<1>15. QED
  BY <1>4, <1>6, <1>8, <1>9, <1>10, <1>11, <1>12, <1>13, <1>14, SMTT(30)

\* The Close callback closes the transport of a socket face.
LEMMA ClosedKeeps ==
  ASSUME IInv, Closed
  PROVE  IInv'
<1> USE FaceLifeAssumption DEF IInv, readers
<1>1. Types'
  BY SMTT(30) DEF Closed, Types, Pcs, States, Reader, None
<1> USE <1>1
<1>2. Numbered'
  BY DEF Closed, Types, Numbered, Used, Phase, None
<1>3. Owned'
  BY DEF Closed, Types, Numbered, Owned, Used, Phase, Holders, None
<1>4. Phase'
  BY DEF Closed, Types, Phase, Owned, Used, Holders, Numbered, None
<1>5. Listed'
  BY DEF Closed, Types, Listed, Owned, Phase, Used, Holders, IsSocket
<1>6. Reading'
  BY DEF Closed, Types, Reading, Listed, Owned, Known, IsSocket, Used, Reader, Holders, Ether
<1>7. Known'
  BY DEF Closed, Types, Known, Listed, Reading, Ether, IsSocket, Phase, Owned, Holders, Used, Numbered
<1>8. Ether'
  BY DEF Closed, Types, Ether, IsSocket, Holders, Phase
<1>9. NoUseAfterFree'
  BY SMTT(30) DEF Closed, NoUseAfterFree, IsSocket
<1>10. QED
  BY <1>2, <1>3, <1>4, <1>5, <1>6, <1>7, <1>8, <1>9

\* The transport of a socket face goes down, and comes up again.
LEMMA RedialKeeps ==
  ASSUME IInv, NEW f \in ID, Redial(f)
  PROVE  IInv'
<1> USE FaceLifeAssumption DEF IInv, readers
<1>1. Types'
  BY DEF Redial, SetDown, Types, Pcs, States, Reader, None
<1> USE <1>1
<1>0. \A g \in ID : /\ face'[g].impl = face[g].impl /\ face'[g].ring = face[g].ring
                    /\ Used(g)' <=> Used(g)
  BY DEF Redial, SetDown, Types, Used, Numbered
<1>2. Numbered'
  <2>1. \A g \in ID : tr[g].st = "none" => tr'[g].st = "none"
    BY DEF Redial, Types
  <2>2. UNCHANGED <<heap, main>> /\ main.f \in ID \cup {None}
    BY DEF Redial, Types
  <2>3. main.pc = "init" => main.f \in ID
    BY DEF Types
  <2>4. QED
    BY <1>0, <2>1, <2>2, <2>3, SMTT(30) DEF Numbered
<1>3. Owned'
  <2>1. Holders' = Holders /\ Holders \subseteq ID /\ UNCHANGED <<heap, gFaces>>
    BY DEF Redial, Holders, Types
  <2>2. QED
    BY <1>0, <2>1 DEF Owned, Types
<1>4. Phase'
  BY DEF Redial, SetDown, Types, Phase, Owned, Used, Holders, Numbered, None
<1>5. Listed'
  BY DEF Redial, SetDown, Types, Listed, Owned, Phase, Used, Holders, IsSocket
<1>6. Reading'
  BY DEF Redial, SetDown, Types, Reading, Listed, Owned, Known, IsSocket, Used, Reader, Holders, Ether
<1>7. Known'
  BY DEF Redial, SetDown, Types, Known, Listed, Reading, Ether, IsSocket, Phase, Owned, Holders, Used, Numbered
<1>8. Ether'
  BY DEF Redial, SetDown, Types, Ether, IsSocket, Holders, Phase
<1>9. NoUseAfterFree'
  BY SMTT(30) DEF Redial, NoUseAfterFree, IsSocket
<1>10. QED
  BY <1>2, <1>3, <1>4, <1>5, <1>6, <1>7, <1>8, <1>9

\* The transport of a socket face has closed.
LEMMA TransportClosedKeeps ==
  ASSUME IInv, NEW f \in ID, TransportClosed(f)
  PROVE  IInv'
<1> USE FaceLifeAssumption DEF IInv, readers
<1>1. Types'
  BY DEF TransportClosed, SetDown, Types, Pcs, States, Reader, None
<1> USE <1>1
<1>0. \A g \in ID : /\ face'[g].impl = face[g].impl /\ face'[g].ring = face[g].ring
                    /\ Used(g)' <=> Used(g)
  BY SMTT(30) DEF TransportClosed, SetDown, Types, Used, Numbered
<1>2. Numbered'
  <2>1. \A g \in ID : tr[g].st = "none" => tr'[g].st = "none"
    BY DEF TransportClosed, Types
  <2>2. UNCHANGED <<heap, main>> /\ main.f \in ID \cup {None}
    BY DEF TransportClosed, Types
  <2>3. main.pc = "init" => main.f \in ID
    BY DEF Types
  <2>4. QED
    BY <1>0, <2>1, <2>2, <2>3 DEF Numbered
<1>3. Owned'
  <2>1. Holders' = Holders /\ Holders \subseteq ID /\ UNCHANGED <<heap, gFaces>>
    BY DEF TransportClosed, Holders, Types
  <2>2. QED
    BY <1>0, <2>1 DEF Owned, Types
<1>4. Phase'
  BY DEF TransportClosed, SetDown, Types, Phase, Owned, Used, Holders, Numbered, None
<1>5. Listed'
  BY DEF TransportClosed, SetDown, Types, Listed, Owned, Phase, Used, Holders, IsSocket
<1>6. Reading'
  BY DEF TransportClosed, SetDown, Types, Reading, Listed, Owned, Known, IsSocket, Used, Reader, Holders, Ether
<1>7. Known'
  BY DEF TransportClosed, SetDown, Types, Known, Listed, Reading, Ether, IsSocket, Phase, Owned, Holders, Used, Numbered
<1>8. Ether'
  BY DEF TransportClosed, SetDown, Types, Ether, IsSocket, Holders, Phase
<1>9. NoUseAfterFree'
  BY DEF TransportClosed, NoUseAfterFree, IsSocket
<1>10. QED
  BY <1>2, <1>3, <1>4, <1>5, <1>6, <1>7, <1>8, <1>9

(* Every step of every thread keeps the invariant. *)
\* Every step of any thread keeps the invariant.
LEMMA NextKeeps ==
  ASSUME ~ReuseIDs, IInv, [Next]_vars
  PROVE  IInv'
<1>1. CASE UNCHANGED vars
  <2> USE <1>1 DEF vars, IInv
  <2>1. Numbered' /\ Owned' /\ Phase' /\ Listed' /\ Ether'
    BY MemoryKept
  <2>2. Types'
    BY DEF Types
  <2>3. Reading'
    BY SMTT(30) DEF Reading, IsSocket
  <2>4. Known' /\ NoUseAfterFree'
    BY DEF Known, NoUseAfterFree, IsSocket
  <2>5. QED
    BY <2>1, <2>2, <2>3, <2>4, SMTT(30)
<1>2. CASE Main
  BY <1>2, NewFaceKeeps, NewQueueKeeps, StartRxKeeps, StartTxKeeps, PublishKeeps, CloseKeeps,
     StopRxKeeps, StopTxKeeps, ClearKeeps, ClosedKeeps, SMTT(30) DEF Main
<1>3. CASE Next /\ ~Main
  BY <1>3, RxBurstKeeps, RxInputKeeps, SocketRxKeeps, TxPickKeeps, TxTransferKeeps, FwdCheckKeeps,
     FwdEnqueueKeeps, QuiescentKeeps, RedialKeeps, TransportClosedKeeps, SMTT(30) DEF Next
<1>4. QED
  BY <1>1, <1>2, <1>3

\* Between operations there are as many FaceImpls as faces.
LEMMA OneEach ==
  ASSUME IInv, main.pc = "idle"
  PROVE  Cardinality(heap.impl) = Cardinality(gFaces)
<1> DEFINE h == [f \in gFaces |-> face[f].impl]
<1>1. Holders = gFaces /\ gFaces \subseteq ID
  BY DEF IInv, Holders, Types
<1>2. h \in Bijection(gFaces, heap.impl)
  <2>1. heap.impl = {face[f].impl : f \in gFaces}
    BY <1>1 DEF IInv, Owned
  <2>2. h \in [gFaces -> heap.impl]
    BY <2>1
  <2>3. \A a, b \in gFaces : h[a] = h[b] => a = b
    BY <1>1 DEF IInv, Owned, Numbered
  <2>4. \A k \in heap.impl : \E f \in gFaces : h[f] = k
    BY <2>1
  <2>5. h \in Injection(gFaces, heap.impl) /\ h \in Surjection(gFaces, heap.impl)
    BY <2>2, <2>3, <2>4 DEF Injection, Surjection, IsInjective
  <2>6. QED
    BY <2>5 DEF Bijection
<1>3. IsFiniteSet(heap.impl)
  <2>1. heap.impl \subseteq 1 .. heap.made
    BY <1>1 DEF IInv, Owned, Numbered
  <2>2. IsFiniteSet(1 .. heap.made)
    BY FS_Interval DEF IInv, Types
  <2>3. QED
    BY <2>1, <2>2, FS_Subset, Zenon
<1>4. IsFiniteSet(gFaces)
  BY <1>2, <1>3, FS_Injection DEF ExistsInjection, Bijection
<1>5. QED
  BY <1>2, <1>4, FS_Bijection DEF ExistsBijection

\* The invariant implies the property.
LEMMA IInvFaceMemory == IInv => FaceMemory
<1> SUFFICES ASSUME IInv PROVE FaceMemory
  OBVIOUS
<1>1. MemoryOwned
  <2>1. \A f \in rxList \cup txList : face[f].impl \in heap.impl /\ face[f].ring \in heap.ring
    BY HoldersOwn DEF IInv, Listed
  <2>2. ASSUME main.pc = "idle"
        PROVE  heap.impl = {face[f].impl : f \in gFaces} /\ heap.ring = {face[f].ring : f \in gFaces}
    <3>1. Holders = gFaces
      BY <2>2 DEF Holders
    <3>2. None \notin {face[f].ring : f \in gFaces}
      BY DEF IInv, Owned
    <3>3. QED
      BY <3>1, <3>2 DEF IInv, Owned
  <2>3. QED
    BY <2>1, <2>2, OneEach, Zenon DEF MemoryOwned, IInv, Owned
<1>2. NonexistentIsDown
  BY DEF NonexistentIsDown, IInv, Ether, Holders
<1>3. QED
  BY <1>1, <1>2 DEF FaceMemory, IInv

\* As long as AllocID chooses no ID a second time: no RxLoop, TxLoop or forwarding
\* thread that found an Ethernet face touches its FaceImpl or output queue after
\* face.close freed them; each is owned by one existing face and freed once; and a
\* face that does not exist is down (newFace, face.close, face.clear, IsDown).
THEOREM FacesOwnTheirMemory == ~ReuseIDs /\ Spec => []FaceMemory
<1> SUFFICES ASSUME ~ReuseIDs PROVE Spec => []FaceMemory
  OBVIOUS
<1>1. Init => IInv
  BY InitIInv
<1>2. IInv /\ [Next]_vars => IInv'
  BY NextKeeps
<1>3. QED
  BY <1>1, <1>2, IInvFaceMemory, PTL DEF Spec
=============================================================================

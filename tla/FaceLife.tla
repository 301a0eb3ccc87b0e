-------------------------------- MODULE FaceLife --------------------------------
(***************************************************************************)
(* Creating and closing faces while packets flow (iface/face.go, rxloop.go, *)
(* txloop.go, csrc/iface/face.h, rxloop.c, txloop.c, and the Start, Stop    *)
(* and Close callbacks of iface/ethport and iface/socketface).              *)
(*                                                                          *)
(* The main thread runs newFace and close; an RxLoop and a TxLoop traverse  *)
(* RCU lists of the faces; a forwarding thread calls Face_TxBurst.  These   *)
(* three are QSBR readers: urcu.Barrier is a grace period, which ends after *)
(* each of them has been quiescent.  A FaceImpl and an output queue are     *)
(* named by the creation they belong to; C.Face keeps its pointers after    *)
(* they are freed, as face.clear does.  A C.Face is reused with its ID.     *)
(***************************************************************************)
EXTENDS Integers, Sequences, FiniteSets, SequencesExt

CONSTANTS
  ID,        \* face IDs
  SchemeOf,  \* of each face: "table" (one RX group, a list of faces), "flow" (an
             \* RX group per face) or "socket" (one ring for all faces)
  ReuseIDs,  \* whether AllocID may choose the ID of a closed face
  MayFail,   \* whether the creation of a face may fail
  MaxFaces,  \* bound: faces created
  MaxQueue   \* bound: packets in an output queue, frames in the socket ring

None == 0 \* no face, no object: neither is numbered 0

ASSUME FaceLifeAssumption ==
  /\ None \notin ID
  /\ SchemeOf \in [ID -> {"table", "flow", "socket"}]
  /\ {ReuseIDs, MayFail} \subseteq BOOLEAN
  /\ {MaxFaces, MaxQueue} \subseteq Nat \ {0}

VARIABLES
  face,     \* gFaces of C: state, pointers to FaceImpl and output queue
  gFaces,   \* gFaces of Go: IDs that Get finds
  heap,     \* the FaceImpls and output queues allocated, and freed twice
  queue,    \* packets in each output queue
  main,     \* the main thread
  rxList,   \* faces the RxLoop reaches
  txList,   \* faces the TxLoop reaches
  rxg,      \* the RX group of the socket faces and its ring
  tr,       \* the transport of each socket face; closing: its TX channel is closed
  rxAt,     \* the RxLoop: the frame in its hands
  txAt,     \* the TxLoop: the face in its hands
  fwdAt,    \* the forwarding thread: the face that was up
  wait,     \* readers a barrier waits for
  known,    \* IDs a FIB entry or a PIT record may name
  bad       \* faces of which a thread has touched freed memory

vars == <<face, gFaces, heap, queue, main, rxList, txList, rxg, tr, rxAt, txAt, fwdAt, wait, known, bad>>
readers == <<rxAt, txAt, fwdAt>>

Reader == {"rx", "tx", "fwd"}
Creation == 1 .. MaxFaces

Init ==
  /\ face = [f \in ID |-> [state |-> "unused", impl |-> None, ring |-> None]]
  /\ gFaces = {}
  /\ heap = [impl |-> {}, ring |-> {}, made |-> 0, twice |-> FALSE]
  /\ queue = [k \in Creation |-> 0]
  /\ main = [pc |-> "idle", f |-> None]
  /\ rxList = {} /\ txList = {}
  /\ rxg = [nFaces |-> 0, open |-> FALSE, ring |-> <<>>]
  /\ tr = [f \in ID |-> [st |-> "none", rx |-> FALSE, closing |-> FALSE]]
  /\ rxAt = None /\ txAt = None /\ fwdAt = None
  /\ wait = {}
  /\ known = {}
  /\ bad = {}

Used(f) == face[f].state # "unused"
IsSocket(f) == SchemeOf[f] = "socket"

\* urcu.Barrier: the main thread goes on once every reader was quiescent.
Barrier == wait' = Reader

-----------------------------------------------------------------------------
(* newFace and close, on the main thread *)

AllocID(f) == f \notin gFaces /\ (Used(f) => ReuseIDs)

\* newFace up to the Init callback: the face is up from here on.
NewFace(f) ==
  /\ main.pc = "idle" /\ heap.made < MaxFaces
  /\ AllocID(f)
  /\ LET k == heap.made + 1 IN
       /\ face' = [face EXCEPT ![f].state = "up", ![f].impl = k]
       /\ heap' = [heap EXCEPT !.made = k, !.impl = @ \cup {k}]
  /\ main' = [pc |-> "init", f |-> f]
  /\ UNCHANGED <<gFaces, queue, rxList, txList, rxg, tr, readers, wait, known, bad>>

\* The Init callback and the creation of the output queue, and either failing.
NewQueue(fails) ==
  /\ main.pc = "init"
  /\ fails => MayFail
  /\ IF fails THEN /\ main' = [main EXCEPT !.pc = "clear"]
                   /\ UNCHANGED <<face, heap>>
     ELSE /\ face' = [face EXCEPT ![main.f].ring = heap.made]
          /\ heap' = [heap EXCEPT !.ring = @ \cup {heap.made}]
          /\ main' = [main EXCEPT !.pc = "startrx"]
  /\ UNCHANGED <<gFaces, queue, rxList, txList, rxg, tr, readers, wait, known, bad>>

\* A socket face subscribes to its transport's state, which may have gone down
\* before, and joins the RX group; only the creation of the shared ring can fail.
addFace(f, fails) ==
  /\ fails => rxg.nFaces = 0
  /\ \E st \in {"up", "down"} : tr' = [tr EXCEPT ![f] = [st |-> st, rx |-> ~fails, closing |-> FALSE]]
  /\ rxg' = IF fails THEN rxg ELSE [rxg EXCEPT !.nFaces = @ + 1, !.open = TRUE]
  /\ UNCHANGED rxList

\* The Start callback: the face is made known to the RxLoop.  The creation of a flow
\* can fail.
StartRx(fails) ==
  /\ main.pc = "startrx"
  /\ fails => MayFail /\ SchemeOf[main.f] # "table"
  /\ main' = [main EXCEPT !.pc = IF fails THEN "clear" ELSE "starttx"]
  /\ IF IsSocket(main.f)
     THEN addFace(main.f, fails)
     ELSE /\ rxList' = IF fails THEN rxList ELSE rxList \cup {main.f}
          /\ UNCHANGED <<rxg, tr>>
  /\ UNCHANGED <<face, gFaces, heap, queue, txList, readers, wait, known, bad>>

\* ... and to the TxLoop (ActivateTxFace), and then found by Get.
StartTx ==
  /\ main.pc = "starttx"
  /\ txList' = txList \cup {main.f}
  /\ main' = [main EXCEPT !.pc = "publish"]
  /\ UNCHANGED <<face, gFaces, heap, queue, rxList, rxg, tr, readers, wait, known, bad>>

Publish ==
  /\ main.pc = "publish"
  /\ gFaces' = gFaces \cup {main.f}
  /\ known' = known \cup {main.f}
  /\ main' = [pc |-> "idle", f |-> None]
  /\ UNCHANGED <<face, heap, queue, rxList, txList, rxg, tr, readers, wait, bad>>

\* Mutant: the face is not marked down before it is stopped.
MutCloseStaysUp(f) ==
  /\ main.pc = "idle" /\ f \in gFaces
  /\ main' = [pc |-> "stoprx", f |-> f]
  /\ UNCHANGED <<face, gFaces, heap, queue, rxList, txList, rxg, tr, readers, wait, known, bad>>

Close(f) ==
  /\ main.pc = "idle" /\ f \in gFaces
  /\ face' = [face EXCEPT ![f].state = "down"]
  /\ main' = [pc |-> "stoprx", f |-> f]
  /\ UNCHANGED <<gFaces, heap, queue, rxList, txList, rxg, tr, readers, wait, known, bad>>

\* The Stop callback: off the RxLoop's list, then a barrier; of the socket
\* faces only the last takes the RX group off.
StopRx ==
  /\ main.pc = "stoprx"
  /\ IF IsSocket(main.f)
     THEN /\ rxg' = [rxg EXCEPT !.nFaces = @ - 1]
          /\ IF rxg.nFaces = 1 THEN Barrier ELSE wait' = {}
          /\ UNCHANGED rxList
     ELSE /\ rxList' = rxList \ {main.f}
          /\ Barrier
          /\ UNCHANGED rxg
  /\ main' = [main EXCEPT !.pc = "stoptx"]
  /\ UNCHANGED <<face, gFaces, heap, queue, txList, tr, readers, known, bad>>

\* The barrier over, the socket RX group is freed with its ring; the face goes
\* off the TxLoop's list, then there is a barrier.
StopTx ==
  /\ main.pc = "stoptx" /\ wait = {}
  /\ rxg' = IF IsSocket(main.f) /\ rxg.nFaces = 0
            THEN [rxg EXCEPT !.open = FALSE, !.ring = <<>>] ELSE rxg
  /\ txList' = txList \ {main.f}
  /\ Barrier
  /\ main' = [main EXCEPT !.pc = "clear"]
  /\ UNCHANGED <<face, gFaces, heap, queue, rxList, tr, readers, known, bad>>

\* face.clear frees what the C.Face points to and leaves the pointers alone.
Clear ==
  /\ main.pc = "clear" /\ wait = {}
  /\ LET c == face[main.f] IN
       heap' = [heap EXCEPT !.impl = @ \ {c.impl}, !.ring = @ \ {c.ring},
                            !.twice = @ \/ (c.ring # None /\ c.ring \notin heap.ring)]
  /\ face' = [face EXCEPT ![main.f].state = "removed"]
  /\ gFaces' = gFaces \ {main.f}
  /\ main' = [main EXCEPT !.pc = "closed"]
  /\ UNCHANGED <<queue, rxList, txList, rxg, tr, readers, wait, known, bad>>

\* The Close callback closes the TX channel of a socket face's transport; newFace
\* that failed calls nothing.
Closed ==
  /\ main.pc = "closed"
  /\ tr' = IF IsSocket(main.f) THEN [tr EXCEPT ![main.f].closing = tr[main.f].rx] ELSE tr
  /\ main' = [pc |-> "idle", f |-> None]
  /\ UNCHANGED <<face, gFaces, heap, queue, rxList, txList, rxg, readers, wait, known, bad>>

-----------------------------------------------------------------------------
(* The threads that carry packets *)

Touch(f, what, obj) == IF obj \in what THEN bad ELSE bad \cup {f}

\* RxLoop_Transfer receives a frame for face f ...
RxBurst(f) ==
  /\ rxAt = None
  /\ IF IsSocket(f)
     THEN /\ rxg.nFaces > 0 /\ rxg.ring # <<>> /\ f = Head(rxg.ring)
          /\ rxg' = [rxg EXCEPT !.ring = Tail(@)]
     ELSE f \in rxList /\ UNCHANGED rxg
  /\ rxAt' = f
  /\ UNCHANGED <<face, gFaces, heap, queue, main, rxList, txList, tr, txAt, fwdAt, wait, known, bad>>

\* ... and passes it to RxProc_Input of the face's FaceImpl; it may be an Interest,
\* whose PIT record names the face.
RxInput ==
  /\ rxAt # None
  /\ bad' = IF face[rxAt].impl = None THEN bad ELSE Touch(rxAt, heap.impl, face[rxAt].impl)
  /\ known' \in {known, known \cup {rxAt}}
  /\ rxAt' = None
  /\ UNCHANGED <<face, gFaces, heap, queue, main, rxList, txList, rxg, tr, txAt, fwdAt, wait>>

\* The goroutine of a socket face puts a frame in the ring of the RX group, which
\* it does not check for having been closed.
SocketRx(f) ==
  /\ tr[f].rx /\ tr[f].st # "closed"
  /\ IF rxg.open THEN /\ Len(rxg.ring) < MaxQueue
                      /\ rxg' = [rxg EXCEPT !.ring = Append(@, f)]
                      /\ UNCHANGED bad
     ELSE bad' = bad \cup {f} /\ UNCHANGED rxg
  /\ UNCHANGED <<face, gFaces, heap, queue, main, rxList, txList, tr, readers, wait, known>>

\* TxLoop_Run comes to face f ...
TxPick(f) ==
  /\ txAt = None /\ f \in txList
  /\ txAt' = f
  /\ UNCHANGED <<face, gFaces, heap, queue, main, rxList, txList, tr, rxg, rxAt, fwdAt, wait, known, bad>>

\* ... and TxLoop_Transfer takes packets from its output queue to its l2Burst,
\* which for a socket face looks the face up with Get.
TxTransfer ==
  /\ txAt # None
  /\ LET c == face[txAt] IN
       /\ bad' = Touch(txAt, heap.ring, c.ring) \cup Touch(txAt, heap.impl, c.impl)
                 \cup (IF IsSocket(txAt) /\ c.ring \in heap.ring /\ queue[c.ring] > 0
                          /\ txAt \notin gFaces THEN {txAt} ELSE {})
       /\ queue' = IF c.ring \in heap.ring THEN [queue EXCEPT ![c.ring] = 0] ELSE queue
  /\ txAt' = None
  /\ UNCHANGED <<face, gFaces, heap, main, rxList, txList, tr, rxg, rxAt, fwdAt, wait, known>>

\* Face_TxBurst on the forwarding thread finds the face up ...
FwdCheck(f) ==
  /\ fwdAt = None /\ f \in known /\ face[f].state = "up"
  /\ fwdAt' = f
  /\ UNCHANGED <<face, gFaces, heap, queue, main, rxList, txList, tr, rxg, rxAt, txAt, wait, known, bad>>

\* ... and enqueues a packet, or frees it when the queue is full.
FwdEnqueue ==
  /\ fwdAt # None
  /\ LET r == face[fwdAt].ring IN
       /\ bad' = Touch(fwdAt, heap.ring, r)
       /\ queue' = IF r \in heap.ring /\ queue[r] < MaxQueue THEN [queue EXCEPT ![r] = @ + 1]
                   ELSE queue
  /\ fwdAt' = None
  /\ UNCHANGED <<face, gFaces, heap, main, rxList, txList, tr, rxg, rxAt, txAt, wait, known>>

\* rcu_quiescent_state at the top of each loop.
Quiescent(r) ==
  /\ r \in wait
  /\ r = "rx" => rxAt = None
  /\ r = "tx" => txAt = None
  /\ r = "fwd" => fwdAt = None
  /\ wait' = wait \ {r}
  /\ UNCHANGED <<face, gFaces, heap, queue, main, rxList, txList, rxg, tr, readers, known, bad>>

\* face.SetDown
SetDown(f, isDown) ==
  IF (face[f].state # "up") = isDown THEN face
  ELSE [face EXCEPT ![f].state = IF isDown THEN "down" ELSE "up"]

\* A socket error takes the transport down, a redial up again, in a goroutine of
\* the transport that goes on until the transport is closed; the face is told.
Redial(f) ==
  /\ tr[f].st \in {"up", "down"}
  /\ tr' = [tr EXCEPT ![f].st = IF @ = "up" THEN "down" ELSE "up"]
  /\ face' = SetDown(f, tr[f].st = "up")
  /\ UNCHANGED <<gFaces, heap, queue, main, rxList, txList, rxg, readers, wait, known, bad>>

\* The TX channel closed, the transport closes its socket and its RX channel, which
\* ends the goroutine of the face.
TransportClosed(f) ==
  /\ tr[f].closing /\ tr[f].st \in {"up", "down"}
  /\ tr' = [tr EXCEPT ![f].st = "closed"]
  /\ face' = SetDown(f, TRUE)
  /\ UNCHANGED <<gFaces, heap, queue, main, rxList, txList, rxg, readers, wait, known, bad>>

Main ==
  \/ \E f \in ID : NewFace(f)
  \/ \E fails \in BOOLEAN : NewQueue(fails)
  \/ \E fails \in BOOLEAN : StartRx(fails)
  \/ StartTx
  \/ Publish
  \/ \E f \in ID : Close(f)
  \/ StopRx
  \/ StopTx
  \/ Clear
  \/ Closed

Next ==
  \/ Main
  \/ \E f \in ID : RxBurst(f)
  \/ RxInput
  \/ \E f \in ID : SocketRx(f)
  \/ \E f \in ID : TxPick(f)
  \/ TxTransfer
  \/ \E f \in ID : FwdCheck(f)
  \/ FwdEnqueue
  \/ \E r \in Reader : Quiescent(r)
  \/ \E f \in ID : Redial(f)
  \/ \E f \in ID : TransportClosed(f)

Spec == Init /\ [][Next]_vars

-----------------------------------------------------------------------------
(* Properties *)

\* face.close marks the face down, takes it off the loops' lists and waits out a
\* barrier after each before it frees anything: no RxLoop, TxLoop or forwarding
\* thread that found an Ethernet face just before touches its FaceImpl or output
\* queue after they are freed.  (Not so for a socket face: its frames wait in a
\* ring that outlives it, and its transport may mark it up again.)
NoUseAfterFree == \A f \in bad : IsSocket(f)

\* The faces on the lists of the RxLoop and the TxLoop always have their FaceImpl
\* and output queue, and face.clear frees no output queue a second time.
\* Whichever step of newFace fails, and however faces come and go, between
\* operations exactly the faces that Get finds have a FaceImpl and an output
\* queue allocated, one each.
MemoryOwned ==
  /\ \A f \in rxList \cup txList : face[f].impl \in heap.impl /\ face[f].ring \in heap.ring
  /\ ~heap.twice
  /\ main.pc = "idle" =>
    /\ heap.impl = {face[f].impl : f \in gFaces}
    /\ heap.ring = {face[f].ring : f \in gFaces}
    /\ Cardinality(heap.impl) = Cardinality(gFaces)

\* IsDown "returns true if the face does not exist or is down" (iface/face.go),
\* for an Ethernet face that is neither known to Get nor being created or closed.
\* (The goroutine of a socket transport may mark a closed face up again.)
NonexistentIsDown ==
  \A f \in ID : f \notin gFaces /\ main.f # f /\ ~IsSocket(f) => face[f].state # "up"

\* The three together: what face.close and face.clear owe the threads that use the
\* face and the allocator.
FaceMemory == NoUseAfterFree /\ MemoryOwned /\ NonexistentIsDown
=================================================================================

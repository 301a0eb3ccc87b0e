-------------------------------- MODULE Pdump --------------------------------
(***************************************************************************)
(* Packet dump (app/pdump and csrc/pdump): GraphQL requests create and     *)
(* delete writers and sources; input and output threads give packets to    *)
(* the source at their point, found through an RCU pointer; a writer       *)
(* thread turns what its queue holds into a PCAPNG file of bounded size.   *)
(*                                                                         *)
(* A point is a face and a direction, or an Ethernet port.  A source is    *)
(* named after the request that created it.  In the queue and the file, a  *)
(* block is a section header (SHB), an interface description (IDB) or a    *)
(* packet (EPB); each takes one unit of the file.                          *)
(***************************************************************************)
EXTENDS Integers, Sequences, SequencesExt, FiniteSets

CONSTANTS
  NReqs,       \* bound on client requests
  Writers,     \* writers that may be created
  Faces, Ports,
  NameFilters, \* name filters a client asks for: sequences of [name, prob]
  Names,       \* names of packets
  QueueCap,    \* RingCapacity
  MaxSize,     \* file size, in blocks
  MaxNames,
  MaxPackets,  \* bound on the packets seen
  Orderly      \* TRUE: a client request begins after the one before it has returned

VARIABLES
  req,        \* [op, pc, writer, point, names, src]
  src,        \* FaceSource and EthPortSource: [state, point, writer, names]
  sources,    \* faceSources and ethPortSources: point -> source
  ref,        \* PdumpSourceRef at each point
  reader,     \* the thread at each point: the source it has dereferenced, and the packet
  writer,     \* Writer and PdumpWriter
  gqlWriter,
  mutex,      \* holder of sourcesMutex
  up,         \* faces that exist
  packets, panics

vars == <<req, src, sources, ref, reader, writer, gqlWriter, mutex, up, packets, panics>>

None == "none"
Nobody == 0
Reqs == 1..NReqs

Points == {<<f, d>> : f \in Faces, d \in {"RX", "TX"}} \cup {<<q, "RxUnmatched">> : q \in Ports}
PortOf(pt) == pt[1]

NoReq == [op |-> None, pc |-> "idle", writer |-> None, point |-> <<None, None>>, names |-> << >>, src |-> Nobody]
NoSrc == [state |-> None, point |-> <<None, None>>, writer |-> None, names |-> << >>]
NewWriter == [state |-> "open", nSources |-> 0, intfs |-> {}, hasSHB |-> FALSE, queue |-> << >>,
              running |-> TRUE, intf |-> << >>, file |-> << >>, full |-> FALSE]

Init ==
  /\ req = [r \in Reqs |-> NoReq] /\ src = [r \in Reqs |-> NoSrc]
  /\ sources = [pt \in Points |-> Nobody] /\ ref = [pt \in Points |-> Nobody]
  /\ reader = [pt \in Points |-> [src |-> Nobody, name |-> << >>]]
  /\ writer = [x \in Writers |-> [NewWriter EXCEPT !.state = None, !.running = FALSE]]
  /\ gqlWriter = None /\ mutex = Nobody /\ up = Faces
  /\ packets = 0 /\ panics = {}

MayBegin(r) ==
  /\ req[r].pc = "idle"
  /\ Orderly => \A q \in Reqs : q < r => req[q].pc = "done"

Goto(r, pc) == req' = [req EXCEPT ![r].pc = pc]
Panic(r, msg) == panics' = panics \cup {msg} /\ Goto(r, "done")

-----------------------------------------------------------------------------
(* Writers *)

(* createPdumpWriter is refused while the lcore is busy; a writer that is full is not running. *)
CreateWriter(r, x) ==
  /\ MayBegin(r) /\ writer[x].state = None
  /\ \A y \in Writers : ~writer[y].running
  /\ writer' = [writer EXCEPT ![x] = NewWriter]
  /\ gqlWriter' = x
  /\ req' = [req EXCEPT ![r] = [@ EXCEPT !.op = "createWriter", !.pc = "done", !.writer = x]]
  /\ UNCHANGED <<src, sources, ref, reader, mutex, up, packets, panics>>

(* The delete mutation finds the writer, closes it, then forgets it. *)
RetrieveWriter(r) ==
  /\ MayBegin(r) /\ gqlWriter # None
  /\ req' = [req EXCEPT ![r] = [@ EXCEPT !.op = "deleteWriter", !.pc = "close", !.writer = gqlWriter]]
  /\ UNCHANGED <<src, sources, ref, reader, writer, gqlWriter, mutex, up, packets, panics>>

MutCloseWriter(r) ==
  LET x == req[r].writer IN
  /\ req[r].pc = "close"
  /\ writer' = [writer EXCEPT ![x].nSources = -100] /\ Goto(r, "stop")
  /\ UNCHANGED <<src, sources, ref, reader, gqlWriter, mutex, up, packets, panics>>

(* nSources goes from 0 to -65536, or the writer has sources and stays. *)
CloseWriter(r) ==
  LET x == req[r].writer IN
  /\ req[r].pc = "close"
  /\ IF writer[x].nSources = 0
     THEN writer' = [writer EXCEPT ![x].nSources = -100] /\ Goto(r, "stop")
     ELSE Goto(r, "done") /\ UNCHANGED writer
  /\ UNCHANGED <<src, sources, ref, reader, gqlWriter, mutex, up, packets, panics>>

(* Close stops the thread, frees the C memory, and drains and frees the queue. *)
FreeWriter(r) ==
  /\ req[r].pc = "stop"
  /\ writer' = [writer EXCEPT ![req[r].writer] = [@ EXCEPT !.state = "closed", !.running = FALSE, !.queue = << >>]]
  /\ Goto(r, "forget")
  /\ UNCHANGED <<src, sources, ref, reader, gqlWriter, mutex, up, packets, panics>>

ForgetWriter(r) ==
  /\ req[r].pc = "forget"
  /\ gqlWriter' = None /\ Goto(r, "done")
  /\ UNCHANGED <<src, sources, ref, reader, writer, mutex, up, packets, panics>>

(* PdumpWriter_Run: the block at the head of the queue. *)
Append1(w, b) ==
  IF Len(w.file) + 1 > MaxSize THEN [w EXCEPT !.full = TRUE, !.running = FALSE]
                               ELSE [w EXCEPT !.file = Append(@, b)]

WriteBlock(w, b) ==
  IF b.kind = "IDB" THEN Append1([w EXCEPT !.intf = Append(@, b.port)], b) ELSE Append1(w, b)

(* w->intf[port] is the number given to the last IDB of that port; without one the packet is dropped. *)
IntfOf(w, port) == IF port \in ToSet(w.intf) THEN SelectLastInSeq(w.intf, LAMBDA q : q = port) ELSE 0

WriteEPB(w, b) ==
  IF IntfOf(w, b.port) = 0 THEN w
  ELSE Append1(w, [kind |-> "EPB", port |-> b.port, intf |-> IntfOf(w, b.port)])

ProcessMbuf(x) ==
  LET w == [writer[x] EXCEPT !.queue = Tail(@)]
      b == Head(writer[x].queue)
  IN  /\ writer[x].running /\ writer[x].queue # << >>
      /\ writer' = [writer EXCEPT ![x] = IF b.kind = "EPB" THEN WriteEPB(w, b) ELSE WriteBlock(w, b)]
      /\ UNCHANGED <<req, src, sources, ref, reader, gqlWriter, mutex, up, packets, panics>>

-----------------------------------------------------------------------------
(* NewFaceSource and NewEthPortSource, under sourcesMutex *)

(* Names are tried in order of descending length; the first that is a prefix of the packet's. *)
SortedNames(ns) == SortSeq(ns, LAMBDA m, n : Len(m.name) > Len(n.name))
LNamePrefixFilter_Find(ns, name) == SelectInSeq(ns, LAMBDA n : IsPrefix(n.name, name))

(* A filter of the empty name takes its probability for any packet; otherwise a packet without *)
(* a name, and one that no filter matches, has probability 0.                                  *)
NameProb(ns, name) ==
  IF ns[1].name = << >> THEN ns[1].prob
  ELSE LET i == LNamePrefixFilter_Find(ns, name) IN IF name = << >> \/ i = 0 THEN 0 ELSE ns[i].prob

validateFace(x, pt, ns) == x # None /\ PortOf(pt) \in up /\ Len(ns) \in 1..MaxNames
validatePort(x, pt) == x # None /\ PortOf(pt) \in Ports /\ pt[2] = "RxUnmatched"
validate(x, pt, ns) == validateFace(x, pt, ns) \/ validatePort(x, pt)

CreateSource(r, pt, ns) ==
  /\ MayBegin(r)
  /\ req' = [req EXCEPT ![r] = [@ EXCEPT !.op = "createSource", !.writer = gqlWriter, !.point = pt, !.src = r,
                                         !.names = ns, !.pc = IF validate(gqlWriter, pt, ns) THEN "lock" ELSE "done"]]
  /\ UNCHANGED <<src, sources, ref, reader, writer, gqlWriter, mutex, up, packets, panics>>

NewSource(r) ==
  LET q == req[r] IN
  /\ q.pc = "lock" /\ mutex = Nobody
  /\ CASE sources[q.point] # Nobody -> Goto(r, "done") /\ UNCHANGED <<src, mutex, panics>>
       [] writer[q.writer].state = "closed" -> Panic(r, "nil writer") /\ UNCHANGED <<src, mutex>>
       [] OTHER -> /\ mutex' = r
                   /\ src' = [src EXCEPT ![r] = [state |-> "new", point |-> q.point, writer |-> q.writer,
                                                 names |-> SortedNames(q.names)]]
                   /\ Goto(r, IF PortOf(q.point) \in writer[q.writer].intfs THEN "start" ELSE "define")
                   /\ UNCHANGED panics
  /\ UNCHANGED <<sources, ref, reader, writer, gqlWriter, up, packets>>

(* defineIntf: the SHB once, then the IDB; putBlock waits while the queue is full. *)
DefineIntf(r) ==
  LET x == req[r].writer
      port == PortOf(req[r].point)
      b == IF writer[x].hasSHB THEN [kind |-> "IDB", port |-> port] ELSE [kind |-> "SHB", port |-> None]
  IN  /\ req[r].pc = "define"
      /\ IF writer[x].state = "closed"
         THEN /\ Panic(r, "nil queue") /\ mutex' = Nobody /\ UNCHANGED writer
         ELSE /\ Len(writer[x].queue) < QueueCap
              /\ writer' = [writer EXCEPT ![x] = [@ EXCEPT !.queue = Append(@, b), !.hasSHB = TRUE,
                                                           !.intfs = @ \cup {port}]]
              /\ IF b.kind = "IDB" THEN Goto(r, "start") ELSE UNCHANGED req
              /\ UNCHANGED <<panics, mutex>>
      /\ UNCHANGED <<src, sources, ref, reader, gqlWriter, up, packets>>

(* startSource, setRef, registration, and the mutex is released. *)
StartSource(r) ==
  LET q == req[r] IN
  /\ q.pc = "start"
  /\ mutex' = Nobody
  /\ IF writer[q.writer].nSources < 0 \/ ref[q.point] # Nobody \/ PortOf(q.point) \notin up \cup Ports
     THEN Panic(r, "cannot start") /\ UNCHANGED <<src, sources, ref, writer>>
     ELSE /\ writer' = [writer EXCEPT ![q.writer].nSources = @ + 1]
          /\ ref' = [ref EXCEPT ![q.point] = r]
          /\ sources' = [sources EXCEPT ![q.point] = r]
          /\ src' = [src EXCEPT ![r].state = "attached"]
          /\ Goto(r, "done") /\ UNCHANGED panics
  /\ UNCHANGED <<reader, gqlWriter, up, packets>>

-----------------------------------------------------------------------------
(* Close of a source, by its delete mutation or because its face closes *)

RetrieveSource(r, pt) ==
  /\ MayBegin(r) /\ mutex = Nobody /\ sources[pt] # Nobody
  /\ req' = [req EXCEPT ![r] = [@ EXCEPT !.op = "deleteSource", !.pc = "detach", !.src = sources[pt], !.point = pt]]
  /\ UNCHANGED <<src, sources, ref, reader, writer, gqlWriter, mutex, up, packets, panics>>

(* closeImpl clears the pointer, which must be its own, and the map; a goroutine frees later. *)
CloseSource(r) ==
  LET s == req[r].src
      pt == req[r].point
  IN  /\ req[r].pc = "detach" /\ mutex = Nobody
      /\ IF ref[pt] # s
         THEN Panic(r, "pointer mismatch") /\ UNCHANGED <<src, sources, ref>>
         ELSE /\ ref' = [ref EXCEPT ![pt] = Nobody]
              /\ sources' = [sources EXCEPT ![pt] = Nobody]
              /\ src' = [src EXCEPT ![s].state = "detached"]
              /\ Goto(r, "done") /\ UNCHANGED panics
      /\ UNCHANGED <<reader, writer, gqlWriter, mutex, up, packets>>

handleFaceClosing(r, f) ==
  LET pts == {pt \in Points : PortOf(pt) = f} IN
  /\ MayBegin(r) /\ mutex = Nobody /\ f \in up
  /\ src' = [s \in Reqs |-> IF \E pt \in pts : sources[pt] = s THEN [src[s] EXCEPT !.state = "detached"] ELSE src[s]]
  /\ ref' = [pt \in Points |-> IF pt \in pts THEN Nobody ELSE ref[pt]]
  /\ sources' = [pt \in Points |-> IF pt \in pts THEN Nobody ELSE sources[pt]]
  /\ req' = [req EXCEPT ![r] = [@ EXCEPT !.op = "closeFace", !.pc = "clear", !.point = <<f, "RX">>]]
  /\ UNCHANGED <<reader, writer, gqlWriter, mutex, up, packets, panics>>

(* The face is gone once its threads have left it. *)
ClearFace(r) ==
  LET f == PortOf(req[r].point) IN
  /\ req[r].pc = "clear"
  /\ \A pt \in Points : PortOf(pt) = f => reader[pt].src = Nobody
  /\ up' = up \ {f} /\ Goto(r, "done")
  /\ UNCHANGED <<src, sources, ref, reader, writer, gqlWriter, mutex, packets, panics>>

(* The goroutine: after a grace period, stopSource and Free. *)
FreeSource(s) ==
  /\ src[s].state = "detached"
  /\ \A pt \in Points : reader[pt].src # s
  /\ src' = [src EXCEPT ![s].state = "freed"]
  /\ writer' = [writer EXCEPT ![src[s].writer].nSources = @ - 1]
  /\ UNCHANGED <<req, sources, ref, reader, gqlWriter, mutex, up, packets, panics>>

-----------------------------------------------------------------------------
(* PdumpSourceRef_Process, in a read-side critical section of the input or output thread *)

Dereference(pt, name) ==
  /\ packets < MaxPackets /\ reader[pt].src = Nobody /\ ref[pt] # Nobody
  /\ reader' = [reader EXCEPT ![pt] = [src |-> ref[pt], name |-> name]]
  /\ packets' = packets + 1
  /\ UNCHANGED <<req, src, sources, ref, writer, gqlWriter, mutex, up, panics>>

(* A face source filters (a probability of 1 is certain, one below depends on a random number) *)
(* and copies (which may fail); a port source takes all.  A full queue rejects the packet.     *)
PdumpSource_Process(pt, sampled, copied) ==
  LET s == src[reader[pt].src]
      x == s.writer
      prob == NameProb(s.names, reader[pt].name)
      taken == pt[2] = "RxUnmatched" \/ (prob > 0 /\ (prob = 100 \/ sampled) /\ copied)
  IN  /\ reader[pt].src # Nobody
      /\ reader' = [reader EXCEPT ![pt] = [src |-> Nobody, name |-> << >>]]
      /\ writer' = IF taken /\ Len(writer[x].queue) < QueueCap
                   THEN [writer EXCEPT ![x].queue = Append(@, [kind |-> "EPB", port |-> PortOf(pt)])]
                   ELSE writer
      /\ UNCHANGED <<req, src, sources, ref, gqlWriter, mutex, up, packets, panics>>

-----------------------------------------------------------------------------
Next ==
  \/ \E r \in Reqs :
        \/ \E x \in Writers : CreateWriter(r, x)
        \/ RetrieveWriter(r) \/ CloseWriter(r) \/ FreeWriter(r) \/ ForgetWriter(r)
        \/ \E pt \in Points, ns \in NameFilters : CreateSource(r, pt, ns)
        \/ NewSource(r) \/ DefineIntf(r) \/ StartSource(r)
        \/ \E pt \in Points : RetrieveSource(r, pt)
        \/ CloseSource(r)
        \/ \E f \in Faces : handleFaceClosing(r, f)
        \/ ClearFace(r)
        \/ FreeSource(r)
  \/ \E x \in Writers : ProcessMbuf(x)
  \/ \E pt \in Points : \/ \E name \in Names : Dereference(pt, name)
                        \/ \E sampled, copied \in BOOLEAN : PdumpSource_Process(pt, sampled, copied)

Spec == Init /\ [][Next]_vars

-----------------------------------------------------------------------------
(* Properties *)

(* What a thread has dereferenced exists until it leaves the critical section: the source is   *)
(* not freed, nor its writer's queue, whatever deletes and face closings happen meanwhile      *)
(* (closeImpl, its goroutine, and the count of sources Writer.Close looks at).                 *)
NoUseAfterFree ==
  \A pt \in Points : reader[pt].src # Nobody =>
     /\ src[reader[pt].src].state \in {"attached", "detached"}
     /\ writer[src[reader[pt].src].writer].state = "open"

(* The file is PCAPNG whenever the thread stops: the section header comes first, and each      *)
(* packet names, by its number, an interface described before it, the one of the port where    *)
(* the packet was seen (defineIntf before setRef; ProcessMbuf, WriteEPB).                      *)
FileIsPcapng ==
  \A x \in Writers : \A i \in DOMAIN writer[x].file :
     LET file == writer[x].file
         idbs == SelectSeq(SubSeq(file, 1, i), LAMBDA b : b.kind = "IDB")
     IN  /\ file[i].kind = "SHB" <=> i = 1
         /\ file[i].kind = "EPB" => /\ file[i].intf \in DOMAIN idbs
                                    /\ idbs[file[i].intf].port = file[i].port

(* The query pdumpWriters is described as "List of active packet dump writers."  Not so:       *)
(* a second writer takes the place of the first.                                               *)
ActiveWritersListed == \A x \in Writers : writer[x].running => gqlWriter = x
=============================================================================

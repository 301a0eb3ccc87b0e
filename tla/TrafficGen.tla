----------------------------- MODULE TrafficGen -----------------------------
(***************************************************************************)
(* The life of traffic generators (app/tg): startTrafficGen requests that  *)
(* validate a configuration, take over the functions that choose a face's  *)
(* input and output thread, create the face and the modules (producer or   *)
(* file server, consumer or fetcher), allocate lcores and launch; and      *)
(* delete requests that stop, unregister and release.  Any step of a       *)
(* creation may fail, and each module cleans up after itself in its own    *)
(* way.                                                                    *)
(*                                                                         *)
(* A generator is named after the request that creates it.  A panic ends   *)
(* the request that met it; its deferred functions run.                    *)
(***************************************************************************)
EXTENDS Integers, Sequences, FiniteSets

CONSTANTS
  Reqs,       \* client requests
  Configs,    \* configurations: [face, mods, bad]
  Operations, \* [Reqs -> operations each request may carry out]
  MayFail,    \* what may fail: [mod, at]
  NLcores,    \* lcores available to the allocator
  Orderly     \* TRUE: one start at a time, and a generator is deleted once, after its start returned

VARIABLES
  req,      \* what each request is doing: [op, pc, cfg, gen, saved]
  gen,      \* TrafficGen of each start request: [face, rxl, txl, workers, mods, exit]
  map,      \* mapFaceGen: the generators that are registered
  hook,     \* whose ChooseRxLoop and ChooseTxLoop are installed
  objects,  \* C memory, queues, loops, devices, directories: [gen, kind]
  faces,    \* faces that exist, named after the generator that created them
  lcores,   \* [gen, worker] for each allocated lcore
  busy,     \* [gen, worker] for each running thread
  panics    \* messages of panics

vars == <<req, gen, map, hook, objects, faces, lcores, busy, panics>>

None == "none"
Modules == {"producer", "fileServer", "consumer", "fetcher"}

-----------------------------------------------------------------------------
(* config.go: what Validate accepts; c.bad holds the modules whose own Validate refuses *)

Validate(c) ==
  /\ c.face # "missing"
  /\ ~({"producer", "fileServer"} \subseteq c.mods)
  /\ ~({"consumer", "fetcher"} \subseteq c.mods)
  /\ c.mods # {}
  /\ c.bad = {}

-----------------------------------------------------------------------------
(* What New of a module holds when it returns, given the point where it fails: the objects it  *)
(* has acquired by then, less what its cleanup releases.                                       *)

Left(ok, panic, left) == [ok |-> ok, panic |-> panic, left |-> left]

(* tgproducer: two workers, then the payload of the data generators. *)
NewTgpWorker(i) == {<<"tgp", i>>, <<"tgpQueue", i>>}
FailedTgpWorker(i) == {<<"tgp", i>>} \ {<<"tgp", i>>}
CloseTgpWorker(i) == {<<"tgp", i>>, <<"tgpQueue", i>>, <<"tgpDataGen", i>>}

CloseProducer == UNION {CloseTgpWorker(i) : i \in 1..2}

NewProducer(fail) ==
  CASE fail = "worker" -> Left(FALSE, FALSE, (NewTgpWorker(1) \ CloseTgpWorker(1)) \cup FailedTgpWorker(2))
    [] fail = "patterns" -> Left(FALSE, FALSE, (NewTgpWorker(1) \cup NewTgpWorker(2)) \ CloseProducer)
    [] OTHER -> Left(TRUE, FALSE, UNION {NewTgpWorker(i) \cup {<<"tgpDataGen", i>>} : i \in 1..2})

(* fileserver: two directories are opened, then one worker. *)
OpenDirectory(i) == {<<"dfd", i>>}
CloseDirectory(i) == {<<"dfd", i>>}
NewFsWorker == {<<"fileServer", 1>>, <<"fsQueue", 1>>}
FailedFsWorker == {<<"fileServer", 1>>} \ {<<"fileServer", 1>>}
CloseFsWorker == {<<"fileServer", 1>>, <<"fsQueue", 1>>}

CloseFileServer == CloseFsWorker \cup CloseDirectory(1) \cup CloseDirectory(2)

NewFileServer(fail) ==
  CASE fail = "mount" -> Left(FALSE, FALSE, OpenDirectory(1) \ CloseFileServer)
    [] fail = "worker" ->
         Left(FALSE, FALSE, (OpenDirectory(1) \cup OpenDirectory(2) \cup FailedFsWorker) \ CloseFileServer)
    [] OTHER -> Left(TRUE, FALSE, OpenDirectory(1) \cup OpenDirectory(2) \cup NewFsWorker)

(* tgconsumer: when the queue cannot be made, Close calls Stop on threads that do not exist    *)
(* yet; later failures are in prepareDigest or in allocating the payload.                      *)
ConsumerMemory == {<<"tgcRx", 1>>, <<"tgcTx", 1>>}
PrepareDigest(fail) ==
  CASE fail = "opPool" -> {}
    [] fail = "crypto" -> {<<"opPool", 1>>}
    [] OTHER -> {<<"opPool", 1>>, <<"crypto", 1>>}
AssignDigestPattern == {<<"digestPattern", 1>>}
MutCloseDigest == {<<"crypto", 1>>, <<"digestPattern", 1>>}
CloseDigest == {<<"crypto", 1>>, <<"opPool", 1>>, <<"digestPattern", 1>>}

CloseConsumer == CloseDigest \cup {<<"tgcQueue", 1>>} \cup ConsumerMemory

NewConsumer(fail) ==
  CASE fail = "queue" -> Left(FALSE, TRUE, ConsumerMemory)
    [] fail # None ->
         Left(FALSE, FALSE, (ConsumerMemory \cup {<<"tgcQueue", 1>>} \cup PrepareDigest(fail)) \ CloseConsumer)
    [] OTHER -> Left(TRUE, FALSE, ConsumerMemory \cup {<<"tgcQueue", 1>>} \cup PrepareDigest(fail)
                                    \cup AssignDigestPattern)

(* fetch: New returns on the queue that cannot be made and leaves what it has allocated. *)
CloseFetcher == {<<"fetchThread", 1>>, <<"fetchProc", 1>>, <<"fetchQueue", 1>>, <<"fetchWindow", 1>>}

NewFetcher(fail) ==
  IF fail = "queue" THEN Left(FALSE, FALSE, {<<"fetchThread", 1>>, <<"fetchProc", 1>>})
                    ELSE Left(TRUE, FALSE, CloseFetcher)

FailPoints ==
  [m \in Modules |-> CASE m = "producer" -> {"worker", "patterns"}
                       [] m = "fileServer" -> {"mount", "worker"}
                       [] m = "consumer" -> {"queue", "opPool", "crypto", "patterns"}
                       [] m = "fetcher" -> {"queue"}]

NewModule(m, fail) ==
  CASE m = "producer" -> NewProducer(fail)
    [] m = "fileServer" -> NewFileServer(fail)
    [] m = "consumer" -> NewConsumer(fail)
    [] m = "fetcher" -> NewFetcher(fail)

ModuleObjects(m) ==
  CASE m = "producer" -> CloseProducer
    [] m = "fileServer" -> CloseFileServer
    [] m = "consumer" -> CloseConsumer
    [] m = "fetcher" -> CloseFetcher

(* Workers of each module: the threads it needs lcores for. *)
WorkersOf(m) ==
  CASE m = "producer" -> {"producer1", "producer2"}
    [] m = "fileServer" -> {"fileServer1"}
    [] m = "consumer" -> {"consumerRx", "consumerTx"}
    [] m = "fetcher" -> {"fetch1"}

-----------------------------------------------------------------------------
NoGen == [face |-> None, rxl |-> FALSE, txl |-> FALSE, workers |-> {}, mods |-> {}, exit |-> "nil"]
NewGen == [NoGen EXCEPT !.exit = "open"]

IdleReq == [op |-> None, pc |-> "idle", cfg |-> [face |-> "missing", mods |-> {}, bad |-> {}], gen |-> None, saved |-> None]

Init ==
  /\ req = [r \in Reqs |-> IdleReq]
  /\ gen = [r \in Reqs |-> NoGen]
  /\ map = {} /\ hook = None /\ objects = {} /\ faces = {} /\ lcores = {} /\ busy = {} /\ panics = {}

Of(g, kinds) == {[gen |-> g, kind |-> k] : k \in kinds}
WorkersIn(g, ws) == {[gen |-> g, worker |-> w] : w \in ws}
Goto(r, pc) == req' = [req EXCEPT ![r].pc = pc]

-----------------------------------------------------------------------------
(* startTrafficGen: New *)

Start(r, c) ==
  /\ req[r].pc = "idle" /\ "start" \in Operations[r]
  /\ Orderly => \A q \in Reqs : req[q].op = "start" => req[q].pc \in {"idle", "done"}
  /\ req' = [req EXCEPT ![r] = [@ EXCEPT !.op = "start", !.cfg = c, !.gen = r,
                                         !.pc = IF Validate(c) THEN "hooks" ELSE "done"]]
  /\ gen' = [gen EXCEPT ![r] = IF Validate(c) THEN NewGen ELSE @]
  /\ UNCHANGED <<map, hook, objects, faces, lcores, busy, panics>>

SaveChooseRxlTxl(r) ==
  /\ req[r].pc = "hooks"
  /\ req' = [req EXCEPT ![r].saved = hook, ![r].pc = "face"]
  /\ hook' = r
  /\ UNCHANGED <<gen, map, objects, faces, lcores, busy, panics>>

(* The deferred functions of New: the saved hooks come back; a generator that failed is closed. *)
Fail(r) ==
  /\ hook' = req[r].saved
  /\ Goto(r, "stop")

(* CreateFace asks the installed hooks for a TxLoop and, if the face brings a receive group of  *)
(* its own, for an RxLoop: the loops are appended to the generator whose hooks they are.       *)
LoopsChosen(h, c) ==
  [gen EXCEPT ![h].txl = TRUE, ![h].rxl = @ \/ c.face = "own",
              ![h].workers = @ \cup {"tx"} \cup (IF c.face = "own" THEN {"rx"} ELSE {})]

(* The hooks the program begins with return nil: the least loaded loop that exists is used,    *)
(* and without one the program panics.                                                         *)
DefaultHook(r) ==
  IF \E o \in objects : o.kind = <<"txl", 1>>
  THEN /\ faces' = faces \cup {r}
       /\ gen' = [gen EXCEPT ![r].face = r]
       /\ UNCHANGED panics
       /\ Fail(r)
  ELSE /\ panics' = panics \cup {"no TxLoop available"}
       /\ hook' = req[r].saved /\ Goto(r, "done")
       /\ UNCHANGED <<gen, faces>>

OwnHook(r) ==
  /\ faces' = faces \cup {r}
  /\ gen' = [LoopsChosen(hook, req[r].cfg) EXCEPT ![r].face = r]
  /\ objects' = objects \cup Of(hook, {<<"txl", 1>>} \cup (IF req[r].cfg.face = "own" THEN {<<"rxl", 1>>} ELSE {}))
  /\ IF gen'[r].rxl /\ gen'[r].txl THEN UNCHANGED hook /\ Goto(r, "producer") ELSE Fail(r)
  /\ UNCHANGED panics

CreateFace(r) ==
  /\ req[r].pc = "face"
  /\ IF hook = None THEN DefaultHook(r) /\ UNCHANGED objects ELSE OwnHook(r)
  /\ UNCHANGED <<map, lcores, busy>>

CreateFaceFails(r) ==
  /\ req[r].pc = "face" /\ [mod |-> "face", at |-> "create"] \in MayFail
  /\ Fail(r)
  /\ UNCHANGED <<gen, map, objects, faces, lcores, busy, panics>>

NextPc == [producer |-> "fileServer", fileServer |-> "consumer", consumer |-> "fetcher", fetcher |-> "alloc"]

CreateModule(r, m, fail) ==
  LET n == NewModule(m, fail) IN
  /\ req[r].pc = m
  /\ fail = None \/ [mod |-> m, at |-> fail] \in MayFail
  /\ IF m \notin req[r].cfg.mods
     THEN /\ fail = None /\ Goto(r, NextPc[m])
          /\ UNCHANGED <<gen, objects, hook, panics>>
     ELSE /\ objects' = objects \cup Of(r, n.left)
          /\ gen' = IF n.ok THEN [gen EXCEPT ![r].mods = @ \cup {m}, ![r].workers = @ \cup WorkersOf(m)] ELSE gen
          /\ panics' = IF n.panic THEN panics \cup {"nil thread"} ELSE panics
          /\ CASE n.ok -> UNCHANGED hook /\ Goto(r, NextPc[m])
               [] n.panic -> hook' = req[r].saved /\ Goto(r, "done")
               [] OTHER -> Fail(r)
  /\ UNCHANGED <<map, faces, lcores, busy>>

(* AllocThread for all workers at once, and the registration. *)
AllocThread(r) ==
  /\ req[r].pc = "alloc"
  /\ IF Cardinality(lcores) + Cardinality(gen[r].workers) <= NLcores
     THEN /\ lcores' = lcores \cup WorkersIn(r, gen[r].workers)
          /\ map' = map \cup {r}
          /\ hook' = req[r].saved /\ Goto(r, "launch")
     ELSE /\ Fail(r)
          /\ UNCHANGED <<lcores, map>>
  /\ UNCHANGED <<gen, objects, faces, busy, panics>>

-----------------------------------------------------------------------------
(* Launch: the loops, then the producer or the file server, then the consumer. *)

LaunchedWorkers(g) ==
  {"tx", "rx"} \cup UNION {WorkersOf(m) : m \in gen[g].mods \ {"fetcher"}}

LaunchOf(g) ==
  IF WorkersIn(g, {"tx", "rx"}) \cap busy # {}
  THEN panics' = panics \cup {"lcore is busy"} /\ UNCHANGED busy
  ELSE busy' = busy \cup WorkersIn(g, LaunchedWorkers(g)) /\ UNCHANGED panics

Launch(r) ==
  /\ req[r].pc = "launch"
  /\ LaunchOf(r) /\ Goto(r, "done")
  /\ UNCHANGED <<gen, map, hook, objects, faces, lcores>>

(* Stop: the producer, the consumer and the fetcher; not the file server, not the loops. *)
StoppedWorkers(g) ==
  UNION {WorkersIn(g, WorkersOf(m)) : m \in gen[g].mods \ {"fileServer"}}

StopGen(r, g) ==
  /\ req[r].pc = "idle" /\ "relaunch" \in Operations[r]
  /\ g \in map /\ WorkersIn(g, {"tx"}) \subseteq busy
  /\ busy' = busy \ StoppedWorkers(g)
  /\ req' = [req EXCEPT ![r] = [@ EXCEPT !.op = "relaunch", !.gen = g, !.pc = "relaunch"]]
  /\ UNCHANGED <<gen, map, hook, objects, faces, lcores, panics>>

LaunchAgain(r) ==
  /\ req[r].pc = "relaunch"
  /\ LaunchOf(req[r].gen) /\ Goto(r, "done")
  /\ UNCHANGED <<gen, map, hook, objects, faces, lcores>>

-----------------------------------------------------------------------------
(* delete: find the generator of a face, then Close it *)

Delete(r, g) ==
  /\ req[r].pc = "idle" /\ "delete" \in Operations[r]
  /\ g \in map
  /\ Orderly => /\ req[g].pc = "done"
                /\ \A q \in Reqs : req[q].op = "delete" => req[q].gen # g
  /\ req' = [req EXCEPT ![r] = [@ EXCEPT !.op = "delete", !.gen = g, !.pc = "stop"]]
  /\ UNCHANGED <<gen, map, hook, objects, faces, lcores, busy, panics>>

CloseStop(r) ==
  /\ req[r].pc = "stop"
  /\ busy' = busy \ StoppedWorkers(req[r].gen)
  /\ Goto(r, "exit")
  /\ UNCHANGED <<gen, map, hook, objects, faces, lcores, panics>>

(* close(gen.exit) panics on a channel that is closed or nil. *)
CloseExit(r) ==
  LET g == req[r].gen IN
  /\ req[r].pc = "exit"
  /\ IF gen[g].exit = "open"
     THEN /\ gen' = [gen EXCEPT ![g].exit = "closed"]
          /\ map' = map \ {g}
          /\ Goto(r, "modules")
          /\ UNCHANGED panics
     ELSE /\ panics' = panics \cup {"close of closed channel"}
          /\ Goto(r, "done")
          /\ UNCHANGED <<gen, map>>
  /\ UNCHANGED <<hook, objects, faces, lcores, busy>>

(* Each module's Close stops its own threads and frees its memory. *)
CloseModules(r) ==
  LET g == req[r].gen IN
  /\ req[r].pc = "modules"
  /\ busy' = busy \ UNION {WorkersIn(g, WorkersOf(m)) : m \in gen[g].mods}
  /\ objects' = objects \ UNION {Of(g, ModuleObjects(m)) : m \in gen[g].mods}
  /\ Goto(r, "closeFace")
  /\ UNCHANGED <<gen, map, hook, faces, lcores, panics>>

(* The callback of OnFaceClosing panics if the generator of the face is registered. *)
OnFaceClosing(f) == f \in map

CloseFace(r) ==
  LET g == req[r].gen IN
  /\ req[r].pc = "closeFace"
  /\ IF OnFaceClosing(gen[g].face)
     THEN panics' = panics \cup {"traffic generator is active"} /\ Goto(r, "done") /\ UNCHANGED faces
     ELSE faces' = faces \ {gen[g].face} /\ Goto(r, "loops") /\ UNCHANGED panics
  /\ UNCHANGED <<gen, map, hook, objects, lcores, busy>>

(* The loops' Close, AllocFree of the workers' lcores, and the generator is cleared. *)
CloseLoops(r) ==
  LET g == req[r].gen IN
  /\ req[r].pc = "loops"
  /\ busy' = busy \ WorkersIn(g, {"tx", "rx"})
  /\ objects' = objects \ Of(g, {<<"txl", 1>>, <<"rxl", 1>>})
  /\ lcores' = lcores \ WorkersIn(g, gen[g].workers)
  /\ gen' = [gen EXCEPT ![g] = NoGen]
  /\ Goto(r, "done")
  /\ UNCHANGED <<map, hook, faces, panics>>

-----------------------------------------------------------------------------
Next ==
  \E r \in Reqs :
     \/ \E c \in Configs : Start(r, c)
     \/ SaveChooseRxlTxl(r)
     \/ CreateFace(r)
     \/ CreateFaceFails(r)
     \/ \E m \in Modules : \E fail \in {None} \cup FailPoints[m] : CreateModule(r, m, fail)
     \/ AllocThread(r)
     \/ Launch(r)
     \/ \E g \in Reqs : StopGen(r, g) \/ Delete(r, g)
     \/ LaunchAgain(r)
     \/ CloseStop(r)
     \/ CloseExit(r)
     \/ CloseModules(r)
     \/ CloseFace(r)
     \/ CloseLoops(r)

Spec == Init /\ [][Next]_vars

-----------------------------------------------------------------------------
(* Properties *)

(* When no request is under way, all that exists belongs to registered generators: a start     *)
(* that failed at any step, and a delete, give back every C object, face, lcore and thread,    *)
(* and the hooks that choose loops are the ones the program began with (New's deferred         *)
(* functions, Close of the generator and of each module).                                      *)
NothingLeft ==
  (\A r \in Reqs : req[r].pc \in {"idle", "done"}) =>
     /\ \A o \in objects \cup lcores \cup busy : o.gen \in map
     /\ faces \subseteq map
     /\ hook = None

(* No start and no delete ends in a panic: cleanup never closes a channel twice, never closes  *)
(* the face of a registered generator, and never meets a module half made (New, Close).        *)
NoPanic == panics \subseteq {"lcore is busy"}

(* "Stop stops the traffic generator. It can be launched again."  Stop leaves the input and    *)
(* output threads running, and Launch launches them unconditionally, so this does not hold.    *)
CanLaunchAgain == "lcore is busy" \notin panics
=============================================================================

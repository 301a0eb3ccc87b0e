----------------------------- MODULE FileServer -----------------------------
(* The file server (app/fileserver, csrc/fileserver): how a configuration  *)
(* becomes the limits of a worker, and one worker thread, which answers    *)
(* Interests out of a table of open files and reads segments through       *)
(* io_uring.                                                               *)
(*                                                                         *)
(* An entry of the table lives in a payload mbuf.  A read in the ring is   *)
(* known by the entry it holds: its Interest, payload and result decide    *)
(* what is sent, never what happens to the table or to the ring.           *)
EXTENDS Integers, Sequences, FiniteSets, SequencesExt

CONSTANTS
    Files,        \* the paths under the mounts
    Limits,       \* the constants of config.go and MaxBurstSize, scaled down
    Scenarios     \* what a worker may meet: configuration, requests, faults

VARIABLES
    scn,          \* the scenario
    cfg,          \* the validated configuration
    phase,        \* where the thread is
    fs,           \* the file system: kind and size of each path
    nChanges,     \* how often a file changed or a statx result expired
    tab,          \* the file descriptor table
    burst,        \* interest[interestIndex : interestCount]
    nPayload,     \* payload[payloadIndex :]
    nSqe,
    sq,           \* entries of the reads queued and not submitted
    flight,       \* entry -> how many reads the kernel is working on
    cq,           \* entries of the reads completed and not seen
    uringCount,
    nPopped

uring == <<sq, flight, cq, uringCount>>
vars == <<scn, cfg, phase, fs, nChanges, tab, burst, nPayload, nSqe, uring, nPopped>>

-----------------------------------------------------------------------------
(* Configuration.                                                          *)

MaxOf(a, b) == IF a > b THEN a ELSE b
MinOf(a, b) == IF a < b THEN a ELSE b

NextPowerOfTwo(n) == CHOOSE k \in {2^i : i \in 0..15} : k >= n /\ k < 2 * n

AlignCapacity(capacity, min, dflt, max) ==
    MinOf(MaxOf(min, IF capacity <= 0 THEN dflt ELSE NextPowerOfTwo(capacity)), max)

DefaultTo(v, dflt) == IF v = 0 THEN dflt ELSE v

(* Thresholds are percentages; 0 is also "not given".                      *)
MutAdjustUringThres(capacity, thres, dflt) ==
    LET t == IF thres <= 0 \/ thres >= 100 THEN dflt ELSE thres
    IN  MinOf((capacity * t) \div 100, capacity - Limits.MaxBurstSize)
adjustUringThres(capacity, thres, dflt) ==
    LET t == IF thres <= 0 \/ thres >= 100 THEN dflt ELSE thres
    IN  MinOf(MaxOf(Limits.MaxBurstSize, (capacity * t) \div 100), capacity - Limits.MaxBurstSize)

MountsValid(mounts) ==
    /\ Len(mounts) \in 1..Limits.MaxMounts
    /\ \A i \in DOMAIN mounts : mounts[i].length <= Limits.NameMaxLength /\ mounts[i].generic

(* Defaults first, then what each field is checked for.                    *)
Defaults(c) ==
    LET capacity == AlignCapacity(c.UringCapacity, Limits.MinUringCapacity,
                                  Limits.DefaultUringCapacity, Limits.MaxUringCapacity)
    IN  [mounts |-> c.mounts,
         SegmentLen |-> DefaultTo(c.SegmentLen, Limits.DefaultSegmentLen),
         UringCapacity |-> capacity,
         uringCongestionLbound |-> adjustUringThres(capacity, c.UringCongestionThres, 70),
         uringWaitLbound |-> adjustUringThres(capacity, c.UringWaitThres, 90),
         OpenFds |-> DefaultTo(c.OpenFds, Limits.DefaultOpenFds),
         KeepFds |-> DefaultTo(c.KeepFds, Limits.DefaultKeepFds)]

Validate(c) ==
    /\ MountsValid(c.mounts)
    /\ c.SegmentLen \in Limits.MinSegmentLen..Limits.MaxSegmentLen
    /\ c.OpenFds \in Limits.MinOpenFds..Limits.MaxOpenFds
    /\ c.KeepFds \in Limits.MinKeepFds..Limits.MaxKeepFds
    /\ c.OpenFds > c.KeepFds

(* What a payload mbuf has to hold: an entry of the table, and a Data with *)
(* a whole segment or a metadata payload behind the default headroom.      *)
payloadHeadroom(c, dataroom) ==
    dataroom - Limits.DataEncNullSigLen - MaxOf(c.SegmentLen, Limits.EstimatedMetadataSize)
checkPayloadMempool(c, dataroom) ==
    /\ dataroom - Limits.DefaultHeadroom >= Limits.SizeofFd
    /\ payloadHeadroom(c, dataroom) >= Limits.DefaultHeadroom

-----------------------------------------------------------------------------
(* The file descriptor table.  tab.ht finds the entry of a path; tab.ent   *)
(* are the entries by number, an entry that is not open is free memory;    *)
(* tab.q is the queue of unused ones with its separate count; tab.pool     *)
(* counts the free payload mbufs; tab.undef says that freed memory was     *)
(* used or a node outside the queue unlinked.                              *)

EntryIds == 1..(Cardinality(Files) + 1)
NoEntry == [open |-> FALSE, file |-> CHOOSE f \in Files : TRUE, dir |-> FALSE,
            lastSeg |-> 0, refcnt |-> 0, fresh |-> FALSE]
None == 0
NotFound == -1

EmptyTable(pool) == [ht |-> [f \in Files |-> None], ent |-> [e \in EntryIds |-> NoEntry],
                     q |-> <<>>, qCount |-> 0, pool |-> pool, undef |-> FALSE]

DivCeil(a, b) == (a + b - 1) \div b

(* What statx and PrepapeMeta leave in an entry.                           *)
Stated(en, f) ==
    [en EXCEPT !.dir = fs[f].kind = "dir", !.fresh = TRUE,
               !.lastSeg = DivCeil(fs[f].size, cfg.SegmentLen) - (IF fs[f].size > 0 THEN 1 ELSE 0)]

Unlinked(t, e) ==
    IF e \in Range(t.q)
    THEN [t EXCEPT !.q = SelectSeq(t.q, LAMBDA x : x # e), !.qCount = t.qCount - 1]
    ELSE [t EXCEPT !.undef = TRUE]

(* stat: how statx ends, if the stored result is too old.                  *)
Ref(t, e, stat) ==
    LET t1 == IF t.ent[e].refcnt = 0 THEN Unlinked(t, e) ELSE t
        en == IF t.ent[e].fresh THEN t.ent[e] ELSE Stated(t.ent[e], t.ent[e].file)
    IN  IF ~t.ent[e].open THEN [e |-> None, t |-> [t EXCEPT !.undef = TRUE]]
        ELSE IF ~t.ent[e].fresh /\ stat = "fail"
        THEN [e |-> None, t |-> [t1 EXCEPT !.ent[e].fresh = TRUE]]
        ELSE [e |-> e, t |-> [t1 EXCEPT !.ent[e] = [en EXCEPT !.refcnt = en.refcnt + 1]]]

NewFd(t, f, stat) ==
    LET e == CHOOSE x \in EntryIds : ~t.ent[x].open
    IN  IF fs[f].kind = "none" THEN [e |-> NotFound, t |-> t]
        ELSE IF t.pool = 0 \/ stat = "fail" THEN [e |-> None, t |-> t]
        ELSE [e |-> e,
              t |-> [t EXCEPT !.ht[f] = e, !.pool = t.pool - 1,
                              !.ent[e] = Stated([NoEntry EXCEPT !.open = TRUE, !.file = f,
                                                                !.refcnt = 1], f)]]

(* A name without a mount, too long, or that is no filename has no entry.  *)
Open(t, req, stat) ==
    IF req.path \notin Files THEN [e |-> None, t |-> t]
    ELSE IF t.ht[req.path] # None THEN Ref(t, t.ht[req.path], stat)
    ELSE NewFd(t, req.path, stat)

(* Evict: the oldest unused entry is closed.                               *)
MutEvict(t) ==
    LET v == Head(t.q)
    IN  [t EXCEPT !.q = Tail(t.q), !.qCount = t.qCount - 1, !.ent[v].open = FALSE,
                  !.pool = t.pool + 1]
Evict(t) ==
    LET v == Head(t.q)
    IN  [t EXCEPT !.ht[t.ent[v].file] = None, !.q = Tail(t.q), !.qCount = t.qCount - 1,
                  !.ent[v] = NoEntry, !.pool = t.pool + 1]

Unref(t, e) ==
    LET n == t.ent[e].refcnt - 1
        kept == [t EXCEPT !.ent[e].refcnt = n, !.q = Append(t.q, e), !.qCount = t.qCount + 1]
    IN  IF ~t.ent[e].open THEN [t EXCEPT !.undef = TRUE]
        ELSE IF n > 0 THEN [t EXCEPT !.ent[e].refcnt = n]
        ELSE IF kept.qCount <= cfg.KeepFds THEN kept
        ELSE Evict(kept)

Clear(t) == EmptyTable(t.pool + Cardinality({f \in Files : t.ht[f] # None}))

-----------------------------------------------------------------------------
(* What a name asks for: the kinds of its components after the path.       *)

MarkOf(c, req) ==
    CASE c = "metadata" -> IF req.discovery THEN {"metadata"} ELSE {"bad"}
      [] c \in {"version", "segment", "ls"} -> {c}
      [] OTHER -> {"bad"}
ParseRequest(req) ==
    LET marks == UNION {MarkOf(c, req) : c \in Range(req.suffix)}
    IN  IF "bad" \in marks THEN {} ELSE marks

-----------------------------------------------------------------------------
Init ==
    /\ scn \in Scenarios
    /\ cfg = Defaults(scn.config)
    /\ phase = IF Validate(cfg) /\ checkPayloadMempool(cfg, scn.dataroom) THEN "rx" ELSE "rejected"
    /\ fs = scn.fs /\ nChanges = 0
    /\ tab = EmptyTable(scn.pool)
    /\ burst = <<>> /\ nPayload = 0 /\ nSqe = 0
    /\ sq = <<>> /\ flight = [e \in EntryIds |-> 0] /\ cq = <<>> /\ uringCount = 0
    /\ nPopped = 0

Defined == ~tab.undef

(* Interests are popped from the queue, with as many payloads.             *)
PopBurst ==
    /\ phase = "rx" /\ Defined
    /\ \E n \in 0..Limits.MaxBurstSize : \E reqs \in [1..n -> scn.requests] :
          /\ nPopped + n <= scn.nRequests
          /\ nPopped' = nPopped + n
          /\ IF n = 0 \/ n > tab.pool
             THEN phase' = "tx" /\ UNCHANGED <<tab, burst, nPayload>>
             ELSE /\ phase' = "proc" /\ burst' = reqs /\ nPayload' = n
                  /\ tab' = [tab EXCEPT !.pool = tab.pool - n]
    /\ nSqe' = 0
    /\ UNCHANGED <<scn, cfg, fs, nChanges, uring>>

(* Rest of the burst, or the loop is over.                                 *)
Advance(rest) == burst' = rest /\ phase' = IF rest = <<>> THEN "submit" ELSE "proc"
Skip(t) == tab' = t /\ Advance(Tail(burst)) /\ UNCHANGED <<nPayload, nSqe, uring>>

(* A payload that was encoded is sent, and its mbuf comes back.            *)
Reply(t, encoded) ==
    /\ tab' = IF encoded THEN [t EXCEPT !.pool = t.pool + 1] ELSE t
    /\ nPayload' = IF encoded THEN nPayload - 1 ELSE nPayload
    /\ Advance(Tail(burst)) /\ UNCHANGED <<nSqe, uring>>

(* Without a free SQE the rest of the burst is given up; the reference to  *)
(* the entry stays taken.                                                  *)
SubmitReadv(o) ==
    /\ tab' = o.t
    /\ IF Len(sq) < cfg.UringCapacity
       THEN /\ sq' = Append(sq, o.e) /\ nSqe' = nSqe + 1 /\ nPayload' = nPayload - 1
            /\ Advance(Tail(burst))
       ELSE Advance(<<>>) /\ UNCHANGED <<sq, nSqe, nPayload>>
    /\ UNCHANGED <<flight, cq, uringCount>>

Read(req, o) ==
    IF o.e \in {None, NotFound} THEN Skip(o.t)
    ELSE IF o.t.ent[o.e].dir \/ req.segment > o.t.ent[o.e].lastSeg THEN Skip(Unref(o.t, o.e))
    ELSE SubmitReadv(o)

(* encoded: whether listing, clock and packet encoding succeed.            *)
Ls(req, o, encoded) ==
    IF o.e \in {None, NotFound} THEN Skip(o.t)
    ELSE IF ~o.t.ent[o.e].dir THEN Skip(Unref(o.t, o.e))
    ELSE Reply(Unref(o.t, o.e), encoded)

Metadata(o, encoded) ==
    IF o.e = None THEN Skip(o.t)
    ELSE Reply(IF o.e = NotFound THEN o.t ELSE Unref(o.t, o.e), encoded)

ProcessInterest ==
    /\ phase = "proc" /\ Defined
    /\ LET req == Head(burst)
           kind == ParseRequest(req)
       IN  \E stat \in scn.stat, encoded \in BOOLEAN :
             LET o == Open(tab, req, stat)
             IN  CASE kind = {"version", "segment"} -> Read(req, o)
                   [] kind = {"ls", "version", "segment"} ->
                        IF req.segment # 0 THEN Skip(tab) ELSE Ls(req, o, encoded)
                   [] kind \in {{"metadata"}, {"ls", "metadata"}} -> Metadata(o, encoded)
                   [] OTHER -> Skip(tab)
    /\ UNCHANGED <<scn, cfg, fs, nChanges, nPopped>>

Discard == tab' = [tab EXCEPT !.pool = tab.pool + nPayload] /\ nPayload' = 0

(* Everything queued is handed to the kernel; a ring that is nearly full   *)
(* is waited for.  A failed submission leaves the SQEs where they are.     *)
Submit ==
    /\ phase = "submit"
    /\ IF nSqe = 0 THEN phase' = "tx" /\ Discard /\ UNCHANGED uring
       ELSE \E res \in scn.submit :
              IF res = "fail" THEN phase' = "tx" /\ Discard /\ UNCHANGED uring
              ELSE /\ flight' = [e \in EntryIds |-> flight[e] + Len(SelectSeq(sq, LAMBDA x : x = e))]
                   /\ sq' = <<>> /\ uringCount' = uringCount + Len(sq)
                   /\ UNCHANGED cq
                   /\ IF uringCount >= cfg.uringWaitLbound
                      THEN phase' = "wait" /\ UNCHANGED <<tab, nPayload>>
                      ELSE phase' = "tx" /\ Discard
    /\ UNCHANGED <<scn, cfg, fs, nChanges, burst, nSqe, nPopped>>

Waited ==
    /\ phase = "wait" /\ Len(cq) >= Limits.MaxBurstSize
    /\ phase' = "tx" /\ Discard
    /\ UNCHANGED <<scn, cfg, fs, nChanges, burst, nSqe, uring, nPopped>>

(* Data or failure, the payload leaves and the entry is released.          *)
ProcessCqe(t, e) == Unref([t EXCEPT !.pool = t.pool + 1], e)

TxBurst ==
    /\ phase = "tx" /\ Defined
    /\ LET n == MinOf(Len(cq), Limits.MaxBurstSize)
       IN  /\ tab' = FoldLeft(ProcessCqe, tab, SubSeq(cq, 1, n))
           /\ cq' = SubSeq(cq, n + 1, Len(cq))
           /\ uringCount' = uringCount - n
    /\ phase' = "rx"
    /\ UNCHANGED <<scn, cfg, fs, nChanges, burst, nPayload, nSqe, sq, flight, nPopped>>

(* The loop ends: the ring goes away with what is in it.                   *)
Exit ==
    /\ phase = "rx" /\ Defined
    /\ phase' = "stopped" /\ tab' = Clear(tab)
    /\ UNCHANGED <<scn, cfg, fs, nChanges, burst, nPayload, nSqe, uring, nPopped>>

(* The kernel finishes a read, in any order.                               *)
Complete(e) ==
    /\ phase # "stopped" /\ flight[e] > 0
    /\ flight' = [flight EXCEPT ![e] = flight[e] - 1]
    /\ cq' = Append(cq, e)
    /\ UNCHANGED <<scn, cfg, phase, fs, nChanges, tab, burst, nPayload, nSqe, sq, uringCount, nPopped>>

(* A stored statx result becomes older than statValidity.                  *)
StatExpires(e) ==
    /\ tab.ent[e].open /\ tab.ent[e].fresh /\ nChanges < scn.nChanges
    /\ tab' = [tab EXCEPT !.ent[e].fresh = FALSE]
    /\ nChanges' = nChanges + 1
    /\ UNCHANGED <<scn, cfg, phase, fs, burst, nPayload, nSqe, uring, nPopped>>

(* A file is rewritten, open or not.                                       *)
FsChange(f) ==
    /\ nChanges < scn.nChanges /\ phase \notin {"stopped", "rejected"} /\ fs[f].kind = "file"
    /\ \E size \in {0, 2 * cfg.SegmentLen} : size # fs[f].size /\ fs' = [fs EXCEPT ![f].size = size]
    /\ nChanges' = nChanges + 1
    /\ UNCHANGED <<scn, cfg, phase, tab, burst, nPayload, nSqe, uring, nPopped>>

Thread == PopBurst \/ ProcessInterest \/ Submit \/ Waited \/ TxBurst
Kernel == \E e \in EntryIds : Complete(e)
Next == Thread \/ Exit \/ Kernel \/ (\E e \in EntryIds : StatExpires(e)) \/ (\E f \in Files : FsChange(f))

Spec == Init /\ [][Next]_vars
(* The thread is polled for ever and the kernel finishes every read.       *)
Fairness == WF_vars(Thread) /\ WF_vars(Kernel)
FairSpec == Spec /\ Fairness

-----------------------------------------------------------------------------
OpsOn(e) == flight[e] + Len(SelectSeq(sq \o cq, LAMBDA x : x = e))
OpenEntries == {e \in EntryIds : tab.ent[e].open}

(* A file stays open while a read on it is queued, under way or not yet    *)
(* seen (FileServerFd_Ref and FileServerFd_Unref): its entry is in the     *)
(* table with at least as many references as reads.  The cleanup queue     *)
(* never unlinks an entry that is not in it.                               *)
OpenWhileRead ==
    phase # "stopped" =>
      /\ ~tab.undef
      /\ \A e \in EntryIds : OpsOn(e) > 0 =>
            /\ tab.ent[e].open /\ tab.ent[e].refcnt >= OpsOn(e)
            /\ tab.ht[tab.ent[e].file] = e

(* Every payload mbuf is free, in the burst, with a read, or holds an      *)
(* entry of the table: none is freed twice and none is lost on any of the  *)
(* ways an Interest can be dropped (FileServer_RxBurst, _TxBurst).         *)
PayloadsConserved ==
    scn.pool = tab.pool + nPayload + Cardinality({f \in Files : tab.ht[f] # None})
               + Len(sq) + Len(cq) + FoldFunction(LAMBDA a, b : a + b, 0, flight)

(* The files kept open without a reader are those in the cleanup queue,    *)
(* at most KeepFds of them (config.go: "Maximum unused file descriptors    *)
(* per thread.").  Not so where statx fails on an open file: its entry     *)
(* stays open outside the queue.                                           *)
UnusedBounded == Cardinality({e \in OpenEntries : tab.ent[e].refcnt = 0}) <= cfg.KeepFds

(* The reads under way are always finished and seen: the thread never      *)
(* waits for more completions than there can be (io_uring_submit_and_wait  *)
(* for MaxBurstSize once uringCount reaches uringWaitLbound).  Nothing is  *)
(* said once the behaviour of the program is undefined.                    *)
ReadsEnd == (uringCount > 0) ~> (uringCount = 0 \/ phase = "stopped" \/ tab.undef)
=============================================================================

------------------------------- MODULE MCApps -------------------------------
(***************************************************************************)
(* The applications for TLC: the traffic generator's life (TrafficGen),    *)
(* its consumer and producer (TgTraffic), the file server (FileServer),    *)
(* packet dump (Pdump), the high resolution logger (Hrlog), and the        *)
(* statistics they keep (RunningStat).                                     *)
(* A behaviour is one of the component that `which` names; the others rest *)
(* and hold no state, or an initial one.                                   *)
(***************************************************************************)
EXTENDS Hrlog, FiniteSets, TLC

CONSTANT Chosen

VARIABLES which,
          cfg, pcfg, rx, tx, rxQueue, workers, demux, net, attempts, launches, asked,
          tgReq, gen, map, hook, objects, faces, lcores, busy, panics,
          scn, fsCfg, phase, fs, nChanges, tab, burst, nPayload, nSqe, sq, flight, cq, uringCount, nPopped,
          req, src, sources, ref, reader, writer, gqlWriter, mutex, up, packets, pdPanics,
          stat, taken

trafficVars == <<cfg, pcfg, rx, tx, rxQueue, workers, demux, net, attempts, launches, asked>>
tgVars == <<tgReq, gen, map, hook, objects, faces, lcores, busy, panics>>
fsVars == <<scn, fsCfg, phase, fs, nChanges, tab, burst, nPayload, nSqe, sq, flight, cq, uringCount, nPopped>>
pdVars == <<req, src, sources, ref, reader, writer, gqlWriter, mutex, up, packets, pdPanics>>
rsVars == <<stat, taken>>

-----------------------------------------------------------------------------
(* TgTraffic: patterns with offset and digest, replies of every kind.      *)

Pattern(prefix, weight, offset, digest) ==
  [prefix |-> prefix, weight |-> weight, offset |-> offset, digest |-> digest]
ConsumerPatterns ==
  {<<Pattern(<<"A">>, 0, 0, FALSE), Pattern(<<"A">>, 1, 2, FALSE)>>,
   <<Pattern(<<"B">>, 1, 0, TRUE)>>,
   <<Pattern(<<"A">>, 1, 1, FALSE)>>}
Reply(weight, nack, timeout) == [weight |-> weight, nack |-> nack, timeout |-> timeout]
ProducerPatterns ==
  {<<[prefix |-> <<"A">>, replies |-> <<Reply(1, FALSE, FALSE), Reply(0, TRUE, FALSE)>>]>>,
   <<[prefix |-> <<"B">>, replies |-> << >>]>>}
T == INSTANCE TgTraffic WITH
  ConsumerConfigs <- ConsumerPatterns, ProducerConfigs <- ProducerPatterns, NThreads <- 1,
  SeqStart <- {14}, SeqRange <- 16, SeqWindow <- 7, MaxPatterns <- 4, MaxSumWeight <- 8,
  MaxReplyWeight <- 4, MaxReplies <- 2, DigestLowWatermark <- 1, DigestBurstSize <- 2,
  MaxInterests <- 3, MaxLaunches <- 2

(* TrafficGen: two starts and a third request that deletes or relaunches.  *)
TgOperations == [a |-> {"start"}, b |-> {"start"}, d |-> {"delete", "relaunch"}]
TgConfigs ==
  {[face |-> "own", mods |-> {"producer"}, bad |-> {"producer"}],
   [face |-> "own", mods |-> {"producer", "fetcher"}, bad |-> {}],
   [face |-> "shared", mods |-> {"consumer"}, bad |-> {}],
   [face |-> "own", mods |-> {"fileServer", "consumer"}, bad |-> {}],
   [face |-> "own", mods |-> {"producer", "fileServer"}, bad |-> {}]}
TgMayFail ==
  {[mod |-> "face", at |-> "create"]} \cup [mod : {"producer"}, at : {"worker", "patterns"}]
  \cup [mod : {"fileServer"}, at : {"mount", "worker"}]
  \cup [mod : {"consumer"}, at : {"opPool", "crypto", "patterns"}]
G == INSTANCE TrafficGen WITH
  Reqs <- {"a", "b", "d"}, Configs <- TgConfigs, Operations <- TgOperations, MayFail <- TgMayFail,
  NLcores <- 8, Orderly <- TRUE, req <- tgReq

-----------------------------------------------------------------------------
(* FileServer.                                                             *)

MCFiles == {"a", "b", "d"}
MCLimits == [MaxBurstSize |-> 2, MaxMounts |-> 2, NameMaxLength |-> 4,
             MinUringCapacity |-> 4, DefaultUringCapacity |-> 8, MaxUringCapacity |-> 8,
             MinSegmentLen |-> 1, DefaultSegmentLen |-> 2, MaxSegmentLen |-> 2,
             MinOpenFds |-> 2, DefaultOpenFds |-> 3, MaxOpenFds |-> 4,
             MinKeepFds |-> 1, DefaultKeepFds |-> 1, MaxKeepFds |-> 2,
             DefaultHeadroom |-> 1, DataEncNullSigLen |-> 1, EstimatedMetadataSize |-> 1, SizeofFd |-> 3]

Config(sqes, wait, open, keep) ==
    [mounts |-> <<[length |-> 2, generic |-> TRUE]>>, SegmentLen |-> 0, UringCapacity |-> sqes,
     UringCongestionThres |-> 0, UringWaitThres |-> wait, OpenFds |-> open, KeepFds |-> keep]
Request(path, suffix, segment) ==
    [path |-> path, suffix |-> suffix, segment |-> segment, discovery |-> TRUE]
Seg(path, n) == Request(path, <<"version", "segment">>, n)

MCFs == [f \in MCFiles |-> CASE f = "a" -> [kind |-> "file", size |-> 2]
                             [] f = "b" -> [kind |-> "file", size |-> 4]
                             [] f = "d" -> [kind |-> "dir", size |-> 0]]
Gone == [MCFs EXCEPT !["b"].kind = "none"]

Scenario(c, reqs, n, st, sub, pool, changes) ==
    [config |-> c, requests |-> reqs, nRequests |-> n, stat |-> st, submit |-> sub, pool |-> pool, nChanges |-> changes,
     dataroom |-> 5, fs |-> MCFs]

(* Every kind of request, one file missing, few payloads.                  *)
Kinds == {Seg("a", 0), Seg("b", 1), Request("d", <<"ls", "version", "segment">>, 0),
          Request("a", <<"metadata">>, 0), Request("x", <<"version", "segment">>, 0),
          Request("d", <<"segment">>, 0)}
Mixed == Scenario(Config(0, 0, 0, 0), Kinds, 3, {"ok"}, {"ok"}, 4, 0)
Missing == [Mixed EXCEPT !.fs = Gone]
(* Reads only, with a low threshold for waiting.                           *)
Busy == Scenario(Config(8, 10, 3, 2), {Seg("a", 0)}, 6, {"ok"}, {"ok"}, 9, 0)
(* Stored results expire and files change while they are read.             *)
Changing == Scenario(Config(0, 0, 2, 1), {Seg("a", 0), Seg("b", 1)}, 3, {"ok"}, {"ok"}, 4, 2)
(* Submissions fail until the ring has no SQE left.                        *)
Failing == Scenario(Config(4, 90, 2, 1), {Seg("a", 0)}, 8, {"ok"}, {"ok", "fail"}, 9, 0)
(* Configurations that are turned down.                                    *)
Rejected == {[Mixed EXCEPT !.config.OpenFds = 2, !.config.KeepFds = 2],
             [Mixed EXCEPT !.config.mounts = <<>>], [Mixed EXCEPT !.dataroom = 3]}

(* A file whose status cannot be read again.                               *)
Unreadable == {Scenario(Config(0, 0, 2, 1), {Seg("a", 0), Seg("b", 0)}, 4, {"ok", "fail"}, {"ok"}, 6, 1)}

MCScenarios == {Mixed, Missing, Busy, Changing, Failing} \cup Rejected \cup Unreadable

S == INSTANCE FileServer WITH
  Files <- MCFiles, Limits <- MCLimits, Scenarios <- MCScenarios, cfg <- fsCfg

-----------------------------------------------------------------------------
(* Pdump: two writers, a face and a port.                                  *)
PdFilters == {<<[name |-> <<"A">>, prob |-> 100], [name |-> <<"A", "B">>, prob |-> 0]>>}
P == INSTANCE Pdump WITH
  NReqs <- 4, Writers <- {"w1", "w2"}, Faces <- {"f1"}, Ports <- {"eth0"}, NameFilters <- PdFilters,
  Names <- {<<"A">>, <<"A", "B">>}, QueueCap <- 2, MaxSize <- 4, MaxNames <- 4, MaxPackets <- 2,
  Orderly <- TRUE, panics <- pdPanics

(* Hrlog: two tasks, a queue for one and a ring for two entries.           *)
OneAndTwo == [x \in {"t1", "t2"} |-> IF x = "t1" THEN 1 ELSE 2]
ASSUME HrlogAssumption

(* RunningStat: two threads, every input a sample.                         *)
R == INSTANCE RunningStat WITH Inputs <- {1, 2, 5}, MaxInputs <- 3, SampleBits <- 0, MinMax <- TRUE

-----------------------------------------------------------------------------
TrafficRests == /\ cfg = 0 /\ pcfg = 0 /\ rx = 0 /\ tx = 0 /\ rxQueue = 0 /\ workers = 0 /\ demux = 0
                /\ net = 0 /\ attempts = 0 /\ launches = 0 /\ asked = 0
TgRests == /\ tgReq = 0 /\ gen = 0 /\ map = 0 /\ hook = 0 /\ objects = 0 /\ faces = 0 /\ lcores = 0
           /\ busy = 0 /\ panics = 0
PdRests == /\ req = 0 /\ src = 0 /\ sources = 0 /\ ref = 0 /\ reader = 0 /\ writer = 0 /\ gqlWriter = 0
           /\ mutex = 0 /\ up = 0 /\ packets = 0 /\ pdPanics = 0

MCInit == /\ which \in Chosen
          /\ IF which = "traffic" THEN T!Init ELSE TrafficRests
          /\ IF which = "tg" THEN G!Init ELSE TgRests
          /\ IF which = "pdump" THEN P!Init ELSE PdRests
          /\ Init
          /\ IF which = "stat" THEN R!Init ELSE stat = 0 /\ taken = 0
          /\ S!Init
          /\ which = "fileserver" \/ scn = CHOOSE x \in MCScenarios : TRUE

MCNext ==
  /\ UNCHANGED which
  /\ \/ which = "traffic" /\ T!Next /\ UNCHANGED <<tgVars, fsVars, pdVars, vars, rsVars>>
     \/ which = "tg" /\ G!Next /\ UNCHANGED <<trafficVars, fsVars, pdVars, vars, rsVars>>
     \/ which = "fileserver" /\ S!Next /\ UNCHANGED <<trafficVars, tgVars, pdVars, vars, rsVars>>
     \/ which = "pdump" /\ P!Next /\ UNCHANGED <<trafficVars, tgVars, fsVars, vars, rsVars>>
     \/ which = "hrlog" /\ Next /\ UNCHANGED <<trafficVars, tgVars, fsVars, pdVars, rsVars>>
     \/ which = "stat" /\ R!Next /\ UNCHANGED <<trafficVars, tgVars, fsVars, pdVars, vars>>

(* The file server's thread is polled for ever, and the kernel finishes    *)
(* every read.                                                             *)
Fairness == /\ WF_fsVars(which = "fileserver" /\ S!Thread)
            /\ WF_fsVars(which = "fileserver" /\ S!Kernel)
MCSpec == /\ MCInit
          /\ [][MCNext]_<<which, trafficVars, tgVars, fsVars, pdVars, vars, rsVars>>
          /\ Fairness

-----------------------------------------------------------------------------
(* Properties.                                                             *)

\* The replies a consumer counts never exceed its Interests, over every stop and
\* relaunch, and no pattern asks for a segment twice (TgcRx_Run, TgcTxPattern_*).
RepliesBounded == which = "traffic" => T!RepliesBounded /\ T!NeverAsksTwice

\* A start that failed at any step, and a delete, give everything back and do not
\* panic (tg.New, TrafficGen.Close).
TgNothingLeft == which = "tg" => G!NothingLeft /\ G!NoPanic

\* A file stays open while a read on it is queued or under way, as long as statx does
\* not fail on an open file (FileServerFd_Ref then leaves the entry out of the cleanup
\* queue and unlinks it from there once more); and every payload mbuf is accounted for
\* in any case (FileServerFd_Ref, FileServerFd_Unref, FileServer_RxBurst).
OpenWhileRead ==
  which = "fileserver" => (scn.stat = {"ok"} => S!OpenWhileRead) /\ S!PayloadsConserved

\* Every read that was queued is completed and its file released, unless the
\* thread is stopped (FileServer_Run, FileServer_TxBurst).
ReadsEnd == S!ReadsEnd

\* No thread uses a dump source or its writer after it was freed, and the file is
\* PCAPNG at every moment (closeImpl, Writer.Close, PdumpWriter_ProcessMbuf).
DumpSound == which = "pdump" => P!NoUseAfterFree /\ P!FileIsPcapng

\* Statistics of two threads added up are those of all samples, and subtracting
\* one of them leaves the other (runningstat.Snapshot).
StatsExact == which = "stat" => R!StatsExact
=============================================================================

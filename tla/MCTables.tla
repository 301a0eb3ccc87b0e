------------------------------ MODULE MCTables ------------------------------
(* The tables for TLC: the replicated FIB under lookups (Fib), the requests *)
(* that manage it and its strategies (FibMgmt), the NDT (Ndt) and the PCCT  *)
(* that the PIT and the CS share (Pcct).  A behaviour is one of the         *)
(* component that `which` names; the others rest.                           *)
EXTENDS Pcct, TLC

CONSTANTS Chosen, NSockets, k1, k2, k3, b1, b2
VARIABLES which,
          tree, rep, limbo, cmd, nCommands, th, ok,
          nRefs, table, lastID, default, mgmtTree, faces, main, req, fibOpen, crash,
          given, cfg, ndtTable, nLookups, nHits, ndtReq, last

fibVars == <<tree, rep, limbo, cmd, nCommands, th, ok>>
fibmgmtVars == <<nRefs, table, lastID, default, mgmtTree, faces, main, req, fibOpen, crash>>
ndtVars == <<given, cfg, ndtTable, nLookups, nHits, ndtReq, last>>

(* Fib: one name at the smallest start depth the configuration allows       *)
(* (MinStartDepth = 2) and two below it.                                    *)
DeepNames == {<<"a", "a">>, <<"a", "a", "a">>, <<"a", "a", "a", "a">>}
DeepQueries == {<<"a", "a", "a", "a">>}
OneSocket == [x \in {"th1"} |-> "s1"]
NilBody == [nexthops |-> <<>>, strategy |-> 0]
F == INSTANCE Fib WITH
  StartDepth <- 2, NoBody <- NilBody, Names <- DeepNames, Queries <- DeepQueries, Bodies <- {b1, b2},
  Socket <- {"s1", "s2"}, Thread <- {"th1"}, SocketOf <- OneSocket, Capacity <- 4, MaxCommands <- 3

(* FibMgmt: a name at the start depth and one below it.                     *)
MgmtNames == {<<"a", "a">>, <<"a", "a", "a">>}
M == INSTANCE FibMgmt WITH
  StartDepth <- 2, NoBody <- NilBody, Names <- MgmtNames, Faces <- {1}, NReqs <- 4, MaxStrategies <- 2,
  Orderly <- TRUE, tree <- mgmtTree

(* Ndt: two sockets, names that share a prefix, and a table of the smallest *)
(* size the configuration allows.                                           *)
NdtNames == {<<"a">>, <<"a", "b", "c">>, <<"a", "b", "d">>}
NdtHash == (<<>> :> 3 @@ <<"a">> :> 17 @@ <<"a", "b">> :> 34 @@ <<"a", "b", "c">> :> 5
            @@ <<"a", "b", "d">> :> 6)
NdtSockets == <<0, 1, -1>>
NdtConfigs == {[prefixLen |-> p, capacity |-> 9, sampleInterval |-> 4] : p \in {0, 1}}
N == INSTANCE Ndt WITH
  Configs <- NdtConfigs, MaxCapacity <- 1024, Sockets <- NdtSockets, Names <- NdtNames,
  HashOf <- NdtHash, Values <- {1, 258}, NReqs <- 2, MaxLookups <- 1, Orderly <- TRUE,
  table <- ndtTable, req <- ndtReq

(* Pcct: k3 has a name that needs a key extension.  Of the two other keys,  *)
(* and of the two bodies of Fib, neither is special.                        *)
OneLong == [k \in Key |-> IF k = k3 THEN 1 ELSE 0]
Alike == Permutations({k1, k2}) \cup Permutations({b1, b2})
ASSUME PcctAssumption
ASSUME F!FibAssumption /\ F!StartDepthAssumption /\ M!StartDepthAssumption

(* A component that rests holds no state.                                   *)
FibRests == /\ tree = 0 /\ rep = 0 /\ limbo = 0 /\ cmd = 0 /\ nCommands = 0 /\ th = 0 /\ ok = 0
FibMgmtRests == /\ nRefs = 0 /\ table = 0 /\ lastID = 0 /\ default = 0 /\ mgmtTree = 0
                /\ faces = 0 /\ main = 0 /\ req = 0 /\ fibOpen = 0 /\ crash = 0
NdtRests == /\ given = 0 /\ cfg = 0 /\ ndtTable = 0 /\ nLookups = 0 /\ nHits = 0 /\ ndtReq = 0
            /\ last = 0

MCInit == /\ which \in Chosen
          /\ IF which = "fib" THEN F!Init ELSE FibRests
          /\ IF which = "fibmgmt" THEN M!Init ELSE FibMgmtRests
          /\ IF which = "ndt" THEN N!Init ELSE NdtRests
          /\ Init

MCNext == /\ UNCHANGED which
          /\ \/ which = "fib" /\ F!Next /\ UNCHANGED <<fibmgmtVars, ndtVars, t>>
             \/ which = "fibmgmt" /\ M!Next /\ UNCHANGED <<fibVars, ndtVars, t>>
             \/ which = "ndt" /\ N!Next /\ UNCHANGED <<fibVars, fibmgmtVars, t>>
             \/ which = "pcct" /\ Next /\ UNCHANGED <<fibVars, fibmgmtVars, ndtVars>>
MCSpec == MCInit /\ [][MCNext]_<<which, fibVars, fibmgmtVars, ndtVars, t>>

-----------------------------------------------------------------------------
(* Properties.                                                             *)

\* The tree's counters and heights fit its nodes (fibtree.Tree).
\* Between commands every replica answers as the tree does, and every entry
\* object is in exactly one place: mempool, command in progress, hash table or
\* grace period (Fib.doUpdate, Fib_Write, Fib_Erase).  A lookup that runs while
\* the FIB changes misses no entry that was there all along, and neither it nor a
\* reference saved in a PIT entry meets an object that has been freed or used
\* again (Fib_Lpm, PitEntry_FindFibEntry).
FibSound ==
  which = "fib" => /\ F!TypeOK /\ F!TreeSound /\ F!ReplicasAgree /\ F!Accounting
                   /\ F!LookupMissesNothing /\ F!NoUseAfterFree /\ F!ReferenceIsExact

\* A strategy that a FIB entry names stays loaded, and no request meets a freed
\* strategy or a null pointer (strategycode, Fib_Write, StrategyCode_Unref).
StrategiesLoaded == which = "fibmgmt" => M!StrategiesLoaded

\* Once no update of its entry is in progress, all input threads send a name to
\* one forwarding thread, the one the last update named (Ndt.Update, Ndtq_Lookup).
NdtDispatchAgrees == which = "ndt" => N!DispatchAgrees
=============================================================================

----------------------------- MODULE EalConfig -----------------------------
(***************************************************************************)
(* The parameters of DPDK's environment abstraction layer                  *)
(* (dpdk/ealconfig, core/hwinfo): which processors DPDK may use, which     *)
(* lcores are created on them and how much memory each NUMA socket may     *)
(* take, from the activation parameters and the processors of the machine. *)
(*                                                                         *)
(* An argument list is abstracted to what DPDK makes of it: a function     *)
(* from lcores to the processors each may run on, and the memory of each   *)
(* socket.  A map of the configuration is a function on the sockets it     *)
(* mentions.                                                               *)
(***************************************************************************)
EXTENDS Integers, Sequences, FiniteSets, FiniteSetsExt, SequencesExt, TLC

CONSTANTS Machines,  \* processors, each a sequence of [socket, physical, logical]
          Settings   \* configurations

VARIABLES hw, cfg, args

vars == <<hw, cfg, args>>

-----------------------------------------------------------------------------
(* hwinfo.                                                                 *)

ByNumaSocket(cores, s) == SelectSeq(cores, LAMBDA c : c.socket = s)

NumaSockets(cores) == {cores[i].socket : i \in DOMAIN cores}

MaxNumaSocket(cores) == Max({-1} \cup NumaSockets(cores))

ByLogicalCore(cores, id) == {cores[i] : i \in {j \in DOMAIN cores : cores[j].logical = id}}

\* The logical cores whose physical core came up before, or those for which it
\* had not.
ListHyperThread(cores, secondary) ==
  LET seen(i) == \E j \in 1..(i - 1) : /\ cores[j].socket = cores[i].socket
                                       /\ cores[j].physical = cores[i].physical
      pick == SelectSeq([i \in DOMAIN cores |-> i], LAMBDA i : seen(i) = secondary)
  IN [k \in DOMAIN pick |-> cores[pick[k]].logical]

-----------------------------------------------------------------------------
(* LCoreConfig.                                                            *)

MutAllowed(list, pref) ==
  CASE pref = 0 -> <<>>
    [] pref < 0 -> SubSeq(list, 1 - pref, Len(list))
    [] pref > 0 -> SubSeq(list, 1, Min({pref, Len(list)}))

\* The cores of one socket that CoresPerNuma leaves.
Allowed(list, pref) ==
  LET n == IF pref < 0 THEN pref + Len(list) ELSE pref IN
  IF n <= 0 THEN <<>> ELSE SubSeq(list, 1, Min({n, Len(list)}))

\* gatherAvail: the processors available on each socket.
GatherAvail(c, cores) ==
  IF c.cores # <<>>
  THEN LET known == SelectSeq(c.cores, LAMBDA id : ByLogicalCore(cores, id) # {})
           on(id) == (CHOOSE x \in ByLogicalCore(cores, id) : TRUE).socket
       IN [s \in {on(known[i]) : i \in DOMAIN known} |-> SelectSeq(known, LAMBDA id : on(id) = s)]
  ELSE [s \in NumaSockets(cores) |->
          LET mine == ByNumaSocket(cores, s)
              list == ListHyperThread(mine, FALSE) \o ListHyperThread(mine, TRUE)
          IN IF s \in DOMAIN c.coresPerNuma THEN Allowed(list, c.coresPerNuma[s]) ELSE list]

Failed == [ok |-> FALSE, lcores |-> <<>>]

\* The LCoresPerNuma branch: lcores numbered from 0, lowest socket first.
FloatingLCores(c, avail) ==
  LET demand == DOMAIN c.lcoresPerNuma
      before(s) == FoldSet(LAMBDA t, n : n + c.lcoresPerNuma[t], 0, {t \in demand : t < s})
      total == FoldSet(LAMBDA t, n : n + c.lcoresPerNuma[t], 0, demand)
      of(id) == CHOOSE s \in demand : before(s) <= id /\ id < before(s) + c.lcoresPerNuma[s]
  IN IF \E s \in demand : c.lcoresPerNuma[s] = 0 \/ s \notin DOMAIN avail \/ avail[s] = <<>>
     THEN Failed
     ELSE [ok |-> TRUE, lcores |-> [id \in 0..(total - 1) |-> ToSet(avail[of(id)])]]

\* One lcore for each available processor.
PinnedLCores(avail) ==
  LET ids == UNION {ToSet(avail[s]) : s \in DOMAIN avail} IN
  IF ids = {} THEN Failed ELSE [ok |-> TRUE, lcores |-> [id \in ids |-> {id}]]

LCoreArgs(c, cores) ==
  LET avail == GatherAvail(c, cores) IN
  IF DOMAIN c.lcoresPerNuma = {} THEN PinnedLCores(avail) ELSE FloatingLCores(c, avail)

-----------------------------------------------------------------------------
(* MemoryConfig.                                                           *)

NoLimit == 0

\* --socket-limit and --socket-mem, one number per socket from 0 to the highest.
MemoryArgs(c, cores) ==
  LET all == 0..MaxNumaSocket(cores)
      has(s) == s \in DOMAIN c.memPerNuma
  IN IF DOMAIN c.memPerNuma = {} THEN [limit |-> <<>>, mem |-> <<>>]
     ELSE [limit |-> [s \in all |-> CASE ~has(s) -> NoLimit
                                      [] has(s) /\ c.memPerNuma[s] <= 0 -> 1
                                      [] OTHER -> c.memPerNuma[s]],
           mem |-> IF c.preallocateMem
                   THEN [s \in all |-> CASE ~has(s) -> 1
                                         [] has(s) /\ c.memPerNuma[s] <= 0 -> 0
                                         [] OTHER -> c.memPerNuma[s]]
                   ELSE <<>>]

-----------------------------------------------------------------------------
Pending == [status |-> "pending", lcores |-> <<>>, limit |-> <<>>, mem |-> <<>>]

Init == /\ hw \in Machines
        /\ cfg \in Settings
        /\ args = Pending

\* Config.Args: the first section that fails ends it.
Args == /\ args = Pending
        /\ LET l == LCoreArgs(cfg, hw)
               m == MemoryArgs(cfg, hw)
           IN args' = IF l.ok THEN [status |-> "ok", lcores |-> l.lcores, limit |-> m.limit, mem |-> m.mem]
                      ELSE [Pending EXCEPT !.status = "error"]
        /\ UNCHANGED <<hw, cfg>>

Next == Args

Spec == Init /\ [][Next]_vars

-----------------------------------------------------------------------------
(* Properties.                                                             *)

Processors(s) == {hw[i].logical : i \in {j \in DOMAIN hw : hw[j].socket = s}}
Used == UNION {args.lcores[id] : id \in DOMAIN args.lcores}
SocketsOf(id) == {s \in NumaSockets(hw) : args.lcores[id] \cap Processors(s) # {}}

\* How many processors of socket s the documentation of CoresPerNuma allows.
Quota(s) == LET n == Cardinality(Processors(s)) IN
            IF s \notin DOMAIN cfg.coresPerNuma THEN n
            ELSE IF cfg.coresPerNuma[s] < 0 THEN Max({0, n + cfg.coresPerNuma[s]})
            ELSE Min({n, cfg.coresPerNuma[s]})

\* A processor that shares its physical core with an earlier one.
Sibling(id) == \E i, j \in DOMAIN hw : /\ j < i /\ hw[i].logical = id
                                       /\ hw[i].socket = hw[j].socket
                                       /\ hw[i].physical = hw[j].physical

\* The lcores EAL is given are those the configuration asks for: only processors
\* that exist and are allowed, never more of a socket than CoresPerNuma permits
\* and never a hyperthread sibling in place of a whole core of the same socket;
\* with LCoresPerNuma, the right number of lcores for every socket, numbered
\* consecutively from the lowest socket, each confined to its own socket.  Memory
\* is preallocated within the limit of each socket, and a socket that MemPerNuma
\* does not mention has no limit.
ArgsAsConfigured ==
  args.status = "ok" =>
    /\ \A id \in DOMAIN args.lcores : Cardinality(SocketsOf(id)) = 1
    /\ cfg.cores # <<>> => Used \subseteq ToSet(cfg.cores)
    /\ cfg.cores = <<>> => \A s \in NumaSockets(hw) :
         LET u == Used \cap Processors(s) IN
         /\ Cardinality(u) <= Quota(s)
         /\ DOMAIN cfg.lcoresPerNuma = {} => Cardinality(u) = Quota(s)
         /\ \A x \in u : Sibling(x) => \A y \in Processors(s) \ u : Sibling(y)
    /\ \A s \in DOMAIN cfg.lcoresPerNuma :
         Cardinality({id \in DOMAIN args.lcores : SocketsOf(id) = {s}}) = cfg.lcoresPerNuma[s]
    /\ DOMAIN cfg.lcoresPerNuma # {} => \A i, j \in DOMAIN args.lcores :
         i <= j => Max(SocketsOf(i)) <= Max(SocketsOf(j))
    /\ \A s \in DOMAIN args.mem : args.limit[s] = NoLimit \/ args.mem[s] <= args.limit[s]
    /\ \A s \in DOMAIN args.limit : args.limit[s] = NoLimit <=> s \notin DOMAIN cfg.memPerNuma
=============================================================================

-------------------------------- MODULE Ndt --------------------------------
(***************************************************************************)
(* The Name Dispatch Table (container/ndt, csrc/ndt): its configuration,   *)
(* one replica of the table per NUMA socket, one querier per lookup        *)
(* thread, and the updateNdt mutation, which writes the replicas one after *)
(* another while lookups run.                                              *)
(*                                                                         *)
(* A name is a sequence of components, and HashOf gives the hash of each   *)
(* prefix; the table value is the index of a forwarding thread.            *)
(***************************************************************************)
EXTENDS Integers, Sequences, FiniteSets, FiniteSetsExt, SequencesExt

CONSTANTS Configs,     \* configurations as the operator writes them
          MaxCapacity, \* largest table; 2^60 in the code
          Sockets,     \* NUMA socket of each lookup thread, AnySocket or a number
          Names,
          HashOf,      \* hash of every prefix of a name in Names
          Values,      \* values given to updateNdt
          NReqs,       \* bound: updateNdt requests
          MaxLookups,  \* bound: lookups of each thread
          Orderly      \* clients update no entry twice at the same time

VARIABLES given,    \* the configuration as written
          cfg,      \* Ndt.cfg
          table,    \* Ndt.replicas: table of each socket
          nLookups, \* NdtQuerier.nLookups
          nHits,    \* NdtQuerier.nHits
          req,      \* the requests
          last      \* history: value of each index as the last update to finish left it

vars == <<given, cfg, table, nLookups, nHits, req, last>>

AnySocket == -1
FirstSocket == 0 \* eal.Sockets[0]
Querier == DOMAIN Sockets
ReplicaOf(q) == IF Sockets[q] = AnySocket THEN FirstSocket ELSE Sockets[q]
Replica == {ReplicaOf(q) : q \in Querier}

-----------------------------------------------------------------------------
(* Configuration.                                                          *)

Clamp(lo, x, hi) == Min({Max({lo, x}), hi})

\* The smallest power of two that is not less than n.
NextPowerOfTwo(n) == Min({2^k : k \in {j \in 0..30 : 2^j >= n}})

ApplyDefaults(c) ==
  LET prefixLen == IF c.prefixLen = 0 THEN 2 ELSE Clamp(1, c.prefixLen, 17)
      capacity == IF c.capacity = 0 THEN 2^16 ELSE Clamp(2^4, c.capacity, MaxCapacity)
      interval == IF c.sampleInterval = 0 THEN 2^10 ELSE Clamp(1, prefixLen, 2^30)
  IN [prefixLen |-> prefixLen, capacity |-> NextPowerOfTwo(capacity),
      sampleInterval |-> NextPowerOfTwo(interval)]

-----------------------------------------------------------------------------
(* From a name to an index, on the Go side and in the lookup threads.      *)

MutComputeHash(name) == HashOf[name]
ComputeHash(name) == HashOf[IF Len(name) > cfg.prefixLen THEN SubSeq(name, 1, cfg.prefixLen) ELSE name]

IndexOfHash(hash) == hash % cfg.capacity

IndexOfName(name) == IndexOfHash(ComputeHash(name))

\* The index in Ndt_Lookup.
Ndt_Index(name) == HashOf[SubSeq(name, 1, Min({Len(name), cfg.prefixLen}))] % cfg.capacity

-----------------------------------------------------------------------------
Idle == [pc |-> "idle", index |-> 0, value |-> 0, left |-> {}, meant |-> 0, answer |-> 0]

\* ndt.New and Randomize, which writes the same values to every replica.
Init ==
  /\ given \in Configs
  /\ cfg = ApplyDefaults(given)
  /\ \E v \in Values : table = [s \in Replica |-> [i \in 0..(cfg.capacity - 1) |-> v % 256]]
  /\ nLookups = [q \in Querier |-> 0]
  /\ nHits = [q \in Querier |-> [i \in 0..(cfg.capacity - 1) |-> 0]]
  /\ req = [r \in 1..NReqs |-> Idle]
  /\ last = table[FirstSocket]

Arrives(r) == /\ req[r].pc = "idle"
              /\ \A q \in 1..(r - 1) : req[q].pc # "idle"

Settled(i) == \A r \in 1..NReqs : req[r].pc = "update" => req[r].index # i

\* updateNdt up to the call of Ndt.Update; the value is converted to uint8.  The
\* entry it is meant for is history.
Resolve(r, index, value, meant) ==
  /\ Arrives(r)
  /\ Orderly => Settled(index)
  /\ req' = [req EXCEPT ![r] = [pc |-> "update", index |-> index, value |-> value % 256,
                                left |-> Replica, meant |-> meant, answer |-> 0]]
  /\ UNCHANGED <<given, cfg, table, nLookups, nHits, last>>

UpdateByIndex(r, i, value) == Resolve(r, IndexOfHash(i), value, i % cfg.capacity)
UpdateByName(r, name, value) == Resolve(r, IndexOfName(name), value, Ndt_Index(name))

\* Ndt.Update: the next replica, in the order of a map.
Update(r, s) ==
  /\ req[r].pc = "update"
  /\ s \in req[r].left
  /\ table' = [table EXCEPT ![s][req[r].index] = req[r].value]
  /\ req' = [req EXCEPT ![r].left = @ \ {s}]
  /\ UNCHANGED <<given, cfg, nLookups, nHits, last>>

\* Ndt.Get: one replica and the hits of all queriers.
Get(s, index) == [index |-> index, value |-> table[s][index],
                  hits |-> FoldSet(LAMBDA q, n : n + nHits[q][index], 0, Querier)]

\* The request answers with Ndt.Get.
Respond(r) ==
  /\ req[r].pc = "update" /\ req[r].left = {}
  /\ \E s \in Replica :
       req' = [req EXCEPT ![r].pc = "done", ![r].answer = Get(s, req[r].index).value]
  /\ last' = [last EXCEPT ![req[r].meant] = req[r].value]
  /\ UNCHANGED <<given, cfg, table, nLookups, nHits>>

\* NdtQuerier_Lookup; sampleMask is the interval itself, a power of two.
Lookup(q, name) ==
  LET index == Ndt_Index(name)
      n == nLookups[q] + 1
  IN /\ nLookups[q] < MaxLookups
     /\ nLookups' = [nLookups EXCEPT ![q] = n]
     /\ nHits' = IF (n \div cfg.sampleInterval) % 2 = 0 THEN [nHits EXCEPT ![q][index] = @ + 1] ELSE nHits
     /\ UNCHANGED <<given, cfg, table, req, last>>

Next == \E r \in 1..NReqs :
          \/ \E v \in Values : \/ \E n \in Names : UpdateByName(r, n, v)
                               \/ \E i \in {1, cfg.capacity + 1} : UpdateByIndex(r, i, v)
          \/ \E s \in Replica : Update(r, s)
          \/ Respond(r)
     \/ \E q \in Querier, n \in Names : Lookup(q, n)

Spec == Init /\ [][Next]_vars

-----------------------------------------------------------------------------
(* Properties.                                                             *)

\* All input threads dispatch a name to the same forwarding thread, on whichever
\* NUMA socket they run: once no update of the name's entry is in progress, the
\* value a lookup finds is the value given for that entry, or for a name with the
\* same first prefixLen components, in the last updateNdt that finished; and each
\* updateNdt answers with the value it was given.
DispatchAgrees ==
  /\ \A n \in Names : Settled(Ndt_Index(n)) =>
       \A q \in Querier : table[ReplicaOf(q)][Ndt_Index(n)] = last[Ndt_Index(n)]
  /\ \A r \in 1..NReqs : req[r].pc = "done" => req[r].answer = req[r].value

\* "Otherwise, it is clamped between MinSampleInterval and MaxSampleInterval, and
\* adjusted up to the next power of 2." (Config.SampleInterval)  Not so: what is
\* clamped is PrefixLen.
SampleIntervalAsConfigured ==
  given.sampleInterval # 0 =>
    cfg.sampleInterval = NextPowerOfTwo(Clamp(1, given.sampleInterval, 2^30))
=============================================================================

-------------------------------- MODULE Fib --------------------------------
(***************************************************************************)
(* The Forwarding Information Base (container/fib, csrc/fib): the main     *)
(* thread applies each command to the tree and then to one replica per     *)
(* NUMA socket, while lookup threads run the two-stage longest prefix      *)
(* match on a replica's hash table under quiescent-state RCU.              *)
(*                                                                         *)
(* An entry object of a replica's mempool is one of 1..Capacity.  Every    *)
(* write to or deletion from the hash table is one step, every hash table  *)
(* lookup is one step, and the steps of the main thread, the lookup        *)
(* threads and the goroutines that free memory interleave freely.          *)
(***************************************************************************)
EXTENDS FibTree, TLC

CONSTANTS Names,       \* names the commands are about
          Queries,     \* names the lookup threads look up
          Bodies,      \* EntryBody values
          Socket,      \* NUMA sockets, one replica each
          Thread,      \* lookup threads
          SocketOf,    \* the socket of each lookup thread
          Capacity,    \* mempool capacity of a replica
          MaxCommands  \* bound: number of commands issued

FibAssumption == /\ Capacity \in Nat \ {0}
                 /\ SocketOf \in [Thread -> Socket]

VARIABLES tree,      \* Fib.tree
          rep,       \* Fib.replicas
          limbo,     \* batches of old entries waiting for a grace period
          cmd,       \* the command in progress on the main thread
          nCommands,
          th,        \* lookup threads
          ok         \* no NDNDPDK_ASSERT has failed

vars == <<tree, rep, limbo, cmd, nCommands, th, ok>>

NULL == 0
Objs == 1..Capacity
AllNames == UNION {Prefixes(n) : n \in Names \cup Queries}

-----------------------------------------------------------------------------
(* One replica: r.ht is the hash table, r.obj the entries, r.free the      *)
(* mempool, r.insertSeqNum the sequence number.                            *)

FibEntry(name, height, real, body) ==
  [name |-> name, height |-> height, realEntry |-> real, body |-> body, seqNum |-> 0]

Blank == FibEntry(<<>>, 0, NULL, NoBody)

NewReplica == [ht |-> [n \in AllNames |-> NULL],
               obj |-> [i \in Objs |-> Blank],
               free |-> Objs, insertSeqNum |-> 0]

FibEntry_GetReal(r, e) ==
  IF e = NULL \/ r.obj[e].height = 0 THEN e ELSE r.obj[e].realEntry

\* Fib_Write: the assertions, the new sequence numbers, the hash table.
WriteAsserts(r, e) ==
  LET real == IF r.obj[e].height > 0 THEN r.obj[e].realEntry ELSE e IN
  /\ r.obj[e].height > 0 => r.obj[e].body = NoBody
  /\ real # NULL => r.obj[real].height = 0 /\ r.obj[real].body # NoBody

Fib_Write(r, e) ==
  LET isVirt == r.obj[e].height > 0
      real == IF isVirt THEN r.obj[e].realEntry ELSE e
      s1 == IF isVirt THEN r.insertSeqNum + 1 ELSE r.insertSeqNum
      s2 == IF real # NULL THEN s1 + 1 ELSE s1
  IN [r EXCEPT !.ht[r.obj[e].name] = e,
               !.insertSeqNum = s2,
               !.obj = [i \in Objs |-> IF i = real THEN [@[i] EXCEPT !.seqNum = s2]
                                       ELSE IF i = e THEN [@[i] EXCEPT !.seqNum = s1]
                                       ELSE @[i]]]

\* Mempool.Free; Fib_AllocBulk zeroes an entry before it is used again.
Release(r, objs) == [r EXCEPT !.free = @ \cup objs,
                              !.obj = [i \in Objs |-> IF i \in objs THEN Blank ELSE @[i]]]

Fib_Erase(r, e) == [r EXCEPT !.ht[r.obj[e].name] = NULL]

InTable(r, e) == e # NULL /\ r.ht[r.obj[e].name] = e

-----------------------------------------------------------------------------
(* realUpdate.prepare and virtUpdate.prepare: the old entries and the      *)
(* number of new ones.                                                     *)

RealAllocs(u) == IF u = NoUpdate THEN 0
                 ELSE (IF u.action = "erase" THEN 0 ELSE 1)
                      + (IF u.withVirt = NoUpdate THEN 0 ELSE 1)

VirtAllocs(u) == IF u = NoUpdate \/ u.action = "erase" THEN 0 ELSE 1

NoPtrs == [oldReal |-> NULL, oldVirt |-> NULL]

PrepareReal(r, u) ==
  IF u = NoUpdate THEN NoPtrs
  ELSE LET got == r.ht[u.name] IN
       CASE u.action = "insert" ->
              [oldReal |-> NULL, oldVirt |-> IF u.withVirt = NoUpdate THEN NULL ELSE got]
         [] u.withVirt # NoUpdate ->
              [oldReal |-> FibEntry_GetReal(r, got), oldVirt |-> got]
         [] OTHER -> [oldReal |-> got, oldVirt |-> NULL]

PrepareVirt(r, u) ==
  IF u = NoUpdate THEN NoPtrs
  ELSE LET got == r.ht[u.name] IN
       [oldVirt |-> IF u.action = "insert" THEN NULL ELSE got,
        oldReal |-> CASE ~u.hasReal -> NULL
                      [] u.action = "insert" -> got
                      [] OTHER -> FibEntry_GetReal(r, got)]

\* The k objects with the smallest numbers; which ones the mempool hands out
\* makes no difference to the program.
Take(r, k) == [i \in 1..k |-> CHOOSE x \in r.free : Cardinality({y \in r.free : y < x}) = i - 1]

-----------------------------------------------------------------------------
(* realUpdate.execute and virtUpdate.execute, each returning the replica,  *)
(* whether the assertions held and the entries for deferredFree.           *)

Write(r, e) == [rep |-> Fib_Write(r, e), ok |-> WriteAsserts(r, e)]

EraseEntry(r, e) == IF InTable(r, e) THEN [rep |-> Fib_Erase(r, e), ok |-> TRUE]
                    ELSE [rep |-> r, ok |-> FALSE]

ExecuteReal(r, u, p, new) ==
  LET real == u.action # "erase"
      r1 == IF real THEN [r EXCEPT !.obj[new[1]] = FibEntry(u.name, 0, NULL, u.body)] ELSE r
      v == new[IF real THEN 2 ELSE 1]
      r2 == IF u.withVirt = NoUpdate THEN r1
            ELSE [r1 EXCEPT !.obj[v] = FibEntry(u.name, u.withVirt.height,
                                                IF real THEN new[1] ELSE NULL, NoBody)]
      w == CASE u.withVirt # NoUpdate -> Write(r2, v)
             [] real -> Write(r2, new[1])
             [] OTHER -> EraseEntry(r2, p.oldReal)
  IN [rep |-> w.rep, ok |-> w.ok, old |-> {p.oldReal, p.oldVirt} \ {NULL}]

MutExecuteVirtDropsReal(r, u, p, new) ==
  LET w == IF u.action = "erase" THEN EraseEntry(r, p.oldVirt)
           ELSE Write([r EXCEPT !.obj[new[1]] = FibEntry(u.name, u.height, p.oldReal, NoBody)],
                      new[1])
  IN [rep |-> w.rep, ok |-> w.ok, old |-> {p.oldVirt} \ {NULL}]

ExecuteVirt(r, u, p, new) ==
  LET w == CASE u.action # "erase" ->
                  Write([r EXCEPT !.obj[new[1]] = FibEntry(u.name, u.height, p.oldReal, NoBody)],
                        new[1])
             [] p.oldReal = NULL -> EraseEntry(r, p.oldVirt)
             [] OTHER -> Write(r, p.oldReal)
  IN [rep |-> w.rep, ok |-> w.ok, old |-> {p.oldVirt} \ {NULL}]

-----------------------------------------------------------------------------
(* The main thread.                                                        *)

NoCmd == [stage |-> <<>>]
Idle == [pc |-> "idle", query |-> <<>>, prefixLen |-> 0, found |-> NULL, through |-> {}]
NoRef == [name |-> <<>>, seqNum |-> 0, body |-> NoBody]

Init == /\ tree = New
        /\ rep = [s \in Socket |-> NewReplica]
        /\ limbo = {}
        /\ cmd = NoCmd
        /\ nCommands = 0
        /\ th = [t \in Thread |-> [look |-> Idle, ref |-> NoRef]]
        /\ ok = TRUE

\* Fib.doUpdate up to the point where every replica has prepared: the tree is
\* updated first, and reverted if some replica cannot allocate.
Start(u) ==
  LET k == RealAllocs(u.real)
      n == k + VirtAllocs(u.virt)
  IN /\ cmd = NoCmd
     /\ nCommands < MaxCommands
     /\ nCommands' = nCommands + 1
     /\ IF \E s \in Socket : Cardinality(rep[s].free) < n
        THEN /\ tree' = Revert(tree, u)
             /\ UNCHANGED <<rep, cmd>>
        ELSE /\ tree' = u.tree
             /\ rep' = [s \in Socket |-> [rep[s] EXCEPT !.free = @ \ ToSet(Take(rep[s], n))]]
             /\ cmd' = [stage |-> [s \in Socket |-> "real"], before |-> Entries(tree),
                        real |-> u.real, virt |-> u.virt,
                        preal |-> [s \in Socket |-> PrepareReal(rep[s], u.real)],
                        pvirt |-> [s \in Socket |-> PrepareVirt(rep[s], u.virt)],
                        newReal |-> [s \in Socket |-> SubSeq(Take(rep[s], n), 1, k)],
                        newVirt |-> [s \in Socket |-> SubSeq(Take(rep[s], n), k + 1, n)]]
     /\ UNCHANGED <<limbo, th, ok>>

InsertCmd(n, b) == Start(Insert(tree, n, b))
EraseCmd(n) == Start(Erase(tree, n))

\* The names whose entries lookups on socket s must be able to find, given the
\* stage st of the command there.
Stable(s, st) ==
  IF cmd = NoCmd THEN Entries(tree)
  ELSE CASE st = "real" -> cmd.before
         [] st = "virt" -> cmd.before \cap Entries(tree)
         [] OTHER -> Entries(tree)

\* deferredFree: the batch waits for every lookup thread of the process to pass
\* a quiescent state.
DeferredFree(s, old) == IF old = {} THEN limbo
                        ELSE limbo \cup {[socket |-> s, objs |-> old, waits |-> Thread]}

\* What the lookups in progress on socket s may rely on, once its stage is st.
Narrow(s, st) ==
  th' = [t \in Thread |-> IF SocketOf[t] = s
                          THEN [th[t] EXCEPT !.look.through = @ \cap Stable(s, st)]
                          ELSE th[t]]

Executing(s, st) == /\ cmd # NoCmd
                    /\ cmd.stage[s] = st
                    /\ \A z \in Socket \ {s} : cmd.stage[z] # "virt"

ExecuteRealUpdate(s) ==
  /\ Executing(s, "real")
  /\ LET x == IF cmd.real = NoUpdate THEN [rep |-> rep[s], ok |-> TRUE, old |-> {}]
              ELSE ExecuteReal(rep[s], cmd.real, cmd.preal[s], cmd.newReal[s])
     IN /\ rep' = [rep EXCEPT ![s] = x.rep]
        /\ ok' = (ok /\ x.ok)
        /\ limbo' = DeferredFree(s, x.old)
  /\ cmd' = [cmd EXCEPT !.stage[s] = "virt", !.newReal[s] = <<>>]
  /\ Narrow(s, "virt")
  /\ UNCHANGED <<tree, nCommands>>

ExecuteVirtUpdate(s) ==
  /\ Executing(s, "virt")
  /\ LET x == IF cmd.virt = NoUpdate THEN [rep |-> rep[s], ok |-> TRUE, old |-> {}]
              ELSE ExecuteVirt(rep[s], cmd.virt, cmd.pvirt[s], cmd.newVirt[s])
     IN /\ rep' = [rep EXCEPT ![s] = x.rep]
        /\ ok' = (ok /\ x.ok)
        /\ limbo' = DeferredFree(s, x.old)
  /\ cmd' = IF \A z \in Socket \ {s} : cmd.stage[z] = "done" THEN NoCmd
            ELSE [cmd EXCEPT !.stage[s] = "done", !.newVirt[s] = <<>>]
  /\ Narrow(s, "done")
  /\ UNCHANGED <<tree, nCommands>>

\* The goroutine of Table.freeLoop: urcu.Synchronize has returned.
Free(b) == /\ b.waits = {}
           /\ rep' = [rep EXCEPT ![b.socket] = Release(@, b.objs)]
           /\ limbo' = limbo \ {b}
           /\ UNCHANGED <<tree, cmd, nCommands, th, ok>>

-----------------------------------------------------------------------------
(* The lookup threads.                                                     *)

\* The lookup ends with real entry e; the thread may save a reference to it in a
\* PIT entry (PitEntry_SetFibEntry_).
Done(t, look, e) ==
  LET r == rep[SocketOf[t]] IN
  th' = [th EXCEPT ![t].look = [look EXCEPT !.pc = "use", !.found = e],
                   ![t].ref = IF e = NULL THEN @
                              ELSE [name |-> r.obj[e].name, seqNum |-> r.obj[e].seqNum,
                                    body |-> r.obj[e].body]]

Continue(t, look, len) == th' = [th EXCEPT ![t].look = [look EXCEPT !.pc = "scan", !.prefixLen = len]]

\* First stage of Fib_Lpm.
Lpm(t, q) ==
  LET s == SocketOf[t]
      r == rep[s]
      look == [Idle EXCEPT !.query = q,
                           !.through = Stable(s, IF cmd = NoCmd THEN "done" ELSE cmd.stage[s])]
      e == r.ht[Prefix(q, StartDepth)]
  IN /\ th[t].look.pc \in {"idle", "use"}
     /\ CASE StartDepth >= Len(q) -> Continue(t, look, Len(q))
          [] StartDepth < Len(q) /\ e = NULL -> Continue(t, look, StartDepth - 1)
          [] StartDepth < Len(q) /\ e # NULL /\ r.obj[e].height > 0 ->
               Continue(t, look, Min({StartDepth + r.obj[e].height, Len(q)}))
          [] OTHER -> Done(t, look, e)
     /\ UNCHANGED <<tree, rep, limbo, cmd, nCommands, ok>>

\* One iteration of the second stage.
Scan(t) ==
  LET r == rep[SocketOf[t]]
      look == th[t].look
      e == FibEntry_GetReal(r, r.ht[Prefix(look.query, look.prefixLen)])
  IN /\ look.pc = "scan"
     /\ IF e # NULL \/ look.prefixLen = 0
        THEN Done(t, look, e) ELSE Continue(t, look, look.prefixLen - 1)
     /\ UNCHANGED <<tree, rep, limbo, cmd, nCommands, ok>>

\* rcu_quiescent_state in the thread's main loop, outside any lookup.
Quiescent(t) ==
  /\ th[t].look.pc # "scan"
  /\ \/ th[t].look.pc = "use"
     \/ \E b \in limbo : t \in b.waits
  /\ th' = [th EXCEPT ![t].look = Idle]
  /\ limbo' = {[b EXCEPT !.waits = @ \ {t}] : b \in limbo}
  /\ UNCHANGED <<tree, rep, cmd, nCommands, ok>>

Next == \/ \E n \in Names, b \in Bodies : InsertCmd(n, b)
        \/ \E n \in Names : EraseCmd(n)
        \/ \E s \in Socket : ExecuteRealUpdate(s) \/ ExecuteVirtUpdate(s)
        \/ \E b \in limbo : Free(b)
        \/ \E t \in Thread, q \in Queries : Lpm(t, q)
        \/ \E t \in Thread : Scan(t) \/ Quiescent(t)

Spec == Init /\ [][Next]_vars

-----------------------------------------------------------------------------
(* Properties.                                                             *)

\* The longest prefix match as a function of a replica's state: what a lookup
\* computes when nothing changes meanwhile.
LpmResult(r, q) ==
  LET e == r.ht[Prefix(q, StartDepth)]
      top == CASE StartDepth >= Len(q) -> Len(q)
               [] StartDepth < Len(q) /\ e = NULL -> StartDepth - 1
               [] OTHER -> Min({StartDepth + r.obj[e].height, Len(q)})
      hits == {d \in 0..top : FibEntry_GetReal(r, r.ht[Prefix(q, d)]) # NULL}
  IN IF hits = {} THEN NULL ELSE FibEntry_GetReal(r, r.ht[Prefix(q, Max(hits))])

Reachable(r) == ({r.ht[n] : n \in AllNames}
                 \cup {FibEntry_GetReal(r, r.ht[n]) : n \in AllNames}) \ {NULL}

Allocated(s) == IF cmd = NoCmd THEN {} ELSE ToSet(cmd.newReal[s]) \cup ToSet(cmd.newVirt[s])

Limbo(s) == UNION {b.objs : b \in {x \in limbo : x.socket = s}}

\* Type invariant: names, entry objects, threads and sockets are of their types.
\* And ok stays TRUE: Fib_Write is given well-formed entries, and Fib_Erase finds
\* in the hash table the entry it deletes.
TypeOK ==
  /\ ok
  /\ tree.body \in [Nodes(tree) -> Bodies \cup {NoBody}]
  /\ tree.height \in [Nodes(tree) -> Nat]
  /\ \A s \in Socket : /\ rep[s].ht \in [AllNames -> Objs \cup {NULL}]
                       /\ rep[s].free \subseteq Objs
                       /\ \A e \in Objs : rep[s].obj[e].realEntry \in Objs \cup {NULL}
  /\ \A b \in limbo : b.socket \in Socket /\ b.objs \subseteq Objs /\ b.waits \subseteq Thread
  /\ \A t \in Thread : th[t].look.pc \in {"idle", "scan", "use"}

\* The counters of the tree count its nodes and its entries, every leaf but the
\* root is an entry, and no node is lower than the entries below it, whatever
\* sequence of insertions, erasures and reverted updates built it.
TreeSound ==
  /\ tree.nNodes = Cardinality(Nodes(tree))
  /\ tree.nEntries = Cardinality(Entries(tree))
  /\ \A n \in Nodes(tree) : n # <<>> /\ Children(tree, n) = {} => IsEntry(tree, n)
  /\ \A n \in Nodes(tree), m \in Entries(tree) :
       IsPrefix(n, m) => Len(m) <= Len(n) + tree.height[n]

\* Between commands, longest prefix match and exact match on every replica give
\* what the tree says, for every name.
ReplicasAgree ==
  cmd = NoCmd => \A s \in Socket :
    LET r == rep[s] IN
    /\ \A q \in AllNames :
         LET e == LpmResult(r, q)
             n == LongestPrefix(tree, q)
         IN IF n = {} THEN e = NULL
            ELSE e # NULL /\ {r.obj[e].name} = n /\ r.obj[e].body = tree.body[r.obj[e].name]
    /\ \A n \in AllNames :
         FibEntry_GetReal(r, r.ht[n]) # NULL <=> n \in Entries(tree)

\* A lookup that runs while the FIB changes never returns less than the longest
\* prefix among the entries that were in the FIB from its start to its end.
LookupMissesNothing ==
  \A t \in Thread :
    LET look == th[t].look
        r == rep[SocketOf[t]]
        want == {n \in look.through : IsPrefix(n, look.query)}
    IN look.pc = "use" =>
         /\ look.found # NULL => IsPrefix(r.obj[look.found].name, look.query)
         /\ \A n \in want : look.found # NULL /\ Len(r.obj[look.found].name) >= Len(n)

\* The entry a lookup thread is using has not gone back to the mempool, and what
\* it reads from it is still the entry it found.
NoUseAfterFree ==
  \A t \in Thread :
    LET look == th[t].look IN
    look.pc = "use" /\ look.found # NULL =>
      /\ look.found \notin rep[SocketOf[t]].free
      /\ rep[SocketOf[t]].obj[look.found].body = th[t].ref.body

\* Every entry object of a replica is in exactly one place: in the mempool, held
\* by the command in progress, reachable from the hash table, or waiting for its
\* grace period.  Old entries are neither leaked nor freed while in use.
Accounting ==
  \A s \in Socket :
    LET places == <<rep[s].free, Allocated(s), Reachable(rep[s]), Limbo(s)>> IN
    /\ Objs = UNION Range(places)
    /\ \A i, j \in 1..4 : i # j => places[i] \cap places[j] = {}

\* A FIB reference saved in a PIT entry (name and sequence number) resolves to an
\* entry with the contents it had when the reference was saved, or to nothing.
ReferenceIsExact ==
  \A t \in Thread :
    LET r == rep[SocketOf[t]]
        e == FibEntry_GetReal(r, r.ht[th[t].ref.name])
    IN e # NULL /\ r.obj[e].seqNum = th[t].ref.seqNum => r.obj[e].body = th[t].ref.body
=============================================================================

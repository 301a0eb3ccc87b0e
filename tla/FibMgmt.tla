------------------------------ MODULE FibMgmt ------------------------------
(***************************************************************************)
(* Managing the FIB and its forwarding strategies through GraphQL          *)
(* (container/strategycode, container/fib, core/gqlserver): requests load  *)
(* strategies, insert FIB entries that name one, and delete strategies,    *)
(* FIB entries and faces by their global IDs.  Requests run on goroutines  *)
(* of the HTTP server; FIB updates run one at a time on the main thread;   *)
(* a strategy is a C structure with a reference count, and is freed when   *)
(* the count reaches zero.                                                 *)
(*                                                                         *)
(* Fib models what an update does to the replicas while lookups run; here  *)
(* an update is its effect on the tree and on the reference counts.        *)
(***************************************************************************)
EXTENDS FibTree, TLC

CONSTANTS Names,         \* FIB entry names
          Faces,         \* faces that exist at first
          NSockets,      \* NUMA sockets, one FIB replica each
          NReqs,         \* bound: requests issued
          MaxStrategies, \* bound: strategies loaded
          Orderly        \* clients delete no strategy that another request uses

VARIABLES nRefs,    \* StrategyCode.nRefs of every strategy not freed
          table,    \* strategycode.table: the IDs in it
          lastID,
          default,  \* fib.GqlDefaultStrategy
          tree,     \* Fib.tree
          faces,
          main,     \* the FIB update on the main thread
          req,      \* the requests
          fibOpen,  \* Fib.Close has not been called
          crash     \* freed memory or a null pointer was used, or an assertion failed

vars == <<nRefs, table, lastID, default, tree, faces, main, req, fibOpen, crash>>

NoID == 0
Live == DOMAIN nRefs
Body(nexthops, strategy) == [nexthops |-> nexthops, strategy |-> strategy]
NilBody == Body(<<>>, NoID)

-----------------------------------------------------------------------------
(* Strategies.                                                             *)

\* makeStrategyCode: the reference of table.go.
MakeStrategyCode == /\ lastID' = lastID + 1
                    /\ nRefs' = nRefs @@ (lastID + 1 :> 1)
                    /\ table' = table \cup {lastID + 1}

\* strategycode.Get: the pointer, or null once the ID has left the table.
Get(id) == IF id \in table THEN id ELSE NoID

Drop(refs, id) == [x \in DOMAIN refs \ {id} |-> refs[x]]

\* StrategyCode_Unref, n times.
StrategyCode_Unref(refs, id, n) == IF refs[id] <= n THEN Drop(refs, id)
                                   ELSE [refs EXCEPT ![id] = @ - n]

\* Strategy.Close.
Close(id) == /\ table' = table \ {id}
             /\ IF id \in Live
                THEN nRefs' = StrategyCode_Unref(nRefs, id, 1) /\ UNCHANGED crash
                ELSE crash' = TRUE /\ UNCHANGED nRefs

-----------------------------------------------------------------------------
(* Which strategies one replica refers to in executing update u: Fib_Write *)
(* takes a reference for the real entry it writes or writes again.         *)

MutFib_WriteRefs(u, t) ==
  LET virt == u.virt # NoUpdate /\ u.virt.hasReal IN
  [real |-> IF u.real # NoUpdate /\ u.real.action # "erase" /\ u.real.withVirt = NoUpdate
            THEN {u.real.body.strategy} ELSE {},
   virt |-> IF virt THEN {t.body[u.virt.name].strategy} ELSE {}]

Fib_WriteRefs(u, t) ==
  LET virt == u.virt # NoUpdate /\ u.virt.hasReal IN
  [real |-> IF u.real # NoUpdate /\ u.real.action # "erase" THEN {u.real.body.strategy} ELSE {},
   virt |-> IF virt THEN {t.body[u.virt.name].strategy} ELSE {}]

\* StrategyCode_Ref of each of the pointers.
StrategyCode_Ref(refs, ptrs) == [id \in DOMAIN refs |-> IF id \in ptrs THEN refs[id] + 1 ELSE refs[id]]

-----------------------------------------------------------------------------
(* The requests.                                                           *)

Idle == [pc |-> "idle", name |-> <<>>, body |-> NilBody, obj |-> NoID]
Done == [Idle EXCEPT !.pc = "done"]
NoUpdateOnMain == [by |-> 0, real |-> {}, virt |-> {}, ptr |-> NoID, left |-> 0]

Init == /\ nRefs = (1 :> 1) /\ table = {1} /\ lastID = 1 /\ default = 1
        /\ tree = New
        /\ faces = Faces
        /\ main = NoUpdateOnMain
        /\ req = [r \in 1..NReqs |-> Idle]
        /\ fibOpen = TRUE /\ crash = FALSE

\* Requests are numbered in the order in which they arrive.
Arrives(r) == /\ req[r].pc = "idle"
              /\ \A q \in 1..(r - 1) : req[q].pc # "idle"

Goto(r, x) == req' = [req EXCEPT ![r] = x]

\* The strategies that requests in progress hold by ID or by pointer.
Deleting == {req[r].obj : r \in {q \in 1..NReqs : req[q].pc = "closeStrategy"}}
InUse == {req[r].body.strategy : r \in {q \in 1..NReqs : req[q].pc \in {"insert", "find"}}}

\* Load: the program may be rejected.
Load(loads) == IF loads THEN MakeStrategyCode ELSE UNCHANGED <<nRefs, table, lastID>>

\* loadStrategy.
LoadStrategy(r, loads) ==
  /\ Arrives(r)
  /\ lastID < MaxStrategies
  /\ Load(loads)
  /\ Goto(r, Done)
  /\ UNCHANGED <<default, tree, faces, main, fibOpen, crash>>

\* insertFibEntry up to the call of Fib.Insert: the nexthops and the strategy are
\* looked up, the default strategy's ID is read from its structure.
ResolveInsert(r, name, nexthops, strategy) ==
  LET s == IF strategy = NoID THEN default ELSE strategy IN
  /\ Arrives(r)
  /\ fibOpen
  /\ Orderly => s \notin Deleting /\ (strategy = NoID => s \in Live)
  /\ crash' = (crash \/ (strategy = NoID /\ s \notin Live))
  /\ IF \/ \E i \in DOMAIN nexthops : nexthops[i] \notin faces
        \/ strategy # NoID /\ Get(strategy) = NoID
     THEN Goto(r, Done)
     ELSE Goto(r, [pc |-> "insert", name |-> name, body |-> Body(nexthops, s), obj |-> NoID])
  /\ UNCHANGED <<nRefs, table, lastID, default, tree, faces, main, fibOpen>>

\* Entry.Validate: a name of legal length is assumed.
Validate(body) == Len(body.nexthops) >= 1 /\ body.strategy # NoID

MainIdle == main = NoUpdateOnMain

\* Fib.doUpdate of update u for request r, up to the prepared replicas, or with
\* the tree reverted because a replica is full.
DoUpdate(r, u, fits, next) ==
  LET refs == Fib_WriteRefs(u, u.tree) IN
  /\ MainIdle
  /\ IF fits
     THEN /\ tree' = u.tree
          /\ main' = [by |-> r, real |-> refs.real, virt |-> refs.virt, ptr |-> NoID,
                      left |-> NSockets]
          /\ Goto(r, [req[r] EXCEPT !.pc = next])
     ELSE /\ tree' = Revert(tree, u)
          /\ Goto(r, Done)
          /\ UNCHANGED main

RejectInsert(r) ==
  /\ req[r].pc = "insert"
  /\ ~Validate(req[r].body)
  /\ Goto(r, Done)
  /\ UNCHANGED <<nRefs, table, lastID, default, tree, faces, main, fibOpen, crash>>

InsertEntry(r, fits) ==
  /\ req[r].pc = "insert"
  /\ Validate(req[r].body)
  /\ DoUpdate(r, Insert(tree, req[r].name, req[r].body), fits, "find")
  /\ UNCHANGED <<nRefs, table, lastID, default, faces, fibOpen, crash>>

\* Entry.assignReal on the next replica: the pointer behind the strategy's ID.
AssignReal ==
  /\ main.left > 0 /\ main.real # {} /\ main.ptr = NoID
  /\ \E id \in main.real :
       IF Get(id) = NoID THEN crash' = TRUE /\ main' = [main EXCEPT !.left = 0]
       ELSE main' = [main EXCEPT !.ptr = id] /\ UNCHANGED crash
  /\ UNCHANGED <<nRefs, table, lastID, default, tree, faces, req, fibOpen>>

\* Table.ExecuteUpdate on the next replica: the real update and then the virtual.
Execute ==
  /\ main.left > 0 /\ (main.real # {} => main.ptr # NoID)
  /\ LET ptrs == IF main.real = {} THEN {} ELSE {main.ptr}
         once == StrategyCode_Ref(nRefs, ptrs)
     IN /\ nRefs' = StrategyCode_Ref(once, main.virt)
        /\ crash' = (crash \/ ~(ptrs \cup main.virt \subseteq Live))
  /\ main' = [main EXCEPT !.left = @ - 1, !.ptr = NoID]
  /\ UNCHANGED <<table, lastID, default, tree, faces, req, fibOpen>>

\* The main thread is free again; after an insertion the request looks for its
\* entry, and fails if that is gone.
Respond(r) ==
  /\ req[r].pc = "find"
  /\ main.by = r /\ main.left = 0
  /\ main' = NoUpdateOnMain
  /\ Goto(r, Done)
  /\ UNCHANGED <<nRefs, table, lastID, default, tree, faces, fibOpen, crash>>

-----------------------------------------------------------------------------
(* delete: RetrieveNode, then the Delete function of the node's type.      *)

RetrieveStrategy(r, id) ==
  /\ Arrives(r)
  /\ Orderly => id \notin InUse \cup Deleting /\ (fibOpen => id # default)
  /\ Goto(r, IF Get(id) = NoID THEN Done ELSE [Idle EXCEPT !.pc = "closeStrategy", !.obj = Get(id)])
  /\ UNCHANGED <<nRefs, table, lastID, default, tree, faces, main, fibOpen, crash>>

DeleteStrategy(r) ==
  /\ req[r].pc = "closeStrategy"
  /\ Close(req[r].obj)
  /\ Goto(r, Done)
  /\ UNCHANGED <<lastID, default, tree, faces, main, fibOpen>>

RetrieveEntry(r, name) ==
  /\ Arrives(r)
  /\ fibOpen
  /\ Goto(r, IF name \in Entries(tree) THEN [Idle EXCEPT !.pc = "erase", !.name = name] ELSE Done)
  /\ UNCHANGED <<nRefs, table, lastID, default, tree, faces, main, fibOpen, crash>>

DeleteEntry(r, fits) ==
  /\ req[r].pc = "erase"
  /\ DoUpdate(r, Erase(tree, req[r].name), fits, "find")
  /\ UNCHANGED <<nRefs, table, lastID, default, faces, fibOpen, crash>>

\* A face deletion leaves the nexthops of FIB entries as they are.
DeleteFace(r, face) ==
  /\ Arrives(r)
  /\ faces' = faces \ {face}
  /\ Goto(r, Done)
  /\ UNCHANGED <<nRefs, table, lastID, default, tree, main, fibOpen, crash>>

-----------------------------------------------------------------------------
(* Shutdown.                                                               *)

Uses(t, id) == {n \in Entries(t) : t.body[n].strategy = id}

\* Fib.Close, and Fib_Clear on every replica: one reference per entry is dropped.
CloseFib ==
  /\ fibOpen /\ MainIdle
  /\ \A r \in 1..NReqs : req[r].pc \in {"idle", "done"}
  /\ LET drop(id) == NSockets * Cardinality(Uses(tree, id)) IN
     nRefs' = [id \in {x \in Live : nRefs[x] > drop(x)} |-> nRefs[id] - drop(id)]
  /\ tree' = New
  /\ fibOpen' = FALSE
  /\ UNCHANGED <<table, lastID, default, faces, main, req, crash>>

\* DestroyAll: it panics at the first strategy with more than one reference,
\* after closing those it met before.
DestroyAll(before) ==
  /\ ~fibOpen
  /\ table # {}
  /\ \A r \in 1..NReqs : req[r].pc \in {"idle", "done"}
  /\ before = table \/ \E id \in table \ before : id \in Live /\ nRefs[id] > 1
  /\ \A id \in before : id \in Live /\ nRefs[id] = 1
  /\ table' = table \ before
  /\ nRefs' = [id \in Live \ before |-> nRefs[id]]
  /\ UNCHANGED <<lastID, default, tree, faces, main, req, fibOpen, crash>>

Nexthops == {<<>>} \cup {<<f>> : f \in Faces}

Next == \/ AssignReal \/ Execute \/ CloseFib
        \/ \E before \in SUBSET table : DestroyAll(before)
        \/ \E r \in 1..NReqs :
             \/ \E b \in BOOLEAN : LoadStrategy(r, b) \/ InsertEntry(r, b) \/ DeleteEntry(r, b)
             \/ \E n \in Names, h \in Nexthops, s \in 0..MaxStrategies : ResolveInsert(r, n, h, s)
             \/ RejectInsert(r) \/ Respond(r) \/ DeleteStrategy(r)
             \/ \E id \in 1..MaxStrategies : RetrieveStrategy(r, id)
             \/ \E n \in Names : RetrieveEntry(r, n)
             \/ \E f \in Faces : DeleteFace(r, f)

Spec == Init /\ [][Next]_vars

-----------------------------------------------------------------------------
(* Properties.                                                             *)

\* A strategy that a FIB entry names stays loaded as long as the entry is there,
\* whatever clients delete meanwhile, so that a forwarding thread never runs a
\* program that StrategyCode_Unref has freed; a strategy in the table is loaded;
\* and no request meets a freed strategy, a null pointer or a count that falls
\* below zero.
StrategiesLoaded ==
  /\ ~crash
  /\ MainIdle => {tree.body[n].strategy : n \in Entries(tree)} \subseteq Live
  /\ table \subseteq Live

\* "Each FIB entry using the strategy has a reference. There's also a reference
\* from table.go." (CountRefs): between requests the count is no more than that.
\* Not so: an entry that is erased or replaced keeps its references.
RefsMatchEntries ==
  MainIdle => \A id \in Live :
    nRefs[id] = NSockets * Cardinality(Uses(tree, id)) + (IF id \in table THEN 1 ELSE 0)
=============================================================================

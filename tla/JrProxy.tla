------------------------------- MODULE JrProxy -------------------------------
(***************************************************************************)
(* cmd/ndndpdk-jrproxy: JSON-RPC calls on faces and FIB entries, carried   *)
(* out through the GraphQL API of a running service.  Every connection is  *)
(* served by its own goroutine.  JSON-RPC names a face by number and a FIB *)
(* entry by name, GraphQL names both by opaque IDs: the proxy remembers    *)
(* the IDs it has seen in two maps behind two locks.                       *)
(*                                                                         *)
(* An ID is the node's number or name masked with a random key drawn when  *)
(* the service starts.  Other clients change faces and entries as well,    *)
(* and the service may restart behind the proxy.                           *)
(***************************************************************************)
EXTENDS Naturals, FiniteSets

CONSTANTS Nids, Names,    \* face numbers and FIB names
          NCalls,         \* number of JSON-RPC calls, numbered as they arrive
          MaxKeys,        \* number of service starts
          MaxElsewhere,   \* changes by other clients
          Orderly         \* TRUE: no restart while a list reply is in flight

Calls == 1..NCalls

VARIABLES key,            \* idKey of the running service
          active,         \* the forwarder has been activated
          faces, fib,     \* gFaces and the FIB of the service
          faceNidGid, fibNameGid, faceLock, fibLock,
          call,           \* the calls: operation, arguments and progress
          made,           \* history: faces that Create has returned, with the key
          elsewhere

vars == <<key, active, faces, fib, faceNidGid, fibNameGid, faceLock, fibLock,
          call, made, elsewhere>>
service == <<key, active, faces, fib>>
maps == <<faceNidGid, fibNameGid>>
locks == <<faceLock, fibLock>>

NoGid == [key |-> 0, node |-> 0]
NoEntry == {0}
Free == 0
Ops == {"faceList", "faceGet", "faceCreate", "faceDestroy",
        "fibList", "fibInsert", "fibErase", "fibFind"}
Idle == [op |-> "none", nid |-> 0, name |-> 0, nhs |-> {}, at |-> "idle",
         gids |-> {}, reply |-> {}, result |-> "none"]

-----------------------------------------------------------------------------
(* The service. *)

makeID(n) == [key |-> key, node |-> n]

(* An ID masked with another key decodes to a prefix that is no NodeType. *)
parseID(gid) == gid.key = key

RetrieveFace(gid) == parseID(gid) /\ gid.node \in faces
RetrieveEntry(gid) == parseID(gid) /\ active /\ fib[gid.node] # NoEntry

(* Do fails when the request fails, and also when there is nowhere to put  *)
(* the answer: json.Unmarshal refuses a nil pointer.                       *)
Do(answered, hasRes) == IF answered /\ hasRes THEN "ok" ELSE "error"

Restart ==
    /\ key < MaxKeys
    /\ Orderly => \A c \in Calls : call[c].at # "store"
    /\ key' = key + 1
    /\ active' = FALSE /\ faces' = {} /\ fib' = [n \in Names |-> NoEntry]
    /\ UNCHANGED <<maps, locks, call, made, elsewhere>>

Activate ==
    /\ ~active
    /\ active' = TRUE
    /\ UNCHANGED <<key, faces, fib, maps, locks, call, made, elsewhere>>

CreateFace(n) ==
    /\ active /\ n \notin faces
    /\ faces' = faces \cup {n}

DeleteFace(n) == faces' = faces \ {n}

(* Another client creates or deletes a face, or writes or erases an entry. *)
Elsewhere ==
    /\ elsewhere < MaxElsewhere
    /\ elsewhere' = elsewhere + 1
    /\ \/ \E n \in Nids : CreateFace(n) /\ UNCHANGED <<fib, made>>
       \/ /\ \E n \in faces : DeleteFace(n) /\ made' = made \ {makeID(n)}
          /\ UNCHANGED fib
       \/ /\ active
          /\ \E n \in Names, e \in {NoEntry} \cup {{f} : f \in faces} :
                 fib' = [fib EXCEPT ![n] = e]
          /\ UNCHANGED <<faces, made>>
    /\ UNCHANGED <<key, active, maps, locks, call>>

-----------------------------------------------------------------------------
Begin(c) ==
    /\ call[c].at = "idle"
    /\ \A b \in Calls : b < c => call[b].at # "idle"
    /\ \E op \in Ops :
          \E nid \in IF op \in {"faceGet", "faceDestroy"} THEN Nids ELSE {0},
             name \in IF op \in {"fibInsert", "fibErase", "fibFind"} THEN Names ELSE {0},
             nhs \in IF op = "fibInsert" THEN (SUBSET Nids) \ {{}} ELSE {{}} :
             call' = [call EXCEPT ![c] = [Idle EXCEPT !.op = op, !.nid = nid,
                                                      !.name = name, !.nhs = nhs,
                                                      !.at = "start"]]
    /\ UNCHANGED <<service, maps, locks, made, elsewhere>>

Starts(c, op) == call[c].op = op /\ call[c].at = "start"
At(c, op, at) == call[c].op = op /\ call[c].at = at

Return(c, result) == call' = [call EXCEPT ![c].at = "done", ![c].result = result]

(* Face.List and Fib.List ask before they take the lock. *)
ListQuery(c) ==
    /\ call[c].at = "start" /\ call[c].op \in {"faceList", "fibList"}
    /\ \/ /\ call[c].op = "faceList"
          /\ call' = [call EXCEPT ![c].at = "store", ![c].gids = {makeID(n) : n \in faces}]
       \/ /\ call[c].op = "fibList" /\ active
          /\ call' = [call EXCEPT ![c].at = "store",
                         ![c].gids = {makeID(n) : n \in {m \in Names : fib[m] # NoEntry}}]
       \/ /\ call[c].op = "fibList" /\ ~active
          /\ Return(c, Do(FALSE, TRUE))
    /\ UNCHANGED <<service, maps, locks, made, elsewhere>>

MutStore(map, gids) == [n \in DOMAIN map |->
    IF map[n] = NoGid /\ \E g \in gids : g.node = n
    THEN CHOOSE g \in gids : g.node = n ELSE map[n]]

Store(map, gids) == [n \in DOMAIN map |->
    IF \E g \in gids : g.node = n THEN CHOOSE g \in gids : g.node = n ELSE map[n]]

FaceListStore(c) ==
    /\ At(c, "faceList", "store") /\ faceLock = Free
    /\ faceNidGid' = Store(faceNidGid, call[c].gids)
    /\ Return(c, "ok")
    /\ UNCHANGED <<service, fibNameGid, locks, made, elsewhere>>

FibListStore(c) ==
    /\ At(c, "fibList", "store") /\ fibLock = Free
    /\ fibNameGid' = Store(fibNameGid, call[c].gids)
    /\ Return(c, "ok")
    /\ UNCHANGED <<service, faceNidGid, locks, made, elsewhere>>

(* Face.Get and Face.Destroy look up the ID and keep faceLock while they   *)
(* ask the service.  An unknown face is an error to Get and no work to     *)
(* Destroy.                                                                *)
LookupFace(c) ==
    /\ call[c].at = "start" /\ call[c].op \in {"faceGet", "faceDestroy"}
    /\ faceLock = Free
    /\ LET gid == faceNidGid[call[c].nid]
       IN  \/ /\ gid = NoGid
              /\ Return(c, IF call[c].op = "faceGet" THEN "noFace" ELSE "ok")
              /\ UNCHANGED faceLock
           \/ /\ gid # NoGid
              /\ faceLock' = c
              /\ call' = [call EXCEPT ![c].at = "ask", ![c].gids = {gid}]
    /\ UNCHANGED <<service, maps, fibLock, made, elsewhere>>

FaceGet(c) ==
    /\ At(c, "faceGet", "ask")
    /\ Return(c, Do(\A g \in call[c].gids : RetrieveFace(g), TRUE))
    /\ faceLock' = Free
    /\ UNCHANGED <<service, maps, fibLock, made, elsewhere>>

(* Destroy passes no place for the answer, so that it reports an error     *)
(* after the face is gone and keeps its ID.                                *)
FaceDestroy(c) ==
    /\ At(c, "faceDestroy", "ask")
    /\ \E g \in call[c].gids :
          /\ IF RetrieveFace(g)
             THEN DeleteFace(g.node) /\ made' = made \ {g}
             ELSE UNCHANGED <<faces, made>>
          /\ Return(c, Do(RetrieveFace(g), FALSE))
    /\ faceLock' = Free
    /\ UNCHANGED <<key, active, fib, maps, fibLock, elsewhere>>

(* The service picks the number of the face. *)
FaceCreate(c) ==
    /\ Starts(c, "faceCreate")
    /\ \/ \E n \in Nids :
             /\ CreateFace(n)
             /\ call' = [call EXCEPT ![c].at = "store", ![c].gids = {makeID(n)}]
       \/ Return(c, Do(FALSE, TRUE)) /\ UNCHANGED faces
    /\ UNCHANGED <<key, active, fib, maps, locks, made, elsewhere>>

FaceCreateStore(c) ==
    /\ At(c, "faceCreate", "store") /\ faceLock = Free
    /\ faceNidGid' = Store(faceNidGid, call[c].gids)
    /\ Return(c, "ok")
    /\ made' = made \cup {g \in call[c].gids : RetrieveFace(g)}
    /\ UNCHANGED <<service, fibNameGid, locks, elsewhere>>

(* Fib.Insert translates the nexthops and keeps faceLock to the end. *)
FibInsert(c) ==
    /\ Starts(c, "fibInsert") /\ faceLock = Free
    /\ LET gids == {faceNidGid[n] : n \in call[c].nhs}
       IN  \/ /\ NoGid \in gids
              /\ Return(c, "noFace") /\ UNCHANGED faceLock
           \/ /\ NoGid \notin gids
              /\ faceLock' = c
              /\ call' = [call EXCEPT ![c].at = "ask", ![c].gids = gids]
    /\ UNCHANGED <<service, maps, fibLock, made, elsewhere>>

FibInsertAsk(c) ==
    /\ At(c, "fibInsert", "ask")
    /\ \/ /\ active /\ \A g \in call[c].gids : RetrieveFace(g)
          /\ fib' = [fib EXCEPT ![call[c].name] = {g.node : g \in call[c].gids}]
          /\ call' = [call EXCEPT ![c].at = "keep", ![c].gids = {makeID(call[c].name)}]
          /\ UNCHANGED faceLock
       \/ /\ ~(active /\ \A g \in call[c].gids : RetrieveFace(g))
          /\ Return(c, Do(FALSE, TRUE))
          /\ faceLock' = Free
          /\ UNCHANGED fib
    /\ UNCHANGED <<key, active, faces, maps, fibLock, made, elsewhere>>

FibInsertStore(c) ==
    /\ At(c, "fibInsert", "keep") /\ fibLock = Free
    /\ fibNameGid' = Store(fibNameGid, call[c].gids)
    /\ faceLock' = Free
    /\ Return(c, "ok")
    /\ UNCHANGED <<service, faceNidGid, fibLock, made, elsewhere>>

(* Fib.Erase and Fib.Find hold fibLock only while they read the map. *)
LookupEntry(c) ==
    /\ call[c].at = "start" /\ call[c].op \in {"fibErase", "fibFind"}
    /\ fibLock = Free
    /\ LET gid == fibNameGid[call[c].name]
       IN  \/ gid = NoGid /\ Return(c, "ok")
           \/ /\ gid # NoGid
              /\ call' = [call EXCEPT ![c].at = "ask", ![c].gids = {gid}]
    /\ UNCHANGED <<service, maps, locks, made, elsewhere>>

(* Erase fails like Destroy: it never gets to remove the ID. *)
FibErase(c) ==
    /\ At(c, "fibErase", "ask")
    /\ \E g \in call[c].gids :
          /\ fib' = IF RetrieveEntry(g) THEN [fib EXCEPT ![g.node] = NoEntry] ELSE fib
          /\ Return(c, Do(RetrieveEntry(g), FALSE))
    /\ UNCHANGED <<key, active, faces, maps, locks, made, elsewhere>>

FibFind(c) ==
    /\ At(c, "fibFind", "ask")
    /\ \E g \in call[c].gids :
          IF RetrieveEntry(g)
          THEN call' = [call EXCEPT ![c].at = "collect",
                           ![c].reply = {IF n \in faces THEN n ELSE 0 : n \in fib[g.node]}]
          ELSE Return(c, Do(FALSE, TRUE))
    /\ UNCHANGED <<service, maps, locks, made, elsewhere>>

(* The nexthops are copied under faceLock; a deleted face is number 0. *)
FibFindCollect(c) ==
    /\ At(c, "fibFind", "collect") /\ faceLock = Free
    /\ Return(c, "ok")
    /\ UNCHANGED <<service, maps, locks, made, elsewhere>>

Steps(c) ==
    \/ ListQuery(c) \/ FaceListStore(c) \/ FibListStore(c)
    \/ LookupFace(c) \/ FaceGet(c) \/ FaceDestroy(c)
    \/ FaceCreate(c) \/ FaceCreateStore(c)
    \/ FibInsert(c) \/ FibInsertAsk(c) \/ FibInsertStore(c)
    \/ LookupEntry(c) \/ FibErase(c) \/ FibFind(c) \/ FibFindCollect(c)

Init ==
    /\ key = 1 /\ active = FALSE /\ faces = {} /\ fib = [n \in Names |-> NoEntry]
    /\ faceNidGid = [n \in Nids |-> NoGid] /\ fibNameGid = [n \in Names |-> NoGid]
    /\ faceLock = Free /\ fibLock = Free
    /\ call = [c \in Calls |-> Idle]
    /\ made = {} /\ elsewhere = 0

Next == Restart \/ Activate \/ Elsewhere \/ \E c \in Calls : Begin(c) \/ Steps(c)

Spec == Init /\ [][Next]_vars

-----------------------------------------------------------------------------
(* A face that Create returned and nobody deleted can be named in later    *)
(* calls: its number leads to an ID that the running service understands   *)
(* (faceNidGid).                                                           *)
KnowsWhatItMade == \A g \in made : g.key = key => faceNidGid[g.node] = g

(* The calls under way never all wait for a lock that another of them      *)
(* holds: Insert takes fibLock while it holds faceLock, and Find needs     *)
(* both.                                                                   *)
SomeCallGoesOn ==
    (\E c \in Calls : call[c].at \notin {"idle", "done"}) => \E c \in Calls : ENABLED Steps(c)
=============================================================================

---------------------------- MODULE NdnEndpoint ----------------------------
(***************************************************************************)
(* Packages ndn/l3 (Forwarder) and ndn/endpoint: consumers and producers   *)
(* joined to one in-process forwarder by logical faces, and the announcing *)
(* of producers' prefixes to a remote forwarder over ndn/mgmt/gqlmgmt.     *)
(* Every goroutine is an actor: the forwarder's loop, each face's rxLoop   *)
(* and drain, consumers, producers, their handlers, and the readvertising. *)
(*                                                                         *)
(* An Interest in a channel is a pointer to the one Packet its consumer    *)
(* made, so its PIT token is the variable token of that consumer; a Data   *)
(* or Nack is a packet of its own.  A face's identifier is the face.       *)
(***************************************************************************)
EXTENDS Integers, Sequences, FiniteSets, SequencesExt, TLC

CONSTANTS Consumer, Producer,
          Want,          \* Want[c]: the name consumer c asks for
          Prefix,        \* Prefix[p]: the prefix producer p serves
          Answers,       \* what handlers answer: a subset of {"data", "nack", "none"}
          ChanCap,       \* capacity of a logical face's channels
          RetxLimit,     \* RetxLimit[c]: retransmissions of consumer c
          OwnToken,      \* OwnToken[c]: PIT token the Interest of c has at first
          NoAdvertise,   \* producers with the option not to announce their prefix
          Scenarios,     \* sets of endpoints that run together
          Advertising    \* whether a readvertise destination is registered

Endpoint == Consumer \cup Producer

VARIABLES faces,     \* forwarder.faces
          routes,    \* routes[a]: set of names
          loopTx,    \* what the forwarder's loop has yet to write: <<face, packet>>s
          rxHeld,    \* rxHeld[a]: packet rxLoop is handing to the loop, or <<>>
          ep2fw, fw2ep,      \* channels of each logical face
          epClosed, fwClosed,
          draining,  \* faces whose Close started the drain goroutine
          pc,        \* where each consumer and producer is
          tries,     \* tries[c]: calls of once so far
          token,     \* token[c]: PIT token of c's Interest packet
          result,    \* result[c]: what Consume returns
          handlers,  \* handlers[p]: the handler goroutines' Interests and replies
          ctxDone,   \* producers whose context is cancelled
          ann,       \* forwarder.announcements: pairs <<prefix, face>>
          jobs,      \* goroutines calling Advertise or Withdraw
          mgmtRoutes, \* gqlmgmt face.routes
          remoteFib, \* entries for this face in the remote forwarder
          panic

fwVars   == <<faces, routes, loopTx, rxHeld>>
chanVars == <<ep2fw, fw2ep, epClosed, fwClosed, draining>>
epVars   == <<pc, tries, token, result, handlers, ctxDone>>
annVars  == <<ann, jobs, mgmtRoutes, remoteFib>>
vars     == <<fwVars, chanVars, epVars, annVars, panic>>

Interest(c) == [kind |-> "interest", of |-> c, token |-> <<>>]
Reply(kind, c, tok) == [kind |-> kind, of |-> c, token |-> tok]

Init == /\ faces = {} /\ routes = [a \in Endpoint |-> {}] /\ loopTx = <<>>
        /\ rxHeld = [a \in Endpoint |-> <<>>]
        /\ ep2fw = [a \in Endpoint |-> <<>>] /\ fw2ep = [a \in Endpoint |-> <<>>]
        /\ epClosed = {} /\ fwClosed = {} /\ draining = {}
        /\ pc \in {[a \in Endpoint |-> IF a \in S THEN "start" ELSE "done"] : S \in Scenarios}
        /\ tries = [c \in Consumer |-> 0]
        /\ token = OwnToken /\ result = [c \in Consumer |-> "none"]
        /\ handlers = [p \in Producer |-> <<>>] /\ ctxDone = {}
        /\ ann = {} /\ jobs = {} /\ mgmtRoutes = {} /\ remoteFib = {}
        /\ panic = FALSE

----------------------------------------------------------------------------
(* The forwarder.  execute hands a function to the loop, which runs it     *)
(* when it is not writing a packet: the actions of the loop's clients that *)
(* execute something carry this guard.                                     *)
Execute == loopTx = <<>>

tokenInsertID(tok, id) == <<id>> \o tok

(* rxLoop of a face: takes a packet off Rx, marks an Interest. *)
rxLoop(a) ==
    /\ rxHeld[a] = <<>> /\ ep2fw[a] # <<>>
    /\ LET pkt == Head(ep2fw[a])
       IN /\ rxHeld' = [rxHeld EXCEPT ![a] = <<pkt>>]
          /\ token' = IF pkt.kind = "interest" THEN [token EXCEPT ![pkt.of] = tokenInsertID(@, a)] ELSE token
    /\ ep2fw' = [ep2fw EXCEPT ![a] = Tail(@)]
    /\ UNCHANGED <<faces, routes, loopTx, fw2ep, epClosed, fwClosed, draining, pc, tries, result, handlers,
                   ctxDone, annVars, panic>>

(* lpmRoute returns the length of the first matching route in map order. *)
lpmRoute(a, name) ==
    LET matched == {Len(r) : r \in {x \in routes[a] : IsPrefix(x, name)}}
    IN IF matched = {} THEN {-1} ELSE matched

forwardInterest(from, pkt) ==
    LET others == faces \ {from}
    IN \E len \in [others -> -1 .. 3] :
         /\ \A f \in others : len[f] \in lpmRoute(f, Want[pkt.of])
         /\ LET best == {f \in others : len[f] >= 0 /\ \A g \in others : len[g] <= len[f]}
            IN \E order \in SetToSeqs(best) : loopTx' = [k \in DOMAIN order |-> <<order[k], pkt>>]

MutForwardDataNack(pkt) ==
    loopTx' = IF pkt.token # <<>> /\ Head(pkt.token) \in faces THEN << <<Head(pkt.token), pkt>> >> ELSE <<>>

(* tokenStripID and the lookup of the face it names. *)
forwardDataNack(pkt) ==
    loopTx' = IF pkt.token # <<>> /\ Head(pkt.token) \in faces
              THEN << <<Head(pkt.token), [pkt EXCEPT !.token = Tail(@)]>> >> ELSE <<>>

(* loop takes a packet from a face's rxLoop... *)
loopRx(a) ==
    /\ Execute /\ rxHeld[a] # <<>>
    /\ IF rxHeld[a][1].kind = "interest" THEN forwardInterest(a, rxHeld[a][1]) ELSE forwardDataNack(rxHeld[a][1])
    /\ rxHeld' = [rxHeld EXCEPT ![a] = <<>>]
    /\ UNCHANGED <<faces, routes, chanVars, epVars, annVars, panic>>

(* ...and writes it to one face after the other, waiting for room. *)
loopWrite ==
    /\ loopTx # <<>>
    /\ LET to == loopTx[1][1]
       IN /\ Len(fw2ep[to]) < ChanCap
          /\ panic' = (panic \/ to \in fwClosed)
          /\ fw2ep' = [fw2ep EXCEPT ![to] = Append(@, loopTx[1][2])]
    /\ loopTx' = Tail(loopTx)
    /\ UNCHANGED <<faces, routes, rxHeld, ep2fw, epClosed, fwClosed, draining, epVars, annVars>>

----------------------------------------------------------------------------
(* Logical faces. *)

NewLFace(a, next) ==
    /\ Execute
    /\ faces' = faces \cup {a}
    /\ pc' = [pc EXCEPT ![a] = next]
    /\ UNCHANGED <<routes, loopTx, rxHeld, chanVars, tries, token, result, handlers, ctxDone, annVars, panic>>

(* LFace.Close: close(ep2fw) and the drain goroutine, then FwFace.Close. *)
CloseLFace(a) ==
    /\ epClosed' = epClosed \cup {a}
    /\ draining' = draining \cup {a}
    /\ panic' = (panic \/ a \in epClosed)

(* removeAnnouncementImpl for every announcement of a: the prefix is       *)
(* withdrawn when no other face announces it.                              *)
Withdrawals(a) == {n \in {x[1] : x \in {y \in ann : y[2] = a}} : \A y \in ann : y[1] = n => y[2] = a}

FwFaceClose(a) ==
    /\ pc[a] = "closing" /\ Execute
    /\ faces' = faces \ {a}
    /\ fwClosed' = fwClosed \cup {a}
    /\ panic' = (panic \/ a \in fwClosed)
    /\ ann' = {x \in ann : x[2] # a}
    /\ jobs' = jobs \cup (IF Advertising THEN {[op |-> "withdraw", name |-> n, by |-> a, st |-> "new"] : n \in Withdrawals(a)}
                          ELSE {})
    /\ pc' = [pc EXCEPT ![a] = "done"]
    /\ UNCHANGED <<routes, loopTx, rxHeld, ep2fw, fw2ep, epClosed, draining, tries, token, result,
                   handlers, ctxDone, mgmtRoutes, remoteFib>>

MutDrain(a) ==
    /\ a \in draining \cap fwClosed /\ fw2ep[a] # <<>>
    /\ fw2ep' = [fw2ep EXCEPT ![a] = Tail(@)]
    /\ UNCHANGED <<fwVars, ep2fw, epClosed, fwClosed, draining, epVars, annVars, panic>>

drain(a) ==
    /\ a \in draining /\ fw2ep[a] # <<>>
    /\ fw2ep' = [fw2ep EXCEPT ![a] = Tail(@)]
    /\ UNCHANGED <<fwVars, ep2fw, epClosed, fwClosed, draining, epVars, annVars, panic>>

----------------------------------------------------------------------------
(* Consume. *)

consumeStart(c) == pc[c] = "start" /\ NewLFace(c, "send")

(* once: the Interest is written when the channel has room... *)
consumeSend(c) ==
    /\ pc[c] = "send" /\ Len(ep2fw[c]) < ChanCap
    /\ ep2fw' = [ep2fw EXCEPT ![c] = Append(@, Interest(c))]
    /\ pc' = [pc EXCEPT ![c] = "wait"]
    /\ UNCHANGED <<fwVars, fw2ep, epClosed, fwClosed, draining, tries, token, result, handlers, ctxDone, annVars, panic>>

(* ...and packets are read until one is a Data that satisfies it, which    *)
(* the verifier accepts or not...                                          *)
consumeRx(c, verified) ==
    /\ pc[c] = "wait" /\ fw2ep[c] # <<>>
    /\ fw2ep' = [fw2ep EXCEPT ![c] = Tail(@)]
    /\ LET data == Head(fw2ep[c]).kind = "data" /\ Want[Head(fw2ep[c]).of] = Want[c]
       IN /\ result' = IF data THEN [result EXCEPT ![c] = IF verified THEN "data" ELSE "error"] ELSE result
          /\ pc' = IF data THEN [pc EXCEPT ![c] = "return"] ELSE pc
    /\ UNCHANGED <<fwVars, ep2fw, epClosed, fwClosed, draining, tries, token, handlers, ctxDone, annVars, panic>>

(* ...or the time of this call of once is over, or the caller's context    *)
(* is: retransmit, or give up.                                             *)
consumeTimeout(c, parent) ==
    /\ pc[c] \in {"send", "wait"}
    /\ LET retxEnd == tries[c] = RetxLimit[c]
       IN IF ~retxEnd /\ ~parent
          THEN /\ pc' = [pc EXCEPT ![c] = "send"]
               /\ tries' = [tries EXCEPT ![c] = @ + 1]
               /\ UNCHANGED result
          ELSE /\ pc' = [pc EXCEPT ![c] = "return"]
               /\ result' = [result EXCEPT ![c] = IF parent THEN "error" ELSE "ErrExpire"]
               /\ UNCHANGED tries
    /\ UNCHANGED <<fwVars, chanVars, token, handlers, ctxDone, annVars, panic>>

(* The deferred Close. *)
consumeReturn(c) ==
    /\ pc[c] = "return"
    /\ CloseLFace(c)
    /\ pc' = [pc EXCEPT ![c] = "closing"]
    /\ UNCHANGED <<fwVars, ep2fw, fw2ep, fwClosed, tries, token, result, handlers, ctxDone, annVars>>

----------------------------------------------------------------------------
(* Produce: a face, then its route, then its announcement. *)

produceStart(p) == pc[p] = "start" /\ NewLFace(p, "route")

AddRoute(p) ==
    /\ pc[p] = "route" /\ Execute
    /\ routes' = [routes EXCEPT ![p] = @ \cup {Prefix[p]}]
    /\ pc' = [pc EXCEPT ![p] = IF p \in NoAdvertise THEN "loop" ELSE "announce"]
    /\ UNCHANGED <<faces, loopTx, rxHeld, chanVars, tries, token, result, handlers, ctxDone, annVars, panic>>

AddAnnouncement(p) ==
    /\ pc[p] = "announce" /\ Execute
    /\ ann' = ann \cup {<<Prefix[p], p>>}
    /\ jobs' = IF Advertising /\ \A x \in ann : x[1] # Prefix[p]
               THEN jobs \cup {[op |-> "advertise", name |-> Prefix[p], by |-> p, st |-> "new"]} ELSE jobs
    /\ pc' = [pc EXCEPT ![p] = "loop"]
    /\ UNCHANGED <<fwVars, chanVars, tries, token, result, handlers, ctxDone, mgmtRoutes, remoteFib, panic>>

produceRx(p) ==
    /\ pc[p] = "loop" /\ fw2ep[p] # <<>>
    /\ fw2ep' = [fw2ep EXCEPT ![p] = Tail(@)]
    /\ handlers' = IF Head(fw2ep[p]).kind = "interest"
                   THEN [handlers EXCEPT ![p] = Append(@, [of |-> Head(fw2ep[p]).of, reply |-> <<>>])] ELSE handlers
    /\ UNCHANGED <<fwVars, ep2fw, epClosed, fwClosed, draining, pc, tries, token, result, ctxDone, annVars, panic>>

(* handleInterest: the handler's answer becomes a reply, with the PIT      *)
(* token the shared Interest packet has by now.                            *)
handleInterest(p, k, answer) ==
    /\ handlers[p][k].reply = <<>>
    /\ LET c == handlers[p][k].of
       IN handlers' = [handlers EXCEPT ![p] = IF ~IsPrefix(Prefix[p], Want[c]) \/ answer = "none" THEN RemoveAt(@, k)
                                              ELSE [@ EXCEPT ![k].reply = <<Reply(answer, c, token[c])>>]]
    /\ UNCHANGED <<fwVars, chanVars, pc, tries, token, result, ctxDone, annVars, panic>>

handlerReply(p, k) ==
    /\ handlers[p][k].reply # <<>>
    /\ \/ /\ Len(ep2fw[p]) < ChanCap
          /\ panic' = (panic \/ p \in epClosed)
          /\ ep2fw' = [ep2fw EXCEPT ![p] = Append(@, handlers[p][k].reply[1])]
       \/ /\ p \in ctxDone
          /\ UNCHANGED <<ep2fw, panic>>
    /\ handlers' = [handlers EXCEPT ![p] = RemoveAt(@, k)]
    /\ UNCHANGED <<fwVars, fw2ep, epClosed, fwClosed, draining, pc, tries, token, result, ctxDone, annVars>>

producerClose(p) ==
    /\ pc[p] = "loop" /\ p \notin ctxDone
    /\ ctxDone' = ctxDone \cup {p}
    /\ UNCHANGED <<fwVars, chanVars, pc, tries, token, result, handlers, annVars, panic>>

produceDone(p) ==
    /\ pc[p] = "loop" /\ p \in ctxDone
    /\ pc' = [pc EXCEPT ![p] = "waitgroup"]
    /\ UNCHANGED <<fwVars, chanVars, tries, token, result, handlers, ctxDone, annVars, panic>>

produceWait(p) ==
    /\ pc[p] = "waitgroup" /\ handlers[p] = <<>>
    /\ CloseLFace(p)
    /\ pc' = [pc EXCEPT ![p] = "closing"]
    /\ UNCHANGED <<fwVars, ep2fw, fw2ep, fwClosed, tries, token, result, handlers, ctxDone, annVars>>

----------------------------------------------------------------------------
(* gqlmgmt: Advertise and Withdraw look at face.routes, call the remote    *)
(* forwarder, and update face.routes when the call returns.                *)

SetJob(j, st) == (jobs \ {j}) \cup (IF st = "end" THEN {} ELSE {[j EXCEPT !.st = st]})

mgmtLook(j) ==
    /\ j.st = "new"
    /\ jobs' = SetJob(j, IF (j.op = "advertise") = (j.name \in mgmtRoutes) THEN "end" ELSE "call")
    /\ UNCHANGED <<fwVars, chanVars, epVars, ann, mgmtRoutes, remoteFib, panic>>

mgmtCall(j) ==
    /\ j.st = "call"
    /\ remoteFib' = IF j.op = "advertise" THEN remoteFib \cup {j.name} ELSE remoteFib \ {j.name}
    /\ jobs' = SetJob(j, "return")
    /\ UNCHANGED <<fwVars, chanVars, epVars, ann, mgmtRoutes, panic>>

mgmtReturn(j) ==
    /\ j.st = "return"
    /\ mgmtRoutes' = IF j.op = "advertise" THEN mgmtRoutes \cup {j.name} ELSE mgmtRoutes \ {j.name}
    /\ jobs' = SetJob(j, "end")
    /\ UNCHANGED <<fwVars, chanVars, epVars, ann, remoteFib, panic>>

----------------------------------------------------------------------------
(* What the loop executes for others. *)
Command == \/ \E a \in Endpoint : FwFaceClose(a)
           \/ \E c \in Consumer : consumeStart(c)
           \/ \E p \in Producer : produceStart(p) \/ AddRoute(p) \/ AddAnnouncement(p)

loop == loopWrite \/ (\E a \in Endpoint : loopRx(a)) \/ Command

Consume(c) == \/ \E b \in BOOLEAN : consumeRx(c, b) \/ consumeTimeout(c, b)
              \/ consumeSend(c) \/ consumeReturn(c)

Handle(p) == \E k \in DOMAIN handlers[p] : handlerReply(p, k) \/ \E x \in Answers : handleInterest(p, k, x)

Produce(p) == produceRx(p) \/ produceDone(p) \/ produceWait(p) \/ Handle(p)

Readvertise == \E j \in jobs : mgmtLook(j) \/ mgmtCall(j) \/ mgmtReturn(j)

Next == \/ loop
        \/ \E a \in Endpoint : rxLoop(a) \/ drain(a)
        \/ \E c \in Consumer : Consume(c)
        \/ \E p \in Producer : Produce(p) \/ producerClose(p)
        \/ Readvertise

(* Goroutines are scheduled fairly, timers expire and handlers return.     *)
(* Every endpoint executes a few commands and sends a few packets, so weak *)
(* fairness of the loop's select is enough.                                *)
Fairness == /\ WF_vars(loopWrite) /\ WF_vars(\E a \in Endpoint : loopRx(a)) /\ WF_vars(Command)
            /\ \A a \in Endpoint : WF_vars(rxLoop(a) \/ drain(a))
            /\ \A c \in Consumer : WF_vars(consumeTimeout(c, FALSE)) /\ WF_vars(consumeReturn(c))
            /\ \A p \in Producer : WF_vars(Handle(p)) /\ WF_vars(produceRx(p) \/ produceDone(p) \/ produceWait(p))
            /\ WF_vars(Readvertise)

Spec == Init /\ [][Next]_vars /\ Fairness

----------------------------------------------------------------------------
(* What the forwarder delivers to a face answers that face's own Interest, *)
(* although it keeps no pending Interests and finds the face in a PIT      *)
(* token that handlers copy from a packet still shared with its consumer;  *)
(* and unless the Interest was retransmitted, the answer carries the token *)
(* the Interest came with.                                                 *)
RepliesToAsker ==
    \A c \in Consumer : \A k \in DOMAIN fw2ep[c] :
        fw2ep[c][k].kind # "interest" =>
            /\ fw2ep[c][k].of = c
            /\ tries[c] = 0 => fw2ep[c][k].token = OwnToken[c]

(* No goroutine writes to a closed channel or closes one twice: handlers   *)
(* outlive the producer's loop, the forwarder outlives every face, and     *)
(* LFace.Close closes one channel itself and the other inside the loop.    *)
NoPanic == ~panic

(* "Withdraw removes a route.  The connected forwarder should stop         *)
(* delivering Interests matching this prefix to this face": once every     *)
(* Advertise and Withdraw returned, the remote forwarder has the prefixes  *)
(* announced now, no other.  Not so: a Withdraw that begins before the     *)
(* Advertise has returned finds no route to remove, and the route stays.   *)
RemoteAgrees == jobs = {} => remoteFib = {x[1] : x \in ann}
============================================================================

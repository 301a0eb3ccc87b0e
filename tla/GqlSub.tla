------------------------------- MODULE GqlSub --------------------------------
(***************************************************************************)
(* GraphQL subscriptions of the service (core/gqlserver/gqlsub) and the    *)
(* handlers that serve them at intervals: tick, threadLoadStat and         *)
(* tgCounters.  An accepted subscription runs two goroutines joined by an  *)
(* unbuffered channel: the handler, which produces updates until its       *)
(* context is cancelled or its subject stops, and the executor, which      *)
(* turns every update into a reply on the WebSocket connection.            *)
(*                                                                         *)
(* The messages of one connection are handled in order by the graphqlws    *)
(* library (external), which keeps its own list of subscriptions.          *)
(***************************************************************************)
EXTENDS Naturals, FiniteSets

CONSTANTS Conns, SubIDs,
          NSubs,          \* number of accepted subscriptions, numbered in order
          CounterBits,    \* width of the load counters
          MaxLaunches

Fields == {"tick", "threadLoadStat", "tgCounters", "unknown"}
handlers == Fields \ {"unknown"}
Subs == 1..NSubs
Wrap == 2 ^ CounterBits

VARIABLES open,           \* connections that are open
          inner,          \* inner.Subscriptions(): connection to numbers of subscriptions
          updaters,       \* numbers of the subscriptions with an updater
          sub,            \* the subscriptions and their goroutines
          running,        \* the worker thread runs
          launches,
          generator,      \* the traffic generator exists
          items           \* items processed by the worker thread

vars == <<open, inner, updaters, sub, running, launches, generator, items>>
subjects == <<running, launches, generator, items>>

Unused == [conn |-> "", id |-> "", field |-> "none", canceled |-> FALSE,
           handler |-> "none", executor |-> "none", stopped |-> FALSE,
           prev |-> 0, stat |-> 0, told |-> 0]

Same(c, id) == {s \in inner[c] : sub[s].id = id}

-----------------------------------------------------------------------------
(* Subscriptions. *)

(* addSub starts the goroutines, for a field that has a handler. *)
addSub(s, c, id, field) ==
    /\ sub' = [sub EXCEPT ![s] = [Unused EXCEPT !.conn = c, !.id = id, !.field = field,
                  !.handler = IF field \in handlers THEN "start" ELSE "none",
                  !.executor = IF field \in handlers THEN "receive" ELSE "none"]]
    /\ updaters' = IF field \in handlers THEN updaters \cup {s} ELSE updaters

AddSubscription(c, id, field) ==
    /\ c \in open
    /\ Same(c, id) = {}
    /\ \E s \in Subs :
          /\ sub[s] = Unused /\ \A r \in Subs : r < s => sub[r] # Unused
          /\ inner' = [inner EXCEPT ![c] = @ \cup {s}]
          /\ addSub(s, c, id, field)
    /\ UNCHANGED <<open, subjects>>

removeSub(gone) ==
    /\ sub' = [s \in Subs |-> [sub[s] EXCEPT !.canceled = @ \/ s \in gone \cap updaters]]
    /\ updaters' = updaters \ gone

RemoveSubscription(c, id) ==
    /\ c \in open
    /\ Same(c, id) # {}
    /\ removeSub(Same(c, id))
    /\ inner' = [inner EXCEPT ![c] = @ \ Same(c, id)]
    /\ UNCHANGED <<open, subjects>>

MutRemoveSubscriptions(c) ==
    /\ c \in open
    /\ open' = open \ {c}
    /\ inner' = [inner EXCEPT ![c] = {}]
    /\ removeSub(inner'[c])
    /\ UNCHANGED subjects

(* The connection is closed. *)
RemoveSubscriptions(c) ==
    /\ c \in open
    /\ open' = open \ {c}
    /\ removeSub(inner[c])
    /\ inner' = [inner EXCEPT ![c] = {}]
    /\ UNCHANGED subjects

-----------------------------------------------------------------------------
(* Goroutines of subscription s. *)

EndHandler(s) == sub' = [sub EXCEPT ![s].handler = "done", ![s].prev = 0, ![s].told = 0]

Subject(s) == CASE sub[s].field = "tick" -> TRUE
                [] sub[s].field = "threadLoadStat" -> running
                [] sub[s].field = "tgCounters" -> generator

ThreadLoadStat(s) == IF sub[s].field = "threadLoadStat" THEN items ELSE 0

(* LoadStat.Sub on unsigned counters. *)
Sub(stat, prev) == ((stat + Wrap) - prev) % Wrap

(* A missing argument or subject ends the handler at once. *)
GetArgs(s) ==
    /\ sub[s].handler = "start"
    /\ \/ EndHandler(s)
       \/ /\ Subject(s)
          /\ sub' = [sub EXCEPT ![s].handler = "select", ![s].stopped = FALSE,
                                ![s].prev = ThreadLoadStat(s), ![s].told = ThreadLoadStat(s)]
    /\ UNCHANGED <<open, inner, updaters, subjects>>

(* select: the context, the channel that tells that the subject stopped,   *)
(* and the ticker.                                                         *)
Done(s) ==
    /\ sub[s].handler = "select"
    /\ sub[s].canceled \/ sub[s].stopped
    /\ EndHandler(s)
    /\ UNCHANGED <<open, inner, updaters, subjects>>

Tick(s) ==
    /\ sub[s].handler = "select"
    /\ sub' = [sub EXCEPT ![s].handler = "send", ![s].stat = ThreadLoadStat(s)]
    /\ UNCHANGED <<open, inner, updaters, subjects>>

MutSend(s) ==
    /\ sub[s].handler = "send" /\ sub[s].executor = "receive"
    /\ sub' = [sub EXCEPT
          ![s].handler = "select", ![s].executor = "execute",
          ![s].stopped = ~Subject(s),
          ![s].told = (@ + Sub(sub[s].stat, sub[s].prev)) % Wrap,
          ![s].prev = ThreadLoadStat(s), ![s].stat = 0]
    /\ UNCHANGED <<open, inner, updaters, subjects>>

(* updates <- stat.Sub(prev), when the executor is ready; then the loop    *)
(* looks at the thread's present channel, which Launch may have replaced.  *)
Send(s) ==
    /\ sub[s].handler = "send" /\ sub[s].executor = "receive"
    /\ sub' = [sub EXCEPT
          ![s].handler = "select", ![s].executor = "execute",
          ![s].stopped = ~Subject(s),
          ![s].told = (@ + Sub(sub[s].stat, sub[s].prev)) % Wrap,
          ![s].prev = sub[s].stat, ![s].stat = 0]
    /\ UNCHANGED <<open, inner, updaters, subjects>>

(* graphql.Execute and SendData, which drops the reply of a closed         *)
(* connection.                                                             *)
Execute(s) ==
    /\ sub[s].executor = "execute"
    /\ sub' = [sub EXCEPT ![s].executor = "receive"]
    /\ UNCHANGED <<open, inner, updaters, subjects>>

(* range over updates ends when the handler has closed the channel. *)
EndExecutor(s) ==
    /\ sub[s].executor = "receive" /\ sub[s].handler = "done"
    /\ sub' = [sub EXCEPT ![s].executor = "done"]
    /\ UNCHANGED <<open, inner, updaters, subjects>>

-----------------------------------------------------------------------------
(* The subjects. *)

Work ==
    /\ running
    /\ items' = (items + 1) % Wrap
    /\ UNCHANGED <<open, inner, updaters, sub, running, launches, generator>>

StopField(field) ==
    sub' = [s \in Subs |-> [sub[s] EXCEPT !.stopped = @ \/ sub[s].field = field]]

StopThread ==
    /\ running
    /\ running' = FALSE
    /\ StopField("threadLoadStat")
    /\ UNCHANGED <<open, inner, updaters, launches, generator, items>>

LaunchThread ==
    /\ ~running /\ launches < MaxLaunches
    /\ running' = TRUE /\ launches' = launches + 1
    /\ UNCHANGED <<open, inner, updaters, sub, generator, items>>

CloseGenerator ==
    /\ generator
    /\ generator' = FALSE
    /\ StopField("tgCounters")
    /\ UNCHANGED <<open, inner, updaters, running, launches, items>>

-----------------------------------------------------------------------------
Goroutines(s) == GetArgs(s) \/ Done(s) \/ Tick(s) \/ Send(s) \/ Execute(s) \/ EndExecutor(s)

Init ==
    /\ open = Conns /\ inner = [c \in Conns |-> {}] /\ updaters = {}
    /\ sub = [s \in Subs |-> Unused]
    /\ running = TRUE /\ launches = 1 /\ generator = TRUE /\ items = 0

Next ==
    \/ \E c \in Conns :
          \/ \E id \in SubIDs : RemoveSubscription(c, id)
          \/ \E id \in SubIDs, field \in Fields : AddSubscription(c, id, field)
          \/ RemoveSubscriptions(c)
    \/ \E s \in Subs : Goroutines(s)
    \/ Work \/ StopThread \/ LaunchThread \/ CloseGenerator

(* Goroutines run, and select chooses at random among the ready cases, so  *)
(* that it does not pass over the context for ever.                        *)
Spec == Init /\ [][Next]_vars
        /\ \A s \in Subs : /\ WF_vars(GetArgs(s) \/ Send(s) \/ Execute(s) \/ EndExecutor(s))
                           /\ SF_vars(Done(s))

-----------------------------------------------------------------------------
Started(s) == sub[s].handler \notin {"none", "done"} \/ sub[s].executor \notin {"none", "done"}
Removed(s) == sub[s] # Unused /\ s \notin inner[sub[s].conn]

(* Once a subscription is removed, alone or with its connection, or the    *)
(* traffic generator it reports on is closed, both its goroutines end      *)
(* (removeSub and the select statements of the handlers).                  *)
GoroutinesEnd ==
    \A s \in Subs : (Removed(s) \/ (~generator /\ sub[s].field = "tgCounters")) ~> ~Started(s)

(* The updates of threadLoadStat add up to the work that the thread did    *)
(* since the subscription began, across wraparound of the counters and     *)
(* while an update waits for the executor: nothing is counted twice or     *)
(* left out.                                                               *)
LoadAddsUp ==
    \A s \in Subs :
        sub[s].field = "threadLoadStat" /\ sub[s].handler = "send" =>
            (sub[s].told + Sub(sub[s].stat, sub[s].prev)) % Wrap = sub[s].stat
=============================================================================

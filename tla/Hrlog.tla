-------------------------------- MODULE Hrlog --------------------------------
(***************************************************************************)
(* High resolution log collection (app/hrlog and csrc/hrlog): clients      *)
(* submit tasks, forwarding threads post entries to a ring, and a writer   *)
(* thread runs one task at a time, copying entries from the ring to the    *)
(* task's file.  The ring is not emptied between tasks: a task discards    *)
(* as many entries as the ring can hold before it collects.  A client may  *)
(* cancel its task at any time, and the writer may be stopped.             *)
(***************************************************************************)
EXTENDS Integers, Sequences, SequencesExt, FiniteSetsExt, SequenceTheorems, TLAPS

CONSTANTS
  Tasks,      \* tasks a client may submit
  Count,      \* [Tasks -> entries requested]
  QueueCap,   \* capacity of Writer.queue
  RingCap,    \* capacity of the ring
  Burst,      \* entries taken from the ring at once, at most
  MaxEntries  \* bound on entries posted

VARIABLES
  task,     \* [state, file, nSkip, answers, canceled]
  queue,    \* Writer.queue
  ring,     \* theHrlogRing; entries are numbered as they are posted
  posted,   \* entries posted so far
  current,  \* the task the loop runs
  stopped,  \* the ctrl of the running task says stop
  closed    \* Writer.queue is closed (Thread.Stop); then TheWriter and the ring are gone

vars == <<task, queue, ring, posted, current, stopped, closed>>

None == "none"

Init ==
  /\ task = [t \in Tasks |-> [state |-> "idle", file |-> << >>, nSkip |-> 0, answers |-> << >>, canceled |-> FALSE,
                              since |-> 0]]
  /\ queue = << >> /\ ring = << >> /\ posted = 0 /\ current = None /\ stopped = FALSE /\ closed = "no"

-----------------------------------------------------------------------------
(* Submit, and the goroutine that waits for the context or the task *)

Answer(t, a) == [task EXCEPT ![t].answers = Append(@, a), ![t].state = "answered"]

Submit(t) ==
  /\ task[t].state = "idle" /\ closed = "no"
  /\ IF Len(queue) < QueueCap
     THEN queue' = Append(queue, t) /\ task' = [task EXCEPT ![t].state = "waiting"]
     ELSE task' = Answer(t, "queue full") /\ UNCHANGED queue
  /\ UNCHANGED <<ring, posted, current, stopped, closed>>

Cancel(t) ==
  /\ task[t].state # "idle" /\ ~task[t].canceled
  /\ task' = [task EXCEPT ![t].canceled = TRUE]
  /\ UNCHANGED <<queue, ring, posted, current, stopped, closed>>

AnswerCanceled(t) ==
  /\ task[t].state = "waiting" /\ task[t].canceled
  /\ task' = Answer(t, "canceled")
  /\ UNCHANGED <<queue, ring, posted, current, stopped, closed>>

-----------------------------------------------------------------------------
(* Writer.loop and writerTask.run *)

MutRun(t) == [task EXCEPT ![t].nSkip = 0, ![t].since = posted]

Run(t) == [task EXCEPT ![t].nSkip = RingCap, ![t].since = posted]

Loop ==
  /\ current = None /\ queue # << >>
  /\ queue' = Tail(queue)
  /\ IF task[Head(queue)].canceled
     THEN UNCHANGED <<task, current, stopped>>
     ELSE current' = Head(queue) /\ task' = Run(Head(queue)) /\ stopped' = FALSE
  /\ UNCHANGED <<ring, posted, closed>>

(* A task whose file cannot be opened ends at once with an error. *)
OpenFails ==
  /\ current # None /\ task[current].file = << >> /\ task[current].nSkip = RingCap /\ ~stopped
  /\ task' = IF task[current].state = "waiting" THEN Answer(current, "writer failed") ELSE task
  /\ current' = None
  /\ UNCHANGED <<queue, ring, posted, stopped, closed>>

(* run sees the context before the end of the collection: the writer is told to stop. *)
StopCurrent ==
  /\ current # None /\ task[current].canceled /\ ~stopped
  /\ stopped' = TRUE
  /\ UNCHANGED <<task, queue, ring, posted, current, closed>>

(* Hrlog_RunWriter: one turn of the loop.  While nSkip is positive a burst is discarded whole. *)
Collect ==
  LET t == task[current]
      n == IF Len(ring) < Burst THEN Len(ring) ELSE Burst
      buf == SubSeq(ring, 1, n)
  IN  /\ current # None /\ ~stopped /\ Len(t.file) < Count[current] /\ n > 0
      /\ ring' = SubSeq(ring, n + 1, Len(ring))
      /\ task' = IF t.nSkip > 0 THEN [task EXCEPT ![current].nSkip = @ - n]
                                ELSE [task EXCEPT ![current].file = @ \o buf]
      /\ UNCHANGED <<queue, posted, current, stopped, closed>>

(* The file is cut to what was asked.  If run was not told to stop, the task's goroutine       *)
(* answers; it may find the context and the result both ready.                                 *)
Truncated(f, n) == SubSeq(f, 1, Min({Len(f), n}))

Finish(sawResult) ==
  /\ current # None
  /\ stopped \/ Len(task[current].file) >= Count[current]
  /\ sawResult => ~stopped /\ task[current].state = "waiting"
  /\ ~sawResult => stopped \/ task[current].canceled
  /\ task' = [(IF sawResult THEN Answer(current, "ok") ELSE task)
                EXCEPT ![current].file = Truncated(task[current].file, Count[current])]
  /\ current' = None /\ stopped' = FALSE
  /\ UNCHANGED <<queue, ring, posted, closed>>

(* Thread.Stop closes Writer.queue; the loop ends once the queue is empty. *)
Stop ==
  /\ closed = "no" /\ closed' = "closing"
  /\ UNCHANGED <<task, queue, ring, posted, current, stopped>>

LoopEnds ==
  /\ closed = "closing" /\ queue = << >> /\ current = None
  /\ closed' = "closed" /\ ring' = << >>
  /\ UNCHANGED <<task, queue, posted, current, stopped>>

-----------------------------------------------------------------------------
(* Hrlog_Post: what does not fit in the ring is lost. *)
Post ==
  /\ posted < MaxEntries /\ closed # "closed"
  /\ posted' = posted + 1
  /\ ring' = IF Len(ring) < RingCap THEN Append(ring, posted + 1) ELSE ring
  /\ UNCHANGED <<task, queue, current, stopped, closed>>

Next ==
  \/ \E t \in Tasks : Submit(t) \/ Cancel(t) \/ AnswerCanceled(t)
  \/ Loop \/ OpenFails \/ StopCurrent \/ Collect
  \/ \E sawResult \in BOOLEAN : Finish(sawResult)
  \/ Stop \/ LoopEnds \/ Post

Spec == Init /\ [][Next]_vars

-----------------------------------------------------------------------------
(* Properties *)

(* A task's file holds only entries posted after the task began to run, in order, however many *)
(* were waiting in the ring; and a task reported as done has exactly the count it asked for    *)
(* (nSkip in writerTask.run and Hrlog_RunWriter).                                              *)
FreshEntries ==
  \A t \in Tasks :
     /\ \A i \in DOMAIN task[t].file : task[t].file[i] > task[t].since
     /\ \A i, j \in DOMAIN task[t].file : i < j => task[t].file[i] < task[t].file[j]
     /\ \A i \in DOMAIN task[t].answers : task[t].answers[i] = "ok" => Len(task[t].file) = Count[t]

-----------------------------------------------------------------------------
(* Why it holds: what is in the ring is in order and was posted; a task is *)
(* in the queue or run at most once; and beyond the next nSkip entries the *)
(* ring has only what came after the task began.                           *)

\* Counts and capacities are numbers, a burst takes at least one entry.
HrlogAssumption ==
  /\ None \notin Tasks /\ Count \in [Tasks -> Nat]
  /\ RingCap \in Nat /\ Burst \in Nat \ {0}

\* What a submitter may be told, and the state of a task.
Answers == {"ok", "queue full", "canceled", "writer failed"}

TaskState ==
  [state : {"idle", "waiting", "answered"}, file : Seq(Nat), nSkip : Int, answers : Seq(Answers),
   canceled : BOOLEAN, since : Nat]

TypeOK ==
  /\ task \in [Tasks -> TaskState]
  /\ queue \in Seq(Tasks) /\ ring \in Seq(Nat) /\ posted \in Nat
  /\ current \in Tasks \cup {None} /\ stopped \in BOOLEAN

Increasing(s) == \A i, j \in DOMAIN s : i < j => s[i] < s[j]

\* The ring has at most RingCap entries, in the order they were posted.
RingSound ==
  /\ Len(ring) <= RingCap
  /\ \A i \in DOMAIN ring : ring[i] <= posted
  /\ Increasing(ring)

\* Task t is in the queue.
Waits(t) == \E i \in DOMAIN queue : queue[i] = t

\* Nobody was told that the task is done.
NotReported(r) == \A i \in DOMAIN r.answers : r.answers[i] # "ok"

(* A task is queued once, runs after it left the queue, has nothing in its        *)
(* file before it runs, and is not reported done before it ends.                  *)
TasksOnce ==
  /\ \A i, j \in DOMAIN queue : queue[i] = queue[j] => i = j
  /\ \A t \in Tasks :
       /\ t = current => ~Waits(t)
       /\ task[t].state = "idle" => ~Waits(t) /\ t # current
       /\ task[t].state = "idle" \/ Waits(t) => task[t].file = << >>
       /\ task[t].state = "idle" \/ Waits(t) \/ t = current => NotReported(task[t])

\* Of a running task r, with entries e in the ring and n entries posted.
Skips(r, e, n) ==
  /\ r.since <= n
  /\ \A i \in DOMAIN e : i > r.nSkip => e[i] > r.since
  /\ \A i \in DOMAIN r.file : r.file[i] <= n /\ \A j \in DOMAIN e : r.file[i] < e[j]

\* What FreshEntries says of a task r that asked for n entries.
Fresh(r, n) ==
  /\ \A i \in DOMAIN r.file : r.file[i] > r.since
  /\ Increasing(r.file)
  /\ \A i \in DOMAIN r.answers : r.answers[i] = "ok" => Len(r.file) = n

\* The inductive invariant.
IInv ==
  /\ TypeOK /\ RingSound /\ TasksOnce
  /\ \A t \in Tasks : Fresh(task[t], Count[t]) /\ (t = current => Skips(task[t], ring, posted))

\* The invariant implies the property.
LEMMA FreshMeans == IInv => FreshEntries
BY DEF IInv, FreshEntries, Fresh, Increasing

\* Before any task: no file, no ring entries, no answers.
LEMMA InitIInv == HrlogAssumption /\ Init => IInv
<1> SUFFICES ASSUME HrlogAssumption, Init PROVE IInv
  OBVIOUS
<1> USE DEF HrlogAssumption, Init
<1>1. TypeOK
  <2>1. [state |-> "idle", file |-> << >>, nSkip |-> 0, answers |-> << >>, canceled |-> FALSE,
         since |-> 0] \in TaskState
    BY DEF TaskState
  <2>2. task \in [Tasks -> TaskState]
    BY <2>1
  <2>3. queue \in Seq(Tasks) /\ ring \in Seq(Nat) /\ posted \in Nat
    OBVIOUS
  <2>4. current \in Tasks \cup {None} /\ stopped \in BOOLEAN
    BY ZenonT(40)
  <2> QED
    BY <2>2, <2>3, <2>4 DEF TypeOK
<1>2. RingSound
  <2>1. ring = << >> /\ RingCap \in Nat
    OBVIOUS
  <2> QED
    BY ONLY <2>1, SMT DEF RingSound, Increasing
<1>4. TasksOnce
  BY DEF TasksOnce, Waits, NotReported
<1>3. \A t \in Tasks : Fresh(task[t], Count[t]) /\ t # current
  BY DEF Fresh, Increasing
<1> QED
  BY <1>1, <1>2, <1>3, <1>4 DEF IInv

(* A step that leaves the ring as it is, and of every task the file, nSkip and     *)
(* since, makes no task idle and reports none done keeps the invariant, also when  *)
(* it takes a task off the queue or ends the running one.                          *)
Same(r, s) ==
  /\ s.file = r.file /\ s.nSkip = r.nSkip /\ s.since = r.since
  /\ s.state = "idle" => r.state = "idle"
  /\ (\/ s.answers = r.answers
      \/ \E a \in Answers \ {"ok"} : s.answers = Append(r.answers, a))

\* Such a step leaves what the file holds, and no task becomes reported.
LEMMA SameFresh ==
  ASSUME NEW r \in TaskState, NEW s \in TaskState, Same(r, s), NEW n
  PROVE  /\ Fresh(r, n) => Fresh(s, n)
         /\ NotReported(r) => NotReported(s)
<1>1. \A i \in DOMAIN s.answers : s.answers[i] = "ok" => i \in DOMAIN r.answers /\ r.answers[i] = "ok"
  <2>1. r.answers \in Seq(Answers)
    BY DEF TaskState
  <2>2. ASSUME NEW q \in Seq(Answers), NEW a \in Answers \ {"ok"}
        PROVE  \A i \in DOMAIN Append(q, a) : Append(q, a)[i] = "ok" => i \in DOMAIN q /\ q[i] = "ok"
    OBVIOUS
  <2> QED
    BY <2>1, <2>2, SMTT(30) DEF Same
<1> QED
  BY <1>1 DEF Same, Fresh, NotReported

\* The queue is unchanged or lost its first task.
QueueLeft == queue' = queue \/ (queue # << >> /\ queue' = Tail(queue))

\* Taking a task off the queue leaves the others queued once.
LEMMA StillOnce ==
  ASSUME TypeOK, QueueLeft, \A i, j \in DOMAIN queue : queue[i] = queue[j] => i = j
  PROVE  /\ queue' \in Seq(Tasks)
         /\ \A i, j \in DOMAIN queue' : queue'[i] = queue'[j] => i = j
         /\ \A t \in Tasks : Waits(t)' => Waits(t)
<1>1. CASE queue' = queue
  BY <1>1 DEF TypeOK, Waits
<1>2. CASE queue # << >> /\ queue' = Tail(queue)
  <2>1. /\ queue' \in Seq(Tasks) /\ Len(queue') = Len(queue) - 1
        /\ \A i \in 1 .. Len(queue') : queue'[i] = queue[i + 1] /\ i + 1 \in 1 .. Len(queue)
    BY <1>2 DEF TypeOK
  <2>2. DOMAIN queue = 1 .. Len(queue) /\ DOMAIN queue' = 1 .. Len(queue') /\ Len(queue) \in Nat
    BY <2>1 DEF TypeOK
  <2>3. ASSUME NEW i \in DOMAIN queue', NEW j \in DOMAIN queue', queue'[i] = queue'[j] PROVE i = j
    <3>1. i + 1 = j + 1
      BY <2>1, <2>2, <2>3, ZenonT(40)
    <3> QED
      BY <2>2, <2>1, <3>1
  <2>4. \A t \in Tasks : Waits(t)' => Waits(t)
    BY <2>1, <2>2, SMTT(30) DEF Waits
  <2> QED
    BY <2>1, <2>3, <2>4
<1> QED
  BY <1>1, <1>2 DEF QueueLeft

\* Steps that change neither files nor the ring keep the invariant.
LEMMA SameKeeps ==
  ASSUME IInv, task' \in [Tasks -> TaskState], \A t \in Tasks : Same(task[t], task'[t]),
         QueueLeft, UNCHANGED <<ring, posted>>, current' \in {current, None},
         None \notin Tasks, stopped' \in BOOLEAN
  PROVE  IInv'
<1>0. TypeOK /\ RingSound /\ TasksOnce
  BY DEF IInv
<1>1. /\ queue' \in Seq(Tasks)
      /\ \A i, j \in DOMAIN queue' : queue'[i] = queue'[j] => i = j
      /\ \A t \in Tasks : Waits(t)' => Waits(t)
  BY <1>0, StillOnce DEF TasksOnce
<1>2. TypeOK' /\ RingSound'
  BY <1>0, <1>1 DEF TypeOK, RingSound
<1>3. \A t \in Tasks : Fresh(task'[t], Count[t]) /\ (NotReported(task[t]) => NotReported(task'[t]))
  BY SameFresh DEF IInv, TypeOK
<1>4. TasksOnce'
  BY <1>0, <1>1, <1>3 DEF TasksOnce, Same
<1>5. \A t \in Tasks : t = current' => Skips(task'[t], ring', posted')
  BY DEF IInv, Skips, Same
<1> QED
  BY <1>2, <1>3, <1>4, <1>5 DEF IInv

\* Answering with an error is such a step.
LEMMA AnswerSame ==
  ASSUME TypeOK, NEW t \in Tasks, NEW a \in Answers \ {"ok"}
  PROVE  Answer(t, a) \in [Tasks -> TaskState] /\ \A u \in Tasks : Same(task[u], Answer(t, a)[u])
<1>1. ASSUME NEW u \in Tasks
      PROVE  /\ Answer(t, a)[u] \in TaskState /\ Same(task[u], Answer(t, a)[u])
  <2> task[u] \in TaskState /\ task[u].answers \in Seq(Answers)
    BY DEF TypeOK, TaskState
  <2>1. CASE u = t
    <3>1. Answer(t, a)[t] = [state |-> "answered", file |-> task[t].file, nSkip |-> task[t].nSkip,
             answers |-> Append(task[t].answers, a), canceled |-> task[t].canceled, since |-> task[t].since]
      BY ZenonT(40) DEF TypeOK, Answer, TaskState
    <3> QED
      BY <2>1, <3>1 DEF TaskState, Same
  <2>2. CASE u # t
    <3>1. Answer(t, a)[u] = task[u]
      BY <2>2 DEF TypeOK, Answer
    <3> QED
      BY <3>1 DEF Same
  <2> QED
    BY <2>1, <2>2
<1>2. DOMAIN Answer(t, a) = Tasks /\ Answer(t, a) = [u \in Tasks |-> Answer(t, a)[u]]
  BY ZenonT(40) DEF TypeOK, Answer
<1> QED
  BY <1>1, <1>2

\* Submit queues an idle task, or refuses it when the queue is full.
LEMMA SubmitIInv == ASSUME HrlogAssumption, IInv, NEW t \in Tasks, Submit(t) PROVE IInv'
<1>0. TypeOK /\ RingSound /\ TasksOnce /\ task[t].state = "idle" /\ task[t] \in TaskState
  BY DEF IInv, Submit, TypeOK
<1>1. CASE Len(queue) < QueueCap
  <2>1. queue' = Append(queue, t) /\ UNCHANGED <<ring, posted, current, stopped>>
    BY <1>1 DEF Submit
  <2>2. task'[t] = [state |-> "waiting", file |-> task[t].file, nSkip |-> task[t].nSkip,
             answers |-> task[t].answers, canceled |-> task[t].canceled, since |-> task[t].since]
    BY <1>0, <1>1 DEF Submit, TypeOK, TaskState
  <2>3. \A u \in Tasks \ {t} : task'[u] = task[u]
    BY <1>0, <1>1 DEF Submit, TypeOK
  <2>4. task' = [u \in Tasks |-> task'[u]]
    BY <1>0, <1>1 DEF Submit, TypeOK
  <2>5. task'[t] \in TaskState
    BY <1>0, <2>2 DEF TaskState
  <2>6. task' \in [Tasks -> TaskState]
    BY <1>0, <2>3, <2>4, <2>5 DEF TypeOK
  <2>7. queue' \in Seq(Tasks) /\ Len(queue') = Len(queue) + 1 /\ queue'[Len(queue) + 1] = t
        /\ Len(queue) \in Nat /\ DOMAIN queue' = 1 .. Len(queue) + 1 /\ DOMAIN queue = 1 .. Len(queue)
        /\ \A i \in 1 .. Len(queue) : queue'[i] = queue[i]
    BY <1>0, <2>1 DEF TypeOK
  <2>8. TypeOK' /\ RingSound'
    BY <1>0, <2>1, <2>6, <2>7 DEF TypeOK, RingSound
  <2>9. ~Waits(t) /\ t # current /\ task[t].file = << >> /\ NotReported(task[t])
    BY <1>0 DEF TasksOnce
  <2>10. \A u \in Tasks : Waits(u)' <=> Waits(u) \/ u = t
    BY <2>7 DEF Waits
  <2>11. \A i, j \in DOMAIN queue' : queue'[i] = queue'[j] => i = j
    BY <1>0, <2>7, <2>9 DEF TasksOnce, Waits
  <2>12. TasksOnce'
    <3>1. ASSUME NEW u \in Tasks
          PROVE  /\ u = current => ~Waits(u)'
                 /\ task'[u].state = "idle" => ~Waits(u)' /\ u # current
                 /\ task'[u].state = "idle" \/ Waits(u)' => task'[u].file = << >>
                 /\ task'[u].state = "idle" \/ Waits(u)' \/ u = current => NotReported(task'[u])
      <4>1. CASE u = t
        BY <4>1, <2>2, <2>9 DEF NotReported
      <4>2. CASE u # t
        BY <4>2, <1>0, <2>3, <2>10 DEF TasksOnce
      <4> QED
        BY <4>1, <4>2
    <3> QED
      BY <2>1, <2>11, <3>1 DEF TasksOnce
  <2>13. \A u \in Tasks : Fresh(task'[u], Count[u]) /\ (u = current => Skips(task'[u], ring, posted))
    BY <2>2, <2>3, <2>9 DEF IInv, Fresh
  <2> QED
    BY <2>1, <2>8, <2>12, <2>13 DEF IInv
<1>2. CASE ~(Len(queue) < QueueCap)
  <2>1. task' = Answer(t, "queue full") /\ UNCHANGED <<queue, ring, posted, current, stopped>>
    BY <1>2 DEF Submit
  <2>2. task' \in [Tasks -> TaskState] /\ \A u \in Tasks : Same(task[u], task'[u])
    <3>1. "queue full" \in Answers \ {"ok"}
      BY DEF Answers
    <3>2. Answer(t, "queue full") \in [Tasks -> TaskState] /\ \A u \in Tasks : Same(task[u], Answer(t, "queue full")[u])
      BY <1>0, <3>1, AnswerSame, Zenon
    <3> QED
      BY <2>1, <3>2
  <2> QED
    BY <1>0, <2>1, <2>2, SameKeeps DEF QueueLeft, HrlogAssumption, TypeOK
<1> QED
  BY <1>1, <1>2

\* Cancellation, and its answer, touch no file.
LEMMA CancelIInv ==
  ASSUME HrlogAssumption, IInv, NEW t \in Tasks, Cancel(t) \/ AnswerCanceled(t) PROVE IInv'
<1>0. TypeOK /\ UNCHANGED <<queue, ring, posted, current, stopped>>
  BY DEF IInv, Cancel, AnswerCanceled
<1>1. task' \in [Tasks -> TaskState] /\ \A u \in Tasks : Same(task[u], task'[u])
  <2>1. CASE Cancel(t)
    <3>1. task'[t] = [state |-> task[t].state, file |-> task[t].file, nSkip |-> task[t].nSkip,
             answers |-> task[t].answers, canceled |-> TRUE, since |-> task[t].since]
      BY <1>0, <2>1, ZenonT(40) DEF Cancel, TypeOK, TaskState
    <3>2. task'[t] \in TaskState /\ Same(task[t], task'[t])
      BY <1>0, <3>1 DEF TypeOK, TaskState, Same
    <3>3. \A u \in Tasks \ {t} : task'[u] = task[u]
      BY <1>0, <2>1 DEF Cancel, TypeOK
    <3>4. task' = [u \in Tasks |-> task'[u]]
      BY <1>0, <2>1, ZenonT(40) DEF Cancel, TypeOK
    <3> QED
      BY <1>0, <3>2, <3>3, <3>4, ZenonT(40) DEF TypeOK, Same
  <2>2. CASE AnswerCanceled(t)
    <3>1. "canceled" \in Answers \ {"ok"}
      BY DEF Answers
    <3>2. Answer(t, "canceled") \in [Tasks -> TaskState] /\ \A u \in Tasks : Same(task[u], Answer(t, "canceled")[u])
      BY <1>0, <3>1, AnswerSame, Zenon
    <3> QED
      BY <2>2, <3>2 DEF AnswerCanceled
  <2> QED
    BY <2>1, <2>2
<1> QED
  BY <1>0, <1>1, SameKeeps DEF QueueLeft, HrlogAssumption, TypeOK

\* A step that leaves all tasks alone is one too.
LEMMA UnchangedSame ==
  ASSUME TypeOK, UNCHANGED task
  PROVE  task' \in [Tasks -> TaskState] /\ \A u \in Tasks : Same(task[u], task'[u])
BY DEF TypeOK, Same

\* The task that the loop begins to run has waited, and finds at most RingCap entries.
LEMMA LoopIInv == ASSUME HrlogAssumption, IInv, Loop PROVE IInv'
<1>0. /\ TypeOK /\ RingSound /\ TasksOnce /\ current = None /\ queue # << >> /\ queue' = Tail(queue)
      /\ UNCHANGED <<ring, posted>>
  BY DEF IInv, Loop
<1>t. PICK t \in Tasks : t = Head(queue)
  BY <1>0 DEF TypeOK
<1>1. CASE task[t].canceled
  <2>1. UNCHANGED <<task, current, stopped>>
    BY <1>t, <1>1 DEF Loop
  <2> QED
    BY <1>0, <2>1, UnchangedSame, SameKeeps DEF QueueLeft, HrlogAssumption, TypeOK
<1>2. CASE ~task[t].canceled
  <2>1. current' = t /\ task' = Run(t) /\ stopped' = FALSE
    BY <1>t, <1>2 DEF Loop
  <2>2. /\ t = queue[1] /\ 1 \in DOMAIN queue /\ DOMAIN queue = 1 .. Len(queue) /\ Len(queue) \in Nat
        /\ queue' \in Seq(Tasks) /\ DOMAIN queue' = 1 .. (Len(queue) - 1)
        /\ \A i \in 1 .. (Len(queue) - 1) : queue'[i] = queue[i + 1]
    BY <1>0, <1>t DEF TypeOK
  <2>3. Waits(t) /\ ~Waits(t)'
    <3>1. Waits(t)
      BY <2>2 DEF Waits
    <3>2. ASSUME NEW i \in 1 .. (Len(queue) - 1), queue'[i] = t PROVE FALSE
      <4>1. i + 1 \in DOMAIN queue /\ queue[i + 1] = queue[1]
        BY <2>2, <3>2
      <4>2. i + 1 = 1
        BY <1>0, <2>2, <4>1 DEF TasksOnce
      <4> QED
        BY <2>2, <4>2
    <3> QED
      BY <2>2, <3>1, <3>2 DEF Waits
  <2>4. /\ \A i, j \in DOMAIN queue' : queue'[i] = queue'[j] => i = j
        /\ \A u \in Tasks : Waits(u)' => Waits(u)
    BY <1>0, StillOnce DEF TasksOnce, QueueLeft
  <2>5. task[t] \in TaskState /\ task[t].file = << >> /\ task[t].state # "idle" /\ NotReported(task[t])
    BY <1>0, <2>2, <2>3 DEF TypeOK, TasksOnce
  <2>6. task'[t] = [state |-> task[t].state, file |-> task[t].file, nSkip |-> RingCap,
             answers |-> task[t].answers, canceled |-> task[t].canceled, since |-> posted]
    <3>1. task \in [Tasks -> TaskState]
      BY <1>0 DEF TypeOK
    <3> QED
      BY ONLY t \in Tasks, <3>1, <2>1, ZenonT(40) DEF Run, TaskState
  <2>7. \A u \in Tasks \ {t} : task'[u] = task[u]
    BY <1>0, <2>1, <2>2 DEF Run, TypeOK
  <2>8. task' = [u \in Tasks |-> task'[u]]
    BY <1>0, <2>1, <2>2, ZenonT(40) DEF Run, TypeOK
  <2>9. task'[t] \in TaskState
    BY <1>0, <2>5, <2>6 DEF TypeOK, TaskState, HrlogAssumption
  <2>10. task' \in [Tasks -> TaskState]
    BY <1>0, <2>7, <2>8, <2>9 DEF TypeOK
  <2>11. TypeOK' /\ RingSound'
    BY <1>0, <2>1, <2>2, <2>10, ZenonT(40) DEF TypeOK, RingSound
  <2>12. TasksOnce'
    <3>1. ASSUME NEW u \in Tasks
          PROVE  /\ u = current' => ~Waits(u)'
                 /\ task'[u].state = "idle" => ~Waits(u)' /\ u # current'
                 /\ task'[u].state = "idle" \/ Waits(u)' => task'[u].file = << >>
                 /\ task'[u].state = "idle" \/ Waits(u)' \/ u = current' => NotReported(task'[u])
      <4>1. CASE u = t
        BY <4>1, <2>1, <2>3, <2>5, <2>6 DEF NotReported
      <4>2. CASE u # t
        BY <4>2, <1>0, <2>1, <2>4, <2>7, SMTT(30) DEF TasksOnce
      <4> QED
        BY <4>1, <4>2
    <3> QED
      BY <2>4, <3>1 DEF TasksOnce
  <2>13. \A u \in Tasks : Fresh(task'[u], Count[u])
    BY <2>5, <2>6, <2>7, <2>2 DEF IInv, Fresh, Increasing, NotReported
  <2>14. Skips(task'[t], ring, posted)
    <3>1. ring \in Seq(Nat) /\ Len(ring) <= RingCap /\ RingCap \in Nat /\ posted \in Nat
      BY <1>0 DEF TypeOK, RingSound, HrlogAssumption
    <3>2. task'[t].file = << >> /\ task'[t].nSkip = RingCap /\ task'[t].since = posted
      BY <2>5, <2>6
    <3> QED
      BY <3>1, <3>2 DEF Skips
  <2> QED
    BY <1>0, <2>1, <2>11, <2>12, <2>13, <2>14, SMTT(30) DEF IInv
<1> QED
  BY <1>1, <1>2

\* A task whose file cannot be opened is answered with the error.
LEMMA OpenFailsIInv == ASSUME HrlogAssumption, IInv, OpenFails PROVE IInv'
<1>0. TypeOK /\ current \in Tasks /\ current' = None /\ UNCHANGED <<queue, ring, posted, stopped>>
  BY DEF IInv, TypeOK, OpenFails
<1>1. task' \in [Tasks -> TaskState] /\ \A u \in Tasks : Same(task[u], task'[u])
  <2>1. "writer failed" \in Answers \ {"ok"}
    BY DEF Answers
  <2>2. /\ Answer(current, "writer failed") \in [Tasks -> TaskState]
        /\ \A u \in Tasks : Same(task[u], Answer(current, "writer failed")[u])
    BY <1>0, <2>1, AnswerSame, Zenon
  <2> QED
    BY <1>0, <2>2, UnchangedSame DEF OpenFails
<1> QED
  BY <1>0, <1>1, SameKeeps DEF QueueLeft, HrlogAssumption, TypeOK

\* Asking the writer to stop touches neither tasks nor ring.
LEMMA StopIInv == ASSUME HrlogAssumption, IInv, StopCurrent \/ Stop \/ UNCHANGED vars PROVE IInv'
<1>1. TypeOK /\ UNCHANGED <<task, queue, ring, posted, current>> /\ stopped' \in BOOLEAN
  BY ZenonT(40) DEF IInv, TypeOK, StopCurrent, Stop, vars
<1> QED
  BY <1>1, UnchangedSame, SameKeeps DEF QueueLeft, HrlogAssumption

\* A closed queue ends the loop.
LEMMA LoopEndsIInv == ASSUME HrlogAssumption, IInv, LoopEnds PROVE IInv'
<1>0. /\ TypeOK /\ current = None /\ ring' = << >> /\ UNCHANGED <<task, queue, posted, current, stopped>>
  BY DEF IInv, LoopEnds
<1>1. RingSound'
  <2>1. ring' = << >> /\ RingCap \in Nat
    BY <1>0 DEF HrlogAssumption
  <2> QED
    BY ONLY <2>1, SMT DEF RingSound, Increasing
<1>2. TypeOK' /\ TasksOnce'
  BY <1>0 DEF IInv, TypeOK, TasksOnce, Waits
<1> QED
  BY <1>0, <1>1, <1>2 DEF IInv, HrlogAssumption

\* Entries posted meanwhile go behind what the ring has, or are dropped.
LEMMA PostIInv == ASSUME HrlogAssumption, IInv, Post PROVE IInv'
<1>0. /\ TypeOK /\ RingSound /\ posted' = posted + 1 /\ UNCHANGED <<task, queue, current, stopped>>
      /\ posted \in Nat /\ ring \in Seq(Nat) /\ RingCap \in Nat
  BY DEF IInv, TypeOK, Post, HrlogAssumption
<1>1. /\ ring' \in Seq(Nat) /\ RingSound'
      /\ \A i \in DOMAIN ring' : ring'[i] = posted + 1 \/ (i \in DOMAIN ring /\ ring'[i] = ring[i])
  <2>1. CASE Len(ring) < RingCap
    <3>1. /\ ring' \in Seq(Nat) /\ Len(ring') = Len(ring) + 1 /\ Len(ring) \in Nat
          /\ DOMAIN ring = 1 .. Len(ring) /\ DOMAIN ring' = 1 .. (Len(ring) + 1)
          /\ \A i \in 1 .. Len(ring) : ring'[i] = ring[i] /\ ring[i] \in Nat
          /\ ring'[Len(ring) + 1] = posted + 1
      BY <1>0, <2>1 DEF Post
    <3>2. (Len(ring) <= RingCap)'
      BY <1>0, <2>1, <3>1
    <3>3. \A i \in DOMAIN ring' : ring'[i] <= posted'
      BY <1>0, <3>1, SMTT(30) DEF RingSound
    <3>4. ASSUME NEW i \in DOMAIN ring', NEW j \in DOMAIN ring', i < j PROVE ring'[i] < ring'[j]
      <4>1. i \in DOMAIN ring /\ ring[i] \in Nat /\ ring[i] <= posted /\ ring'[i] = ring[i]
        BY <1>0, <3>1, <3>4 DEF RingSound
      <4>2. CASE j = Len(ring) + 1
        BY <1>0, <3>1, <4>1, <4>2
      <4>3. CASE j # Len(ring) + 1
        BY <1>0, <3>1, <3>4, <4>1, <4>3, SMTT(30) DEF RingSound, Increasing
      <4> QED
        BY <4>2, <4>3
    <3> QED
      BY <3>1, <3>2, <3>3, <3>4 DEF RingSound, Increasing
  <2>2. CASE ~(Len(ring) < RingCap)
    BY <1>0, <2>2 DEF Post, RingSound
  <2> QED
    BY <2>1, <2>2
<1>2. TypeOK' /\ TasksOnce'
  BY <1>0, <1>1 DEF IInv, TypeOK, TasksOnce, Waits
<1>3. ASSUME NEW t \in Tasks, t = current PROVE Skips(task[t], ring', posted')
  <2>1. Skips(task[t], ring, posted) /\ task[t] \in TaskState
    BY <1>0, <1>3 DEF IInv, TypeOK
  <2>2. /\ task[t].since \in Nat /\ task[t].file \in Seq(Nat)
        /\ \A i \in DOMAIN task[t].file : task[t].file[i] \in Nat
    BY <2>1 DEF TaskState
  <2>3. ASSUME NEW i \in DOMAIN ring', i > task[t].nSkip PROVE ring'[i] > task[t].since
    <3>1. CASE ring'[i] = posted + 1
      BY <1>0, <2>1, <2>2, <3>1 DEF Skips
    <3>2. CASE i \in DOMAIN ring /\ ring'[i] = ring[i]
      BY <2>1, <2>3, <3>2 DEF Skips
    <3> QED
      BY <1>1, <3>1, <3>2
  <2>4. ASSUME NEW i \in DOMAIN task[t].file
        PROVE  task[t].file[i] <= posted + 1 /\ \A j \in DOMAIN ring' : task[t].file[i] < ring'[j]
    <3>1. task[t].file[i] <= posted /\ task[t].file[i] \in Nat /\ \A j \in DOMAIN ring : task[t].file[i] < ring[j]
      BY <2>1, <2>2, <2>4 DEF Skips
    <3>2. ASSUME NEW j \in DOMAIN ring' PROVE task[t].file[i] < ring'[j]
      <4>1. CASE ring'[j] = posted + 1
        BY <1>0, <3>1, <4>1
      <4>2. CASE j \in DOMAIN ring /\ ring'[j] = ring[j]
        BY <3>1, <4>2
      <4> QED
        BY <1>1, <4>1, <4>2
    <3> QED
      BY <1>0, <3>1, <3>2
  <2>5. task[t].since <= posted + 1
    BY <1>0, <2>1, <2>2 DEF Skips
  <2> QED
    BY <1>0, <2>3, <2>4, <2>5 DEF Skips
<1> QED
  BY <1>0, <1>1, <1>2, <1>3, SMTT(30) DEF IInv

(* The burst s of n entries taken from the ring e, and what is left d.              *)
IsCut(e, n, s, d) ==
  /\ s \in Seq(Nat) /\ DOMAIN s = 1 .. n /\ Increasing(s)
  /\ \A i \in 1 .. n : s[i] = e[i] /\ i \in DOMAIN e
  /\ d \in Seq(Nat) /\ Len(d) <= Len(e) /\ Increasing(d)
  /\ \A j \in DOMAIN d : j \in Nat /\ d[j] = e[n + j] /\ n + j \in DOMAIN e
  /\ \A i \in DOMAIN s, j \in DOMAIN d : s[i] < d[j]

\* Taking a burst splits the ring in two increasing parts, one below the other.
LEMMA Cut ==
  ASSUME NEW e \in Seq(Nat), NEW n \in Nat, n <= Len(e), Increasing(e),
         NEW s, s = SubSeq(e, 1, n), NEW d, d = SubSeq(e, n + 1, Len(e))
  PROVE  IsCut(e, n, s, d)
<1>1. Len(e) \in Nat /\ DOMAIN e = 1 .. Len(e) /\ \A i \in 1 .. Len(e) : e[i] \in Nat
  OBVIOUS
<1>2. s \in Seq(Nat) /\ Len(s) = n /\ \A i \in 1 .. n : s[i] = e[i]
  BY <1>1
<1>3. DOMAIN s = 1 .. n
  BY <1>2
<1>k. PICK k \in Nat : Len(e) = n + k
  <2>1. Len(e) - n \in Nat /\ Len(e) = n + (Len(e) - n)
    BY <1>1
  <2> QED
    BY <2>1, ZenonT(40)
<1>4. d \in Seq(Nat) /\ Len(d) = k /\ \A i \in 1 .. k : d[i] = e[n + i]
  <2>1. /\ SubSeq(e, n + 1, n + k) \in Seq(Nat)
        /\ Len(SubSeq(e, n + 1, n + k)) = IF n + 1 <= n + k THEN (n + k) - (n + 1) + 1 ELSE 0
        /\ \A i \in 1 .. ((n + k) - (n + 1) + 1) : SubSeq(e, n + 1, n + k)[i] = e[(n + 1) + i - 1]
    <3>1. \A i \in (n + 1) .. (n + k) : e[i] \in Nat
      BY <1>1, <1>k
    <3>2. n + 1 \in Int /\ n + k \in Int
      OBVIOUS
    <3> QED
      BY ONLY <3>1, <3>2, SubSeqProperties
  <2>2. (n + k) - (n + 1) + 1 = k
    OBVIOUS
  <2>3. \A i \in 1 .. k : (n + 1) + i - 1 = n + i
    OBVIOUS
  <2>4. d = SubSeq(e, n + 1, n + k)
    BY <1>k
  <2>5. Len(d) = k
    <3>1. (IF n + 1 <= n + k THEN (n + k) - (n + 1) + 1 ELSE 0) = k
      OBVIOUS
    <3> QED
      BY <2>1, <2>4, <3>1, ZenonT(40)
  <2> QED
    BY <2>1, <2>2, <2>3, <2>4, <2>5, ZenonT(40)
<1>5. DOMAIN d = 1 .. k
  BY <1>4
<1>6. \A i \in 1 .. n : i \in DOMAIN e
  BY <1>1
<1>7. \A j \in DOMAIN d : j \in Nat /\ d[j] = e[n + j] /\ n + j \in DOMAIN e
  <2>1. \A j \in 1 .. k : j \in Nat /\ n + j \in 1 .. (n + k)
    OBVIOUS
  <2> QED
    BY <1>1, <1>k, <1>4, <1>5, <2>1, ZenonT(40)
<1>8. Increasing(s)
  BY <1>2, <1>3, <1>6 DEF Increasing
<1>9. ASSUME NEW i \in DOMAIN d, NEW j \in DOMAIN d, i < j PROVE d[i] < d[j]
  <2>1. n + i < n + j /\ n + i \in DOMAIN e /\ n + j \in DOMAIN e
    BY <1>7, <1>9
  <2> QED
    BY <1>7, <2>1 DEF Increasing
<1>10. ASSUME NEW i \in DOMAIN s, NEW j \in DOMAIN d PROVE s[i] < d[j]
  <2>0. j \in Nat /\ j >= 1 /\ i \in Nat /\ i <= n
    BY <1>3, <1>5
  <2>1. i < n + j /\ i \in DOMAIN e /\ n + j \in DOMAIN e
    BY <1>3, <1>6, <1>7, <2>0
  <2> QED
    BY <1>2, <1>3, <1>7, <2>1 DEF Increasing
<1>11. Len(d) <= Len(e) /\ Increasing(d)
  BY <1>4, <1>k, <1>9, SMTT(30) DEF Increasing
<1> QED
  BY <1>2, <1>3, <1>4, <1>6, <1>7, <1>8, <1>10, <1>11, ZenonT(40) DEF IsCut

(* The file f with the burst s appended.                                            *)
LEMMA Appended ==
  ASSUME NEW f \in Seq(Nat), NEW s \in Seq(Nat), Increasing(f), Increasing(s),
         \A i \in DOMAIN f, j \in DOMAIN s : f[i] < s[j]
  PROVE  /\ f \o s \in Seq(Nat) /\ Increasing(f \o s)
         /\ \A i \in DOMAIN (f \o s) : \/ i \in DOMAIN f /\ (f \o s)[i] = f[i]
                                       \/ \E k \in DOMAIN s : (f \o s)[i] = s[k]
<1> DEFINE m == Len(f)
           n == Len(s)
           g == f \o s
<1>1. /\ m \in Nat /\ n \in Nat /\ DOMAIN f = 1 .. m /\ DOMAIN s = 1 .. n
      /\ g \in Seq(Nat) /\ Len(g) = m + n
      /\ \A i \in 1 .. (m + n) : g[i] = IF i <= m THEN f[i] ELSE s[i - m]
  BY ConcatProperties
<1>2. DOMAIN g = 1 .. (m + n)
  BY <1>1
<1> HIDE DEF m, n, g
<1>3. \A i \in 1 .. m : i \in DOMAIN g /\ g[i] = f[i] /\ i \in DOMAIN f
  BY <1>1, <1>2
<1>4. \A i \in DOMAIN g : i > m => i - m \in DOMAIN s /\ g[i] = s[i - m]
  BY <1>1, <1>2
<1>5. ASSUME NEW i \in DOMAIN g, NEW j \in DOMAIN g, i < j PROVE g[i] < g[j]
  <2>0. i \in Nat /\ j \in Nat /\ i >= 1 /\ j >= 1
    BY <1>1, <1>2
  <2>1. CASE j <= m
    <3>1. i \in 1 .. m /\ j \in 1 .. m
      BY <1>1, <1>5, <2>0, <2>1
    <3> QED
      BY <1>3, <1>5, <3>1 DEF Increasing
  <2>2. CASE i > m
    <3>1. j > m /\ i - m < j - m
      BY <1>1, <1>5, <2>0, <2>2
    <3> QED
      BY <1>4, <2>2, <3>1 DEF Increasing
  <2>3. CASE i <= m /\ j > m
    <3>1. i \in 1 .. m
      BY <1>1, <2>0, <2>3
    <3> QED
      BY <1>3, <1>4, <2>3, <3>1
  <2> QED
    BY <1>1, <2>0, <2>1, <2>2, <2>3, SMTT(30)
<1>6. ASSUME NEW i \in DOMAIN g
      PROVE  (i \in DOMAIN f /\ g[i] = f[i]) \/ \E k \in DOMAIN s : g[i] = s[k]
  <2>0. i \in Nat /\ i >= 1
    BY <1>1, <1>2
  <2>1. CASE i <= m
    BY <1>1, <1>3, <2>0, <2>1
  <2>2. CASE i > m
    BY <1>4, <2>2
  <2> QED
    BY <1>1, <2>0, <2>1, <2>2
<1>7. g \in Seq(Nat) /\ Increasing(g)
  BY <1>1, <1>5 DEF Increasing
<1> QED
  BY <1>6, <1>7 DEF g

\* A burst is discarded while entries from before the task's start may be in it.
LEMMA CollectIInv == ASSUME HrlogAssumption, IInv, Collect PROVE IInv'
<1>0. /\ TypeOK /\ RingSound /\ TasksOnce /\ current \in Tasks /\ task[current] \in TaskState
      /\ UNCHANGED <<queue, posted, current, stopped>>
      /\ ring \in Seq(Nat) /\ posted \in Nat /\ Burst \in Nat \ {0}
  BY DEF IInv, TypeOK, Collect, HrlogAssumption
<1>c. PICK t \in Tasks : t = current
  BY <1>0
<1>1. PICK n \in Nat : /\ n <= Len(ring) /\ ring' = SubSeq(ring, n + 1, Len(ring))
                       /\ task' = IF task[t].nSkip > 0 THEN [task EXCEPT ![t].nSkip = @ - n]
                                  ELSE [task EXCEPT ![t].file = @ \o SubSeq(ring, 1, n)]
  <2>1. Len(ring) \in Nat /\ Len(ring) <= Len(ring)
    BY <1>0
  <2>2. CASE Len(ring) < Burst
    <3>1. /\ ring' = SubSeq(ring, Len(ring) + 1, Len(ring))
          /\ task' = IF task[t].nSkip > 0 THEN [task EXCEPT ![t].nSkip = @ - Len(ring)]
                     ELSE [task EXCEPT ![t].file = @ \o SubSeq(ring, 1, Len(ring))]
      BY <1>c, <2>2 DEF Collect
    <3> QED
      BY <2>1, <3>1, Zenon
  <2>3. CASE ~(Len(ring) < Burst)
    <3>1. /\ ring' = SubSeq(ring, Burst + 1, Len(ring))
          /\ task' = IF task[t].nSkip > 0 THEN [task EXCEPT ![t].nSkip = @ - Burst]
                     ELSE [task EXCEPT ![t].file = @ \o SubSeq(ring, 1, Burst)]
      BY <1>c, <2>3, ZenonT(40) DEF Collect
    <3>2. Burst \in Nat /\ Burst <= Len(ring)
      BY <1>0, <2>1, <2>3
    <3> QED
      BY <3>1, <3>2, Zenon
  <2> QED
    BY <2>2, <2>3, ZenonT(40)
<1>2. PICK s : s = SubSeq(ring, 1, n)
  BY ZenonT(40)
<1>3. /\ s \in Seq(Nat) /\ DOMAIN s = 1 .. n /\ Increasing(s)
      /\ \A i \in 1 .. n : s[i] = ring[i] /\ i \in DOMAIN ring
      /\ ring' \in Seq(Nat) /\ Len(ring') <= Len(ring) /\ Increasing(ring')
      /\ \A j \in DOMAIN ring' : j \in Nat /\ ring'[j] = ring[n + j] /\ n + j \in DOMAIN ring
      /\ \A i \in DOMAIN s, j \in DOMAIN ring' : s[i] < ring'[j]
  <2>1. Increasing(ring) /\ n <= Len(ring) /\ ring \in Seq(Nat) /\ ring' = SubSeq(ring, n + 1, Len(ring))
    BY <1>0, <1>1 DEF RingSound
  <2>2. IsCut(ring, n, s, ring')
    BY <1>2, <2>1, Cut, Zenon
  <2> QED
    BY <2>2 DEF IsCut
<1>4. RingSound'
  <2>1. Len(ring') <= RingCap
    BY <1>0, <1>3 DEF RingSound, HrlogAssumption
  <2>2. \A i \in DOMAIN ring' : ring'[i] <= posted'
    BY <1>0, <1>3, SMTT(30) DEF RingSound
  <2> QED
    BY <1>3, <2>1, <2>2 DEF RingSound
<1>5. /\ Skips(task[t], ring, posted) /\ Fresh(task[t], Count[t]) /\ NotReported(task[t])
      /\ task[t].state # "idle" /\ ~Waits(t)
  BY <1>0, <1>c DEF IInv, TasksOnce
<1>6. task' = [u \in Tasks |-> task'[u]] /\ \A u \in Tasks \ {t} : task'[u] = task[u]
  BY <1>0, <1>1, ZenonT(40) DEF TypeOK
<1>7. /\ task[t] \in TaskState /\ task[t].nSkip \in Int /\ task[t].since \in Nat
      /\ task[t].file \in Seq(Nat)
  BY <1>0, <1>c DEF TaskState
<1>8. PICK r \in TaskState :
        /\ r = task'[t] /\ r.state = task[t].state /\ r.answers = task[t].answers
        /\ Skips(r, ring', posted) /\ Fresh(r, Count[t])
  <2>1. CASE task[t].nSkip > 0
    <3>1. task'[t] = [state |-> task[t].state, file |-> task[t].file, nSkip |-> task[t].nSkip - n,
             answers |-> task[t].answers, canceled |-> task[t].canceled, since |-> task[t].since]
      BY <1>0, <1>1, <1>7, <2>1, ZenonT(40) DEF TypeOK, TaskState
    <3>2. PICK r : r = task'[t]
      OBVIOUS
    <3>3. r \in TaskState
      BY <1>7, <3>1, <3>2 DEF TaskState
    <3>4. /\ r.state = task[t].state /\ r.file = task[t].file /\ r.answers = task[t].answers
          /\ r.since = task[t].since /\ r.nSkip = task[t].nSkip - n
      BY <3>1, <3>2
    <3>5. Fresh(r, Count[t])
      BY <1>5, <3>4 DEF Fresh
    <3>6. ASSUME NEW i \in DOMAIN ring', i > r.nSkip PROVE ring'[i] > r.since
      <4>1. i \in Nat /\ n + i \in DOMAIN ring /\ ring'[i] = ring[n + i]
        BY <1>3
      <4>2. n + i > task[t].nSkip
        BY <1>7, <3>4, <3>6, <4>1
      <4> QED
        BY <1>5, <3>4, <4>1, <4>2, SMTT(30) DEF Skips
    <3>7. Skips(r, ring', posted)
      <4>1. r.since <= posted
        BY <1>5, <3>4 DEF Skips
      <4>2. \A i \in DOMAIN r.file : r.file[i] <= posted /\ \A j \in DOMAIN ring' : r.file[i] < ring'[j]
        BY <1>3, <1>5, <3>4, SMTT(30) DEF Skips
      <4> QED
        BY <3>6, <4>1, <4>2 DEF Skips
    <3> QED
      BY <3>2, <3>3, <3>4, <3>5, <3>7, SMTT(30)
  <2>2. CASE ~(task[t].nSkip > 0)
    <3>1. task'[t] = [state |-> task[t].state, file |-> task[t].file \o s, nSkip |-> task[t].nSkip,
             answers |-> task[t].answers, canceled |-> task[t].canceled, since |-> task[t].since]
      BY <1>0, <1>1, <1>2, <1>7, <2>2, ZenonT(40) DEF TypeOK, TaskState
    <3>2. PICK r : r = task'[t]
      OBVIOUS
    <3>3. /\ r.state = task[t].state /\ r.file = task[t].file \o s /\ r.answers = task[t].answers
          /\ r.since = task[t].since /\ r.nSkip = task[t].nSkip
      BY <3>1, <3>2
    <3>4. /\ r.file \in Seq(Nat) /\ Increasing(r.file)
          /\ \A i \in DOMAIN r.file : \/ i \in DOMAIN task[t].file /\ r.file[i] = task[t].file[i]
                                      \/ \E k \in DOMAIN s : r.file[i] = s[k]
      <4>1. \A i \in DOMAIN task[t].file, j \in DOMAIN s : task[t].file[i] < s[j]
        BY <1>3, <1>5 DEF Skips
      <4>2. Increasing(task[t].file)
        BY <1>5 DEF Fresh
      <4>3. PICK f \in Seq(Nat) : f = task[t].file
        BY <1>7
      <4>4. /\ f \o s \in Seq(Nat) /\ Increasing(f \o s)
            /\ \A i \in DOMAIN (f \o s) : \/ i \in DOMAIN f /\ (f \o s)[i] = f[i]
                                          \/ \E k \in DOMAIN s : (f \o s)[i] = s[k]
        BY <1>3, <4>1, <4>2, <4>3, Appended, Zenon
      <4> QED
        BY <3>3, <4>3, <4>4, ZenonT(40)
    <3>5. r \in TaskState
      BY <1>7, <3>1, <3>2, <3>3, <3>4, SMTT(30) DEF TaskState
    <3>6. \A i \in DOMAIN ring : ring[i] > task[t].since
      <4>1. \A i \in DOMAIN ring : i > task[t].nSkip
        BY <1>0, <1>7, <2>2
      <4> QED
        BY <1>5, <4>1 DEF Skips
    <3>7. \A k \in DOMAIN s : s[k] > task[t].since /\ s[k] <= posted
      BY <1>0, <1>3, <3>6, SMTT(30) DEF RingSound
    <3>8. \A i \in DOMAIN r.file : r.file[i] > r.since
      BY <1>5, <3>3, <3>4, <3>7, SMTT(30) DEF Fresh
    <3>9. Fresh(r, Count[t])
      BY <1>5, <3>3, <3>4, <3>8 DEF Fresh, NotReported
    <3>10. \A i \in DOMAIN ring' : ring'[i] > r.since
      BY <1>3, <3>3, <3>6
    <3>11. \A i \in DOMAIN task[t].file :
             task[t].file[i] <= posted /\ \A j \in DOMAIN ring' : task[t].file[i] < ring'[j]
      BY <1>3, <1>5 DEF Skips
    <3>12. \A i \in DOMAIN r.file : r.file[i] <= posted /\ \A j \in DOMAIN ring' : r.file[i] < ring'[j]
      BY <1>3, <3>4, <3>7, <3>11, ZenonT(40)
    <3>13. Skips(r, ring', posted)
      BY <1>5, <3>3, <3>10, <3>12 DEF Skips
    <3> QED
      BY <3>2, <3>3, <3>5, <3>9, <3>13, SMTT(30)
  <2> QED
    BY <2>1, <2>2
<1>9. TypeOK'
  BY <1>0, <1>3, <1>6, <1>8, ZenonT(40) DEF TypeOK
<1>10. TasksOnce'
  <2>1. ASSUME NEW u \in Tasks
        PROVE  /\ u = current => ~Waits(u)
               /\ task'[u].state = "idle" => ~Waits(u) /\ u # current
               /\ task'[u].state = "idle" \/ Waits(u) => task'[u].file = << >>
               /\ task'[u].state = "idle" \/ Waits(u) \/ u = current => NotReported(task'[u])
    <3>1. CASE u = t
      BY <3>1, <1>5, <1>8 DEF NotReported
    <3>2. CASE u # t
      BY <3>2, <1>0, <1>6 DEF TasksOnce
    <3> QED
      BY <3>1, <3>2
  <2> QED
    BY <1>0, <2>1 DEF TasksOnce, Waits
<1> QED
  BY <1>0, <1>c, <1>4, <1>6, <1>8, <1>9, <1>10, SMTT(30) DEF IInv

\* The file cut to the count of entries the task asked for.
LEMMA TruncatedIs ==
  ASSUME NEW f \in Seq(Nat), NEW n \in Nat, Increasing(f)
  PROVE  /\ Truncated(f, n) \in Seq(Nat) /\ Increasing(Truncated(f, n))
         /\ \A i \in DOMAIN Truncated(f, n) : i \in DOMAIN f /\ Truncated(f, n)[i] = f[i]
         /\ Len(f) >= n => Len(Truncated(f, n)) = n
<1>1. PICK m \in Nat : m = Min({Len(f), n}) /\ m <= Len(f) /\ (Len(f) >= n => m = n)
  <2>1. Len(f) \in Nat
    OBVIOUS
  <2>2. ASSUME NEW a \in Nat, NEW c \in Nat
        PROVE  Min({a, c}) \in {a, c} /\ Min({a, c}) <= a /\ Min({a, c}) <= c
    <3>1. \E x \in {a, c} : \A y \in {a, c} : x <= y
      OBVIOUS
    <3> QED
      BY <3>1, ZenonT(40) DEF Min
  <2> QED
    BY <2>1, <2>2
<1>2. Truncated(f, n) = SubSeq(f, 1, m)
  BY <1>1 DEF Truncated
<1>3. /\ SubSeq(f, 1, m) \in Seq(Nat) /\ DOMAIN SubSeq(f, 1, m) = 1 .. m /\ Increasing(SubSeq(f, 1, m))
      /\ \A i \in 1 .. m : SubSeq(f, 1, m)[i] = f[i] /\ i \in DOMAIN f
  <2>1. PICK s, d : s = SubSeq(f, 1, m) /\ d = SubSeq(f, m + 1, Len(f))
    BY ZenonT(40)
  <2>2. IsCut(f, m, s, d)
    BY <1>1, <2>1, Cut, Zenon
  <2> QED
    BY <2>1, <2>2 DEF IsCut
<1>4. Len(SubSeq(f, 1, m)) = m
  BY <1>3
<1> QED
  BY <1>1, <1>2, <1>3, <1>4, ZenonT(40)

\* The task ends: its file is cut to size and its submitter is told.
LEMMA FinishIInv == ASSUME HrlogAssumption, IInv, NEW saw \in BOOLEAN, Finish(saw) PROVE IInv'
<1>0. /\ TypeOK /\ RingSound /\ TasksOnce /\ current \in Tasks /\ current' = None /\ stopped' = FALSE
      /\ UNCHANGED <<queue, ring, posted>>
  BY DEF IInv, TypeOK, Finish
<1>c. PICK t \in Tasks : t = current
  BY <1>0
<1>1. PICK f : f = Truncated(task[t].file, Count[t])
  BY SMTT(30)
<1>2. /\ task[t] \in TaskState /\ task[t].file \in Seq(Nat) /\ task[t].answers \in Seq(Answers)
      /\ Count[t] \in Nat /\ Fresh(task[t], Count[t]) /\ NotReported(task[t]) /\ ~Waits(t)
      /\ task[t].state # "idle"
  BY <1>0, <1>c DEF IInv, TypeOK, TaskState, TasksOnce, HrlogAssumption
<1>3. /\ f \in Seq(Nat) /\ Increasing(f) /\ \A i \in DOMAIN f : i \in DOMAIN task[t].file /\ f[i] = task[t].file[i]
      /\ Len(task[t].file) >= Count[t] => Len(f) = Count[t]
  BY <1>1, <1>2, TruncatedIs, ZenonT(40) DEF Fresh
<1>4. task' = [u \in Tasks |-> task'[u]] /\ \A u \in Tasks \ {t} : task'[u] = task[u]
  BY <1>0, <1>c, ZenonT(40) DEF Finish, Answer, TypeOK
<1>5. PICK r \in TaskState : r = task'[t] /\ r.state # "idle" /\ Fresh(r, Count[t])
  <2>1. CASE saw
    <3>1. Len(task[t].file) >= Count[t]
      BY <1>c, <2>1 DEF Finish
    <3>2. task'[t] = [state |-> "answered", file |-> f, nSkip |-> task[t].nSkip,
             answers |-> Append(task[t].answers, "ok"), canceled |-> task[t].canceled, since |-> task[t].since]
      BY <1>0, <1>c, <1>1, <1>2, <2>1, ZenonT(40) DEF Finish, Answer, TypeOK, TaskState
    <3>3. task'[t] \in TaskState
      <4>0. "ok" \in Answers
        BY DEF Answers
      <4>1. Append(task[t].answers, "ok") \in Seq(Answers)
        BY <1>2, <4>0
      <4> QED
        BY <1>2, <1>3, <3>2, <4>1 DEF TaskState
    <3>4. Fresh(task'[t], Count[t])
      BY <1>2, <1>3, <3>1, <3>2, SMTT(30) DEF Fresh
    <3> QED
      BY <3>2, <3>3, <3>4
  <2>2. CASE ~saw
    <3>2. task'[t] = [state |-> task[t].state, file |-> f, nSkip |-> task[t].nSkip,
             answers |-> task[t].answers, canceled |-> task[t].canceled, since |-> task[t].since]
      BY <1>0, <1>c, <1>1, <1>2, <2>2, ZenonT(40) DEF Finish, TypeOK, TaskState
    <3>3. task'[t] \in TaskState
      BY <1>2, <1>3, <3>2, SMTT(30) DEF TaskState
    <3>4. Fresh(task'[t], Count[t])
      BY <1>2, <1>3, <3>2 DEF Fresh, NotReported
    <3> QED
      BY <1>2, <3>2, <3>3, <3>4
  <2> QED
    BY <2>1, <2>2
<1>6. TypeOK' /\ RingSound'
  BY <1>0, <1>4, <1>5, ZenonT(40) DEF TypeOK, RingSound
<1>7. TasksOnce'
  <2>1. ASSUME NEW u \in Tasks
        PROVE  /\ task'[u].state = "idle" => ~Waits(u)
               /\ task'[u].state = "idle" \/ Waits(u) => task'[u].file = << >>
               /\ task'[u].state = "idle" \/ Waits(u) => NotReported(task'[u])
    <3>1. CASE u = t
      BY <3>1, <1>2, <1>5
    <3>2. CASE u # t
      BY <3>2, <1>0, <1>4 DEF TasksOnce
    <3> QED
      BY <3>1, <3>2
  <2> QED
    BY <1>0, <2>1 DEF TasksOnce, Waits, HrlogAssumption
<1> QED
  BY <1>0, <1>4, <1>5, <1>6, <1>7 DEF IInv, HrlogAssumption

(* However tasks are submitted, canceled, refused, stopped and answered, and       *)
(* whatever waits in the ring: a task's file has only entries posted after the     *)
(* writer began the task, in order, and a task reported as done has as many as it  *)
(* asked for (Submit, Writer.loop, writerTask.run, Hrlog_RunWriter, Hrlog_Post).   *)
THEOREM OnlyFreshEntries == HrlogAssumption /\ Spec => []FreshEntries
<1> SUFFICES ASSUME HrlogAssumption PROVE Spec => []FreshEntries
  OBVIOUS
<1>1. Init => IInv
  BY InitIInv
<1>2. IInv /\ [Next]_vars => IInv'
  <2> SUFFICES ASSUME IInv, [Next]_vars PROVE IInv'
    OBVIOUS
  <2>1. ASSUME NEW t \in Tasks, Submit(t) \/ Cancel(t) \/ AnswerCanceled(t) PROVE IInv'
    BY <2>1, SubmitIInv, CancelIInv
  <2>2. ASSUME NEW saw \in BOOLEAN, Finish(saw) PROVE IInv'
    BY <2>2, FinishIInv
  <2> QED
    BY <2>1, <2>2, LoopIInv, OpenFailsIInv, StopIInv, CollectIInv, LoopEndsIInv, PostIInv, SMTT(30) DEF Next
<1> QED
  BY <1>1, <1>2, FreshMeans, PTL DEF Spec
=============================================================================

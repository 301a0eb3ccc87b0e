------------------------------- MODULE MinTmr -------------------------------
(***************************************************************************)
(* The minute scheduler (csrc/core/mintmr.[ch]): a wheel of NSlots slots,  *)
(* Interval clock ticks apart.  A slot's doubly linked list is modelled as *)
(* the set of its timers: timers of one slot fire in the same pass and     *)
(* their callbacks touch no other timer.                                   *)
(*                                                                         *)
(* The owner of the scheduler is a single thread: it arms and cancels      *)
(* timers and now and then calls MinSched_Trigger, possibly long after     *)
(* nextTime.  A callback may arm its own timer again.                      *)
(***************************************************************************)
EXTENDS Integers, TLAPS

CONSTANTS Timer, NSlots, Interval,
          Delays,  \* values of `after`
          MaxTime, \* bound: the clock stops here
          MaxLag   \* bound: Trigger is called no later than this after nextTime

ASSUME SlotsAssumption == NSlots \in Nat /\ NSlots >= 2
ASSUME IntervalAssumption == Interval \in Nat \ {0}
ASSUME DelaysAssumption == Delays \subseteq Int
ASSUME LagAssumption == MaxLag \in Nat

VARIABLES now,      \* rte_get_tsc_cycles()
          nextTime, lastSlot, slot,
          batch,    \* timers of the current slot whose callbacks are still to run
          running,  \* MinSched_Trigger_ is in its loop
          due,      \* history: when each armed timer was asked to expire
          early     \* history: how late Trigger was when each timer was armed

sched == <<nextTime, lastSlot, slot>>
vars == <<now, sched, batch, running, due, early>>

Slots == 0..NSlots - 1

\* MinSched_New
Init == /\ now = 0
        /\ nextTime = now
        /\ lastSlot = NSlots - 1
        /\ slot = [i \in Slots |-> {}]
        /\ batch = {}
        /\ running = FALSE
        /\ due = [t \in Timer |-> 0]
        /\ early = [t \in Timer |-> 0]

Armed(t) == \E i \in Slots : t \in slot[i]

\* The wheel without timer t (MinTmr_Cancel2).
Unlinked(t) == [i \in Slots |-> slot[i] \ {t}]

NonNegative(d) == IF d < 0 THEN 0 ELSE d

MutSlotsAway(after) == NonNegative(after) \div Interval

SlotsAway(after) == NonNegative(after) \div Interval + 1

TooFar(after) == SlotsAway(after) >= NSlots

\* MinTmr_After: the timer is taken out of its slot, and put into another one
\* unless the delay is too long.
MinTmr_After(t, after) ==
  /\ slot' = IF TooFar(after) THEN Unlinked(t)
             ELSE [Unlinked(t) EXCEPT ![(lastSlot + SlotsAway(after)) % NSlots] = @ \cup {t}]
  /\ due' = [due EXCEPT ![t] = now + NonNegative(after)]
  /\ early' = [early EXCEPT ![t] = NonNegative(now - nextTime)]
  /\ UNCHANGED <<nextTime, lastSlot>>

Tick == /\ ~running
        /\ now < MaxTime
        /\ now < nextTime + MaxLag
        /\ now' = now + 1
        /\ UNCHANGED <<sched, batch, running, due, early>>

After(t, d) == /\ ~running
               /\ MinTmr_After(t, d)
               /\ UNCHANGED <<now, batch, running>>

MinTmr_Cancel(t) == /\ ~running
                    /\ Armed(t)
                    /\ slot' = Unlinked(t)
                    /\ UNCHANGED <<now, nextTime, lastSlot, batch, running, due, early>>

\* One turn of the loop of MinSched_Trigger_: the next slot becomes current.
Turn == /\ nextTime <= now
        /\ batch = {}
        /\ lastSlot' = (lastSlot + 1) % NSlots
        /\ nextTime' = nextTime + Interval
        /\ batch' = slot[lastSlot']
        /\ slot' = [slot EXCEPT ![lastSlot'] = {}]
        /\ running' = TRUE
        /\ UNCHANGED <<now, due, early>>

\* The callback of timer t, which leaves the timer alone.
Fire(t) == /\ batch' = batch \ {t}
           /\ UNCHANGED <<now, sched, running, due, early>>

\* The callback of timer t, which arms it again.
FireAgain(t, d) == /\ batch' = batch \ {t}
                   /\ MinTmr_After(t, d)
                   /\ UNCHANGED <<now, running>>

\* The loop of MinSched_Trigger_ ends.
Caught == /\ running
          /\ batch = {}
          /\ nextTime > now
          /\ running' = FALSE
          /\ UNCHANGED <<now, sched, batch, due, early>>

Next == \/ Tick
        \/ \E t \in Timer, d \in Delays : After(t, d)
        \/ \E t \in Timer : MinTmr_Cancel(t)
        \/ Turn
        \/ \E t \in batch : Fire(t)
        \/ \E t \in batch, d \in Delays : FireAgain(t, d)
        \/ Caught

Spec == Init /\ [][Next]_vars

-----------------------------------------------------------------------------
(* Properties.                                                             *)

\* The number of turns until the slot of index i becomes current.
Distance(i) == IF i >= lastSlot THEN i - lastSlot ELSE i - lastSlot + NSlots

\* The clock value at which the slot of index i is due.
SlotTime(i) == nextTime + (Distance(i) - 1) * Interval

\* Type invariant.
TypeOK == /\ now \in Nat /\ nextTime \in Nat
          /\ lastSlot \in Slots
          /\ slot \in [Slots -> SUBSET Timer]
          /\ batch \subseteq Timer
          /\ running \in BOOLEAN
          /\ due \in [Timer -> Nat] /\ early \in [Timer -> Nat]

\* A timer is in at most one slot, the current slot is empty, so that a timer
\* armed by a callback is never wiped with the slot being processed, and a timer
\* waiting for its callback is in no slot.
OneSlotEach ==
  /\ \A i, j \in Slots : i # j => slot[i] \cap slot[j] = {}
  /\ slot[lastSlot] = {}
  /\ \A i \in Slots : slot[i] \cap batch = {}

\* An armed timer fires at most one interval after it was asked to expire, and
\* less than one interval before, plus the time by which Trigger was already
\* overdue when it was armed.
FiresOnTime ==
  \A i \in Slots : \A t \in slot[i] :
    /\ SlotTime(i) <= due[t] + Interval
    /\ SlotTime(i) > due[t] - Interval - early[t]

\* When Trigger returns, no timer that should have expired an interval ago or
\* more is still waiting.
NoneOverdue == [][Caught => \A t \in Timer : Armed(t) => due[t] + Interval > now]_vars

-----------------------------------------------------------------------------
(* Proofs, for any number of timers and slots, any interval and any delays. *)

\* Advancing around the wheel by less than one turn.
LEMMA Wrap ==
  ASSUME NEW x \in Nat, x < 2 * NSlots
  PROVE  x % NSlots = IF x < NSlots THEN x ELSE x - NSlots
  BY SlotsAssumption, SMTT(30)

\* What the quotient by the interval is worth in clock ticks.
LEMMA Quotient ==
  ASSUME NEW d \in Nat
  PROVE  /\ d \div Interval \in Nat
         /\ (d \div Interval) * Interval <= d
         /\ d < (d \div Interval) * Interval + Interval
  BY IntervalAssumption, SMTT(30)

(* A timer is put at least one slot ahead.                                 *)
LEMMA Clamp ==
  ASSUME NEW d \in Int
  PROVE  NonNegative(d) \in Nat /\ SlotsAway(d) \in Nat /\ SlotsAway(d) >= 1
  BY Quotient DEF NonNegative, SlotsAway

-----------------------------------------------------------------------------
(* The inductive invariant.  FiresOnTime is kept by arming a timer because *)
(* nextTime is at most one interval ahead of the clock, and by a turn of   *)
(* the wheel because the slot that becomes current is emptied; outside the *)
(* loop of MinSched_Trigger_ no callback is outstanding.                   *)

Near == nextTime <= now + Interval

Idle == ~running => batch = {}

IInv == TypeOK /\ OneSlotEach /\ FiresOnTime /\ Near /\ Idle

(* The invariant holds for a new wheel.                                    *)
LEMMA InitIInv == Init => IInv
<1> SUFFICES ASSUME Init PROVE IInv
  OBVIOUS
<1> USE SlotsAssumption, IntervalAssumption
<1>1. TypeOK
  <2>1. NSlots - 1 \in Slots
    BY DEF Slots
  <2>2. slot \in [Slots -> SUBSET Timer]
    BY DEF Init
  <2> QED
    BY <2>1, <2>2, ZenonT(40) DEF Init, TypeOK
<1>2. OneSlotEach
  BY <1>1 DEF Init, OneSlotEach, TypeOK
<1>3. FiresOnTime
  BY DEF Init, FiresOnTime
<1>4. Near /\ Idle
  BY DEF Init, Near, Idle
<1> QED
  BY <1>1, <1>2, <1>3, <1>4 DEF IInv

\* The slot that MinTmr_After chooses is the one SlotsAway turns ahead.
LEMMA ChosenSlot ==
  ASSUME NEW l \in Slots, NEW k \in Nat, k >= 1, k < NSlots
  PROVE  LET i == (l + k) % NSlots IN
         /\ i \in Slots
         /\ i # l
         /\ (IF i >= l THEN i - l ELSE i - l + NSlots) = k
<1> DEFINE x == l + k
<1>1. x \in Nat /\ x < 2 * NSlots
  BY SlotsAssumption DEF Slots
<1>2. x % NSlots = IF x < NSlots THEN x ELSE x - NSlots
  <2> HIDE DEF x
  <2> QED
    BY <1>1, Wrap
<1> QED
  BY <1>2, SlotsAssumption DEF Slots

\* Arming a timer preserves the invariant, as long as the timer is not waiting
\* for its callback.
LEMMA AfterIInv ==
  ASSUME IInv, NEW t \in Timer, NEW d \in Int, MinTmr_After(t, d),
         now' = now, running' = running, batch' \subseteq batch, t \notin batch'
  PROVE  IInv'
<1> USE SlotsAssumption, IntervalAssumption
<1> DEFINE k == SlotsAway(d)
           i0 == (lastSlot + k) % NSlots
<1>0. k \in Nat /\ k >= 1 /\ NonNegative(d) \in Nat
  BY Clamp
<1>1. ~TooFar(d) => i0 \in Slots /\ i0 # lastSlot /\ Distance(i0) = k
  BY <1>0, ChosenSlot DEF TooFar, IInv, TypeOK, Distance
<1>2. UNCHANGED <<nextTime, lastSlot>>
  BY DEF MinTmr_After
<1>3. \A i \in Slots : slot'[i] \subseteq (slot[i] \ {t}) \cup {t}
                       /\ (t \in slot'[i] => ~TooFar(d) /\ i = i0)
  BY <1>1 DEF MinTmr_After, Unlinked, IInv, TypeOK
<1>4. slot' \in [Slots -> SUBSET Timer]
  BY <1>1 DEF MinTmr_After, Unlinked, IInv, TypeOK
<1>5. NonNegative(now - nextTime) \in Nat /\ now + NonNegative(d) \in Nat
  BY <1>0, Clamp DEF IInv, TypeOK
<1>6. /\ due' \in [Timer -> Nat] /\ early' \in [Timer -> Nat]
      /\ due'[t] = now + NonNegative(d)
      /\ early'[t] = NonNegative(now - nextTime)
      /\ \A u \in Timer \ {t} : due'[u] = due[u] /\ early'[u] = early[u]
  BY <1>5 DEF MinTmr_After, IInv, TypeOK
<1>7. TypeOK'
  BY <1>2, <1>4, <1>6 DEF IInv, TypeOK
<1>8. OneSlotEach'
  BY <1>1, <1>2, <1>3, <1>4 DEF IInv, OneSlotEach, TypeOK
<1>9. SlotTime(i0) = nextTime + (NonNegative(d) \div Interval) * Interval
      \/ TooFar(d)
  <2>1. k - 1 = NonNegative(d) \div Interval
    BY <1>0, Quotient DEF SlotsAway
  <2> QED
    BY <1>1, <2>1 DEF SlotTime
<1>10. ~TooFar(d) => /\ SlotTime(i0) <= due'[t] + Interval
                     /\ SlotTime(i0) > due'[t] - Interval - early'[t]
  <2>1. /\ (NonNegative(d) \div Interval) * Interval \in Nat
        /\ (NonNegative(d) \div Interval) * Interval <= NonNegative(d)
        /\ NonNegative(d) < (NonNegative(d) \div Interval) * Interval + Interval
    BY <1>0, Quotient
  <2>2. nextTime \in Nat /\ now \in Nat /\ nextTime <= now + Interval
    BY DEF IInv, TypeOK, Near
  <2>3. nextTime >= now - NonNegative(now - nextTime)
    BY <2>2 DEF NonNegative
  <2> HIDE DEF i0
  <2> QED
    BY <1>0, <1>5, <1>6, <1>9, <2>1, <2>2, <2>3
<1>11. \A i \in Slots : SlotTime(i)' = SlotTime(i)
  BY <1>2 DEF SlotTime, Distance
<1>12. FiresOnTime'
  BY <1>1, <1>3, <1>4, <1>6, <1>10, <1>11 DEF IInv, FiresOnTime, TypeOK
<1>13. Near' /\ Idle'
  BY <1>2 DEF IInv, Near, Idle
<1> QED
  BY <1>7, <1>8, <1>12, <1>13 DEF IInv

\* One turn of the wheel preserves the invariant.
LEMMA TurnIInv == IInv /\ Turn => IInv'
<1> SUFFICES ASSUME IInv, Turn PROVE IInv'
  OBVIOUS
<1> USE SlotsAssumption, IntervalAssumption
<1>1. /\ lastSlot' \in Slots /\ lastSlot' # lastSlot
      /\ lastSlot' = IF lastSlot + 1 < NSlots THEN lastSlot + 1 ELSE 0
  <2> DEFINE x == lastSlot + 1
  <2>1. lastSlot \in Slots /\ x \in Nat /\ x < 2 * NSlots /\ lastSlot' = x % NSlots
    BY DEF IInv, TypeOK, Slots, Turn
  <2>2. x % NSlots = IF x < NSlots THEN x ELSE x - NSlots
    <3> HIDE DEF x
    <3> QED
      BY <2>1, Wrap
  <2> QED
    BY <2>1, <2>2 DEF Slots
<1>2. /\ \A i \in Slots : slot'[i] = IF i = lastSlot' THEN {} ELSE slot[i]
      /\ slot' \in [Slots -> SUBSET Timer] /\ batch' = slot[lastSlot']
  BY <1>1 DEF Turn, IInv, TypeOK
<1>3. TypeOK'
  BY <1>1, <1>2 DEF Turn, IInv, TypeOK
<1>4. OneSlotEach'
  BY <1>1, <1>2 DEF IInv, OneSlotEach, TypeOK
<1>5. \A i \in Slots \ {lastSlot, lastSlot'} : SlotTime(i)' = SlotTime(i)
  <2> TAKE i \in Slots \ {lastSlot, lastSlot'}
  <2>1. Distance(i) \in Nat /\ Distance(i)' = Distance(i) - 1
    BY <1>1 DEF Distance, IInv, TypeOK, Slots
  <2>2. nextTime' = nextTime + Interval /\ nextTime \in Nat
    BY DEF Turn, IInv, TypeOK
  <2>3. (Distance(i) - 1) * Interval = (Distance(i) - 1 - 1) * Interval + Interval
    BY <2>1
  <2>4. SlotTime(i)' = nextTime' + (Distance(i)' - 1) * Interval
    BY DEF SlotTime
  <2> QED
    BY <2>1, <2>2, <2>3, <2>4 DEF SlotTime
<1>6. FiresOnTime'
  BY <1>1, <1>2, <1>5 DEF IInv, FiresOnTime, OneSlotEach, Turn
<1>7. Near' /\ Idle'
  BY DEF Turn, IInv, Near, Idle, TypeOK
<1> QED
  BY <1>3, <1>4, <1>6, <1>7 DEF IInv

(* Every step keeps it.                                                    *)
LEMMA NextIInv == IInv /\ [Next]_vars => IInv'
<1> SUFFICES ASSUME IInv, [Next]_vars PROVE IInv'
  OBVIOUS
<1> USE SlotsAssumption, IntervalAssumption, DelaysAssumption
<1>1. CASE Tick
  BY <1>1 DEF Tick, sched, IInv, TypeOK, OneSlotEach, FiresOnTime, SlotTime, Distance, Near, Idle
<1>2. ASSUME NEW t \in Timer, NEW d \in Delays, After(t, d) PROVE IInv'
  <2>1. ~running /\ batch' = batch /\ now' = now /\ running' = running /\ MinTmr_After(t, d)
    BY <1>2 DEF After
  <2>2. batch = {} /\ running \in BOOLEAN
    BY <2>1 DEF IInv, TypeOK, Idle
  <2> QED
    BY <2>1, <2>2, AfterIInv
<1>3. ASSUME NEW t \in Timer, MinTmr_Cancel(t) PROVE IInv'
  <2>1. \A i \in Slots : slot'[i] = slot[i] \ {t}
    BY <1>3 DEF MinTmr_Cancel, Unlinked
  <2>2. UNCHANGED <<now, nextTime, lastSlot, batch, running, due, early>>
    BY <1>3 DEF MinTmr_Cancel
  <2>3. slot' \in [Slots -> SUBSET Timer]
    BY <1>3 DEF MinTmr_Cancel, Unlinked, IInv, TypeOK
  <2>4. TypeOK'
    BY <2>2, <2>3 DEF IInv, TypeOK
  <2>5. OneSlotEach'
    BY <2>1, <2>2 DEF IInv, OneSlotEach, TypeOK
  <2>6. FiresOnTime' /\ Near'
    BY <2>1, <2>2 DEF IInv, FiresOnTime, Near, SlotTime, Distance, Idle
  <2> QED
    BY <2>2, <2>4, <2>5, <2>6 DEF IInv, Idle
<1>4. CASE Turn
  BY <1>4, TurnIInv
<1>5. ASSUME NEW t \in batch, Fire(t) PROVE IInv'
  BY <1>5 DEF Fire, sched, IInv, TypeOK, OneSlotEach, FiresOnTime, SlotTime, Distance, Near, Idle
<1>6. ASSUME NEW t \in batch, NEW d \in Delays, FireAgain(t, d) PROVE IInv'
  <2>1. batch' = batch \ {t} /\ now' = now /\ running' = running /\ MinTmr_After(t, d)
    BY <1>6 DEF FireAgain
  <2>2. t \in Timer /\ running \in BOOLEAN
    BY DEF IInv, TypeOK
  <2> QED
    BY <2>1, <2>2, AfterIInv
<1>7. CASE Caught
  BY <1>7, ZenonT(40) DEF Caught, sched, IInv, TypeOK, OneSlotEach, FiresOnTime, SlotTime, Distance, Near, Idle
<1>8. CASE UNCHANGED vars
  BY <1>8 DEF vars, sched, IInv, TypeOK, OneSlotEach, FiresOnTime, SlotTime, Distance, Near, Idle
<1> QED
  BY <1>1, <1>2, <1>3, <1>4, <1>5, <1>6, <1>7, <1>8 DEF Next

-----------------------------------------------------------------------------

\* Whatever the number of slots, the interval, the delays and the lateness of
\* Trigger, the list structure of the wheel is sound and every armed timer is in a
\* slot that comes up within an interval of its time, less the lateness of Trigger
\* when it was armed (MinTmr_After, MinSched_Trigger_).
THEOREM TimersFireOnTime == Spec => [](OneSlotEach /\ FiresOnTime)
<1>1. IInv => OneSlotEach /\ FiresOnTime
  BY DEF IInv
<1> QED
  BY InitIInv, NextIInv, <1>1, PTL DEF Spec

\* When Trigger returns nothing is overdue by an interval or more: the loop of
\* MinSched_Trigger_ catches up with the clock however late it is called.
THEOREM NothingOverdue == Spec => NoneOverdue
<1>1. IInv /\ [Next]_vars => [Caught => \A t \in Timer : Armed(t) => due[t] + Interval > now]_vars
  <2> SUFFICES ASSUME IInv, Caught, NEW t \in Timer, Armed(t)
               PROVE  due[t] + Interval > now
    OBVIOUS
  <2> USE SlotsAssumption, IntervalAssumption
  <2>1. PICK i \in Slots : t \in slot[i]
    BY DEF Armed
  <2>2. i # lastSlot /\ SlotTime(i) <= due[t] + Interval
    BY <2>1 DEF IInv, OneSlotEach, FiresOnTime
  <2>3. Distance(i) \in Nat /\ Distance(i) >= 1
    BY <2>2 DEF Distance, IInv, TypeOK, Slots
  <2>4. (Distance(i) - 1) * Interval \in Nat
    BY <2>3
  <2>5. nextTime > now /\ nextTime \in Nat /\ now \in Nat /\ due[t] \in Nat
    BY DEF Caught, IInv, TypeOK
  <2> QED
    BY <2>2, <2>4, <2>5 DEF SlotTime
<1> QED
  BY InitIInv, NextIInv, <1>1, PTL DEF Spec, NoneOverdue
=============================================================================

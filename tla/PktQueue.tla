------------------------------ MODULE PktQueue -------------------------------
(***************************************************************************)
(* The packet queue between receiving threads and a worker (iface/         *)
(* pktqueue.go, csrc/iface/pktqueue.c): a ring with several producers and  *)
(* one consumer, whose pop operation is plain, enforces a minimum delay,   *)
(* or runs a simplified CoDel that tells the consumer to drop or mark the  *)
(* first packet of a burst.                                                *)
(*                                                                         *)
(* CoDel's drop rate (count, lastCount, recInvSqrt, dropping, dropNext) is *)
(* computed by the code and read by nobody: the answer of a pop depends on *)
(* firstAboveTime alone, so that only this is kept here.                   *)
(***************************************************************************)
EXTENDS Integers, Sequences, FiniteSets, SequencesExt, TLC

CONSTANTS Configs,        \* PktQueueConfig records to try
          Producers, NPkts, MaxPush, MaxBurstSize, MaxNow,
          Orderly         \* TRUE: packets are enqueued in the order of their timestamps

VARIABLES q,              \* fields of struct PktQueue that Init sets
          ring, firstAboveTime,
          now,
          hand,           \* stamped packets that a producer has yet to enqueue
          popNow, burst, drop, pop,   \* progress and result of the consumer's pop
          nMade, nDrops, freed, popped,
          phase,
          above           \* history: start of the present run of slow bursts, or none

vars == <<q, ring, firstAboveTime, now, hand, popNow, burst, drop, pop,
          nMade, nDrops, freed, popped, phase, above>>
consumer == <<popNow, burst, drop, pop>>
account == <<nMade, nDrops, freed, popped>>

None == -1
Ids(s) == {s[i].id : i \in DOMAIN s}

-----------------------------------------------------------------------------
(* Configuration. *)

MinCapacity == 4
DefaultCapacity == 256
MaxCapacity == 2 ^ 30

NextPowerOfTwo(n) == CHOOSE c \in {2 ^ k : k \in 0..30} : c >= n /\ (c = 1 \/ c \div 2 < n)

AlignCapacity(capacity) ==
    LET c == IF capacity <= 0 THEN DefaultCapacity ELSE NextPowerOfTwo(capacity)
    IN  IF c < MinCapacity THEN MinCapacity
        ELSE IF c > MaxCapacity THEN MaxCapacity ELSE c

DurationOr(d, dflt) == IF d = 0 THEN dflt ELSE d

(* The capacity of a ring is one less than its size. *)
New(cfg) ==
    LET method == IF cfg.Delay > 0 THEN "delay" ELSE IF cfg.DisableCoDel THEN "plain" ELSE "codel"
        dflt == IF method = "plain" THEN 4096 ELSE 131072
        capacity == IF cfg.Capacity > 0 THEN cfg.Capacity ELSE dflt
    IN  [pop |-> method,
         target |-> CASE method = "delay" -> cfg.Delay
                      [] method = "codel" -> DurationOr(cfg.Target, 5)
                      [] OTHER -> 0,
         interval |-> IF method = "codel" THEN DurationOr(cfg.Interval, 100) ELSE 0,
         capacity |-> AlignCapacity(capacity) - 1,
         dequeueBurstSize |-> IF cfg.DequeueBurstSize > 0 /\ cfg.DequeueBurstSize < MaxBurstSize
                              THEN cfg.DequeueBurstSize ELSE MaxBurstSize]

-----------------------------------------------------------------------------
(* Producers: a burst gets its timestamp when it arrives, and is enqueued  *)
(* later; what does not fit is freed.                                      *)

Stamp(p) ==
    /\ phase = "run" /\ hand[p] = <<>>
    /\ \E n \in 1..MaxPush :
          /\ nMade + n <= NPkts
          /\ hand' = [hand EXCEPT ![p] = [i \in 1..n |-> [id |-> nMade + i, time |-> now]]]
          /\ nMade' = nMade + n
    /\ UNCHANGED <<q, ring, firstAboveTime, now, consumer, nDrops, freed, popped, phase, above>>

Oldest(p) == \A r \in Producers : hand[r] # <<>> => hand[p][1].id <= hand[r][1].id

Push(p) ==
    /\ hand[p] # <<>>
    /\ Orderly => Oldest(p)
    /\ LET room == q.capacity - Len(ring)
           nEnq == IF Len(hand[p]) < room THEN Len(hand[p]) ELSE room
       IN  /\ ring' = ring \o SubSeq(hand[p], 1, nEnq)
           /\ freed' = freed \cup Ids(SubSeq(hand[p], nEnq + 1, Len(hand[p])))
    /\ hand' = [hand EXCEPT ![p] = <<>>]
    /\ UNCHANGED <<q, firstAboveTime, now, consumer, nMade, nDrops, popped, phase, above>>

-----------------------------------------------------------------------------
(* The consumer reads the clock, then pops. *)

ReadClock ==
    /\ phase = "run" /\ pop = "idle"
    /\ popNow' = now /\ pop' = "pop"
    /\ UNCHANGED <<q, ring, firstAboveTime, now, hand, burst, drop, account, phase, above>>

PopFromRing ==
    LET n == IF Len(ring) < q.dequeueBurstSize THEN Len(ring) ELSE q.dequeueBurstSize
    IN  /\ burst' = SubSeq(ring, 1, n)
        /\ ring' = SubSeq(ring, n + 1, Len(ring))

PopPlain ==
    /\ pop = "pop" /\ q.pop = "plain"
    /\ PopFromRing
    /\ pop' = "return" /\ drop' = FALSE
    /\ UNCHANGED <<q, firstAboveTime, now, hand, popNow, account, phase, above>>

PopDelay ==
    /\ pop = "pop" /\ q.pop = "delay"
    /\ PopFromRing
    /\ drop' = FALSE
    /\ pop' = IF burst' # <<>> /\ popNow < Last(burst').time + q.target THEN "delay" ELSE "return"
    /\ UNCHANGED <<q, firstAboveTime, now, hand, popNow, account, phase, above>>

(* The busy wait of PopDelay. *)
DelayUntil ==
    /\ pop = "delay" /\ now >= Last(burst).time + q.target
    /\ pop' = "return"
    /\ UNCHANGED <<q, ring, firstAboveTime, now, hand, popNow, burst, drop, account, phase, above>>

(* sojourn is signed: a packet stamped after the consumer read the clock   *)
(* has a negative one.                                                     *)
MutShouldDrop(timestamp) ==
    LET slow == popNow - timestamp >= q.target
    IN  /\ drop' = (slow /\ firstAboveTime # 0 /\ popNow > firstAboveTime)
        /\ firstAboveTime' = IF slow /\ firstAboveTime = 0 THEN popNow + q.interval
                             ELSE firstAboveTime
        /\ above' = CASE ~slow -> None [] slow /\ above = None -> popNow [] OTHER -> above

ShouldDrop(timestamp) ==
    LET slow == popNow - timestamp >= q.target
    IN  /\ drop' = (slow /\ firstAboveTime # 0 /\ popNow > firstAboveTime)
        /\ firstAboveTime' = CASE ~slow -> 0
                               [] slow /\ firstAboveTime = 0 -> popNow + q.interval
                               [] OTHER -> firstAboveTime
        /\ above' = CASE ~slow -> None [] slow /\ above = None -> popNow [] OTHER -> above

PopCoDel ==
    /\ pop = "pop" /\ q.pop = "codel"
    /\ PopFromRing
    /\ IF burst' = <<>>
       THEN firstAboveTime' = 0 /\ drop' = FALSE /\ above' = None
       ELSE ShouldDrop(Head(burst').time)
    /\ nDrops' = IF drop' THEN nDrops + 1 ELSE nDrops
    /\ pop' = "return"
    /\ UNCHANGED <<q, now, hand, popNow, nMade, freed, popped, phase>>

(* The consumer takes the burst over. *)
Return ==
    /\ pop = "return"
    /\ popped' = popped \cup Ids(burst)
    /\ burst' = <<>> /\ drop' = FALSE /\ pop' = "idle" /\ popNow' = 0
    /\ UNCHANGED <<q, ring, firstAboveTime, now, hand, nMade, nDrops, freed, phase, above>>

-----------------------------------------------------------------------------
(* Close runs when producers and consumer have stopped. *)

Close ==
    /\ phase = "run" /\ pop = "idle" /\ \A p \in Producers : hand[p] = <<>>
    /\ phase' = "drain"
    /\ UNCHANGED <<q, ring, firstAboveTime, now, hand, consumer, account, above>>

Drain ==
    /\ phase = "drain"
    /\ LET n == IF Len(ring) < MaxBurstSize THEN Len(ring) ELSE MaxBurstSize
       IN  /\ freed' = freed \cup Ids(SubSeq(ring, 1, n))
           /\ ring' = SubSeq(ring, n + 1, Len(ring))
           /\ phase' = IF n = 0 THEN "closed" ELSE "drain"
    /\ UNCHANGED <<q, firstAboveTime, now, hand, consumer, nMade, nDrops, popped, above>>

Tick ==
    /\ now < MaxNow
    /\ now' = now + 1
    /\ UNCHANGED <<q, ring, firstAboveTime, hand, consumer, account, phase, above>>

-----------------------------------------------------------------------------
Init ==
    /\ \E cfg \in Configs : q = New(cfg)
    /\ ring = <<>> /\ firstAboveTime = 0 /\ now = 1
    /\ hand = [p \in Producers |-> <<>>]
    /\ popNow = 0 /\ burst = <<>> /\ drop = FALSE /\ pop = "idle"
    /\ nMade = 0 /\ nDrops = 0 /\ freed = {} /\ popped = {}
    /\ phase = "run" /\ above = None

Next ==
    \/ \E p \in Producers : Stamp(p) \/ Push(p)
    \/ ReadClock \/ PopPlain \/ PopDelay \/ DelayUntil \/ PopCoDel \/ Return
    \/ Close \/ Drain \/ Tick

Spec == Init /\ [][Next]_vars

-----------------------------------------------------------------------------
(* CoDel drops only after every burst popped during a whole interval had   *)
(* waited at least the target: one fast burst, or one empty pop, starts    *)
(* the interval again (firstAboveTime).                                    *)
CoDelPatient == drop => above # None /\ popNow - above > q.interval

(* With Delay, no packet is handed out before it has spent that long in    *)
(* the queue, though only the last packet of a burst is looked at          *)
(* (PktQueueConfig: enforce minimum delay).                                *)
DelayKept == (q.pop = "delay" /\ pop = "return") =>
    \A i \in DOMAIN burst : now >= burst[i].time + q.target

(* Every packet is at any time with its producer, in the ring, in the      *)
(* burst being popped, with the consumer, or freed, and in one place only; *)
(* a closed queue holds none (Push, Pop, Close).                           *)
PacketsOwned ==
    LET places == [p \in Producers |-> Ids(hand[p])]
                  @@ ("ring" :> Ids(ring)) @@ ("burst" :> Ids(burst))
                  @@ ("popped" :> popped) @@ ("freed" :> freed)
    IN  /\ \A i \in 1..nMade : Cardinality({w \in DOMAIN places : i \in places[w]}) = 1
        /\ phase = "closed" => ring = <<>>
=============================================================================

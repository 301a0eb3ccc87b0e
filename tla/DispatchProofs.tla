--------------------------- MODULE DispatchProofs ---------------------------
(***************************************************************************)
(* Packets find their forwarding thread, for any number of threads, names, *)
(* NDT entries and packets: Data and Nacks come back to the thread whose   *)
(* Interest they answer, Interests with one NDT entry meet in one PIT      *)
(* until the entry is updated, and no packet is leaked or released twice.  *)
(***************************************************************************)
EXTENDS Dispatch, FiniteSetTheorems, TLAPS

-----------------------------------------------------------------------------
(* The inductive invariant                                                 *)

Token == [length : Nat, fwdID : Fwd \cup {None}, pccToken : PccToken \cup {None}]
Pkt == [name : Name, token : Token, hasDigest : BOOLEAN, of : Fwd \cup {None}, by : {"input", "crypto"}]

\* The type of every variable.
Types ==
  /\ ndt \in [Socket -> [Index -> Fwd \cup Value]]
  /\ updates \subseteq [index : Index, value : Value, todo : SUBSET Socket, id : Nat]
  /\ IsFiniteSet(updates)
  /\ queue \in [Fwd -> [PktType -> Seq(Pkt)]]
  /\ fwd \in [Fwd -> [at : PktType, burst : Seq(Pkt)]]
  /\ pit \in [Fwd -> [PccToken -> Name \cup {None}]]
  /\ sent \subseteq [name : Name, token : Token, of : Fwd]
  /\ ring \in Seq(Pkt) /\ cqp \in Seq(Pkt)
  /\ mbufs \in Int
  /\ left \in [interests : Nat, replies : Nat, updates : Nat]
  /\ moved \subseteq Index

\* The token of an Interest that was sent names the thread that sent it.
Returnable == \A x \in sent : x.token.fwdID = x.of

\* Interest name n belongs to thread f: all replicas say so, unless its entry
\* was updated.
Home(n, f) == IndexOf[n] \notin moved => \A s \in Socket : ndt[s][IndexOf[n]] = f

\* Interests wait, and are pending, at the thread they belong to.
Sharded ==
  /\ \A i \in Index \ moved : \A s, r \in Socket : ndt[s][i] = ndt[r][i]
  /\ \A u \in updates : u.index \in moved
  /\ \A f \in Fwd : \A pkt \in Waiting(f, "I") : Home(pkt.name, f)
  /\ \A f \in Fwd : \A k \in Pending(f) : Home(pit[f][k], f)

\* A PIT has one entry of a name.
OneEntry == \A f \in Fwd : \A k, l \in Pending(f) : pit[f][k] = pit[f][l] => k = l

\* What holds whatever the number of updates at a time.
IInv == Types /\ Returnable /\ BackToSender /\ Sharded /\ OneEntry /\ PacketsAccounted

\* With one update at a time, the replicas differ at most in its entry: those it
\* has reached have the new value, the others still agree.
Replicated ==
  /\ updates = {} => \A s, r \in Socket : ndt[s] = ndt[r]
  /\ \A u \in updates :
       /\ updates = {u}
       /\ \A s, r \in Socket : \A i \in Index : i # u.index => ndt[s][i] = ndt[r][i]
       /\ \A s, r \in u.todo : ndt[s][u.index] = ndt[r][u.index]
       /\ \A s \in Socket \ u.todo : ndt[s][u.index] = u.value

-----------------------------------------------------------------------------
(* Sums                                                                    *)

\* The units of all values but that of x.
Rest(c, S, x) == UNION {{a} \X (1 .. c[a]) : a \in S \ {x}}

\* The units of one value.
LEMMA UnitsFinite ==
  ASSUME NEW a, NEW n \in Nat
  PROVE  IsFiniteSet({a} \X (1 .. n)) /\ Cardinality({a} \X (1 .. n)) = n
<1>1. IsFiniteSet(1 .. n) /\ Cardinality(1 .. n) = n
  BY FS_Interval
<1>2. IsFiniteSet({a}) /\ Cardinality({a}) = 1
  BY FS_Singleton, Zenon
<1>3. QED
  BY <1>1, <1>2, FS_Product

\* The sum is the value of x and the rest.
LEMMA TotalSplit ==
  ASSUME NEW S, IsFiniteSet(S), NEW x \in S, NEW c \in [S -> Nat]
  PROVE  IsFiniteSet(Rest(c, S, x)) /\ Total(c) = Cardinality(Rest(c, S, x)) + c[x]
<1> DEFINE R == Rest(c, S, x)
           B == {x} \X (1 .. c[x])
<1>1. IsFiniteSet(S \ {x})
  BY FS_RemoveElement, Zenon
<1>2. IsFiniteSet({{a} \X (1 .. c[a]) : a \in S \ {x}})
  <2> DEFINE F == [a \in S \ {x} |-> {a} \X (1 .. c[a])]
             T == {{a} \X (1 .. c[a]) : a \in S \ {x}}
  <2>1. F \in Surjection(S \ {x}, T)
    BY Zenon DEF Surjection
  <2>2. QED
    BY <1>1, <2>1, FS_Surjection, Zenon
<1>3. IsFiniteSet(R)
  <2>1. \A A \in {{a} \X (1 .. c[a]) : a \in S \ {x}} : IsFiniteSet(A)
    <3>1. \A a \in S \ {x} : IsFiniteSet({a} \X (1 .. c[a]))
      BY UnitsFinite, Zenon
    <3>2. QED
      BY <3>1, Zenon
  <2>2. QED
    BY <1>2, <2>1, FS_UNION, Zenon DEF Rest
<1>4. IsFiniteSet(B) /\ Cardinality(B) = c[x]
  BY UnitsFinite, Zenon
<1>5. R \cap B = {}
  BY DEF Rest
<1>6. UNION {{a} \X (1 .. c[a]) : a \in DOMAIN c} = R \cup B
  BY Zenon DEF Rest
<1>7. Cardinality(R) \in Nat
  BY <1>3, FS_CardinalityType, Zenon
<1>8. Cardinality(R \cup B) = Cardinality(R) + c[x]
  <2>1. Cardinality(R \cup B) = Cardinality(R) + Cardinality(B) - Cardinality(R \cap B)
    BY <1>3, <1>4, FS_Union, Zenon
  <2>2. Cardinality(R \cap B) = 0
    BY <1>5, FS_EmptySet, Zenon
  <2>3. QED
    BY <1>4, <1>7, <2>1, <2>2
<1>9. QED
  BY <1>3, <1>6, <1>8, Zenon DEF Total

\* Changing one value changes the sum by as much.
LEMMA TotalChange ==
  ASSUME NEW S, IsFiniteSet(S), NEW x \in S, NEW c \in [S -> Nat], NEW d \in [S -> Nat],
         \A a \in S \ {x} : d[a] = c[a]
  PROVE  Total(c) \in Nat /\ Total(d) = Total(c) - c[x] + d[x]
<1>1. Rest(c, S, x) = Rest(d, S, x)
  BY Zenon DEF Rest
<1>2. Cardinality(Rest(c, S, x)) \in Nat
  BY TotalSplit, FS_CardinalityType, Zenon
<1>3. Total(c) = Cardinality(Rest(c, S, x)) + c[x] /\ Total(d) = Cardinality(Rest(c, S, x)) + d[x]
  BY <1>1, TotalSplit, Zenon
<1>4. QED
  BY <1>2, <1>3

\* A sum is a number.
LEMMA TotalType ==
  ASSUME NEW S, IsFiniteSet(S), NEW c \in [S -> Nat]
  PROVE  Total(c) \in Nat
<1>1. CASE S = {}
  <2>1. UNION {{x} \X (1 .. c[x]) : x \in DOMAIN c} = {}
    BY <1>1, Zenon
  <2>2. QED
    BY <2>1, FS_EmptySet DEF Total
<1>2. CASE S # {}
  BY <1>2, TotalChange, Zenon
<1>3. QED
  BY <1>1, <1>2, Zenon

\* The sum of a function that is zero everywhere.
LEMMA TotalZero ==
  ASSUME NEW S, NEW c \in [S -> Nat], \A a \in S : c[a] = 0
  PROVE  Total(c) = 0
<1>1. UNION {{x} \X (1 .. c[x]) : x \in DOMAIN c} = {}
  <2>1. \A x \in DOMAIN c : 1 .. c[x] = {}
    OBVIOUS
  <2>2. QED
    BY <2>1
<1>2. QED
  BY <1>1, FS_EmptySet, Zenon DEF Total

-----------------------------------------------------------------------------
(* The load of the forwarding threads                                      *)

Loads == [f \in Fwd |-> Load(f)]

\* There are finitely many forwarding threads.
LEMMA FwdFinite == IsFiniteSet(Fwd)
BY DispatchAssumption, FS_Interval DEF Fwd

\* A PIT has finitely many entries.
LEMMA PendingFinite ==
  ASSUME NEW f
  PROVE  IsFiniteSet(Pending(f)) /\ Cardinality(Pending(f)) \in Nat
BY DispatchAssumption, FS_Subset, FS_CardinalityType, Zenon DEF Pending

\* Load in two parts: the three queues, and the rest.
InQueues(f) == Len(queue[f]["I"]) + Len(queue[f]["D"]) + Len(queue[f]["N"])

\* The parts of a load are numbers.
LEMMA LoadParts ==
  ASSUME Types, NEW f \in Fwd
  PROVE  /\ Len(fwd[f].burst) \in Nat /\ Cardinality(Pending(f)) \in Nat /\ InQueues(f) \in Nat
         /\ Load(f) = Len(fwd[f].burst) + Cardinality(Pending(f)) + InQueues(f)
<1>1. \A t \in PktType : Len(queue[f][t]) \in Nat
  BY DEF Types
<1>2. Len(fwd[f].burst) \in Nat
  BY DEF Types
<1>3. Cardinality(Pending(f)) \in Nat
  BY PendingFinite, Zenon
<1>4. Len(queue[f]["I"]) \in Nat /\ Len(queue[f]["D"]) \in Nat /\ Len(queue[f]["N"]) \in Nat
  BY <1>1, Zenon DEF PktType
<1> DEFINE b == Len(fwd[f].burst)
           p == Cardinality(Pending(f))
           i == Len(queue[f]["I"])
           d == Len(queue[f]["D"])
           n == Len(queue[f]["N"])
<1>5. Load(f) = b + p + i + d + n /\ InQueues(f) = i + d + n
  BY Zenon DEF Load, InQueues
<1>6. b \in Nat /\ p \in Nat /\ i \in Nat /\ d \in Nat /\ n \in Nat
  BY <1>2, <1>3, <1>4, Zenon
<1> HIDE DEF b, p, i, d, n
<1>7. InQueues(f) \in Nat /\ Load(f) = b + p + InQueues(f)
  BY <1>5, <1>6
<1>8. QED
  BY <1>6, <1>7, Zenon DEF b, p

\* Three natural numbers add up to one.
LEMMA SumOfThree ==
  ASSUME NEW a \in Nat, NEW b \in Nat, NEW c \in Nat
  PROVE  a + b + c \in Nat
OBVIOUS

\* So are the loads.
LEMMA LoadsType == Types => Loads \in [Fwd -> Nat]
<1> SUFFICES ASSUME Types, NEW f \in Fwd PROVE Load(f) \in Nat
  BY Zenon DEF Loads
<1>1. Len(fwd[f].burst) \in Nat /\ Cardinality(Pending(f)) \in Nat /\ InQueues(f) \in Nat
  BY LoadParts, Zenon
<1>2. Load(f) = Len(fwd[f].burst) + Cardinality(Pending(f)) + InQueues(f)
  BY LoadParts, Zenon
<1>3. QED
  BY <1>1, <1>2, SumOfThree, Zenon

\* A step of one thread changes the sum of the loads by the change of its own.
LEMMA OneLoad ==
  ASSUME Types, Types', NEW f \in Fwd,
         \A g \in Fwd \ {f} : queue'[g] = queue[g] /\ fwd'[g] = fwd[g] /\ pit'[g] = pit[g]
  PROVE  Total(Loads) \in Nat /\ Total(Loads') = Total(Loads) - Load(f) + Load(f)'
<1>1. Loads \in [Fwd -> Nat]
  BY LoadsType, Zenon
<1>2. (Types => Loads \in [Fwd -> Nat])'
  BY LoadsType, PTL
<1>3. Loads' \in [Fwd -> Nat]
  BY <1>2, Zenon
<1>4. \A g \in Fwd \ {f} : Loads'[g] = Loads[g]
  BY Zenon DEF Loads, Load, Pending
<1>5. Total(Loads) \in Nat /\ Total(Loads') = Total(Loads) - Loads[f] + Loads'[f]
  BY <1>1, <1>3, <1>4, FwdFinite, TotalChange
<1>6. QED
  BY <1>5, Zenon DEF Loads

\* The sum of the loads changes as the parts of the load of one thread do.
LEMMA LoadChange ==
  ASSUME Types, Types', NEW f \in Fwd, NEW x \in Int, NEW y \in Int, NEW z \in Int,
         \A g \in Fwd \ {f} : queue'[g] = queue[g] /\ fwd'[g] = fwd[g] /\ pit'[g] = pit[g],
         Len(fwd'[f].burst) = Len(fwd[f].burst) + x,
         Cardinality(Pending(f)') = Cardinality(Pending(f)) + y,
         InQueues(f)' = InQueues(f) + z
  PROVE  Total(Loads) \in Nat /\ Total(Loads') = Total(Loads) + x + y + z
<1> DEFINE b == Len(fwd[f].burst)
           p == Cardinality(Pending(f))
           q == InQueues(f)
           l == Load(f)
           l1 == Load(f)'
           T == Total(Loads)
           T1 == Total(Loads')
<1>1. b \in Nat /\ p \in Nat /\ q \in Nat /\ l = b + p + q
  BY LoadParts, Zenon
<1>2. (Types => Load(f) = Len(fwd[f].burst) + Cardinality(Pending(f)) + InQueues(f))'
  BY LoadParts, PTL
<1>3. l1 = (b + x) + (p + y) + (q + z)
  BY <1>2, Zenon
<1>4. T \in Nat /\ T1 = T - l + l1
  BY OneLoad, Zenon
<1> HIDE DEF b, p, q, l, l1, T, T1
<1>5. T \in Nat /\ T1 = T + x + y + z
  BY <1>1, <1>3, <1>4
<1>6. QED
  BY <1>5, Zenon DEF T, T1

-----------------------------------------------------------------------------
(* Queues and bursts                                                       *)

\* One queue gets a new content, the others keep theirs.
QueueSet(f, t, q) ==
  /\ queue' \in [Fwd -> [PktType -> Seq(Pkt)]]
  /\ queue'[f][t] = q
  /\ \A u \in PktType : u # t => queue'[f][u] = queue[f][u]
  /\ \A g \in Fwd : g # f => queue'[g] = queue[g]

\* Assigning to one queue.
LEMMA QueueExcept ==
  ASSUME Types, NEW f \in Fwd, NEW t \in PktType, NEW q \in Seq(Pkt),
         queue' = [queue EXCEPT ![f][t] = q]
  PROVE  QueueSet(f, t, q)
<1>1. queue \in [Fwd -> [PktType -> Seq(Pkt)]]
  BY Zenon DEF Types
<1>2. queue' = [queue EXCEPT ![f] = [queue[f] EXCEPT ![t] = q]]
  BY Zenon
<1>3. QED
  BY <1>1, <1>2 DEF QueueSet

\* Pending and Waiting are what they were where the variables are.
LEMMA PendingKept ==
  ASSUME NEW f, pit'[f] = pit[f]
  PROVE  Pending(f)' = Pending(f)
BY Zenon DEF Pending

\* One queue changes: so does their sum.
LEMMA QueuesChange ==
  ASSUME NEW f \in Fwd, NEW t \in PktType, NEW z \in Int,
         \A u \in PktType : Len(queue[f][u]) \in Nat,
         Len(queue'[f][t]) = Len(queue[f][t]) + z,
         \A u \in PktType : u # t => Len(queue'[f][u]) = Len(queue[f][u])
  PROVE  InQueues(f)' = InQueues(f) + z
<1> DEFINE i == Len(queue[f]["I"])
           d == Len(queue[f]["D"])
           n == Len(queue[f]["N"])
           i1 == Len(queue'[f]["I"])
           d1 == Len(queue'[f]["D"])
           n1 == Len(queue'[f]["N"])
<1>1. i \in Nat /\ d \in Nat /\ n \in Nat
  BY Zenon DEF PktType
<1>2. \/ i1 = i + z /\ d1 = d /\ n1 = n
      \/ i1 = i /\ d1 = d + z /\ n1 = n
      \/ i1 = i /\ d1 = d /\ n1 = n + z
  BY Zenon DEF PktType
<1>3. InQueues(f) = i + d + n /\ InQueues(f)' = i1 + d1 + n1
  BY Zenon DEF InQueues
<1> HIDE DEF i, d, n, i1, d1, n1
<1>4. QED
  BY <1>1, <1>2, <1>3

\* Thread f gets a packet into its queue t.
LEMMA Enqueued ==
  ASSUME Types, Types', NEW f \in Fwd, NEW t \in PktType, NEW pkt \in Pkt,
         QueueSet(f, t, Append(queue[f][t], pkt)), UNCHANGED <<fwd, pit>>
  PROVE  /\ Total(Loads) \in Nat /\ Total(Loads') = Total(Loads) + 1
         /\ \A g \in Fwd, u \in PktType :
              Waiting(g, u)' \subseteq Waiting(g, u) \cup (IF g = f /\ u = t THEN {pkt} ELSE {})
<1>1. Pending(f)' = Pending(f)
  BY PendingKept, Zenon
<1>2. queue[f][t] \in Seq(Pkt) /\ \A u \in PktType : Len(queue[f][u]) \in Nat
  BY DEF Types
<1>3. Len(queue'[f][t]) = Len(queue[f][t]) + 1
  BY <1>2 DEF QueueSet
<1>4. \A u \in PktType : u # t => Len(queue'[f][u]) = Len(queue[f][u])
  BY Zenon DEF QueueSet
<1>5. InQueues(f)' = InQueues(f) + 1
  BY <1>2, <1>3, <1>4, QueuesChange
<1>6. Total(Loads) \in Nat /\ Total(Loads') = Total(Loads) + 1
  <2>1. \A g \in Fwd \ {f} : queue'[g] = queue[g] /\ fwd'[g] = fwd[g] /\ pit'[g] = pit[g]
    BY Zenon DEF QueueSet
  <2>2. Len(fwd'[f].burst) = Len(fwd[f].burst) + 0 /\ Cardinality(Pending(f)') = Cardinality(Pending(f)) + 0
    BY <1>1, LoadParts
  <2>3. Total(Loads) \in Nat /\ Total(Loads') = Total(Loads) + 0 + 0 + 1
    BY <1>5, <2>1, <2>2, LoadChange
  <2>4. QED
    BY <2>3
<1>7. ASSUME NEW g \in Fwd, NEW u \in PktType
      PROVE  Waiting(g, u)' \subseteq Waiting(g, u) \cup (IF g = f /\ u = t THEN {pkt} ELSE {})
  <2>1. CASE g = f /\ u = t
    <3>1. Range(Append(queue[f][t], pkt)) \subseteq Range(queue[f][t]) \cup {pkt}
      BY <1>2 DEF Range
    <3>2. QED
      BY <2>1, <3>1, Zenon DEF QueueSet, Waiting
  <2>2. CASE ~(g = f /\ u = t)
    <3>1. queue'[g][u] = queue[g][u]
      BY <2>2, Zenon DEF QueueSet
    <3>2. QED
      BY <2>2, <3>1, Zenon DEF Waiting
  <2>3. QED
    BY <2>1, <2>2, Zenon
<1>8. QED
  BY <1>6, <1>7, Zenon

\* What InputDemux_PassTo does with a packet: it is put into the queue or dropped.
Passed(type, pkt, index, m) ==
  \/ queue' = queue /\ mbufs' = m - 1
  \/ index \in Fwd /\ QueueSet(index, type, Append(queue[index][type], pkt)) /\ mbufs' = m

\* InputDemux_PassTo does so.
LEMMA PassedOn ==
  ASSUME Types, NEW type \in PktType, NEW pkt \in Pkt, NEW index, NEW m \in Int,
         InputDemux_PassTo(type, pkt, index, m)
  PROVE  /\ Passed(type, pkt, index, m)
         /\ queue' \in [Fwd -> [PktType -> Seq(Pkt)]] /\ mbufs' \in Int
<1>1. CASE index \in Fwd /\ Len(queue[index][type]) < QueueCapacity
  <2>1. queue[index][type] \in Seq(Pkt)
    BY <1>1 DEF Types
  <2>2. Append(queue[index][type], pkt) \in Seq(Pkt)
    BY <2>1
  <2>3. queue' = [queue EXCEPT ![index][type] = Append(queue[index][type], pkt)] /\ mbufs' = m
    BY <1>1, Zenon DEF InputDemux_PassTo
  <2>4. QueueSet(index, type, Append(queue[index][type], pkt))
    BY <1>1, <2>2, <2>3, QueueExcept, Zenon
  <2>5. QED
    BY <1>1, <2>3, <2>4, Zenon DEF Passed, QueueSet
<1>2. CASE ~(index \in Fwd /\ Len(queue[index][type]) < QueueCapacity)
  BY <1>2 DEF InputDemux_PassTo, Passed, Types
<1>3. QED
  BY <1>1, <1>2, Zenon

\* What this means for the loads and for what waits where.
LEMMA PassedEffect ==
  ASSUME Types, Types', NEW type \in PktType, NEW pkt \in Pkt, NEW index, NEW m \in Int,
         Passed(type, pkt, index, m), UNCHANGED <<fwd, pit>>
  PROVE  /\ Total(Loads) \in Nat /\ Total(Loads') \in Nat
         /\ mbufs' - Total(Loads') = m - 1 - Total(Loads)
         /\ \A g \in Fwd, u \in PktType :
              Waiting(g, u)' \subseteq Waiting(g, u) \cup (IF g = index /\ u = type THEN {pkt} ELSE {})
<1>1. CASE queue' = queue /\ mbufs' = m - 1
  <2>1. Loads' = Loads
    BY <1>1, Zenon DEF Loads, Load, Pending
  <2>2. Total(Loads) \in Nat
    <3>1. Loads \in [Fwd -> Nat]
      BY LoadsType, Zenon
    <3>2. QED
      BY <3>1, TotalType, FwdFinite, Zenon
  <2>3. \A g, u : Waiting(g, u)' = Waiting(g, u)
    BY <1>1, Zenon DEF Waiting
  <2>4. QED
    BY <1>1, <2>1, <2>2, <2>3, Zenon
<1>2. CASE index \in Fwd /\ QueueSet(index, type, Append(queue[index][type], pkt)) /\ mbufs' = m
  BY <1>2, Enqueued
<1>3. QED
  BY <1>1, <1>2, Zenon DEF Passed

\* The packet that thread f takes in hand, and what is left of the burst.
LEMMA Taken ==
  ASSUME Types, NEW f \in Fwd, NEW type \in PktType, Take(f, type)
  PROVE  /\ fwd' \in [Fwd -> [at : PktType, burst : Seq(Pkt)]]
         /\ \A g \in Fwd \ {f} : fwd'[g] = fwd[g]
         /\ Len(fwd'[f].burst) = Len(fwd[f].burst) - 1
         /\ Head(fwd[f].burst) \in Pkt /\ Head(fwd[f].burst) \in Waiting(f, type)
         /\ \A g \in Fwd, u \in PktType : Waiting(g, u)' \subseteq Waiting(g, u)
<1> DEFINE b == fwd[f].burst
           r == [at |-> IF Len(b) = 1 THEN After(type) ELSE type, burst |-> Tail(b)]
<1>1. fwd \in [Fwd -> [at : PktType, burst : Seq(Pkt)]]
  BY Zenon DEF Types
<1>2. b \in Seq(Pkt) /\ b # <<>> /\ fwd[f].at = type
  BY <1>1, Zenon DEF Take
<1>3. Tail(b) \in Seq(Pkt) /\ Len(Tail(b)) = Len(b) - 1 /\ Head(b) \in Pkt /\ Head(b) = b[1] /\ 1 \in DOMAIN b
  BY <1>2
<1>4. After(type) \in PktType
  BY Zenon DEF After, PktType
<1>5. r \in [at : PktType, burst : Seq(Pkt)]
  BY <1>3, <1>4, Zenon
<1>6. fwd' = [fwd EXCEPT ![f] = r]
  BY Zenon DEF Take
<1>7. fwd'[f] = r /\ \A g \in Fwd \ {f} : fwd'[g] = fwd[g]
  BY <1>1, <1>6, Zenon
<1>8. fwd' \in [Fwd -> [at : PktType, burst : Seq(Pkt)]]
  BY <1>1, <1>5, <1>6, Zenon
<1>9. Head(b) \in Waiting(f, type)
  BY <1>2, <1>3, Zenon DEF Waiting, Range
<1>10. ASSUME NEW g \in Fwd, NEW u \in PktType
       PROVE  Waiting(g, u)' \subseteq Waiting(g, u)
  <2>1. queue' = queue
    BY Zenon DEF Take
  <2>2. CASE g # f
    BY <1>7, <2>1, <2>2, Zenon DEF Waiting
  <2>3. CASE g = f
    <3>1. Range(Tail(b)) \subseteq Range(b)
      BY <1>2 DEF Range
    <3>2. Len(b) = 1 => Range(Tail(b)) = {}
      BY <1>2 DEF Range
    <3>3. Range(fwd'[f].burst) = {} \/ fwd'[f].at = type
      BY <1>7, <3>2
    <3>4. Range(fwd'[f].burst) \subseteq Range(b)
      BY <1>7, <3>1
    <3>5. Waiting(f, u)' = Range(queue[f][u]) \cup (IF fwd'[f].at = u THEN Range(fwd'[f].burst) ELSE {})
      BY <2>1, Zenon DEF Waiting
    <3>6. Waiting(f, u) = Range(queue[f][u]) \cup (IF type = u THEN Range(b) ELSE {})
      BY <1>2, Zenon DEF Waiting
    <3> HIDE DEF b
    <3>7. QED
      BY <2>3, <3>3, <3>4, <3>5, <3>6, Zenon
  <2>4. QED
    BY <2>2, <2>3, Zenon
<1>11. QED
  BY <1>3, <1>7, <1>8, <1>9, <1>10

-----------------------------------------------------------------------------
(* The PIT                                                                 *)

\* One entry gets a new content.
PitSet(f, k, v) ==
  /\ pit' \in [Fwd -> [PccToken -> Name \cup {None}]]
  /\ pit'[f][k] = v
  /\ \A l \in PccToken \ {k} : pit'[f][l] = pit[f][l]
  /\ \A g \in Fwd \ {f} : pit'[g] = pit[g]

\* Assigning to one entry.
LEMMA PitExcept ==
  ASSUME Types, NEW f \in Fwd, NEW k \in PccToken, NEW v \in Name \cup {None},
         pit' = [pit EXCEPT ![f][k] = v]
  PROVE  PitSet(f, k, v)
<1>1. pit \in [Fwd -> [PccToken -> Name \cup {None}]]
  BY Zenon DEF Types
<1>2. pit' = [pit EXCEPT ![f] = [pit[f] EXCEPT ![k] = v]]
  BY Zenon
<1>3. QED
  BY <1>1, <1>2 DEF PitSet

\* A pending entry is erased.
LEMMA Erased ==
  ASSUME Types, NEW f \in Fwd, NEW k \in Pending(f), PitSet(f, k, None)
  PROVE  Pending(f)' = Pending(f) \ {k} /\ Cardinality(Pending(f)') = Cardinality(Pending(f)) - 1
<1>1. Pending(f)' = Pending(f) \ {k}
  BY Zenon DEF PitSet, Pending
<1>2. IsFiniteSet(Pending(f)) /\ Cardinality(Pending(f)) \in Nat
  BY PendingFinite, Zenon
<1>3. Cardinality(Pending(f) \ {k}) = Cardinality(Pending(f)) - 1
  BY <1>2, FS_RemoveElement, Zenon
<1>4. QED
  BY <1>1, <1>3, Zenon

\* An entry is added.
LEMMA Added ==
  ASSUME Types, NEW f \in Fwd, NEW k \in PccToken \ Pending(f), NEW n \in Name, PitSet(f, k, n)
  PROVE  Pending(f)' = Pending(f) \cup {k} /\ Cardinality(Pending(f)') = Cardinality(Pending(f)) + 1
<1>1. Pending(f)' = Pending(f) \cup {k}
  BY DispatchAssumption, Zenon DEF PitSet, Pending
<1>2. IsFiniteSet(Pending(f)) /\ Cardinality(Pending(f)) \in Nat
  BY PendingFinite, Zenon
<1>3. Cardinality(Pending(f) \cup {k}) = Cardinality(Pending(f)) + 1
  BY <1>2, FS_AddElement, Zenon
<1>4. QED
  BY <1>1, <1>3, Zenon

-----------------------------------------------------------------------------
(* What keeps the parts of the invariant                                   *)

\* Data and Nacks keep waiting where they belong.
LEMMA BackKept ==
  ASSUME BackToSender,
         \A f \in Fwd, t \in {"D", "N"} : \A pkt \in Waiting(f, t)' :
           pkt \in Waiting(f, t) \/ (pkt.by = "input" => pkt.of = f)
  PROVE  BackToSender'
BY Zenon DEF BackToSender

\* So do Interests, and the entries they are in.
LEMMA ShardedKept ==
  ASSUME Sharded, UNCHANGED <<ndt, updates, moved>>,
         \A f \in Fwd : \A pkt \in Waiting(f, "I")' : pkt \in Waiting(f, "I") \/ Home(pkt.name, f),
         \A f \in Fwd : \A k \in Pending(f)' : Home(pit'[f][k], f)
  PROVE  Sharded'
<1>1. \A n, f : Home(n, f)' <=> Home(n, f)
  BY Zenon DEF Home
<1>2. \A f \in Fwd : \A pkt \in Waiting(f, "I")' : Home(pkt.name, f)'
  BY <1>1, Zenon DEF Sharded
<1>3. \A f \in Fwd : \A k \in Pending(f)' : Home(pit[f][k], f)'
  BY <1>1, Zenon DEF Home
<1>4. QED
  BY <1>2, <1>3, Zenon DEF Sharded

\* Replicas that no step touches.
LEMMA ReplicatedKept ==
  ASSUME Replicated, UNCHANGED <<ndt, updates>>
  PROVE  Replicated'
BY DEF Replicated

-----------------------------------------------------------------------------
(* The steps                                                               *)

\* Before the first packet the invariant holds.
LEMMA InitIInv == Init => IInv /\ Replicated
<1> SUFFICES ASSUME Init PROVE IInv /\ Replicated
  BY Zenon
<1> USE DispatchAssumption
<1>1. PICK table \in [Index -> Fwd] : ndt = [s \in Socket |-> table]
  BY Zenon DEF Init
<1>2. IsFiniteSet(updates)
  BY FS_EmptySet, Zenon DEF Init
<1>3. Types
  <2>1. <<>> \in Seq(Pkt)
    OBVIOUS
  <2>2. queue \in [Fwd -> [PktType -> Seq(Pkt)]]
    BY <2>1, Zenon DEF Init
  <2>3. fwd \in [Fwd -> [at : PktType, burst : Seq(Pkt)]]
    BY <2>1, Zenon DEF Init, PktType
  <2>4. pit \in [Fwd -> [PccToken -> Name \cup {None}]]
    BY Zenon DEF Init
  <2>5. ndt \in [Socket -> [Index -> Fwd \cup Value]]
    BY <1>1, Zenon
  <2>6. left \in [interests : Nat, replies : Nat, updates : Nat]
    BY Zenon DEF Init
  <2>7. updates = {} /\ sent = {} /\ ring = <<>> /\ cqp = <<>> /\ mbufs = 0 /\ moved = {}
    BY Zenon DEF Init
  <2>8. QED
    BY <1>2, <2>1, <2>2, <2>3, <2>4, <2>5, <2>6, <2>7 DEF Types
<1>4. \A f \in Fwd : Pending(f) = {}
  BY Zenon DEF Init, Pending
<1>5. \A f \in Fwd, t \in PktType : Waiting(f, t) = {}
  <2>1. Range(<<>>) = {}
    BY DEF Range
  <2>2. \A f \in Fwd, t \in PktType : queue[f][t] = <<>> /\ fwd[f].burst = <<>>
    BY Zenon DEF Init
  <2>3. QED
    BY <2>1, <2>2, Zenon DEF Waiting
<1>6. Returnable /\ BackToSender /\ Sharded /\ OneEntry
  <2>1. Returnable
    BY Zenon DEF Init, Returnable
  <2>2. BackToSender
    BY <1>5, Zenon DEF BackToSender, PktType
  <2>3. OneEntry
    BY <1>4, Zenon DEF OneEntry
  <2>4. \A f \in Fwd : Waiting(f, "I") = {}
    BY <1>5, Zenon DEF PktType
  <2>5. \A s, r \in Socket : ndt[s] = ndt[r]
    BY <1>1, Zenon
  <2>6. QED
    BY <1>4, <2>1, <2>2, <2>3, <2>4, <2>5, Zenon DEF Sharded, Init
<1>7. PacketsAccounted
  <2>1. Loads \in [Fwd -> Nat]
    BY <1>3, LoadsType, Zenon
  <2>2. ASSUME NEW f \in Fwd PROVE Loads[f] = 0
    <3>1. Len(fwd[f].burst) = 0 /\ Cardinality(Pending(f)) = 0
      BY <1>4, FS_EmptySet, Zenon DEF Init
    <3>2. Len(queue[f]["I"]) = 0 /\ Len(queue[f]["D"]) = 0 /\ Len(queue[f]["N"]) = 0
      BY Zenon DEF Init, PktType
    <3>3. Len(fwd[f].burst) + Cardinality(Pending(f)) + InQueues(f) = 0
      BY <3>1, <3>2 DEF InQueues
    <3>4. QED
      BY <1>3, <3>3, LoadParts, Zenon DEF Loads
  <2>3. Total(Loads) = 0
    BY <2>1, <2>2, TotalZero, Zenon
  <2>4. mbufs = 0 /\ Len(ring) = 0 /\ Len(cqp) = 0
    BY Zenon DEF Init
  <2>5. QED
    BY <2>3, <2>4 DEF PacketsAccounted, Loads
<1>8. Replicated
  BY <1>1, Zenon DEF Init, Replicated
<1>9. QED
  BY <1>3, <1>6, <1>7, <1>8, Zenon DEF IInv

\* The packets outside the forwarding threads are those in the crypto helper.
LEMMA AccountedKept ==
  ASSUME PacketsAccounted, UNCHANGED <<ring, cqp>>, Total(Loads) \in Nat, Total(Loads') \in Nat, Types,
         mbufs' = mbufs + (Total(Loads') - Total(Loads))
  PROVE  PacketsAccounted'
<1> DEFINE T == Total(Loads)
           T1 == Total(Loads')
           r == Len(ring)
           c == Len(cqp)
<1>1. r \in Nat /\ c \in Nat /\ mbufs \in Int /\ T \in Nat /\ T1 \in Nat
  BY DEF Types
<1>2. mbufs = r + c + T /\ mbufs' = mbufs + (T1 - T)
  BY Zenon DEF PacketsAccounted, Loads
<1>3. mbufs' = r + c + T1 => PacketsAccounted'
  BY Zenon DEF PacketsAccounted, Loads
<1>4. mbufs' = r + c + T1
  <2> HIDE DEF T, T1, r, c
  <2>1. QED
    BY <1>1, <1>2
<1>5. QED
  BY <1>3, <1>4, Zenon

\* The NDT leads an Interest to its home.
LEMMA LookupHome ==
  ASSUME Types, Sharded, NEW th \in Input \cup Crypto, NEW n \in Name
  PROVE  Home(n, NdtQuerier_Lookup(th, n))
<1>1. SocketOf[th] \in Socket /\ IndexOf[n] \in Index
  BY DispatchAssumption, Zenon
<1>2. QED
  BY <1>1 DEF Sharded, Home, NdtQuerier_Lookup

\* A packet the data plane did not have is passed on.
LEMMA AcceptedPacket ==
  ASSUME IInv, Types', NEW type \in PktType, NEW pkt \in Pkt, NEW index,
         Passed(type, pkt, index, mbufs + 1),
         UNCHANGED <<ndt, updates, fwd, pit, sent, ring, cqp, moved>>,
         type = "I" => Home(pkt.name, index),
         type # "I" /\ pkt.by = "input" => pkt.of = index
  PROVE  IInv'
<1> USE DEF IInv
<1>1. mbufs \in Int /\ mbufs + 1 \in Int
  BY DEF Types
<1>2. /\ Total(Loads) \in Nat /\ Total(Loads') \in Nat
      /\ mbufs' - Total(Loads') = (mbufs + 1) - 1 - Total(Loads)
      /\ \A g \in Fwd, u \in PktType :
           Waiting(g, u)' \subseteq Waiting(g, u) \cup (IF g = index /\ u = type THEN {pkt} ELSE {})
  BY <1>1, PassedEffect, Zenon
<1>3. Returnable' /\ OneEntry'
  BY Zenon DEF Returnable, OneEntry, Pending
<1>4. BackToSender'
  <2>1. \A f \in Fwd, t \in {"D", "N"} : \A p \in Waiting(f, t)' :
          p \in Waiting(f, t) \/ (p.by = "input" => p.of = f)
    BY <1>2, Zenon DEF PktType
  <2>2. QED
    BY <2>1, BackKept, Zenon
<1>5. Sharded'
  <2>1. \A f \in Fwd : \A p \in Waiting(f, "I")' : p \in Waiting(f, "I") \/ Home(p.name, f)
    BY <1>2, Zenon DEF PktType
  <2>2. \A f \in Fwd : \A k \in Pending(f)' : Home(pit'[f][k], f)
    BY Zenon DEF Sharded, Pending
  <2>3. QED
    BY <2>1, <2>2, ShardedKept, Zenon
<1>6. PacketsAccounted'
  <2>1. mbufs' \in Int
    BY Zenon DEF Types
  <2>2. mbufs' = mbufs + (Total(Loads') - Total(Loads))
    BY <1>1, <1>2, <2>1
  <2>3. QED
    BY <1>2, <2>2, AccountedKept, Zenon
<1>7. QED
  BY <1>3, <1>4, <1>5, <1>6, Zenon

\* What waits are packets.
LEMMA WaitingType ==
  ASSUME Types, NEW f \in Fwd, NEW t \in PktType, NEW pkt \in Waiting(f, t)
  PROVE  pkt \in Pkt
<1>1. queue[f][t] \in Seq(Pkt) /\ fwd[f].burst \in Seq(Pkt)
  BY Zenon DEF Types
<1>2. QED
  BY <1>1 DEF Waiting, Range

\* A step after which no packet waits where none did, and that leaves the tables.
LEMMA OnlyMoved ==
  ASSUME IInv, Types', PacketsAccounted', UNCHANGED <<ndt, updates, pit, sent, moved>>,
         \A f \in Fwd, t \in PktType : Waiting(f, t)' \subseteq Waiting(f, t)
  PROVE  IInv'
<1> USE DEF IInv
<1>1. Returnable' /\ OneEntry'
  BY Zenon DEF Returnable, OneEntry, Pending
<1>2. \A f \in Fwd, t \in {"D", "N"} : Waiting(f, t)' \subseteq Waiting(f, t)
  BY Zenon DEF PktType
<1>3. BackToSender'
  BY <1>2, BackKept, Zenon
<1>4. \A f \in Fwd : Waiting(f, "I")' \subseteq Waiting(f, "I")
  BY Zenon DEF PktType
<1>5. \A f \in Fwd : \A k \in Pending(f)' : Home(pit'[f][k], f)
  BY Zenon DEF Sharded, Pending
<1>6. Sharded'
  BY <1>4, <1>5, ShardedKept, Zenon
<1>7. QED
  BY <1>1, <1>3, <1>6, Zenon

\* An Interest arrives: the NDT leads it home.
LEMMA RxInterestIInv ==
  ASSUME IInv, NEW i \in Input, NEW n \in Name, RxInterest(i, n)
  PROVE  IInv'
<1> USE DEF IInv
<1> DEFINE pkt == Packet(n, NoToken, None)
           index == NdtQuerier_Lookup(i, n)
<1>1. pkt \in Pkt /\ pkt.name = n
  BY Zenon DEF Packet, Pkt, NoToken, Token
<1>2. mbufs + 1 \in Int /\ "I" \in PktType
  BY DEF Types, PktType
<1>3. InputDemux_PassTo("I", pkt, index, mbufs + 1)
  BY Zenon DEF RxInterest
<1>4. /\ Passed("I", pkt, index, mbufs + 1)
      /\ queue' \in [Fwd -> [PktType -> Seq(Pkt)]] /\ mbufs' \in Int
  <2> HIDE DEF pkt, index, IInv
  <2>1. Types
    BY Zenon DEF IInv
  <2>2. QED
    BY <1>1, <1>2, <1>3, <2>1, PassedOn, Zenon
<1>5. left' \in [interests : Nat, replies : Nat, updates : Nat]
  <2>1. left \in [interests : Nat, replies : Nat, updates : Nat]
    BY Zenon DEF Types
  <2>2. left.interests > 0 /\ left' = [left EXCEPT !.interests = left.interests - 1]
    BY Zenon DEF RxInterest
  <2> HIDE DEF IInv
  <2>3. QED
    BY <2>1, <2>2
<1>6. UNCHANGED <<ndt, updates, fwd, pit, sent, ring, cqp, moved>>
  BY Zenon DEF RxInterest
<1>7. Types'
  BY <1>4, <1>5, <1>6, Zenon DEF Types
<1>8. Home(pkt.name, index)
  BY <1>1, LookupHome, Zenon
<1>9. QED
  <2> HIDE DEF pkt, index, IInv
  <2>1. QED
    BY <1>1, <1>2, <1>4, <1>6, <1>7, <1>8, AcceptedPacket, Zenon

\* Data or a Nack arrives: its token leads it to the thread that sent the Interest.
LEMMA RxReplyIInv ==
  ASSUME IInv, NEW i \in Input, NEW x \in sent, NEW type \in {"D", "N"},
         NEW length \in {FwTokenLength - 1, FwTokenLength, FwTokenLength + 1}, RxReply(i, x, type, length)
  PROVE  IInv'
<1> USE DEF IInv
<1> DEFINE pkt == Packet(IF type = "D" THEN DataName[x.name] ELSE x.name,
                         [x.token EXCEPT !.length = length], x.of)
           index == pkt.token.fwdID
<1>1. x \in [name : Name, token : Token, of : Fwd] /\ x.token.fwdID = x.of
  BY Zenon DEF Types, Returnable
<1>2. DataName[x.name] \in Name
  BY <1>1, DispatchAssumption, Zenon
<1>3. [x.token EXCEPT !.length = length] \in Token
  BY <1>1 DEF Token, FwTokenLength
<1>4. pkt \in Pkt /\ pkt.of = x.of /\ pkt.token.fwdID = x.of
  BY <1>1, <1>2, <1>3, Zenon DEF Packet, Pkt, Token
<1>5. mbufs + 1 \in Int /\ type \in PktType /\ type # "I"
  BY DEF Types, PktType
<1>6. UNCHANGED <<ndt, updates, fwd, pit, sent, ring, cqp, moved>>
  BY Zenon DEF RxReply
<1>7. InputDemux_DispatchByToken(type, pkt, mbufs + 1)
  BY Zenon DEF RxReply
<1>8. /\ Passed(type, pkt, index, mbufs + 1)
      /\ queue' \in [Fwd -> [PktType -> Seq(Pkt)]] /\ mbufs' \in Int
  <2>1. CASE pkt.token.length <= FwTokenOffsetFwdID
    <3>1. queue' = queue /\ mbufs' = (mbufs + 1) - 1
      BY <1>7, <2>1, Zenon DEF InputDemux_DispatchByToken
    <3>2. QED
      BY <1>5, <3>1 DEF Passed, Types
  <2>2. CASE ~(pkt.token.length <= FwTokenOffsetFwdID)
    <3>1. InputDemux_PassTo(type, pkt, index, mbufs + 1)
      BY <1>7, <2>2, Zenon DEF InputDemux_DispatchByToken
    <3>2. Types
      BY Zenon
    <3> HIDE DEF pkt, index, IInv
    <3>3. QED
      BY <1>4, <1>5, <3>1, <3>2, PassedOn, Zenon
  <2>3. QED
    BY <2>1, <2>2, Zenon
<1>9. left' \in [interests : Nat, replies : Nat, updates : Nat]
  <2>1. left \in [interests : Nat, replies : Nat, updates : Nat]
    BY Zenon DEF Types
  <2>2. left.replies > 0 /\ left' = [left EXCEPT !.replies = left.replies - 1]
    BY Zenon DEF RxReply
  <2> HIDE DEF IInv
  <2>3. QED
    BY <2>1, <2>2
<1>10. Types'
  BY <1>6, <1>8, <1>9, Zenon DEF Types
<1>11. pkt.of = index
  BY <1>4, Zenon
<1>12. QED
  <2> HIDE DEF pkt, index, IInv
  <2>1. QED
    BY <1>4, <1>5, <1>6, <1>8, <1>10, <1>11, AcceptedPacket, Zenon

\* The step that updates the NDT of one socket, or begins an update.
LEMMA TablesKept ==
  ASSUME IInv, UNCHANGED <<queue, fwd, pit, sent, ring, cqp, mbufs>>
  PROVE  Returnable' /\ BackToSender' /\ OneEntry' /\ PacketsAccounted'
<1> USE DEF IInv
<1>1. Returnable'
  BY Zenon DEF Returnable
<1>2. \A f, t : Waiting(f, t)' = Waiting(f, t)
  BY Zenon DEF Waiting
<1>3. BackToSender'
  BY <1>2, Zenon DEF BackToSender
<1>4. \A f : Pending(f)' = Pending(f) /\ Load(f)' = Load(f)
  BY Zenon DEF Pending, Load
<1>5. OneEntry'
  BY <1>4, Zenon DEF OneEntry
<1>6. PacketsAccounted'
  BY <1>4, Zenon DEF PacketsAccounted
<1>7. QED
  BY <1>1, <1>3, <1>5, <1>6, Zenon

\* An update begins: its entry counts as moved.
LEMMA UpdateNdtIInv ==
  ASSUME IInv, NEW i \in Index, NEW v \in Value, UpdateNdt(i, v)
  PROVE  IInv'
<1> USE DEF IInv
<1> DEFINE u == [index |-> i, value |-> v, todo |-> Socket, id |-> left.updates]
<1>1. u \in [index : Index, value : Value, todo : SUBSET Socket, id : Nat] /\ u.index = i
  BY Zenon DEF Types
<1>2. updates' = updates \cup {u} /\ moved' = moved \cup {i}
  BY Zenon DEF UpdateNdt
<1> HIDE DEF u
<1>3. IsFiniteSet(updates')
  BY <1>2, FS_AddElement, Zenon DEF Types
<1>4. left' \in [interests : Nat, replies : Nat, updates : Nat]
  <2>1. left \in [interests : Nat, replies : Nat, updates : Nat]
    BY Zenon DEF Types
  <2>2. left.updates > 0 /\ left' = [left EXCEPT !.updates = left.updates - 1]
    BY Zenon DEF UpdateNdt
  <2> HIDE DEF IInv
  <2>3. QED
    BY <2>1, <2>2
<1>5. UNCHANGED <<ndt, queue, fwd, pit, sent, ring, cqp, mbufs>>
  BY Zenon DEF UpdateNdt
<1>6. Types'
  BY <1>1, <1>2, <1>3, <1>4, <1>5, Zenon DEF Types
<1>7. Sharded'
  <2>1. \A n, f : Home(n, f) => Home(n, f)'
    BY <1>2, <1>5, Zenon DEF Home
  <2>2. \A f : Waiting(f, "I")' = Waiting(f, "I") /\ Pending(f)' = Pending(f)
    BY <1>5, Zenon DEF Waiting, Pending
  <2>3. \A j \in Index \ moved' : \A s, r \in Socket : ndt'[s][j] = ndt'[r][j]
    BY <1>2, <1>5, Zenon DEF Sharded
  <2>4. \A w \in updates' : w.index \in moved'
    BY <1>1, <1>2, Zenon DEF Sharded
  <2>5. \A f \in Fwd : \A pkt \in Waiting(f, "I")' : Home(pkt.name, f)'
    BY <2>1, <2>2, Zenon DEF Sharded
  <2>6. \A f \in Fwd : \A k \in Pending(f) : Home(pit[f][k], f)
    BY Zenon DEF Sharded
  <2>7. \A f \in Fwd : \A k \in Pending(f)' : Home(pit[f][k], f)'
    BY <1>2, <1>5, <2>2, <2>6, Zenon DEF Home
  <2>8. QED
    BY <2>3, <2>4, <2>5, <2>7, Zenon DEF Sharded
<1>8. QED
  BY <1>5, <1>6, <1>7, TablesKept, Zenon

\* One replica is updated: only an entry that counts as moved changes.
LEMMA UpdateReplicaIInv ==
  ASSUME IInv, NEW u \in updates, NEW s \in u.todo, UpdateReplica(u, s)
  PROVE  IInv'
<1> USE DEF IInv
<1>1. u \in [index : Index, value : Value, todo : SUBSET Socket, id : Nat]
  BY Zenon DEF Types
<1>2. s \in Socket /\ u.index \in Index /\ u.value \in Value /\ u.index \in moved
  BY <1>1, Zenon DEF Sharded
<1>3. PICK w : updates' = (updates \ {u}) \cup w /\ (w = {} \/ w = {[u EXCEPT !.todo = u.todo \ {s}]})
  BY Zenon DEF UpdateReplica
<1>4. [u EXCEPT !.todo = u.todo \ {s}] \in [index : Index, value : Value, todo : SUBSET Socket, id : Nat]
  BY <1>1, Zenon
<1>5. updates' \subseteq [index : Index, value : Value, todo : SUBSET Socket, id : Nat]
  BY <1>3, <1>4, Zenon DEF Types
<1>6. IsFiniteSet(updates')
  <2>1. IsFiniteSet(updates \ {u})
    BY FS_RemoveElement, Zenon DEF Types
  <2>2. IsFiniteSet((updates \ {u}) \cup w)
    BY <1>3, <2>1, FS_AddElement, ZenonT(30)
  <2>3. QED
    BY <1>3, <2>2, Zenon
<1>7. ndt \in [Socket -> [Index -> Fwd \cup Value]]
  BY Zenon DEF Types
<1>8. ndt' = [ndt EXCEPT ![s] = [ndt[s] EXCEPT ![u.index] = u.value]]
  BY Zenon DEF UpdateReplica
<1>9. ndt' \in [Socket -> [Index -> Fwd \cup Value]]
  BY <1>2, <1>7, <1>8, Zenon
<1>10. \A r \in Socket : \A j \in Index : j # u.index => ndt'[r][j] = ndt[r][j]
  BY <1>2, <1>7, <1>8, Zenon
<1>11. UNCHANGED <<queue, fwd, pit, sent, ring, cqp, mbufs, left, moved>>
  BY Zenon DEF UpdateReplica
<1>12. Types'
  BY <1>5, <1>6, <1>9, <1>11, Zenon DEF Types
<1>13. Sharded'
  <2>1. \A n \in Name : \A f : Home(n, f) => Home(n, f)'
    BY <1>2, <1>10, <1>11, DispatchAssumption DEF Home
  <2>2. \A f : Waiting(f, "I")' = Waiting(f, "I") /\ Pending(f)' = Pending(f)
    BY <1>11, Zenon DEF Waiting, Pending
  <2>3. \A j \in Index \ moved' : \A q, r \in Socket : ndt'[q][j] = ndt'[r][j]
    BY <1>2, <1>10, <1>11 DEF Sharded
  <2>4. \A x \in updates' : x.index \in moved'
    BY <1>1, <1>2, <1>3, <1>11, Zenon DEF Sharded
  <2>5. \A f \in Fwd : \A pkt \in Waiting(f, "I")' : Home(pkt.name, f)'
    <3>1. \A f \in Fwd : \A pkt \in Waiting(f, "I") : Home(pkt.name, f) /\ pkt.name \in Name
      BY WaitingType, Zenon DEF Sharded, PktType, Pkt
    <3>2. QED
      BY <2>1, <2>2, <3>1, Zenon
  <2>6. \A f \in Fwd : \A k \in Pending(f) : Home(pit[f][k], f) /\ pit[f][k] \in Name
    BY DEF Sharded, Pending, Types
  <2>7. \A f \in Fwd : \A k \in Pending(f)' : Home(pit[f][k], f)'
    BY <1>2, <1>10, <1>11, <2>2, <2>6, DispatchAssumption DEF Home
  <2>8. QED
    BY <2>3, <2>4, <2>5, <2>7, Zenon DEF Sharded
<1>14. QED
  BY <1>11, <1>12, <1>13, TablesKept, Zenon

\* A thread serves a queue that has packets.
LEMMA ServedType ==
  ASSUME Types, NEW f \in Fwd, Served(f) # None
  PROVE  Served(f) \in PktType
<1>1. fwd[f].at \in PktType
  BY Zenon DEF Types
<1>2. \A t \in PktType : After(t) \in PktType
  BY Zenon DEF After, PktType
<1>3. QED
  BY <1>1, <1>2, Zenon DEF Served

\* A part of a queue holds packets of the queue.
LEMMA PartOfQueue ==
  ASSUME NEW S, NEW q \in Seq(S), NEW a \in Nat, NEW b \in Nat, 1 <= a, b <= Len(q)
  PROVE  Range(SubSeq(q, a, b)) \subseteq Range(q)
<1> DEFINE s == SubSeq(q, a, b)
<1> SUFFICES ASSUME NEW i \in DOMAIN s PROVE \E j \in DOMAIN q : q[j] = s[i]
  BY Zenon DEF Range
<1>1. i + a - 1 \in DOMAIN q /\ s[i] = q[i + a - 1]
  OBVIOUS
<1>2. QED
  BY <1>1, Zenon

\* A burst goes from a queue into the hands of the thread.
LEMMA FwFwd_RxByTypeIInv ==
  ASSUME IInv, NEW f \in Fwd, FwFwd_RxByType(f)
  PROVE  IInv'
<1> USE DEF IInv
<1> DEFINE type == Served(f)
           q == queue[f][type]
           n == IF BurstSize < Len(q) THEN BurstSize ELSE Len(q)
           front == SubSeq(q, 1, n)
           back == SubSeq(q, n + 1, Len(q))
<1>1. type \in PktType
  BY ServedType, Zenon DEF FwFwd_RxByType
<1>2. q \in Seq(Pkt) /\ Len(q) \in Nat /\ q = queue[f][type]
  BY <1>1 DEF Types
<1>3. n \in 0 .. Len(q)
  BY <1>2, DispatchAssumption
<1>4. /\ fwd[f].burst = <<>>
      /\ fwd' = [fwd EXCEPT ![f] = [at |-> type, burst |-> front]]
      /\ queue' = [queue EXCEPT ![f][type] = back]
      /\ UNCHANGED <<ndt, updates, pit, sent, ring, cqp, mbufs, left, moved>>
  BY Zenon DEF FwFwd_RxByType
<1> HIDE DEF type, q, n
<1>5. front \in Seq(Pkt) /\ Len(front) = n /\ back \in Seq(Pkt) /\ Len(back) = Len(q) - n
  BY <1>2, <1>3
<1>6. Range(front) \subseteq Range(q) /\ Range(back) \subseteq Range(q)
  <2>1. n \in Nat /\ n + 1 \in Nat /\ 1 <= n + 1 /\ n <= Len(q) /\ Len(q) <= Len(q)
    BY <1>2, <1>3
  <2>2. 1 \in Nat /\ 1 <= 1
    OBVIOUS
  <2>3. QED
    BY <1>2, <2>1, <2>2, PartOfQueue, Zenon
<1> HIDE DEF front, back
<1>7. QueueSet(f, type, back)
  BY <1>1, <1>4, <1>5, QueueExcept, Zenon
<1>8. fwd \in [Fwd -> [at : PktType, burst : Seq(Pkt)]]
  BY Zenon DEF Types
<1>9. /\ fwd' \in [Fwd -> [at : PktType, burst : Seq(Pkt)]]
      /\ fwd'[f] = [at |-> type, burst |-> front]
      /\ \A g \in Fwd \ {f} : fwd'[g] = fwd[g]
  BY <1>1, <1>4, <1>5, <1>8, Zenon
<1>10. Types'
  BY <1>4, <1>7, <1>9, Zenon DEF Types, QueueSet
<1>11. \A g \in Fwd, u \in PktType : Waiting(g, u)' \subseteq Waiting(g, u)
  <2> SUFFICES ASSUME NEW g \in Fwd, NEW u \in PktType PROVE Waiting(g, u)' \subseteq Waiting(g, u)
    BY Zenon
  <2>1. CASE g # f
    BY <1>7, <1>9, <2>1, Zenon DEF Waiting, QueueSet
  <2>2. CASE g = f /\ u # type
    BY <1>7, <1>9, <2>2 DEF Waiting, QueueSet
  <2>3. CASE g = f /\ u = type
    <3>1. queue'[f][type] = back /\ fwd'[f].burst = front
      BY <1>7, <1>9 DEF QueueSet
    <3>2. Waiting(g, u)' \subseteq Range(back) \cup Range(front)
      BY <2>3, <3>1, Zenon DEF Waiting
    <3>3. Range(q) \subseteq Waiting(g, u)
      BY <1>2, <2>3, Zenon DEF Waiting
    <3>4. QED
      BY <1>6, <3>2, <3>3, Zenon
  <2>4. QED
    BY <2>1, <2>2, <2>3, Zenon
<1>12. Total(Loads) \in Nat /\ Total(Loads') = Total(Loads) + n + 0 + (0 - n)
  <2>1. \A g \in Fwd \ {f} : queue'[g] = queue[g] /\ fwd'[g] = fwd[g] /\ pit'[g] = pit[g]
    BY <1>4, <1>7, <1>9, Zenon DEF QueueSet
  <2>2. Len(fwd'[f].burst) = Len(fwd[f].burst) + n
    BY <1>3, <1>4, <1>5, <1>9
  <2>3. Cardinality(Pending(f)') = Cardinality(Pending(f)) + 0
    BY <1>4, PendingFinite, PendingKept
  <2>4. InQueues(f)' = InQueues(f) + (0 - n)
    <3>1. \A u \in PktType : Len(queue[f][u]) \in Nat
      BY DEF Types
    <3>2. Len(queue'[f][type]) = Len(queue[f][type]) + (0 - n)
      <4>1. Len(queue'[f][type]) = Len(q) - n
        BY <1>5, <1>7, Zenon DEF QueueSet
      <4>2. n \in Int /\ Len(q) \in Int
        BY <1>2, <1>3
      <4>3. Len(q) - n = Len(q) + (0 - n)
        BY <4>2
      <4>4. QED
        BY <1>2, <4>1, <4>3, Zenon
    <3>3. \A u \in PktType : u # type => Len(queue'[f][u]) = Len(queue[f][u])
      BY <1>7, Zenon DEF QueueSet
    <3>4. 0 - n \in Int
      BY <1>2, <1>3
    <3>5. QED
      BY <1>1, <3>1, <3>2, <3>3, <3>4, QueuesChange, Zenon
  <2>5. n \in Int /\ 0 - n \in Int /\ 0 \in Int
    BY <1>2, <1>3
  <2>6. QED
    BY <1>10, <2>1, <2>2, <2>3, <2>4, <2>5, LoadChange, Zenon
<1>13. Total(Loads') = Total(Loads)
  BY <1>2, <1>3, <1>12
<1>14. PacketsAccounted'
  BY <1>4, <1>13, Zenon DEF PacketsAccounted, Loads
<1>15. QED
  BY <1>4, <1>10, <1>11, <1>14, OnlyMoved, Zenon

\* A forwarding thread takes a packet in hand and changes its PIT: the parts of
\* the invariant that depend on the PIT are given.
LEMMA TakenIInv ==
  ASSUME IInv, NEW f \in Fwd, NEW type \in PktType, Take(f, type), ring' \in Seq(Pkt), mbufs' \in Int,
         pit' \in [Fwd -> [PccToken -> Name \cup {None}]], \A g \in Fwd \ {f} : pit'[g] = pit[g],
         sent' \subseteq [name : Name, token : Token, of : Fwd], Returnable', OneEntry',
         \A k \in Pending(f)' : Home(pit'[f][k], f),
         NEW y \in Int, Cardinality(Pending(f)') = Cardinality(Pending(f)) + y,
         NEW z \in Int, Len(ring') = Len(ring) + z, mbufs' = mbufs + y + z - 1
  PROVE  IInv'
<1> USE DEF IInv
<1>1. /\ fwd' \in [Fwd -> [at : PktType, burst : Seq(Pkt)]]
      /\ \A g \in Fwd \ {f} : fwd'[g] = fwd[g]
      /\ Len(fwd'[f].burst) = Len(fwd[f].burst) - 1
      /\ \A g \in Fwd, u \in PktType : Waiting(g, u)' \subseteq Waiting(g, u)
  BY Taken, Zenon
<1>2. UNCHANGED <<ndt, updates, queue, cqp, left, moved>>
  BY Zenon DEF Take
<1>3. Types'
  BY <1>1, <1>2, Zenon DEF Types
<1>4. BackToSender'
  <2>1. \A g \in Fwd, t \in {"D", "N"} : Waiting(g, t)' \subseteq Waiting(g, t)
    BY <1>1, Zenon DEF PktType
  <2>2. QED
    BY <2>1, BackKept, Zenon
<1>5. Sharded'
  <2>1. \A g \in Fwd : Waiting(g, "I")' \subseteq Waiting(g, "I")
    BY <1>1, Zenon DEF PktType
  <2>2. \A g \in Fwd : \A k \in Pending(g)' : Home(pit'[g][k], g)
    <3> SUFFICES ASSUME NEW g \in Fwd, NEW k \in Pending(g)' PROVE Home(pit'[g][k], g)
      BY Zenon
    <3>1. CASE g = f
      BY <3>1, Zenon
    <3>2. CASE g # f
      <4>1. Pending(g)' = Pending(g) /\ pit'[g] = pit[g]
        BY <3>2, PendingKept, Zenon
      <4>2. QED
        BY <4>1, Zenon DEF Sharded
    <3>3. QED
      BY <3>1, <3>2, Zenon
  <2>3. QED
    BY <1>2, <2>1, <2>2, ShardedKept, Zenon
<1>6. PacketsAccounted'
  <2> DEFINE T == Total(Loads)
             T1 == Total(Loads')
             r == Len(ring)
             c == Len(cqp)
  <2>1. Len(fwd'[f].burst) = Len(fwd[f].burst) + (-1)
    <3>1. Len(fwd[f].burst) \in Nat
      BY DEF Types
    <3>2. QED
      BY <1>1, <3>1, Zenon
  <2>2. InQueues(f)' = InQueues(f) + 0
    <3>1. InQueues(f) \in Nat
      BY LoadParts, Zenon
    <3>2. InQueues(f)' = InQueues(f)
      BY <1>2, Zenon DEF InQueues
    <3>3. QED
      BY <3>1, <3>2
  <2>3. \A g \in Fwd \ {f} : queue'[g] = queue[g] /\ fwd'[g] = fwd[g] /\ pit'[g] = pit[g]
    BY <1>1, <1>2, Zenon
  <2>4. -1 \in Int /\ 0 \in Int
    OBVIOUS
  <2>5. T \in Nat /\ T1 = T + (-1) + y + 0
    <3>1. Types
      BY Zenon
    <3> HIDE DEF IInv
    <3>2. QED
      BY <1>3, <2>1, <2>2, <2>3, <2>4, <3>1, LoadChange, ZenonT(40)
  <2>6. r \in Nat /\ c \in Nat /\ mbufs \in Int
    BY DEF Types
  <2>7. mbufs = r + c + T
    BY Zenon DEF PacketsAccounted, Loads
  <2>8. mbufs' = (r + z) + c + T1 => PacketsAccounted'
    BY <1>2, Zenon DEF PacketsAccounted, Loads
  <2>9. mbufs' = (r + z) + c + T1
    <3>1. r \in Int /\ c \in Int /\ T \in Int
      BY <2>5, <2>6
    <3>2. mbufs' = mbufs + y + z - 1
      BY Zenon
    <3> HIDE DEF T, T1, r, c, IInv
    <3>3. QED
      BY <2>5, <2>6, <2>7, <3>1, <3>2
  <2>10. QED
    BY <2>8, <2>9, Zenon
<1>7. QED
  BY <1>3, <1>4, <1>5, <1>6, Zenon

\* The packet in hand is dropped.
LEMMA DropIInv ==
  ASSUME IInv, NEW f \in Fwd, NEW type \in PktType, Take(f, type), Drop
  PROVE  IInv'
<1> USE DEF IInv
<1>1. mbufs' = mbufs - 1 /\ UNCHANGED <<pit, sent, ring>>
  BY Zenon DEF Drop
<1>2. mbufs \in Int /\ Len(ring) \in Nat /\ Cardinality(Pending(f)) \in Nat /\ Pending(f)' = Pending(f)
  BY <1>1, PendingFinite, PendingKept DEF Types
<1>3. /\ ring' \in Seq(Pkt) /\ mbufs' \in Int
      /\ pit' \in [Fwd -> [PccToken -> Name \cup {None}]] /\ \A g \in Fwd \ {f} : pit'[g] = pit[g]
      /\ sent' \subseteq [name : Name, token : Token, of : Fwd]
  BY <1>1, <1>2 DEF Types
<1>4. Returnable' /\ OneEntry' /\ \A k \in Pending(f)' : Home(pit'[f][k], f)
  BY <1>1 DEF Returnable, OneEntry, Pending, Sharded
<1>5. Cardinality(Pending(f)') = Cardinality(Pending(f)) + 0 /\ Len(ring') = Len(ring) + 0 /\ 0 \in Int
  BY <1>1, <1>2
<1>6. mbufs' = mbufs + 0 + 0 - 1
  BY <1>1, <1>2
<1> HIDE DEF IInv
<1>7. QED
  BY <1>3, <1>4, <1>5, <1>6, TakenIInv, Zenon

\* An entry is erased with the packet in hand.
LEMMA EraseIInv ==
  ASSUME IInv, NEW f \in Fwd, NEW type \in PktType, Take(f, type), NEW k \in Pending(f), Erase(f, k, 1),
         UNCHANGED <<sent, ring>>
  PROVE  IInv'
<1> USE DEF IInv
<1>1. k \in PccToken
  BY Zenon DEF Pending
<1>2. PitSet(f, k, None)
  BY <1>1, PitExcept, Zenon DEF Erase
<1>3. Pending(f)' = Pending(f) \ {k} /\ Cardinality(Pending(f)') = Cardinality(Pending(f)) - 1
  BY <1>2, Erased, Zenon
<1>4. mbufs' = mbufs - 1 - 1
  BY Zenon DEF Erase
<1>5. mbufs \in Int /\ Len(ring) \in Nat /\ Cardinality(Pending(f)) \in Nat
  BY PendingFinite DEF Types
<1>6. /\ ring' \in Seq(Pkt) /\ mbufs' \in Int
      /\ pit' \in [Fwd -> [PccToken -> Name \cup {None}]] /\ \A g \in Fwd \ {f} : pit'[g] = pit[g]
      /\ sent' \subseteq [name : Name, token : Token, of : Fwd]
  BY <1>2, <1>4, <1>5 DEF Types, PitSet
<1>7. \A l \in Pending(f)' : l \in Pending(f) /\ pit'[f][l] = pit[f][l]
  BY <1>2, <1>3, Zenon DEF PitSet, Pending
<1>8. Returnable'
  BY Zenon DEF Returnable
<1>9. OneEntry'
  <2>1. \A g \in Fwd \ {f} : Pending(g)' = Pending(g) /\ pit'[g] = pit[g]
    BY <1>6, PendingKept, Zenon
  <2>2. QED
    BY <1>7, <2>1 DEF OneEntry
<1>10. \A l \in Pending(f)' : Home(pit'[f][l], f)
  BY <1>7, Zenon DEF Sharded
<1>11. /\ Cardinality(Pending(f)') = Cardinality(Pending(f)) + (-1) /\ Len(ring') = Len(ring) + 0
       /\ -1 \in Int /\ 0 \in Int
  BY <1>3, <1>5
<1>12. mbufs' = mbufs + (-1) + 0 - 1
  BY <1>4, <1>5
<1> HIDE DEF IInv
<1>13. QED
  BY <1>6, <1>8, <1>9, <1>10, <1>11, <1>12, TakenIInv, Zenon

\* A PIT entry expires.
LEMMA Pit_TriggerTimersIInv ==
  ASSUME IInv, NEW f \in Fwd, NEW k \in Pending(f), Pit_TriggerTimers(f, k)
  PROVE  IInv'
<1> USE DEF IInv
<1>1. k \in PccToken
  BY Zenon DEF Pending
<1>2. UNCHANGED <<ndt, updates, queue, fwd, sent, ring, cqp, left, moved>> /\ mbufs' = mbufs - 1
  BY Zenon DEF Pit_TriggerTimers
<1>3. PitSet(f, k, None)
  BY <1>1, PitExcept, Zenon DEF Pit_TriggerTimers
<1>4. Pending(f)' = Pending(f) \ {k} /\ Cardinality(Pending(f)') = Cardinality(Pending(f)) - 1
  BY <1>3, Erased, Zenon
<1>5. mbufs \in Int /\ mbufs' \in Int /\ Cardinality(Pending(f)) \in Nat /\ Len(fwd[f].burst) \in Nat
  BY <1>2, PendingFinite DEF Types
<1>6. Types'
  BY <1>2, <1>3, <1>5, Zenon DEF Types, PitSet
<1>7. \A l \in Pending(f)' : l \in Pending(f) /\ pit'[f][l] = pit[f][l]
  BY <1>3, <1>4, Zenon DEF PitSet, Pending
<1>8. \A g \in Fwd \ {f} : Pending(g)' = Pending(g) /\ pit'[g] = pit[g]
  BY <1>3, PendingKept, Zenon DEF PitSet
<1>9. Returnable' /\ OneEntry'
  BY <1>2, <1>7, <1>8 DEF Returnable, OneEntry
<1>10. \A g, t : Waiting(g, t)' = Waiting(g, t)
  BY <1>2, Zenon DEF Waiting
<1>11. BackToSender'
  BY <1>10, Zenon DEF BackToSender
<1>12. Sharded'
  <2>1. \A g \in Fwd : \A l \in Pending(g)' : Home(pit'[g][l], g)
    BY <1>7, <1>8, Zenon DEF Sharded
  <2>2. QED
    BY <1>2, <1>10, <2>1, ShardedKept, Zenon
<1>13. Total(Loads) \in Nat /\ Total(Loads') = Total(Loads) + 0 + (-1) + 0
  <2>1. \A g \in Fwd \ {f} : queue'[g] = queue[g] /\ fwd'[g] = fwd[g] /\ pit'[g] = pit[g]
    BY <1>2, <1>8, Zenon
  <2>2. InQueues(f) \in Nat /\ InQueues(f)' = InQueues(f)
    BY <1>2, LoadParts, ZenonT(30) DEF InQueues
  <2>3. /\ Len(fwd'[f].burst) = Len(fwd[f].burst) + 0
        /\ Cardinality(Pending(f)') = Cardinality(Pending(f)) + (-1)
        /\ InQueues(f)' = InQueues(f) + 0 /\ 0 \in Int /\ -1 \in Int
    BY <1>2, <1>4, <1>5, <2>2
  <2>4. Types
    BY Zenon
  <2> HIDE DEF IInv
  <2>5. QED
    BY <1>6, <2>1, <2>3, <2>4, LoadChange, ZenonT(40)
<1>14. PacketsAccounted'
  <2>1. Total(Loads') = Total(Loads) - 1
    BY <1>13
  <2>2. Total(Loads') \in Int /\ Total(Loads) \in Int
    BY <1>13, <2>1
  <2>3. mbufs' = mbufs + (Total(Loads') - Total(Loads))
    BY <1>2, <1>5, <2>1, <2>2
  <2>4. (Types => Loads \in [Fwd -> Nat])'
    BY LoadsType, PTL
  <2>5. Total(Loads') \in Nat
    BY <1>6, <2>4, TotalType, FwdFinite, Zenon
  <2>6. QED
    BY <1>2, <1>13, <2>3, <2>5, AccountedKept, Zenon
<1>15. QED
  BY <1>6, <1>9, <1>11, <1>12, <1>14, Zenon

\* What a thread has sent it can be sent back.
LEMMA ForwardReturnable ==
  ASSUME Types, Returnable, NEW f \in Fwd, NEW k \in PccToken, NEW n \in Name, NEW b \in BOOLEAN, Forward(f, k, n, b)
  PROVE  sent' \subseteq [name : Name, token : Token, of : Fwd] /\ Returnable'
<1> DEFINE x == [name |-> n, token |-> FwToken_Set(f, k), of |-> f]
<1>1. FwToken_Set(f, k) \in Token /\ FwToken_Set(f, k).fwdID = f
  BY Zenon DEF FwToken_Set, Token, FwTokenLength
<1>2. x \in [name : Name, token : Token, of : Fwd] /\ x.token.fwdID = x.of
  BY <1>1, Zenon
<1>3. sent' = sent \/ sent' = sent \cup {x}
  BY Zenon DEF Forward
<1> HIDE DEF x
<1>4. QED
  BY <1>2, <1>3, Zenon DEF Types, Returnable

\* FwFwd_RxInterest: the Interest is dropped, joins the entry of its name, or gets one.
LEMMA FwFwd_RxInterestIInv ==
  ASSUME IInv, NEW f \in Fwd, NEW accepted \in BOOLEAN, NEW forward \in BOOLEAN,
         FwFwd_RxInterest(f, accepted, forward)
  PROVE  IInv'
<1> USE DEF IInv
<1> DEFINE name == Head(fwd[f].burst).name
           entry == {k \in Pending(f) : pit[f][k] = name}
<1>1. Take(f, "I") /\ "I" \in PktType
  BY Zenon DEF FwFwd_RxInterest, PktType
<1>2. Head(fwd[f].burst) \in Pkt /\ Head(fwd[f].burst) \in Waiting(f, "I")
  BY <1>1, Taken, Zenon
<1>3. name \in Name /\ Home(name, f)
  BY <1>2, Zenon DEF Pkt, Sharded
<1>4. CASE Drop
  BY <1>1, <1>4, DropIInv, Zenon
<1>5. CASE ~Drop
  <2>1. PICK k \in IF entry # {} THEN entry ELSE PccToken \ Pending(f) :
               /\ pit' = [pit EXCEPT ![f][k] = name]
               /\ mbufs' = mbufs - Cardinality(entry)
               /\ Forward(f, k, name, forward)
               /\ UNCHANGED ring
    BY <1>5, Zenon DEF FwFwd_RxInterest
  <2> HIDE DEF name
  <2>2. k \in PccToken
    BY <2>1, Zenon DEF Pending
  <2>3. PitSet(f, k, name)
    BY <1>3, <2>1, <2>2, PitExcept, ZenonT(30)
  <2>4. sent' \subseteq [name : Name, token : Token, of : Fwd] /\ Returnable'
    BY <1>3, <2>1, <2>2, ForwardReturnable, Zenon
  <2>5. \A g \in Fwd \ {f} : Pending(g)' = Pending(g) /\ pit'[g] = pit[g]
    BY <2>3, PendingKept, Zenon DEF PitSet
  <2>6. mbufs \in Int /\ Len(ring) \in Nat /\ Cardinality(Pending(f)) \in Nat
    BY PendingFinite DEF Types
  <2>7. PICK y \in Int : /\ Cardinality(Pending(f)') = Cardinality(Pending(f)) + y
                         /\ mbufs' = mbufs + y - 1
    <3>1. CASE entry # {}
      <4>1. k \in Pending(f) /\ pit[f][k] = name
        BY <2>1, <3>1, Zenon
      <4>2. entry = {k}
        BY <2>1, <3>1, Zenon DEF OneEntry
      <4>3. Cardinality(entry) = 1
        BY <4>2, FS_Singleton, Zenon
      <4>4. Pending(f)' = Pending(f)
        BY <2>3, <4>1, <1>3, DispatchAssumption, Zenon DEF PitSet, Pending
      <4>5. Cardinality(Pending(f)') = Cardinality(Pending(f)) + 0 /\ mbufs' = mbufs + 0 - 1
        BY <2>1, <2>6, <4>3, <4>4
      <4>6. QED
        BY <4>5
    <3>2. CASE entry = {}
      <4>1. Cardinality(entry) = 0
        BY <3>2, FS_EmptySet, Zenon
      <4>2. k \in PccToken \ Pending(f)
        BY <2>1, <3>2, Zenon
      <4>3. Cardinality(Pending(f)') = Cardinality(Pending(f)) + 1
        BY <1>3, <2>3, <4>2, Added, Zenon
      <4>4. mbufs' = mbufs + 1 - 1
        BY <2>1, <2>6, <4>1
      <4>5. QED
        BY <4>3, <4>4
    <3>3. QED
      BY <3>1, <3>2, Zenon
  <2>8. \A l \in Pending(f)' : l = k \/ (l \in Pending(f) /\ pit'[f][l] = pit[f][l])
    <3> SUFFICES ASSUME NEW l \in Pending(f)', l # k PROVE l \in Pending(f) /\ pit'[f][l] = pit[f][l]
      BY Zenon
    <3>1. l \in PccToken /\ pit'[f][l] # None
      BY Zenon DEF Pending
    <3>2. pit'[f][l] = pit[f][l]
      BY <2>3, <3>1, Zenon DEF PitSet
    <3>3. QED
      BY <3>1, <3>2, Zenon DEF Pending
  <2>9. pit'[f][k] = name /\ \A l \in Pending(f) \ {k} : pit[f][l] # name
    <3>1. pit'[f][k] = name
      BY <2>3, Zenon DEF PitSet
    <3>2. CASE entry # {}
      <4>1. k \in Pending(f) /\ pit[f][k] = name
        BY <2>1, <3>2, Zenon
      <4>2. QED
        BY <3>1, <4>1, Zenon DEF OneEntry
    <3>3. CASE entry = {}
      BY <3>1, <3>3, Zenon
    <3>4. QED
      BY <3>2, <3>3, Zenon
  <2>10. OneEntry'
    <3>1. \A l, m \in Pending(f)' : pit'[f][l] = pit'[f][m] => l = m
      BY <2>8, <2>9, Zenon DEF OneEntry
    <3>2. QED
      BY <2>5, <3>1 DEF OneEntry
  <2>11. \A l \in Pending(f)' : Home(pit'[f][l], f)
    BY <1>3, <2>8, <2>9, Zenon DEF Sharded
  <2>12. /\ ring' \in Seq(Pkt) /\ mbufs' \in Int /\ pit' \in [Fwd -> [PccToken -> Name \cup {None}]]
    BY <2>1, <2>3, <2>6, <2>7 DEF Types, PitSet
  <2>13. Len(ring') = Len(ring) + 0 /\ 0 \in Int /\ mbufs' = mbufs + y + 0 - 1
    BY <2>1, <2>6, <2>7
  <2> HIDE DEF IInv
  <2>14. QED
    BY <1>1, <2>4, <2>5, <2>7, <2>10, <2>11, <2>12, <2>13, TakenIInv, ZenonT(40)
<1>6. QED
  BY <1>4, <1>5, Zenon

\* A PIT entry that a packet's token finds is pending.
LEMMA FindPending ==
  ASSUME Types, NEW f \in Fwd, NEW token, Find(f, token) # None
  PROVE  token.pccToken \in Pending(f) /\ Find(f, token) = pit[f][token.pccToken]
BY Zenon DEF Find

\* FwFwd_RxData: the Data is dropped, goes to the crypto helper, or satisfies an entry.
LEMMA FwFwd_RxDataIInv ==
  ASSUME IInv, NEW f \in Fwd, NEW same \in BOOLEAN, FwFwd_RxData(f, same)
  PROVE  IInv'
<1> DEFINE pkt == Head(fwd[f].burst)
           found == IF pkt.token.length # FwTokenLength THEN "No"
                    ELSE PData_CanSatisfy(pkt, Find(f, pkt.token), same)
<1>1. Take(f, "D") /\ "D" \in PktType /\ Types
  BY Zenon DEF FwFwd_RxData, PktType, IInv
<1>2. pkt \in Pkt
  BY <1>1, Taken, Zenon
<1>3. CASE Drop
  BY <1>1, <1>3, DropIInv, Zenon
<1>4. CASE FwFwd_DataNeedDigest(pkt) /\ ~Drop
  <2> USE DEF IInv
  <2>1. ring' = Append(ring, pkt) /\ UNCHANGED <<pit, sent, mbufs>>
    BY <1>4, Zenon DEF FwFwd_DataNeedDigest
  <2>2. ring \in Seq(Pkt) /\ mbufs \in Int /\ Cardinality(Pending(f)) \in Nat /\ Pending(f)' = Pending(f)
    BY <2>1, PendingFinite, PendingKept, Zenon DEF Types
  <2>3. ring' \in Seq(Pkt) /\ Len(ring') = Len(ring) + 1 /\ 1 \in Int /\ 0 \in Int /\ mbufs' \in Int
    BY <1>2, <2>1, <2>2
  <2>4. Cardinality(Pending(f)') = Cardinality(Pending(f)) + 0 /\ mbufs' = mbufs + 0 + 1 - 1
    BY <2>1, <2>2
  <2>5. /\ pit' \in [Fwd -> [PccToken -> Name \cup {None}]] /\ \A g \in Fwd \ {f} : pit'[g] = pit[g]
        /\ sent' \subseteq [name : Name, token : Token, of : Fwd]
    BY <2>1, Zenon DEF Types
  <2>6. Returnable' /\ OneEntry' /\ \A k \in Pending(f)' : Home(pit'[f][k], f)
    BY <2>1 DEF Returnable, OneEntry, Pending, Sharded
  <2> HIDE DEF IInv
  <2>7. QED
    BY <1>1, <2>3, <2>4, <2>5, <2>6, TakenIInv, ZenonT(40)
<1>5. CASE found = "Yes" /\ Erase(f, pkt.token.pccToken, 1) /\ UNCHANGED <<sent, ring>>
  <2>1. Find(f, pkt.token) # None
    BY <1>5, Zenon DEF PData_CanSatisfy
  <2>2. pkt.token.pccToken \in Pending(f)
    BY <1>1, <2>1, FindPending, Zenon
  <2>3. QED
    BY <1>1, <1>5, <2>2, EraseIInv, Zenon
<1>6. QED
  BY <1>3, <1>4, <1>5, Zenon DEF FwFwd_RxData

\* FwFwd_RxNack: the Nack is dropped, or answers an entry, which is erased or kept.
LEMMA FwFwd_RxNackIInv ==
  ASSUME IInv, NEW f \in Fwd, NEW accepted \in BOOLEAN, NEW erase \in BOOLEAN, NEW forward \in BOOLEAN,
         FwFwd_RxNack(f, accepted, erase, forward)
  PROVE  IInv'
<1> DEFINE pkt == Head(fwd[f].burst)
           k == pkt.token.pccToken
<1>1. Take(f, "N") /\ "N" \in PktType /\ Types
  BY Zenon DEF FwFwd_RxNack, PktType, IInv
<1>2. pkt \in Pkt
  BY <1>1, Taken, Zenon
<1>3. CASE Drop
  BY <1>1, <1>3, DropIInv, Zenon
<1>4. CASE ~Drop
  <2>1. /\ Find(f, pkt.token) = pkt.name
        /\ IF erase THEN Erase(f, k, 1) ELSE mbufs' = mbufs - 1 /\ pit' = pit
        /\ Forward(f, k, pkt.name, forward /\ ~erase)
        /\ UNCHANGED ring
    BY <1>4, Zenon DEF FwFwd_RxNack
  <2>2. pkt.name \in Name /\ pkt.name # None
    BY <1>2, DispatchAssumption, Zenon DEF Pkt
  <2>3. k \in Pending(f) /\ k \in PccToken
    BY <1>1, <2>1, <2>2, FindPending, Zenon DEF Pending
  <2>4. CASE erase
    <3>1. Erase(f, k, 1) /\ UNCHANGED <<sent, ring>>
      BY <2>1, <2>4, Zenon DEF Forward
    <3>2. QED
      BY <1>1, <2>3, <3>1, EraseIInv, Zenon
  <2>5. CASE ~erase
    <3> USE DEF IInv
    <3>1. mbufs' = mbufs - 1 /\ pit' = pit /\ ring' = ring
      BY <2>1, <2>5, Zenon
    <3>2. sent' \subseteq [name : Name, token : Token, of : Fwd] /\ Returnable'
      BY <2>1, <2>2, <2>3, ForwardReturnable, ZenonT(30)
    <3>3. mbufs \in Int /\ Len(ring) \in Nat /\ Cardinality(Pending(f)) \in Nat /\ Pending(f)' = Pending(f)
      BY <3>1, PendingFinite, PendingKept DEF Types
    <3>4. /\ ring' \in Seq(Pkt) /\ mbufs' \in Int
          /\ pit' \in [Fwd -> [PccToken -> Name \cup {None}]] /\ \A g \in Fwd \ {f} : pit'[g] = pit[g]
      BY <3>1, <3>3 DEF Types
    <3>5. OneEntry' /\ \A l \in Pending(f)' : Home(pit'[f][l], f)
      BY <3>1 DEF OneEntry, Pending, Sharded
    <3>6. /\ Cardinality(Pending(f)') = Cardinality(Pending(f)) + 0 /\ Len(ring') = Len(ring) + 0
          /\ 0 \in Int /\ mbufs' = mbufs + 0 + 0 - 1
      BY <3>1, <3>3
    <3> HIDE DEF IInv
    <3>7. QED
      BY <1>1, <3>2, <3>4, <3>5, <3>6, TakenIInv, ZenonT(40)
  <2>6. QED
    BY <2>4, <2>5, Zenon
<1>5. QED
  BY <1>3, <1>4, Zenon

\* FwCrypto_Input: from the ring into the cryptodev.
LEMMA FwCrypto_InputIInv ==
  ASSUME IInv, NEW c \in Crypto, NEW ok \in BOOLEAN, FwCrypto_Input(c, ok)
  PROVE  IInv'
<1> USE DEF IInv
<1>1. ring \in Seq(Pkt) /\ cqp \in Seq(Pkt) /\ mbufs \in Int /\ ring # <<>>
  BY Zenon DEF Types, FwCrypto_Input
<1>2. Head(ring) \in Pkt /\ Tail(ring) \in Seq(Pkt) /\ Len(Tail(ring)) = Len(ring) - 1
  BY <1>1
<1>3. /\ ring' = Tail(ring) /\ UNCHANGED <<ndt, updates, queue, fwd, pit, sent, left, moved>>
      /\ \/ cqp' = Append(cqp, Head(ring)) /\ mbufs' = mbufs
         \/ cqp' = cqp /\ mbufs' = mbufs - 1
  BY Zenon DEF FwCrypto_Input
<1>4. /\ cqp' \in Seq(Pkt) /\ mbufs' \in Int
      /\ \/ Len(cqp') = Len(cqp) + 1 /\ mbufs' = mbufs
         \/ Len(cqp') = Len(cqp) /\ mbufs' = mbufs - 1
  <2>1. CASE cqp' = Append(cqp, Head(ring)) /\ mbufs' = mbufs
    BY <1>1, <1>2, <2>1
  <2>2. CASE cqp' = cqp /\ mbufs' = mbufs - 1
    BY <1>1, <2>2
  <2>3. QED
    BY <1>3, <2>1, <2>2, Zenon
<1>5. Types'
  BY <1>2, <1>3, <1>4, Zenon DEF Types
<1>6. \A f \in Fwd, t \in PktType : Waiting(f, t)' \subseteq Waiting(f, t)
  BY <1>3, Zenon DEF Waiting
<1>7. PacketsAccounted'
  <2>1. Loads' = Loads
    BY <1>3, Zenon DEF Loads, Load, Pending
  <2> DEFINE T == Total(Loads)
             r == Len(ring)
             c0 == Len(cqp)
             c1 == Len(cqp')
  <2>2. T \in Int
    BY LoadsType, TotalType, FwdFinite
  <2>3. r \in Int /\ Len(ring') = r - 1 /\ c0 \in Int
    BY <1>1, <1>2, <1>3
  <2>4. mbufs = r + c0 + T
    BY Zenon DEF PacketsAccounted, Loads
  <2>5. (c1 = c0 + 1 /\ mbufs' = mbufs) \/ (c1 = c0 /\ mbufs' = mbufs - 1)
    BY <1>4, Zenon
  <2>6. mbufs' = (r - 1) + c1 + T
    <3> HIDE DEF IInv, T, r, c0, c1
    <3>1. QED
      BY <1>1, <2>2, <2>3, <2>4, <2>5
  <2>7. QED
    BY <2>1, <2>3, <2>6, Zenon DEF PacketsAccounted, Loads
<1>8. QED
  BY <1>3, <1>5, <1>6, <1>7, OnlyMoved, Zenon

\* The packet that the crypto helper dispatches is not counted as one more.
LEMMA FwCrypto_OutputIInv ==
  ASSUME IInv, NEW c \in Crypto, NEW ok \in BOOLEAN, FwCrypto_Output(c, ok)
  PROVE  IInv'
<1> USE DEF IInv
<1> DEFINE pkt == [Head(cqp) EXCEPT !.hasDigest = TRUE, !.by = "crypto"]
           index == NdtQuerier_Lookup(c, pkt.name)
<1>1. cqp \in Seq(Pkt) /\ mbufs \in Int /\ cqp # <<>> /\ "D" \in PktType
  BY Zenon DEF Types, FwCrypto_Output, PktType
<1>2. Head(cqp) \in Pkt /\ Tail(cqp) \in Seq(Pkt) /\ Len(Tail(cqp)) = Len(cqp) - 1
  BY <1>1
<1>3. pkt \in Pkt /\ pkt.by = "crypto"
  BY <1>2, Zenon DEF Pkt
<1>4. cqp' = Tail(cqp) /\ UNCHANGED <<ndt, updates, fwd, pit, sent, ring, left, moved>>
  BY Zenon DEF FwCrypto_Output
<1>5. /\ Passed("D", pkt, index, mbufs)
      /\ queue' \in [Fwd -> [PktType -> Seq(Pkt)]] /\ mbufs' \in Int
  <2>1. CASE ok
    <3>1. InputDemux_PassTo("D", pkt, index, mbufs)
      BY <2>1, Zenon DEF FwCrypto_Output
    <3>2. Types
      BY Zenon
    <3> HIDE DEF pkt, index, IInv
    <3>3. QED
      BY <1>1, <1>3, <3>1, <3>2, PassedOn, Zenon
  <2>2. CASE ~ok
    <3>1. queue' = queue /\ mbufs' = mbufs - 1
      BY <2>2, Zenon DEF FwCrypto_Output
    <3>2. QED
      BY <1>1, <3>1 DEF Passed, Types
  <2>3. QED
    BY <2>1, <2>2, Zenon
<1> HIDE DEF pkt, index
<1>6. Types'
  BY <1>2, <1>4, <1>5, Zenon DEF Types
<1>7. /\ Total(Loads) \in Nat /\ Total(Loads') \in Nat
      /\ mbufs' - Total(Loads') = mbufs - 1 - Total(Loads)
      /\ \A g \in Fwd, u \in PktType :
           Waiting(g, u)' \subseteq Waiting(g, u) \cup (IF g = index /\ u = "D" THEN {pkt} ELSE {})
  BY <1>1, <1>3, <1>4, <1>5, <1>6, PassedEffect, Zenon
<1>8. Returnable' /\ OneEntry'
  BY <1>4, Zenon DEF Returnable, OneEntry, Pending
<1>9. BackToSender'
  <2>1. \A f \in Fwd, t \in {"D", "N"} : \A p \in Waiting(f, t)' : p \in Waiting(f, t) \/ p.by # "input"
    BY <1>3, <1>7, Zenon DEF PktType
  <2>2. QED
    BY <2>1, BackKept, Zenon
<1>10. Sharded'
  <2>1. \A f \in Fwd : \A p \in Waiting(f, "I")' : p \in Waiting(f, "I")
    BY <1>7, Zenon DEF PktType
  <2>2. \A f \in Fwd : \A k \in Pending(f)' : Home(pit'[f][k], f)
    BY <1>4, Zenon DEF Sharded, Pending
  <2>3. QED
    BY <1>4, <2>1, <2>2, ShardedKept, Zenon
<1>11. PacketsAccounted'
  <2> DEFINE T == Total(Loads)
             T1 == Total(Loads')
             r == Len(ring)
             c0 == Len(cqp)
  <2>1. r \in Int /\ c0 \in Int /\ T \in Int /\ T1 \in Int /\ mbufs' \in Int
    BY <1>1, <1>5, <1>7 DEF Types
  <2>2. mbufs = r + c0 + T
    BY Zenon DEF PacketsAccounted, Loads
  <2>0. mbufs' = T1 + (mbufs - 1 - T)
    BY <1>1, <1>7, <2>1
  <2>3. mbufs' = r + (c0 - 1) + T1
    <3> HIDE DEF IInv, T, T1, r, c0
    <3>1. QED
      BY <1>1, <2>0, <2>1, <2>2
  <2>4. QED
    BY <1>2, <1>4, <2>3, Zenon DEF PacketsAccounted, Loads
<1>12. QED
  BY <1>6, <1>8, <1>9, <1>10, <1>11, Zenon

-----------------------------------------------------------------------------
(* One update at a time                                                    *)

\* An update begins when none is in progress.
LEMMA UpdateNdtReplicated ==
  ASSUME IInv, Replicated, MaxUpdaters <= 1, NEW i \in Index, NEW v \in Value, UpdateNdt(i, v)
  PROVE  Replicated'
<1> DEFINE u == [index |-> i, value |-> v, todo |-> Socket, id |-> left.updates]
<1>1. IsFiniteSet(updates) /\ Cardinality(updates) \in Nat
  BY FS_CardinalityType, Zenon DEF IInv, Types
<1>2. Cardinality(updates) = 0
  BY <1>1, DispatchAssumption DEF UpdateNdt
<1>3. updates = {}
  BY <1>1, <1>2, FS_EmptySet, Zenon
<1>4. updates' = {u} /\ ndt' = ndt /\ u.index = i /\ u.todo = Socket
  BY <1>3, Zenon DEF UpdateNdt
<1> HIDE DEF u
<1>5. QED
  BY <1>3, <1>4 DEF Replicated

\* An update reaches one more replica, or the last.
LEMMA UpdateReplicaReplicated ==
  ASSUME IInv, Replicated, NEW u \in updates, NEW s \in u.todo, UpdateReplica(u, s)
  PROVE  Replicated'
<1> DEFINE w == [u EXCEPT !.todo = u.todo \ {s}]
<1>1. u \in [index : Index, value : Value, todo : SUBSET Socket, id : Nat] /\ updates = {u}
  BY Zenon DEF IInv, Types, Replicated
<1>2. s \in Socket /\ u.index \in Index /\ w.index = u.index /\ w.value = u.value /\ w.todo = u.todo \ {s}
  BY <1>1, Zenon
<1>3. ndt \in [Socket -> [Index -> Fwd \cup Value]]
  BY Zenon DEF IInv, Types
<1>4. ndt' = [ndt EXCEPT ![s] = [ndt[s] EXCEPT ![u.index] = u.value]]
  BY Zenon DEF UpdateReplica
<1>5. /\ \A r \in Socket : \A j \in Index : j # u.index => ndt'[r][j] = ndt[r][j]
      /\ ndt'[s][u.index] = u.value /\ \A r \in Socket \ {s} : ndt'[r] = ndt[r]
      /\ \A r \in Socket : ndt'[r] \in [Index -> Fwd \cup Value]
  <2> HIDE DEF w
  <2> DEFINE row == [ndt[s] EXCEPT ![u.index] = u.value]
  <2>1. /\ row \in [Index -> Fwd \cup Value] /\ row[u.index] = u.value
        /\ \A j \in Index : j # u.index => row[j] = ndt[s][j]
    BY <1>1, <1>2, <1>3, Zenon
  <2>2. ndt' = [ndt EXCEPT ![s] = row]
    BY <1>4, Zenon
  <2> HIDE DEF row
  <2>3. ndt'[s] = row /\ \A r \in Socket \ {s} : ndt'[r] = ndt[r]
    BY <1>2, <1>3, <2>2, Zenon
  <2>4. QED
    BY <1>3, <2>1, <2>3, Zenon
<1>6. (u.todo = {s} /\ updates' = {}) \/ (u.todo # {s} /\ updates' = {w})
  BY <1>1, Zenon DEF UpdateReplica
<1> HIDE DEF w
<1>7. /\ \A q, r \in Socket : \A j \in Index : j # u.index => ndt'[q][j] = ndt'[r][j]
      /\ \A q, r \in u.todo \ {s} : ndt'[q][u.index] = ndt'[r][u.index]
      /\ \A r \in Socket \ (u.todo \ {s}) : ndt'[r][u.index] = u.value
  <2>1. /\ \A q, r \in Socket : \A j \in Index : j # u.index => ndt[q][j] = ndt[r][j]
        /\ \A q, r \in u.todo : ndt[q][u.index] = ndt[r][u.index]
        /\ \A r \in Socket \ u.todo : ndt[r][u.index] = u.value
    BY Zenon DEF Replicated
  <2>2. QED
    BY <1>1, <1>5, <2>1
<1>8. CASE u.todo = {s} /\ updates' = {}
  <2>1. \A q, r \in Socket : \A j \in Index : ndt'[q][j] = ndt'[r][j]
    BY <1>7, <1>8
  <2>2. \A q, r \in Socket : ndt'[q] = ndt'[r]
    BY <1>5, <2>1
  <2>3. QED
    BY <1>8, <2>2, Zenon DEF Replicated
<1>9. CASE u.todo # {s} /\ updates' = {w}
  <2>1. updates' # {} /\ \A x \in updates' : x = w
    BY <1>9, Zenon
  <2>2. QED
    BY <1>2, <1>7, <1>9, <2>1 DEF Replicated
<1>10. QED
  BY <1>6, <1>8, <1>9, Zenon

-----------------------------------------------------------------------------
(* The theorems                                                            *)

\* Every step keeps the invariant.
LEMMA NextIInv == IInv /\ [Next]_vars => IInv'
<1> SUFFICES ASSUME IInv, [Next]_vars PROVE IInv'
  BY Zenon
<1>1. CASE UNCHANGED vars
  <2>1. UNCHANGED <<ndt, updates, queue, fwd, pit, sent, ring, cqp, mbufs, left, moved>>
    BY <1>1, Zenon DEF vars
  <2>2. Types'
    <3>1. Types
      BY Zenon DEF IInv
    <3>2. QED
      BY <2>1, <3>1, Zenon DEF Types
  <2>3. Sharded'
    <3>1. Sharded
      BY Zenon DEF IInv
    <3>2. \A f \in Fwd : Waiting(f, "I")' = Waiting(f, "I")
      BY <2>1, Zenon DEF Waiting
    <3>3. \A f \in Fwd : Pending(f)' = Pending(f) /\ pit'[f] = pit[f]
      BY <2>1, Zenon DEF Pending
    <3>4. \A f \in Fwd : \A k \in Pending(f)' : Home(pit'[f][k], f)
      BY <3>1, <3>3, Zenon DEF Sharded
    <3>5. QED
      BY <2>1, <3>1, <3>2, <3>4, ShardedKept, Zenon
  <2>4. QED
    BY <2>1, <2>2, <2>3, TablesKept, Zenon DEF IInv
<1>2. ASSUME NEW i \in Input, NEW n \in Name, RxInterest(i, n) PROVE IInv'
  BY <1>2, RxInterestIInv, Zenon
<1>3. ASSUME NEW i \in Input, NEW x \in sent, NEW t \in {"D", "N"},
             NEW l \in {FwTokenLength - 1, FwTokenLength, FwTokenLength + 1}, RxReply(i, x, t, l)
      PROVE  IInv'
  BY <1>3, RxReplyIInv, Zenon
<1>4. ASSUME NEW i \in Index, NEW v \in Value, UpdateNdt(i, v) PROVE IInv'
  BY <1>4, UpdateNdtIInv, Zenon
<1>5. ASSUME NEW u \in updates, NEW s \in u.todo, UpdateReplica(u, s) PROVE IInv'
  BY <1>5, UpdateReplicaIInv, Zenon
<1>6. ASSUME NEW f \in Fwd, Loop(f) PROVE IInv'
  <2>1. CASE FwFwd_RxByType(f)
    BY <2>1, FwFwd_RxByTypeIInv, Zenon
  <2>2. ASSUME NEW accepted \in BOOLEAN, NEW forward \in BOOLEAN, FwFwd_RxInterest(f, accepted, forward) PROVE IInv'
    BY <2>2, FwFwd_RxInterestIInv, Zenon
  <2>3. ASSUME NEW same \in BOOLEAN, FwFwd_RxData(f, same) PROVE IInv'
    BY <2>3, FwFwd_RxDataIInv, Zenon
  <2>4. ASSUME NEW accepted \in BOOLEAN, NEW erase \in BOOLEAN, NEW forward \in BOOLEAN,
               FwFwd_RxNack(f, accepted, erase, forward)
        PROVE  IInv'
    BY <2>4, FwFwd_RxNackIInv, Zenon
  <2>5. QED
    BY <1>6, <2>1, <2>2, <2>3, <2>4, Zenon DEF Loop
<1>7. ASSUME NEW f \in Fwd, NEW k \in Pending(f), Pit_TriggerTimers(f, k) PROVE IInv'
  BY <1>7, Pit_TriggerTimersIInv, Zenon
<1>8. ASSUME NEW c \in Crypto, Helper(c) PROVE IInv'
  BY <1>8, FwCrypto_InputIInv, FwCrypto_OutputIInv, Zenon DEF Helper
<1>9. QED
  BY <1>1, <1>2, <1>3, <1>4, <1>5, <1>6, <1>7, <1>8, Zenon DEF Next

\* Every step keeps the replicas equal but for the entry under update.
LEMMA NextReplicated == IInv /\ Replicated /\ MaxUpdaters <= 1 /\ [Next]_vars => Replicated'
<1> SUFFICES ASSUME IInv, Replicated, MaxUpdaters <= 1, [Next]_vars PROVE Replicated'
  BY Zenon
<1>1. CASE UNCHANGED <<ndt, updates>>
  BY <1>1, ReplicatedKept, Zenon
<1>2. ASSUME NEW i \in Index, NEW v \in Value, UpdateNdt(i, v) PROVE Replicated'
  BY <1>2, UpdateNdtReplicated, Zenon
<1>3. ASSUME NEW u \in updates, NEW s \in u.todo, UpdateReplica(u, s) PROVE Replicated'
  BY <1>3, UpdateReplicaReplicated, Zenon
<1>4. ASSUME NEW f \in Fwd, Loop(f) PROVE UNCHANGED <<ndt, updates>>
  BY <1>4, Zenon DEF Loop, FwFwd_RxByType, FwFwd_RxInterest, FwFwd_RxData, FwFwd_RxNack, Take
<1>5. ASSUME NEW c \in Crypto, Helper(c) PROVE UNCHANGED <<ndt, updates>>
  BY <1>5, Zenon DEF Helper, FwCrypto_Input, FwCrypto_Output
<1>6. CASE UNCHANGED vars
  BY <1>1, <1>6, Zenon DEF vars
<1>7. QED
  BY <1>1, <1>2, <1>3, <1>4, <1>5, <1>6, Zenon DEF Next, RxInterest, RxReply, Pit_TriggerTimers

\* Interests of one NDT entry are pending at one thread.
LEMMA IInvOneShard == IInv /\ Replicated => OneShard
<1> SUFFICES ASSUME IInv, Replicated PROVE OneShard
  BY Zenon
<1>1. ASSUME NEW f \in Fwd, NEW g \in Fwd, NEW k \in Pending(f), NEW l \in Pending(g),
             f # g, IndexOf[pit[f][k]] = IndexOf[pit[g][l]], IndexOf[pit[f][k]] \notin moved
      PROVE  FALSE
  <2>1. PICK s : s \in Socket
    BY DispatchAssumption, Zenon
  <2>2. Home(pit[f][k], f) /\ Home(pit[g][l], g)
    BY Zenon DEF IInv, Sharded
  <2>3. QED
    BY <1>1, <2>1, <2>2, Zenon DEF Home
<1>2. QED
  BY <1>1, Zenon DEF OneShard, Replicated

\* Whatever the number of updates at a time, Data and Nacks that input threads
\* dispatch by the PIT token come back to the forwarding thread whose Interest they
\* answer, and every packet the data plane took in is in one place or was released
\* (InputDemux_Dispatch, FwFwd_Run, FwCrypto_Run).
THEOREM PacketsFindTheirThread == Spec => [](BackToSender /\ PacketsAccounted)
<1>1. Init => IInv
  BY InitIInv, Zenon
<1>2. IInv /\ [Next]_vars => IInv'
  BY NextIInv, Zenon
<1>3. IInv => BackToSender /\ PacketsAccounted
  BY Zenon DEF IInv
<1>4. QED
  BY <1>1, <1>2, <1>3, PTL DEF Spec

\* When Ndt.Update is not called by two goroutines at a time, moreover Interests
\* with one NDT entry meet in one PIT unless the entry was updated, and the replicas
\* of the NDT are equal whenever no update is in progress.
THEOREM AlwaysDispatched == MaxUpdaters <= 1 => (Spec => []Dispatched)
<1> SUFFICES ASSUME MaxUpdaters <= 1 PROVE Spec => []Dispatched
  BY Zenon
<1>1. Init => IInv /\ Replicated
  BY InitIInv, Zenon
<1>2. (IInv /\ Replicated) /\ [Next]_vars => (IInv /\ Replicated)'
  BY NextIInv, NextReplicated, Zenon
<1>3. IInv /\ Replicated => Dispatched
  BY IInvOneShard, Zenon DEF IInv, Dispatched
<1>4. QED
  BY <1>1, <1>2, <1>3, PTL DEF Spec
=============================================================================

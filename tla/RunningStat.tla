---------------------------- MODULE RunningStat ----------------------------
(* Running statistics (core/runningstat, csrc/core/running-stat.h): mean   *)
(* and variance of a stream of samples without keeping the samples, and    *)
(* how the statistics of several threads are combined and of an interval   *)
(* obtained.  Numbers are exact rationals; rounding is left out.           *)
EXTENDS Integers, Sequences, SequencesExt, FiniteSetsExt

CONSTANTS
    Inputs,     \* what is pushed
    MaxInputs,  \* at most this many for each thread
    SampleBits, \* q: one sample every 2^q inputs
    MinMax      \* enableMinMax

VARIABLES
    stat,   \* the statistics of each thread
    taken   \* history: the samples each thread has taken

vars == <<stat, taken>>
Threads == 1..2

-----------------------------------------------------------------------------
(* Rationals in lowest terms; a zero denominator is NaN.                   *)
Abs(a) == IF a < 0 THEN -a ELSE a
Gcd(a, b) == IF a = 0 THEN b ELSE Max({d \in 1..b : a % d = 0 /\ b % d = 0})
Frac(n, d) == IF d = 0 THEN [n |-> 0, d |-> 0]
              ELSE LET g == Gcd(Abs(n), Abs(d))
                       sg == IF d < 0 THEN -1 ELSE 1
                   IN  [n |-> (sg * n) \div g, d |-> Abs(d) \div g]
NaN == Frac(0, 0)
Int_(a) == Frac(a, 1)
Plus(a, b) == Frac(a.n * b.d + b.n * a.d, a.d * b.d)
Minus(a, b) == Frac(a.n * b.d - b.n * a.d, a.d * b.d)
Times(a, b) == Frac(a.n * b.n, a.d * b.d)
Over(a, b) == Frac(a.n * b.d, IF b.d = 0 THEN 0 ELSE a.d * b.n)

(* DBL_MAX, DBL_MIN: no sample has been compared with yet.  DBL_MIN is the *)
(* least positive double: samples above it are all told apart from it.     *)
DblMax == 1000
DblMin == 0
NoMinMax == -1

-----------------------------------------------------------------------------
Clear(enableMinMax) ==
    [i |-> 0, n |-> 0, m1 |-> Int_(0), m2 |-> Int_(0),
     min |-> IF enableMinMax THEN DblMax ELSE NoMinMax,
     max |-> IF enableMinMax THEN DblMin ELSE NoMinMax]

UpdateMinMax(s, x) ==
    [s EXCEPT !.min = IF s.min < x THEN s.min ELSE x, !.max = IF s.max > x THEN s.max ELSE x]

UpdateM(s, x) ==
    LET delta == Minus(Int_(x), s.m1)
        deltaN == Over(delta, Int_(s.n + 1))
    IN  [s EXCEPT !.n = s.n + 1, !.m1 = Plus(s.m1, deltaN),
                  !.m2 = Plus(s.m2, Times(Times(delta, deltaN), Int_(s.n)))]

(* Push where minimum and maximum are enabled, Push1 elsewhere.            *)
Sampled(s) == (s.i + 1) % (2^SampleBits) = 0
PushStat(s, x) ==
    LET t == [s EXCEPT !.i = s.i + 1]
    IN  IF Sampled(s) THEN UpdateM(IF MinMax THEN UpdateMinMax(t, x) ELSE t, x) ELSE t

-----------------------------------------------------------------------------
(* Snapshots.                                                              *)

Mean(s) == IF s.n = 0 THEN NaN ELSE s.m1
Variance(s) == IF s.n <= 1 THEN NaN ELSE Over(s.m2, Int_(s.n - 1))

LeastOf(a, b) == IF NoMinMax \in {a, b} THEN NoMinMax ELSE IF a < b THEN a ELSE b
MostOf(a, b) == IF NoMinMax \in {a, b} THEN NoMinMax ELSE IF a > b THEN a ELSE b

Add(s, o) ==
    IF s.i = 0 THEN o ELSE IF o.i = 0 THEN s
    ELSE LET aN == Int_(s.n)
             bN == Int_(o.n)
             cN == Int_(s.n + o.n)
             delta == Minus(o.m1, s.m1)
         IN  [i |-> s.i + o.i, n |-> s.n + o.n,
              min |-> LeastOf(s.min, o.min), max |-> MostOf(s.max, o.max),
              m1 |-> Over(Plus(Times(aN, s.m1), Times(bN, o.m1)), cN),
              m2 |-> Plus(Plus(s.m2, o.m2), Over(Times(Times(delta, delta), Times(aN, bN)), cN))]

MutSub(s, o) ==
    LET delta == Minus(o.m1, s.m1)
        cN == Int_(s.n)
        aN == Int_(o.n)
        bN == Int_(s.n - o.n)
    IN  [i |-> s.i - o.i, n |-> s.n - o.n, min |-> NoMinMax, max |-> NoMinMax,
         m1 |-> Over(Minus(Times(cN, s.m1), Times(aN, o.m1)), bN),
         m2 |-> Minus(Minus(s.m2, o.m2), Over(Times(Times(delta, delta), Times(aN, bN)), cN))]
Sub(s, o) ==
    LET cN == Int_(s.n)
        aN == Int_(o.n)
        bN == Int_(s.n - o.n)
        m1 == Over(Minus(Times(cN, s.m1), Times(aN, o.m1)), bN)
        delta == Minus(o.m1, m1)
    IN  [i |-> s.i - o.i, n |-> s.n - o.n, min |-> NoMinMax, max |-> NoMinMax, m1 |-> m1,
         m2 |-> Minus(Minus(s.m2, o.m2), Over(Times(Times(delta, delta), Times(aN, bN)), cN))]

(* Scale by an integer ratio, such as nanoseconds per TSC tick.            *)
ScaleBy(s, ratio) ==
    [s EXCEPT !.min = IF s.min = NoMinMax THEN NoMinMax ELSE s.min * ratio,
              !.max = IF s.max = NoMinMax THEN NoMinMax ELSE s.max * ratio,
              !.m1 = Times(s.m1, Int_(ratio)), !.m2 = Times(s.m2, Int_(ratio * ratio))]

(* To JSON and back: a minimum or maximum that is NaN is left out and read *)
(* back as NaN, a NaN in m1 or m2 is an error.                             *)
MarshalJSON(s) == [ok |-> NaN \notin {s.m1, s.m2},
                   count |-> s.i, len |-> s.n, m1 |-> s.m1, m2 |-> s.m2,
                   min |-> IF s.n = 0 THEN NoMinMax ELSE s.min,
                   max |-> IF s.n = 0 THEN NoMinMax ELSE s.max]
UnmarshalJSON(j) == [i |-> j.count, n |-> j.len, m1 |-> j.m1, m2 |-> j.m2, min |-> j.min, max |-> j.max]

-----------------------------------------------------------------------------
Init ==
    /\ stat = [t \in Threads |-> Clear(MinMax)]
    /\ taken = [t \in Threads |-> <<>>]

Push(t, x) ==
    /\ stat[t].i < MaxInputs
    /\ stat' = [stat EXCEPT ![t] = PushStat(stat[t], x)]
    /\ taken' = [taken EXCEPT ![t] = IF Sampled(stat[t]) THEN Append(taken[t], x) ELSE taken[t]]

Next == \E t \in Threads, x \in Inputs : Push(t, x)
Spec == Init /\ [][Next]_vars

-----------------------------------------------------------------------------
(* The textbook definitions, over all the samples.                         *)
MeanOf(q) == Frac(FoldSeq(LAMBDA x, acc : acc + x, 0, q), Len(q))
SquaresOf(q) ==
    FoldSeq(LAMBDA x, acc : Plus(acc, Times(Minus(Int_(x), MeanOf(q)), Minus(Int_(x), MeanOf(q)))), Int_(0), q)
Describes(s, q) ==
    /\ s.n = Len(q)
    /\ Mean(s) = MeanOf(q)
    /\ Variance(s) = IF Len(q) <= 1 THEN NaN ELSE Over(SquaresOf(q), Int_(Len(q) - 1))

(* Statistics of two threads added (Snapshot.Add) are those of all their   *)
(* samples, and taking those of one thread away again (Snapshot.Sub)       *)
(* leaves those of the other, whatever the order and however uneven the    *)
(* numbers of samples; scaling and the way through JSON keep them.  With   *)
(* minimum and maximum enabled, these are of all samples as well.          *)
StatsExact ==
    LET a == stat[1]
        b == stat[2]
        sum == Add(a, b)
        q == taken[1] \o taken[2]
    IN  /\ Describes(a, taken[1])
        /\ Len(q) > 0 =>
             /\ Describes(sum, q) /\ MarshalJSON(sum).ok /\ Describes(UnmarshalJSON(MarshalJSON(sum)), q)
             /\ Describes(ScaleBy(sum, 3), [k \in DOMAIN q |-> 3 * q[k]])
             /\ b.n > 0 => Describes(Sub(sum, a), taken[2])
             /\ MinMax => sum.min = Min(Range(q)) /\ sum.max = Max(Range(q))
=============================================================================

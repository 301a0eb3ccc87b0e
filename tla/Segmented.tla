----------------------------- MODULE Segmented -----------------------------
(***************************************************************************)
(* Package ndn/segmented: a fetcher retrieves an object, segment after     *)
(* segment, from a server, over a forwarder that loses, delays, reorders   *)
(* and duplicates.  Fetching is three goroutines joined by unbuffered      *)
(* channels: Unordered, Ordered, and Payload.                              *)
(*                                                                         *)
(* A chunk is the pair of its offset and length in the object.  The        *)
(* congestion window and the retransmission timer, which are computed in   *)
(* floating point, take any value the algorithms can give.                 *)
(***************************************************************************)
EXTENDS Integers, Sequences, FiniteSets, SequencesExt, FiniteSetsExt

CONSTANTS Sizes,         \* sizes of the objects served
          ChunkSize,
          SegmentBegin,
          SegmentEnds,   \* values of SegmentEnd
          RetxLimit,
          MaxCwnd

None == -1
NoFinal == 1000          \* math.MaxUint64

VARIABLES size, seekable,       \* the source
          segmentEnd,
          interests, datas,     \* in the network
          st,                   \* Unordered: "select", "emit", "nil" or "error"
          segNext, segLast, pendings, retxQ, finalBlock, count,
          held,                 \* Data Unordered is writing to its channel
          next, buffer, output, \* Ordered and Payload
          result,               \* Payload returns: "none", "nil" or "error"
          failedOn              \* segment of the error

vars == <<size, seekable, segmentEnd, interests, datas, st, segNext, segLast, pendings, retxQ, finalBlock, count,
          held, next, buffer, output, result, failedOn>>
source == <<size, seekable, segmentEnd>>
ordering == <<next, buffer, output, result>>

Init == /\ size \in Sizes /\ seekable \in BOOLEAN /\ segmentEnd \in SegmentEnds
        /\ interests = {} /\ datas = {}
        /\ st = "select" /\ segNext = SegmentBegin /\ segLast = segmentEnd - 1
        /\ pendings = <<>> /\ retxQ = <<>> /\ finalBlock = NoFinal /\ count = 0 /\ held = <<>>
        /\ next = SegmentBegin /\ buffer = {} /\ output = <<>> /\ result = "none" /\ failedOn = None

----------------------------------------------------------------------------
(* Serve. *)

(* lastSeg of a seekable source; of an empty one it underflows. *)
ServeFinalBlock ==
    IF ~seekable THEN None
    ELSE IF size = 0 THEN NoFinal
    ELSE size \div ChunkSize - 1 + (IF size % ChunkSize # 0 THEN 1 ELSE 0)

(* The handler reads one octet past the chunk; nothing read past the first *)
(* segment is io.EOF, and gets no answer.                                  *)
Handler(seg) ==
    LET n == Max({0, Min({ChunkSize + 1, size - seg * ChunkSize})})
        Data(len, final) == {[seg |-> seg, off |-> seg * ChunkSize, len |-> len, final |-> final]}
    IN CASE n = 0             -> IF seg = 0 THEN Data(0, seg) ELSE {}
         [] n = ChunkSize + 1 -> Data(ChunkSize, ServeFinalBlock)
         [] OTHER             -> Data(n, seg)

Serve(seg) ==
    /\ seg \in interests
    /\ datas' = datas \cup Handler(seg)
    /\ interests' = interests \ {seg}
    /\ UNCHANGED <<source, st, segNext, segLast, pendings, retxQ, finalBlock, count, held, ordering, failedOn>>

----------------------------------------------------------------------------
(* Unordered. *)

(* cubic.Cwnd is two or more, whatever Increase and Decrease were told. *)
Cwnd == 2 .. MaxCwnd

Without(f, s) == [x \in DOMAIN f \ {s} |-> f[x]]

(* For every pending segment: one past the last is forgotten, one of the   *)
(* expired goes to the end of retxQ, in the order of map iteration.        *)
InLast(last, p) == [s \in {x \in DOMAIN p : x <= last} |-> p[s]]

Scan(last, p, q, expired) == [p |-> InLast(last, p), q |-> SelectSeq(q, LAMBDA s : s <= last) \o expired]

(* The timers that may have run out: of segments not waiting to be sent. *)
Expirable(last, p, q) == {s \in DOMAIN InLast(last, p) : s \notin ToSet(q)}

(* After the select: the scan, then at most one Interest; face.Send may    *)
(* find its channel full and drop it.                                      *)
Request(last, p, q, cwnd) ==
    LET Send(s) == interests' \in {interests, interests \cup {s}}
        NoSend  == UNCHANGED interests
    IN CASE Cardinality(DOMAIN p) - Len(q) >= cwnd ->
                /\ pendings' = p /\ retxQ' = q /\ st' = "select" /\ NoSend /\ UNCHANGED segNext
         [] Cardinality(DOMAIN p) - Len(q) < cwnd /\ q # <<>> ->
                /\ pendings' = [p EXCEPT ![Head(q)] = @ + 1] /\ retxQ' = Tail(q)
                /\ st' = "select" /\ Send(Head(q)) /\ UNCHANGED segNext
         [] Cardinality(DOMAIN p) - Len(q) < cwnd /\ q = <<>> /\ segNext <= last ->
                /\ pendings' = [s \in DOMAIN p \cup {segNext} |-> IF s = segNext THEN 0 ELSE p[s]] /\ retxQ' = q
                /\ segNext' = segNext + 1 /\ st' = "select" /\ Send(segNext)
         [] OTHER ->
                /\ pendings' = p /\ retxQ' = q /\ NoSend /\ UNCHANGED segNext
                /\ st' = IF p = <<>> THEN "nil" ELSE "select"

MutIterate(p, q, expired, cwnd) ==
    LET over == {s \in ToSet(expired) : p[s] >= RetxLimit}
        seen == Scan(segLast, p, q, expired)
    IN IF over # {}
       THEN /\ st' = "error" /\ failedOn' \in over
            /\ pendings' = p /\ retxQ' = q /\ UNCHANGED <<segNext, interests>>
       ELSE UNCHANGED failedOn /\ Request(segLast, seen.p, seen.q, cwnd - Len(seen.q))

Iterate(p, q, expired, cwnd) ==
    LET over == {s \in ToSet(expired) : p[s] >= RetxLimit}
        seen == Scan(segLast, p, q, expired)
    IN IF over # {}
       THEN /\ st' = "error" /\ failedOn' \in over
            /\ pendings' = p /\ retxQ' = q /\ UNCHANGED <<segNext, interests>>
       ELSE UNCHANGED failedOn /\ Request(segLast, seen.p, seen.q, cwnd)

Expirations(p, q) == UNION {SetToSeqs(E) : E \in SUBSET Expirable(segLast, p, q)}

(* One turn of the loop with the ticker... *)
Tick(expired) ==
    /\ st = "select"
    /\ \E cwnd \in Cwnd : Iterate(pendings, retxQ, expired, cwnd)
    /\ UNCHANGED <<source, datas, segLast, finalBlock, count, held, ordering>>

(* ...with a packet of no use (a Nack, a Data that fails verification or   *)
(* is not pending)...                                                      *)
RxIgnored(d, again) ==
    /\ st = "select" /\ d \in datas /\ d.seg \notin DOMAIN pendings
    /\ datas' = IF again THEN datas ELSE datas \ {d}
    /\ \E x \in Expirations(pendings, retxQ), cwnd \in Cwnd : Iterate(pendings, retxQ, x, cwnd)
    /\ UNCHANGED <<source, segLast, finalBlock, count, held, ordering>>

(* ...or with a Data that is pending, up to writing it to the channel...   *)
Rx(d, again) ==
    /\ st = "select" /\ d \in datas /\ d.seg \in DOMAIN pendings
    /\ datas' = IF again THEN datas ELSE datas \ {d}
    /\ finalBlock' = IF d.final = None THEN finalBlock ELSE d.final + 1
    /\ segLast' = IF d.final = d.seg THEN d.seg ELSE segLast
    /\ count' = count + 1
    /\ held' = <<d>> /\ st' = "emit"
    /\ UNCHANGED <<source, interests, segNext, pendings, retxQ, ordering, failedOn>>

(* Ordered: a segment out of turn is kept; one in turn goes to Payload,    *)
(* with those behind it that are kept.                                     *)
Deliver(d) ==
    IF d.seg < next THEN UNCHANGED <<next, buffer, output>>
    ELSE IF d.seg > next THEN /\ buffer' = {x \in buffer : x.seg # d.seg} \cup {d}
                              /\ UNCHANGED <<next, output>>
    ELSE LET run  == CHOOSE n \in 0 .. Cardinality(buffer) :
                       /\ \A k \in 1 .. n : \E x \in buffer : x.seg = next + k
                       /\ \A x \in buffer : x.seg # next + n + 1
             at(k) == CHOOSE x \in buffer : x.seg = next + k
         IN /\ next' = next + 1 + run
            /\ output' = output \o <<d>> \o [k \in 1 .. run |-> at(k)]
            /\ buffer' = {x \in buffer : x.seg > next + run}

(* ...and from there: Ordered reads it, and the turn goes on. *)
Emit ==
    /\ st = "emit"
    /\ Deliver(held[1])
    /\ held' = <<>>
    /\ LET p == Without(pendings, held[1].seg)  q == SelectSeq(retxQ, LAMBDA s : s # held[1].seg)
       IN \E x \in Expirations(p, q), cwnd \in Cwnd : Iterate(p, q, x, cwnd)
    /\ UNCHANGED <<source, datas, segLast, finalBlock, count, result>>

(* The caller's context ends. *)
Cancel ==
    /\ st = "select"
    /\ st' = "error"
    /\ UNCHANGED <<source, interests, datas, segNext, segLast, pendings, retxQ, finalBlock, count, held, ordering, failedOn>>

(* Unordered closed its channel: Ordered, Chunks and Payload return. *)
Finish ==
    /\ st \in {"nil", "error"} /\ result = "none"
    /\ result' = IF st = "error" \/ buffer # {} THEN "error" ELSE "nil"
    /\ UNCHANGED <<source, interests, datas, st, segNext, segLast, pendings, retxQ, finalBlock, count, held,
                   next, buffer, output, failedOn>>

Done == result # "none" /\ UNCHANGED vars

Next == \/ \E s \in interests : Serve(s)
        \/ \E x \in Expirations(pendings, retxQ) : Tick(x)
        \/ \E d \in datas, again \in BOOLEAN : RxIgnored(d, again) \/ Rx(d, again)
        \/ Emit \/ Cancel \/ Finish \/ Done

(* The ticker makes the loop turn, and in some turn the timer of each      *)
(* segment that is waiting for its Data has run out.                       *)
TurnExpiring(s) == \E x \in Expirations(pendings, retxQ) : s \in ToSet(x) /\ Tick(x)
Turn == \E x \in Expirations(pendings, retxQ) : Tick(x)

Segments == SegmentBegin .. Max(SegmentEnds)

Spec == /\ Init /\ [][Next]_vars
        /\ WF_vars(Turn) /\ WF_vars(Emit) /\ WF_vars(Finish)
        /\ \A s \in Segments : WF_vars(TurnExpiring(s))

----------------------------------------------------------------------------
(* The last segment there is, and the last the caller asked for. *)
LastSegment == Min({segmentEnd - 1, IF size = 0 THEN 0 ELSE (size - 1) \div ChunkSize})

(* However segments arrive, what Payload has so far is the beginning of    *)
(* the object from SegmentBegin on, without a gap or a repetition; and     *)
(* when it returns no error, it is the object to the last segment asked    *)
(* for, every octet of it.                                                 *)
PayloadExact ==
    /\ \A k \in DOMAIN output : output[k].off = (SegmentBegin + k - 1) * ChunkSize
    /\ \A k \in DOMAIN output : k > 1 => output[k].off = output[k - 1].off + output[k - 1].len
    /\ result = "nil" => /\ Len(output) = LastSegment - SegmentBegin + 1
                         /\ output[Len(output)].off + output[Len(output)].len = Min({size, segmentEnd * ChunkSize})

(* "Data FinalBlock field is always respected": a segment past the final   *)
(* block that some Data already announced is not what the fetch fails on.  *)
(* Not so: those in flight are sent again until they run out of tries.     *)
FinalBlockRespected == failedOn # None => failedOn < finalBlock
============================================================================

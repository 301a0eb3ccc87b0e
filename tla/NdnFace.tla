------------------------------ MODULE NdnFace ------------------------------
(***************************************************************************)
(* Package ndn/l3, type face, over the NDNLPv2 fragmenter and reassembler  *)
(* of package ndn: packets written to Tx of one face reach the Rx channel  *)
(* of the face at the other end of a link that loses, duplicates and       *)
(* reorders frames.                                                        *)
(***************************************************************************)
EXTENDS NdnPacket

CONSTANTS MTU,                  \* Transport.MTU, 0 when unlimited
          ReassemblerCapacity,
          Workloads,            \* sets of packets, one of which is sent
          FirstSeqNums,         \* where rand.Uint64 may start the sequence
          RandomNonce,          \* what Interest.Field draws for a missing Nonce
          Verifiers,            \* public keys a receiver may check with
          Objects,              \* metadata of objects that can be discovered
          Listings              \* directory listings among their payloads

VARIABLES toSend,       \* packets not yet written to Tx
          sent,         \* packets that were
          nextSeqNum,   \* LpFragmenter
          link,         \* frames in flight
          pms,          \* LpReassembler: partial packets, least recent first
          delivered     \* packets read from Rx

vars == <<toSend, sent, nextSeqNum, link, pms, delivered>>

----------------------------------------------------------------------------
(* The fragmenter. *)

fragmentOverhead ==
    VarNumSize(Tt.LpPacket) + 3 + VarNumSize(Tt.LpSeqNum) + 1 + 8
    + VarNumSize(Tt.FragIndex) + 1 + 2 + VarNumSize(Tt.FragCount) + 1 + 2 + VarNumSize(Tt.LpPayload) + 3

room == MTU - fragmentOverhead

(* Offsets where a fragment of the payload starts, the first one shortened *)
(* by the header it carries.                                               *)
Offsets(first, size) == <<0>> \o [k \in 1 .. (size - first + room - 1) \div room |-> first + (k - 1) * room]

FragmentL3(full, seqNum, l3) ==
    LET first   == room - Len(l3.header)
        size    == Len(l3.payload)
        offsets == Offsets(first, size)
        n       == Len(offsets)
        end(k)  == IF k = n THEN size ELSE offsets[k + 1]
    IN CASE l3.e # "nil" -> [e |-> l3.e, frags |-> <<>>]
         [] l3.e = "nil" /\ first > size -> [e |-> "nil", frags |-> <<full>>]
         [] l3.e = "nil" /\ first <= size /\ first <= 0 -> [e |-> "ErrFragment", frags |-> <<>>]
         [] OTHER -> [e |-> "nil",
                      frags |-> [k \in 1 .. n |->
                         [Packet EXCEPT !.lp = IF k = 1 THEN full.lp ELSE @,
                                        !.fragment = <<[seqNum    |-> (seqNum + k - 1) % (MaxUint64 + 1),
                                                        fragIndex |-> k - 1, fragCount |-> n,
                                                        header    |-> IF k = 1 THEN l3.header ELSE <<>>,
                                                        payload   |-> SubSeq(l3.payload, offsets[k] + 1, end(k))]>>]]]

DoFragment(full, seqNum) == FragmentL3(full, seqNum, encodeL3(full, RandomNonce))

Frames(pkt) == IF MTU = 0 THEN [e |-> "nil", frags |-> <<pkt>>] ELSE DoFragment(pkt, nextSeqNum)

Wires(frags) == {f.b : f \in {g \in {PacketField(frags[k], RandomNonce) : k \in DOMAIN frags} : g.e = "nil"}}

----------------------------------------------------------------------------
(* The reassembler: an LRU of partial packets by first sequence number.    *)

PartialPacket(seq0, count) == [seq0 |-> seq0, lpl3 |-> LpL3, count |-> count, buffer |-> <<>>]

(* acceptOne, over buffer as a function from the indices filled so far. *)
acceptOne(pp, pkt) ==
    LET f == pkt.fragment[1]
    IN [pp EXCEPT !.lpl3 = IF f.fragIndex = 0 THEN pkt.lp ELSE @,
                  !.buffer = [k \in DOMAIN @ \cup {f.fragIndex} |-> IF k = f.fragIndex THEN f.payload ELSE @[k]]]

reassemble(pp) ==
    decodePayload([Packet EXCEPT !.lp = pp.lpl3], FlattenSeq([k \in 1 .. pp.count |-> pp.buffer[k - 1]]))

(* Accept: the new LRU, and the packet completed if any. *)
ReassemblerAccept(pkt) ==
    LET f    == pkt.fragment[1]
        seq0 == (f.seqNum - f.fragIndex) % (MaxUint64 + 1)
        had  == SelectSeq(pms, LAMBDA p : p.seq0 = seq0)
        rest == SelectSeq(pms, LAMBDA p : p.seq0 # seq0)
        room1 == IF had = <<>> /\ Len(rest) = ReassemblerCapacity THEN Tail(rest) ELSE rest
        pp   == IF had = <<>> THEN PartialPacket(seq0, f.fragCount) ELSE had[1]
        now  == acceptOne(pp, pkt)
        Complete(full) == IF full.e = "nil" THEN <<full.v>> ELSE <<>>
    IN CASE pp.count # f.fragCount         -> [pms |-> rest, full |-> <<>>]
         [] f.fragIndex \in DOMAIN pp.buffer -> [pms |-> Append(room1, pp), full |-> <<>>]
         [] had # <<>> /\ Cardinality(DOMAIN now.buffer) = now.count ->
              [pms |-> rest, full |-> Complete(reassemble(now))]
         [] OTHER -> [pms |-> Append(room1, now), full |-> <<>>]

----------------------------------------------------------------------------
Init == /\ toSend \in Workloads
        /\ sent = {}
        /\ nextSeqNum \in FirstSeqNums
        /\ link = {}
        /\ pms = <<>>
        /\ delivered = {}

(* txLoop: one packet, all its frames. *)
Transmit(pkt, frames) ==
    /\ toSend' = toSend \ {pkt}
    /\ sent' = sent \cup {pkt}
    /\ nextSeqNum' = IF frames.e = "nil" /\ frames.frags # <<pkt>>
                     THEN (nextSeqNum + Len(frames.frags)) % (MaxUint64 + 1) ELSE nextSeqNum
    /\ link' = link \cup Wires(frames.frags)
    /\ UNCHANGED <<pms, delivered>>

txLoop(pkt) == Transmit(pkt, Frames(pkt))

(* rxLoop: one frame, of which a copy may stay on the link. *)
Accepted(acc) == pms' = acc.pms /\ delivered' = delivered \cup ToSet(acc.full)

Receive(wire, again, pkt) ==
    /\ link' = IF again THEN link ELSE link \ {wire}
    /\ CASE pkt.e # "nil"           -> UNCHANGED <<pms, delivered>>
         [] pkt.e = "nil" /\ pkt.v.fragment = <<>> -> /\ delivered' = delivered \cup {pkt.v}
                                                      /\ UNCHANGED pms
         [] OTHER                    -> Accepted(ReassemblerAccept(pkt.v))
    /\ UNCHANGED <<toSend, sent, nextSeqNum>>

rxLoop(wire, again) == Receive(wire, again, PacketDecode(wire))

Lose(wire) == /\ link' = link \ {wire}
              /\ UNCHANGED <<toSend, sent, nextSeqNum, pms, delivered>>

Next == \/ \E pkt \in toSend : txLoop(pkt)
        \/ \E wire \in link, again \in BOOLEAN : rxLoop(wire, again)
        \/ \E wire \in link : Lose(wire)

Spec == Init /\ [][Next]_vars

----------------------------------------------------------------------------
(* What a packet means to whoever reads it: times in whole milliseconds,   *)
(* defaults applied, a missing signature the null one.                     *)

WholeMs(t) == (t \div Millisecond) * Millisecond

InterestMeaning(i) == [ApplyDefaultLifetime(i) EXCEPT !.nonce = IF @ = ZeroNonce THEN RandomNonce ELSE @,
                                                      !.lifetime = WholeMs(@)]

DataMeaning(d) == [d EXCEPT !.freshness = WholeMs(@), !.l3SigValueOffset = 0,
                            !.sigInfo = IF @ = <<>> THEN <<SigInfo(SigNull)>> ELSE @]

Each(opt, Meaning(_)) == [k \in DOMAIN opt |-> Meaning(opt[k])]

PacketMeaning(p) ==
    [token |-> p.lp.pitToken, mark |-> p.lp.congMark,
     interest |-> Each(p.interest, InterestMeaning), data |-> Each(p.data, DataMeaning),
     nack |-> Each(p.nack, LAMBDA n : [reason |-> n.reason, interest |-> InterestMeaning(n.interest)])]

(* Everything read from Rx of l3 face was written to Tx of its peer: no    *)
(* interleaving of loss, duplication and reordering makes the reassembler  *)
(* of ndn/lp.go join fragments of two packets, complete a packet with a    *)
(* fragment missing, or lose the PIT token or congestion mark that only    *)
(* the first fragment carries.  And no frame exceeds the transport's MTU.  *)
DeliveredWasSent ==
    /\ \A p \in delivered : \E q \in sent : PacketMeaning(p) = PacketMeaning(q)
    /\ MTU > 0 => \A wire \in link : Len(wire) <= MTU

----------------------------------------------------------------------------
Quiet == toSend = {} /\ link = {}

Verify(p, v) == IF p.data # <<>> THEN DataVerify(p, v) ELSE InterestVerify(p.interest[1], v)

Signed(p) == \E v \in Verifiers : p.nack = <<>> /\ Verify(p, v) = "nil"

SignedContent(p) ==
    IF p.data # <<>> THEN [DataMeaning(p.data[1]) EXCEPT !.sigValue = <<>>]
    ELSE [Interest EXCEPT !.name = GetPrefix(p.interest[1].name, -1), !.sigInfo = p.interest[1].sigInfo,
                          !.appParameters = p.interest[1].appParameters]

SameKind(p, q) == (p.data = <<>>) = (q.data = <<>>) /\ p.nack = <<>> /\ q.nack = <<>>

(* A receiver's Verify reaches the sender's verdict with every key,        *)
(* although the sender hashes the fields of a Data and the receiver the    *)
(* bytes before its SigValue; and if one byte of a signed packet changes   *)
(* on the way, either decoding fails, or verification does, or what the    *)
(* signature covers is the same.  A self-signed certificate verifies with  *)
(* the key that CertFromData finds in it.                                  *)
Authentic ==
    Quiet => \A p \in delivered :
      /\ p.data # <<>> /\ p.data[1].contentType = ContentKey =>
           LET cert == CertFromData(p) IN cert.e = "nil" /\ DataVerify(p, cert.key) = "nil"
      /\ \E q \in sent : /\ PacketMeaning(p) = PacketMeaning(q)
                         /\ p.nack = <<>> => \A v \in Verifiers : Verify(p, v) = Verify(q, v)
      /\ Signed(p) => \A k \in DOMAIN p.l3value :
           LET q == decodeL3(Packet, p.l3type, [p.l3value EXCEPT ![k] = IF @ = 0 THEN 1 ELSE @ - 1])
           IN q.e = "nil" => \/ \A v \in Verifiers : Verify(q.v, v) # "nil"
                             \/ SameKind(p, q.v) /\ SignedContent(q.v) = SignedContent(p)

----------------------------------------------------------------------------
(* Where an element of a packet's value may be inserted. *)
Boundaries(value) == {Len(value) - Len(de.wire) : de \in ToSet(Elements(value).list)} \cup {Len(value)}

Inserted(value, at, type) == SubSeq(value, 1, at) \o TLVBytes(type, <<5>>).b \o From(value, at + 1)

(* Evolvability: an unrecognised element between the fields of an Interest *)
(* or a Data leaves what the decoder reads unchanged if its type is        *)
(* non-critical, and makes it refuse the packet if critical; only among    *)
(* the parameters of an Interest, which a digest covers, is a non-critical *)
(* one refused too.                                                        *)
Evolvable ==
    Quiet => \A p \in delivered : \A at \in Boundaries(p.l3value) :
      LET ignored == decodeL3([Packet EXCEPT !.lp = p.lp], p.l3type, Inserted(p.l3value, at, 102))
          refused == decodeL3([Packet EXCEPT !.lp = p.lp], p.l3type, Inserted(p.l3value, at, 103))
          params  == {Len(p.l3value) - Len(de.wire) : de \in
                         {x \in ToSet(Elements(p.l3value).list) : x.type = Tt.AppParameters}}
      IN /\ refused.e # "nil"
         /\ ignored.e = IF p.data = <<>> /\ \E q \in params : at > q THEN "ErrParamsDigest" ELSE "nil"
         /\ ignored.e = "nil" => PacketMeaning(ignored.v) = PacketMeaning(p)

----------------------------------------------------------------------------
(* CanSatisfy is the protocol's matching rule: an Interest asks for the    *)
(* Data of exactly its name or its full name, or with CanBePrefix of any   *)
(* name it is a prefix of; and MustBeFresh asks for a FreshnessPeriod that *)
(* survived encoding.                                                      *)
Satisfies ==
    \A p, q \in delivered : p.interest # <<>> /\ q.data # <<>> =>
        LET i == p.interest[1]  d == q.data[1]
            full == Append(d.name, Comp(Tt.ImplicitSha256DigestComponent, Sum256(TLVBytes(Tt.Data, q.l3value).b)))
        IN CanSatisfy(q, i) <=>
             /\ i.name # <<>>
             /\ i.mustBeFresh => d.freshness > 0
             /\ i.name \in {d.name, full} \/ (i.canBePrefix /\ i.name # full /\ IsPrefix(i.name, d.name))

----------------------------------------------------------------------------
(* What RetrieveMetadata returns for an object's metadata packet is that   *)
(* metadata, however many of its fields are missing, also when a newer     *)
(* server put a field it does not know, or a second Name, anywhere behind  *)
(* the first; the packet answers the discovery Interest for the object;    *)
(* and the listing of a directory decodes to its entries.                  *)
MetadataArrives ==
    /\ \A p \in delivered : p.data # <<>> /\ CompCompare(NameGet(p.data[1].name, -2), KeywordMetadata) = 0 =>
         \E m \in Objects :
           /\ p.data[1].content = MetadataMarshal(m).b
           /\ RetrieveMetadata(p.data[1]).v = m
           /\ IsDiscoveryInterest(MakeDiscoveryInterest(m.name)) /\ ~(IsFile(m) /\ IsDir(m))
           /\ CanSatisfy(p, MakeDiscoveryInterest(m.name))
           /\ \A at \in Boundaries(p.data[1].content) \ {0}, type \in {Tt.Name, 102, 103} :
                LET more == MetadataUnmarshal(Inserted(p.data[1].content, at, type))
                IN more.e = "nil" /\ more.v = m
    /\ \A p \in delivered : p.data # <<>> /\ CompCompare(NameGet(p.data[1].name, -1), KeywordLs) = 0 =>
         LET ls == ListingUnmarshal(p.data[1].content) IN ls.e = "nil" /\ ls.v \in Listings
============================================================================

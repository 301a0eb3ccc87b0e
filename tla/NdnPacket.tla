----------------------------- MODULE NdnPacket -----------------------------
(***************************************************************************)
(* Package ndn/tlv: NDN Type-Length-Value encoding, byte for byte.  A byte *)
(* has Base values, 256 in the code; a smaller Base makes every size form  *)
(* of a number reachable with small numbers.  A Go (value, error) pair is  *)
(* a record whose field e is "nil" or the name of the error.               *)
(*                                                                         *)
(* Package ndn: names, Interest, Data, Nack, their signatures, and the     *)
(* NDNLPv2 header around them, as encoders and decoders.  An optional      *)
(* value (a pointer that may be nil) is a sequence of at most one element. *)
(* A duration counts half milliseconds, the code nanoseconds.              *)
(*                                                                         *)
(* What Data packets carry.  Package ndn/keychain: key and certificate     *)
(* names, named keys, validity periods and certificates, and VerifyWith of *)
(* Interest and Data.  Packages ndn/rdr and ndn/rdr/ndn6file: discovery of *)
(* the latest version of an object through a metadata packet, its          *)
(* extension for files, and directory listings.                            *)
(***************************************************************************)
EXTENDS Integers, Sequences, SequencesExt, FiniteSets

CONSTANTS Base,
          ZoneOffset   \* seconds the local clock is ahead of UTC

ASSUME BaseAssumption == Base \in Nat /\ Base >= 4

MaxUint8  == Base - 1
MaxUint16 == Base ^ 2 - 1
MaxUint32 == Base ^ 4 - 1
MaxUint64 == Base ^ 8 - 1
MaxInt32  == Base ^ 4 \div 2 - 1
MaxInt64  == Base ^ 8 \div 2 - 1

From(b, i) == SubSeq(b, i, Len(b))

BigEndian(n, width) == [i \in 1 .. width |-> (n \div Base ^ (width - i)) % Base]
Number(b) == LET n[k \in 0 .. Len(b)] == IF k = 0 THEN 0 ELSE n[k - 1] * Base + b[k] IN n[Len(b)]

----------------------------------------------------------------------------
(* NNI: a non-negative integer in 1, 2, 4 or 8 bytes. *)

NNISize(n) == CASE n <= MaxUint8  -> 1
                [] n <= MaxUint16 -> 2
                [] n <= MaxUint32 -> 4
                [] OTHER          -> 8

NNIEncode(n) == BigEndian(n, NNISize(n))

NNIUnmarshal(b) == IF Len(b) \in {1, 2, 4, 8} THEN [e |-> "nil", v |-> Number(b)]
                                              ELSE [e |-> "ErrIncomplete", v |-> 0]

(* UnmarshalNNI: the range check on top. *)
UnmarshalNNI(b, max, rangeErr) ==
    LET n == NNIUnmarshal(b)
    IN IF n.e = "nil" /\ n.v > max THEN [e |-> rangeErr, v |-> 0] ELSE n

----------------------------------------------------------------------------
(* VarNum: TLV-TYPE or TLV-LENGTH; the last three byte values announce the *)
(* 3, 5 and 9 byte forms.                                                  *)

VarNumSize(n) == CASE n < Base - 3   -> 1
                   [] n <= MaxUint16 -> 3
                   [] n <= MaxUint32 -> 5
                   [] OTHER          -> 9

Marker(size) == CASE size = 3 -> Base - 3 [] size = 5 -> Base - 2 [] size = 9 -> Base - 1

VarNumEncode(n) ==
    LET size == VarNumSize(n)
    IN IF size = 1 THEN <<n>> ELSE <<Marker(size)>> \o BigEndian(n, size - 1)

VarNumDecode(wire) ==
    LET size == CASE wire = <<>>           -> 1
                  [] wire[1] < Base - 3    -> 1
                  [] wire[1] = Base - 3    -> 3
                  [] wire[1] = Base - 2    -> 5
                  [] OTHER                 -> 9
    IN IF Len(wire) < size THEN [e |-> "ErrIncomplete", v |-> 0, rest |-> <<>>]
       ELSE [e    |-> "nil",
             v    |-> IF size = 1 THEN wire[1] ELSE Number(SubSeq(wire, 2, size)),
             rest |-> From(wire, size + 1)]

----------------------------------------------------------------------------
(* One element off the front of a buffer.  int(length) is a signed         *)
(* conversion: a length above MaxInt64 passes the comparison and the slice *)
(* expression after it panics.                                             *)

ElementOf(wire, typ, length) ==
    LET asInt  == IF length.v > MaxInt64 THEN length.v - Base ^ 8 ELSE length.v
        err    == CASE typ.e # "nil"                           -> typ.e
                    [] typ.v < 1 \/ typ.v > MaxUint32          -> "ErrType"
                    [] length.e # "nil"                        -> length.e
                    [] Len(length.rest) < asInt                -> "ErrIncomplete"
                    [] asInt < 0                               -> "panic"
                    [] OTHER                                   -> "nil"
    IN IF err # "nil" THEN [e |-> err]
       ELSE [e |-> "nil", type |-> typ.v, value |-> SubSeq(length.rest, 1, length.v),
             wire |-> wire, after |-> From(length.rest, length.v + 1)]

ElementFrom(wire, typ) == ElementOf(wire, typ, VarNumDecode(typ.rest))
ElementDecode(wire)    == ElementFrom(wire, VarNumDecode(wire))

(* DecodingBuffer.Elements: every element up to the first that is not one; *)
(* what is left over is the tail ErrUnlessEOF complains about.             *)
RECURSIVE Elements(_)
Before(de, more) == [list |-> <<de>> \o more.list, tail |-> more.tail]
ElementsFrom(wire, de) ==
    IF de.e # "nil" THEN [list |-> <<>>, tail |-> wire] ELSE Before(de, Elements(de.after))
Elements(wire) == ElementsFrom(wire, ElementDecode(wire))

ErrUnlessEOF(tail) == IF tail = <<>> THEN "nil" ELSE "ErrTail"

IsCriticalType(type) == type <= 31 \/ type % 2 = 1

(* The decoders are folds over Elements: Recognize(acc, de) handles one    *)
(* element, and an accumulator with an error returns early.  They end by   *)
(* asking that nothing of the buffer is left, some after a check of what   *)
(* was read.                                                               *)
Recognized(list, Recognize(_, _), zero) ==
    LET acc[k \in 0 .. Len(list)] ==
            IF k = 0 THEN zero
            ELSE IF acc[k - 1].e = "nil" THEN Recognize(acc[k - 1], list[k]) ELSE acc[k - 1]
    IN acc[Len(list)]

AtEOF(acc, tail) == IF acc.e = "nil" THEN [acc EXCEPT !.e = ErrUnlessEOF(tail)] ELSE acc

Finish(acc, Check(_), tail) ==
    IF acc.e = "nil" /\ Check(acc) # "nil" THEN [acc EXCEPT !.e = Check(acc)] ELSE AtEOF(acc, tail)

DecodeElements(es, Recognize(_, _), zero, Check(_)) ==
    Finish(Recognized(es.list, Recognize, zero), Check, es.tail)

DecodeChecked(wire, Recognize(_, _), zero, Check(_)) ==
    DecodeElements(Elements(wire), Recognize, zero, Check)

DecodeWith(wire, Recognize(_, _), zero) == DecodeChecked(wire, Recognize, zero, LAMBDA acc : "nil")

(* A field of the accumulated value is what a nested decoder returned.     *)
Into(acc, field, r) == [acc EXCEPT !.e = r.e, !.v[field] = r.v]
Scaled(r, unit)     == [r EXCEPT !.v = @ * unit]
Pointer(r)          == [r EXCEPT !.v = <<@>>]

Unrecognized(acc, critical) == [acc EXCEPT !.e = IF critical THEN "ErrCritical" ELSE "nil"]

----------------------------------------------------------------------------
(* A Field is what it encodes to: bytes, or an error. *)

Bytes(b)      == [e |-> "nil", b |-> b]
FieldError(e) == [e |-> e, b |-> <<>>]

(* Encode, EncodeFrom: the first error wins. *)
Encode(fields) ==
    LET failed == SelectSeq(fields, LAMBDA f : f.e # "nil")
    IN IF failed # <<>> THEN failed[1] ELSE Bytes(FlattenSeq([k \in DOMAIN fields |-> fields[k].b]))

Enclose(type, value) ==
    IF type < 1 \/ type > MaxUint32 THEN FieldError("ErrType")
    ELSE IF value.e # "nil" THEN value
    ELSE Bytes(VarNumEncode(type) \o VarNumEncode(Len(value.b)) \o value.b)

TLV(type, fields) == Enclose(type, Encode(fields))

TLVBytes(type, b) == TLV(type, <<Bytes(b)>>)
TLVNNI(type, n)   == TLV(type, <<Bytes(NNIEncode(n))>>)

----------------------------------------------------------------------------
(* Packets. *)

Tt == [LpPacket |-> 100, LpPayload |-> 80, LpSeqNum |-> 81, FragIndex |-> 82, FragCount |-> 83,
       PitToken |-> 98, Nack |-> 800, NackReason |-> 801, CongestionMark |-> 832,
       Name |-> 7, GenericNameComponent |-> 8, ImplicitSha256DigestComponent |-> 1,
       ParametersSha256DigestComponent |-> 2, KeywordNameComponent |-> 32, SegmentNameComponent |-> 50,
       VersionNameComponent |-> 54, Interest |-> 5, CanBePrefix |-> 33, MustBeFresh |-> 18,
       ForwardingHint |-> 30, Nonce |-> 10, InterestLifetime |-> 12, HopLimit |-> 34,
       AppParameters |-> 36, ISigInfo |-> 44, ISigValue |-> 46, Data |-> 6, MetaInfo |-> 20,
       ContentType |-> 24, FreshnessPeriod |-> 25, FinalBlock |-> 26, Content |-> 21, DSigInfo |-> 22,
       DSigValue |-> 23, SigType |-> 27, KeyLocator |-> 28, KeyDigest |-> 29, SigNonce |-> 38,
       SigTime |-> 40, SigSeqNum |-> 42, ValidityPeriod |-> 253, NotBefore |-> 254, NotAfter |-> 255]

Millisecond == 2

(* SHA-256: one symbol that is no byte, a function of the whole input. *)
RECURSIVE Hash(_)
Hash(b) ==
    LET half == Len(b) \div 2
    IN IF Len(b) <= 1 THEN (IF b = <<>> THEN 0 ELSE b[1] + 1)
       ELSE (Hash(SubSeq(b, 1, half)) * 257 + Hash(From(b, half + 1)) * 3 + Len(b)) % 1999993

Sum256(b) == <<Base + Hash(b)>>

----------------------------------------------------------------------------
(* Names. *)

Comp(type, value) == [type |-> type, value |-> value]
NoComp == Comp(0, <<>>)

isValidNameComponentType(type) == type >= 1 /\ type <= MaxUint16

(* bytes.Compare on values of one length. *)
CompareBytes(x, y) ==
    LET diff == {i \in DOMAIN x : x[i] # y[i]}
    IN IF diff = {} THEN 0
       ELSE LET i == CHOOSE i \in diff : \A j \in diff : i <= j IN IF x[i] < y[i] THEN -1 ELSE 1

CompCompare(c, other) ==
    CASE c.type # other.type             -> c.type - other.type
      [] Len(c.value) # Len(other.value) -> Len(c.value) - Len(other.value)
      [] OTHER                           -> CompareBytes(c.value, other.value)

CompField(c) == IF ~isValidNameComponentType(c.type) THEN FieldError("ErrComponentType")
                ELSE TLVBytes(c.type, c.value)

(* Slice, Get and GetPrefix: negative indices count from the end. *)
FromEnd(name, i) == IF i < 0 THEN i + Len(name) ELSE i

NameGet(name, i) == LET k == FromEnd(name, i)
                    IN IF k < 0 \/ k >= Len(name) THEN NoComp ELSE name[k + 1]

NameSlice(name, i, j) == LET k == FromEnd(name, i)  l == FromEnd(name, j)
                         IN IF k < 0 \/ k >= l \/ l > Len(name) THEN <<>> ELSE SubSeq(name, k + 1, l)

GetPrefix(name, i) == NameSlice(name, 0, i)

compareCommonPrefix(name, other) ==
    LET common == 1 .. (IF Len(name) < Len(other) THEN Len(name) ELSE Len(other))
        diff   == {i \in common : CompCompare(name[i], other[i]) # 0}
    IN IF diff = {} THEN 0
       ELSE LET i == CHOOSE i \in diff : \A j \in diff : i <= j IN CompCompare(name[i], other[i])

NameCompare(name, other) == LET d == compareCommonPrefix(name, other)
                            IN IF d # 0 THEN d ELSE Len(name) - Len(other)

NameEqual(name, other) == NameCompare(name, other) = 0

IsPrefixOf(name, other) == compareCommonPrefix(name, other) = 0 /\ Len(name) <= Len(other)

NameField(name) == TLV(Tt.Name, [i \in DOMAIN name |-> CompField(name[i])])

NameUnmarshal(wire) ==
    DecodeWith(wire, LAMBDA a, de : IF isValidNameComponentType(de.type)
                                    THEN [a EXCEPT !.v = Append(@, Comp(de.type, de.value))]
                                    ELSE [a EXCEPT !.e = "ErrComponentType"],
               [e |-> "nil", v |-> <<>>])

----------------------------------------------------------------------------
(* SignatureInfo. *)

SigNull == 200
SigSha256 == 0
SigEcdsa == 3

NoKeyLocator == [name |-> <<>>, digest |-> <<>>]
SigInfo(type) == [type |-> type, keyLocator |-> NoKeyLocator, nonce |-> <<>>, time |-> 0, seqNum |-> 0,
                  extensions |-> <<>>]

KeyLocatorField(kl) ==
    CASE kl.name # <<>> /\ kl.digest # <<>> -> FieldError("ErrKeyLocator")
      [] kl.digest # <<>> -> TLV(Tt.KeyLocator, <<TLVBytes(Tt.KeyDigest, kl.digest)>>)
      [] OTHER            -> TLV(Tt.KeyLocator, <<NameField(kl.name)>>)

KeyLocatorElement(acc, de) ==
    CASE de.type = Tt.Name      -> Into(acc, "name", NameUnmarshal(de.value))
      [] de.type = Tt.KeyDigest -> [acc EXCEPT !.v.digest = de.value]
      [] OTHER                  -> Unrecognized(acc, IsCriticalType(de.type))

KeyLocatorUnmarshal(wire) ==
    DecodeChecked(wire, KeyLocatorElement, [e |-> "nil", v |-> NoKeyLocator],
                  LAMBDA a : IF a.v.name # <<>> /\ a.v.digest # <<>> THEN "ErrKeyLocator" ELSE "nil")

(* EncodeAs: a missing SigInfo encodes as a null signature type. *)
SigInfoField(type, si) ==
    LET s == IF si = <<>> THEN SigInfo(SigNull) ELSE si[1]
    IN TLV(type, <<TLVNNI(Tt.SigType, s.type)>>
              \o (IF s.keyLocator # NoKeyLocator THEN <<KeyLocatorField(s.keyLocator)>> ELSE <<>>)
              \o (IF s.time > 0 THEN <<TLVNNI(Tt.SigTime, s.time)>> ELSE <<>>)
              \o (IF s.nonce # <<>> THEN <<TLVBytes(Tt.SigNonce, s.nonce)>> ELSE <<>>)
              \o (IF s.seqNum > 0 THEN <<TLVNNI(Tt.SigSeqNum, s.seqNum)>> ELSE <<>>)
              \o [i \in DOMAIN s.extensions |-> TLVBytes(s.extensions[i].type, s.extensions[i].value)])

(* The one registered extension is a certificate's validity period. *)
sigInfoExtensionTypes == {Tt.ValidityPeriod}

SigInfoElement(acc, de) ==
    CASE de.type = Tt.SigType ->
           Into(acc, "type", UnmarshalNNI(de.value, MaxUint32, "ErrSigType"))
      [] de.type = Tt.KeyLocator ->
           Into(acc, "keyLocator", KeyLocatorUnmarshal(de.value))
      [] de.type = Tt.SigNonce ->
           IF de.value = <<>> THEN [acc EXCEPT !.e = "ErrSigNonce"] ELSE [acc EXCEPT !.v.nonce = de.value]
      [] de.type = Tt.SigTime ->
           Into(acc, "time", UnmarshalNNI(de.value, MaxUint64, "ErrRange"))
      [] de.type = Tt.SigSeqNum ->
           Into(acc, "seqNum", UnmarshalNNI(de.value, MaxUint64, "ErrRange"))
      [] de.type \in sigInfoExtensionTypes ->
           [acc EXCEPT !.v.extensions = Append(@, Comp(de.type, de.value))]
      [] OTHER -> Unrecognized(acc, IsCriticalType(de.type))

SigInfoUnmarshal(wire) == DecodeWith(wire, SigInfoElement, [e |-> "nil", v |-> SigInfo(0)])

----------------------------------------------------------------------------
(* Signing.  A signer is its signature type, the name it puts in           *)
(* KeyLocator, and its secret; a signature is a digest keyed by the secret.*)

NullSigner    == [type |-> SigNull, klName |-> <<>>, secret |-> <<>>]
DigestSigning == [type |-> SigSha256, klName |-> <<>>, secret |-> <<>>]

LLSign(signer, input) == IF signer.type = SigNull THEN <<>> ELSE Sum256(signer.secret \o input)

(* What every signer does to the SigInfo before SignWith encodes it. *)
SignedBy(signer, si) ==
    [(IF si = <<>> THEN SigInfo(SigNull) ELSE si[1]) EXCEPT
        !.type = signer.type, !.keyLocator = [NoKeyLocator EXCEPT !.name = signer.klName]]

----------------------------------------------------------------------------
(* Interest. *)

DefaultInterestLifetime == 4000 * Millisecond
MinInterestLifetime     == 1 * Millisecond
ZeroNonce == <<0, 0, 0, 0>>

Interest == [name |-> <<>>, canBePrefix |-> FALSE, mustBeFresh |-> FALSE, forwardingHint |-> <<>>,
             nonce |-> ZeroNonce, lifetime |-> 0, hopLimit |-> 0, appParameters |-> <<>>,
             sigInfo |-> <<>>, sigValue |-> <<>>]

ApplyDefaultLifetime(i) == IF i.lifetime = 0 THEN [i EXCEPT !.lifetime = DefaultInterestLifetime] ELSE i

encodeParamsPortion(i) ==
    IF i.appParameters = <<>> /\ i.sigInfo = <<>> THEN <<>>
    ELSE <<TLVBytes(Tt.AppParameters, i.appParameters)>>
         \o (IF i.sigInfo = <<>> THEN <<>>
             ELSE <<SigInfoField(Tt.ISigInfo, i.sigInfo), TLVBytes(Tt.ISigValue, i.sigValue)>>)

(* The digest component is replaced wherever it stands, or appended. *)
UpdateParamsDigest(i) ==
    LET portion == Encode(encodeParamsPortion(i)).b
        digest  == Comp(Tt.ParametersSha256DigestComponent, Sum256(portion))
        stale   == {k \in DOMAIN i.name : i.name[k].type = Tt.ParametersSha256DigestComponent}
    IN IF portion = <<>> THEN i
       ELSE [i EXCEPT !.name = IF stale = {} THEN Append(@, digest)
                               ELSE [k \in DOMAIN @ |-> IF k \in stale THEN digest ELSE @[k]]]

InterestSignedPortion(i) ==
    LET name == IF NameGet(i.name, -1).type = Tt.ParametersSha256DigestComponent
                THEN GetPrefix(i.name, -1) ELSE i.name
    IN Encode([k \in DOMAIN name |-> CompField(name[k])]
              \o <<TLVBytes(Tt.AppParameters, i.appParameters), SigInfoField(Tt.ISigInfo, i.sigInfo)>>)

InterestSign(i, signer) ==
    LET si == [i EXCEPT !.sigInfo = <<SignedBy(signer, i.sigInfo)>>]
    IN UpdateParamsDigest([si EXCEPT !.sigValue = LLSign(signer, InterestSignedPortion(si).b)])

ForwardingHintField(fh) == TLV(Tt.ForwardingHint, [k \in DOMAIN fh |-> NameField(fh[k])])

ForwardingHintElement(acc, de) ==
    IF de.type = Tt.Name
    THEN LET n == NameUnmarshal(de.value) IN [acc EXCEPT !.e = n.e, !.v = Append(@, n.v)]
    ELSE Unrecognized(acc, IsCriticalType(de.type))

(* UnmarshalBinary appends to what the receiver already holds. *)
ForwardingHintUnmarshal(wire, had) == DecodeWith(wire, ForwardingHintElement, [e |-> "nil", v |-> had])

(* Field: an absent Nonce is drawn at random, the default lifetime is left *)
(* out, a lifetime is truncated to milliseconds.                           *)
InterestField(i, random) ==
    LET nonce == IF i.nonce = ZeroNonce THEN random ELSE i.nonce
        timed == i.lifetime # 0 /\ i.lifetime # DefaultInterestLifetime
    IN IF timed /\ i.lifetime < MinInterestLifetime THEN FieldError("ErrLifetime")
       ELSE TLV(Tt.Interest, <<NameField(i.name)>>
              \o (IF i.canBePrefix THEN <<TLV(Tt.CanBePrefix, <<>>)>> ELSE <<>>)
              \o (IF i.mustBeFresh THEN <<TLV(Tt.MustBeFresh, <<>>)>> ELSE <<>>)
              \o (IF i.forwardingHint # <<>> THEN <<ForwardingHintField(i.forwardingHint)>> ELSE <<>>)
              \o <<TLVBytes(Tt.Nonce, nonce)>>
              \o (IF timed THEN <<TLVNNI(Tt.InterestLifetime, i.lifetime \div Millisecond)>> ELSE <<>>)
              \o (IF i.hopLimit # 0 THEN <<TLVNNI(Tt.HopLimit, i.hopLimit)>> ELSE <<>>)
              \o encodeParamsPortion(i))

InterestElement(acc, de) ==
    CASE de.type = Tt.Name -> Into(acc, "name", NameUnmarshal(de.value))
      [] de.type = Tt.CanBePrefix -> [acc EXCEPT !.v.canBePrefix = TRUE]
      [] de.type = Tt.MustBeFresh -> [acc EXCEPT !.v.mustBeFresh = TRUE]
      [] de.type = Tt.ForwardingHint ->
           Into(acc, "forwardingHint", ForwardingHintUnmarshal(de.value, acc.v.forwardingHint))
      [] de.type = Tt.Nonce ->
           IF Len(de.value) # 4 THEN [acc EXCEPT !.e = "ErrNonceLen"] ELSE [acc EXCEPT !.v.nonce = de.value]
      [] de.type = Tt.InterestLifetime ->
           Into(acc, "lifetime", Scaled(UnmarshalNNI(de.value, MaxInt64 \div Millisecond, "ErrLifetime"), Millisecond))
      [] de.type = Tt.HopLimit ->
           IF Len(de.value) # 1 THEN [acc EXCEPT !.e = "ErrHopLimit"] ELSE [acc EXCEPT !.v.hopLimit = de.value[1]]
      [] de.type = Tt.AppParameters -> [acc EXCEPT !.v.appParameters = de.value, !.portion = de.wire]
      [] de.type = Tt.ISigInfo -> Into(acc, "sigInfo", Pointer(SigInfoUnmarshal(de.value)))
      [] de.type = Tt.ISigValue -> [acc EXCEPT !.v.sigValue = de.value]
      [] OTHER -> Unrecognized(acc, IsCriticalType(de.type))

(* The digest check: exactly one digest component, of everything from      *)
(* AppParameters on, and at the end of the name of a signed Interest.      *)
ParamsDigestOK(i, portion) ==
    LET found == {k \in DOMAIN i.name : i.name[k].type = Tt.ParametersSha256DigestComponent}
    IN /\ Cardinality(found) = 1
       /\ \A k \in found : i.name[k].value = Sum256(portion)
       /\ i.sigInfo # <<>> => found = {Len(i.name)}

InterestUnmarshal(wire) ==
    DecodeChecked(wire, InterestElement, [e |-> "nil", v |-> Interest, portion |-> <<>>],
                  LAMBDA a : IF a.portion # <<>> /\ ~ParamsDigestOK(a.v, a.portion) THEN "ErrParamsDigest"
                             ELSE "nil")

----------------------------------------------------------------------------
(* Data. *)

Data == [name |-> <<>>, contentType |-> 0, freshness |-> 0, finalBlock |-> NoComp, content |-> <<>>,
         sigInfo |-> <<>>, sigValue |-> <<>>, l3SigValueOffset |-> 0]

MetaInfoFields(d) ==
    (IF d.contentType > 0 THEN <<TLVNNI(Tt.ContentType, d.contentType)>> ELSE <<>>)
    \o (IF d.freshness > 0 THEN <<TLVNNI(Tt.FreshnessPeriod, d.freshness \div Millisecond)>> ELSE <<>>)
    \o (IF isValidNameComponentType(d.finalBlock.type)
        THEN <<TLV(Tt.FinalBlock, <<CompField(d.finalBlock)>>)>> ELSE <<>>)

DataSignedPortion(d) ==
    Encode(<<NameField(d.name)>>
           \o (IF MetaInfoFields(d) # <<>> THEN <<TLV(Tt.MetaInfo, MetaInfoFields(d))>> ELSE <<>>)
           \o (IF d.content # <<>> THEN <<TLVBytes(Tt.Content, d.content)>> ELSE <<>>)
           \o <<SigInfoField(Tt.DSigInfo, d.sigInfo)>>)

DataFields(d) == <<DataSignedPortion(d), TLVBytes(Tt.DSigValue, d.sigValue)>>
DataField(d)  == TLV(Tt.Data, DataFields(d))

DataSign(d, signer) ==
    LET si == [d EXCEPT !.sigInfo = <<SignedBy(signer, d.sigInfo)>>]
    IN [si EXCEPT !.sigValue = LLSign(signer, DataSignedPortion(si).b)]

MetaInfoElement(acc, de) ==
    CASE de.type = Tt.ContentType ->
           Into(acc, "contentType", UnmarshalNNI(de.value, MaxUint64, "ErrRange"))
      [] de.type = Tt.FreshnessPeriod ->
           Into(acc, "freshness", Scaled(UnmarshalNNI(de.value, MaxInt64 \div Millisecond, "ErrRange"), Millisecond))
      [] de.type = Tt.FinalBlock ->
           LET c == ElementDecode(de.value)
           IN IF c.e # "nil" THEN [acc EXCEPT !.e = c.e]
              ELSE IF ~isValidNameComponentType(c.type) THEN [acc EXCEPT !.e = "ErrComponentType"]
              ELSE [acc EXCEPT !.e = ErrUnlessEOF(c.after), !.v.finalBlock = Comp(c.type, c.value)]
      [] OTHER -> Unrecognized(acc, IsCriticalType(de.type))

MutDataElement(acc, de) ==
    CASE de.type = Tt.Name -> Into(acc, "name", NameUnmarshal(de.value))
      [] de.type = Tt.MetaInfo ->
           DecodeWith(de.value, MetaInfoElement, acc)
      [] de.type = Tt.Content -> [acc EXCEPT !.v.content = de.value]
      [] de.type = Tt.DSigInfo -> Into(acc, "sigInfo", Pointer(SigInfoUnmarshal(de.value)))
      [] de.type = Tt.DSigValue ->
           [acc EXCEPT !.v.sigValue = de.value, !.v.l3SigValueOffset = acc.len - Len(de.after)]
      [] OTHER -> Unrecognized(acc, IsCriticalType(de.type))

DataElement(acc, de) ==
    CASE de.type = Tt.Name -> Into(acc, "name", NameUnmarshal(de.value))
      [] de.type = Tt.MetaInfo ->
           DecodeWith(de.value, MetaInfoElement, acc)
      [] de.type = Tt.Content -> [acc EXCEPT !.v.content = de.value]
      [] de.type = Tt.DSigInfo -> Into(acc, "sigInfo", Pointer(SigInfoUnmarshal(de.value)))
      [] de.type = Tt.DSigValue ->
           [acc EXCEPT !.v.sigValue = de.value, !.v.l3SigValueOffset = acc.len - Len(de.wire)]
      [] OTHER -> Unrecognized(acc, IsCriticalType(de.type))

DataUnmarshal(wire) == DecodeWith(wire, DataElement, [e |-> "nil", v |-> Data, len |-> Len(wire)])

----------------------------------------------------------------------------
(* The NDNLPv2 header and the packet around it. *)

lpIsCritical(type) == type < 800 \/ type > 959 \/ type % 4 # 0

NackNone == 0
NackUnspecified == MaxUint8

LpL3 == [pitToken |-> <<>>, nackReason |-> NackNone, congMark |-> 0]

LpL3Fields(lp) ==
    (IF lp.pitToken # <<>> THEN <<TLVBytes(Tt.PitToken, lp.pitToken)>> ELSE <<>>)
    \o (CASE lp.nackReason = NackNone        -> <<>>
          [] lp.nackReason = NackUnspecified -> <<TLV(Tt.Nack, <<>>)>>
          [] OTHER -> <<TLV(Tt.Nack, <<TLVNNI(Tt.NackReason, lp.nackReason)>>)>>)
    \o (IF lp.congMark # 0 THEN <<TLVNNI(Tt.CongestionMark, lp.congMark)>> ELSE <<>>)

inheritFrom(lp, src) == [lp EXCEPT !.pitToken = src.pitToken, !.congMark = src.congMark]

Fragment == [seqNum |-> 0, fragIndex |-> 0, fragCount |-> 1, header |-> <<>>, payload |-> <<>>]

Packet == [lp |-> LpL3, l3type |-> 0, l3value |-> <<>>, l3digest |-> <<>>, fragment |-> <<>>, interest |-> <<>>,
           data |-> <<>>, nack |-> <<>>]

(* MakeInterest, MakeData and MakeNack wrap their result in a packet; the  *)
(* last two take over the Lp header of the Interest they answer.           *)
InterestPacket(i, lp) == [Packet EXCEPT !.interest = <<i>>, !.lp = inheritFrom(LpL3, lp)]

DataPacket(d, ipkt) ==
    [Packet EXCEPT !.lp = inheritFrom(LpL3, ipkt.lp),
                   !.data = <<[d EXCEPT !.name = ipkt.interest[1].name,
                                        !.freshness = IF ipkt.interest[1].mustBeFresh THEN 1 * Millisecond
                                                      ELSE @]>>]

NackPacket(ipkt, reason) ==
    [Packet EXCEPT !.lp = inheritFrom(LpL3, ipkt.lp),
                   !.nack = <<[reason |-> reason, interest |-> ipkt.interest[1]]>>]

(* encodeL3: header and payload apart; what is encoded decides NackReason. *)
encodeL3(pkt, random) ==
    LET Made(l3, lp) == [e |-> l3.e, header |-> Encode(LpL3Fields(lp)).b, payload |-> l3.b]
    IN Made(CASE pkt.interest # <<>> -> InterestField(pkt.interest[1], random)
              [] pkt.data # <<>>     -> DataField(pkt.data[1])
              [] pkt.nack # <<>>     -> InterestField(pkt.nack[1].interest, random)
              [] OTHER               -> FieldError("ErrFragment"),
            [pkt.lp EXCEPT !.nackReason =
               IF pkt.interest = <<>> /\ pkt.data = <<>> /\ pkt.nack # <<>> THEN pkt.nack[1].reason
               ELSE NackNone])

FragmentField(frag) ==
    IF frag.fragIndex < 0 \/ frag.fragIndex >= frag.fragCount THEN FieldError("ErrFragment")
    ELSE TLV(Tt.LpPacket, <<TLVBytes(Tt.LpSeqNum, BigEndian(frag.seqNum, 8)),
                            TLVNNI(Tt.FragIndex, frag.fragIndex), TLVNNI(Tt.FragCount, frag.fragCount),
                            Bytes(frag.header), TLVBytes(Tt.LpPayload, frag.payload)>>)

L3Field(l3) ==
    CASE l3.e # "nil"     -> FieldError(l3.e)
      [] l3.header = <<>> -> Bytes(l3.payload)
      [] OTHER -> TLV(Tt.LpPacket, <<Bytes(l3.header), TLVBytes(Tt.LpPayload, l3.payload)>>)

PacketField(pkt, random) ==
    IF pkt.fragment # <<>> THEN FragmentField(pkt.fragment[1]) ELSE L3Field(encodeL3(pkt, random))

decodeL3(pkt, type, value) ==
    LET l3 == [pkt EXCEPT !.l3type = type, !.l3value = value, !.l3digest = <<>>]
        AsInterest(i) ==
            IF pkt.lp.nackReason # NackNone
            THEN [l3 EXCEPT !.nack = <<[reason |-> pkt.lp.nackReason, interest |-> i]>>]
            ELSE [l3 EXCEPT !.interest = <<i>>]
        AsData(d) == [l3 EXCEPT !.data = <<d>>]
        Decoded(r, As(_)) == [e |-> r.e, v |-> IF r.e = "nil" THEN As(r.v) ELSE pkt]
    IN CASE type = Tt.Interest -> Decoded(InterestUnmarshal(value), AsInterest)
         [] type = Tt.Data     -> Decoded(DataUnmarshal(value), AsData)
         [] OTHER              -> [e |-> "ErrL3Type", v |-> pkt]

(* decodePayload: a fragment keeps its payload for the reassembler. *)
decodePayload(pkt, payload) ==
    LET de == ElementDecode(payload)
        l3 == decodeL3(pkt, de.type, de.value)
    IN CASE pkt.fragment # <<>> -> [e |-> "nil", v |-> [pkt EXCEPT !.fragment[1].payload = payload]]
         [] de.e # "nil"        -> [e |-> de.e, v |-> pkt]
         [] OTHER               -> AtEOF(l3, de.after)

NackElement(acc, de) ==
    IF de.type = Tt.NackReason
    THEN LET n == UnmarshalNNI(de.value, MaxUint8, "ErrRange") IN [acc EXCEPT !.e = n.e, !.v.lp.nackReason = n.v]
    ELSE Unrecognized(acc, lpIsCritical(de.type))

(* decodeValue: acc.frag is the local fragment, which becomes part of the  *)
(* packet (by reference) once FragCount exceeds one.                       *)
LpElement(acc, de) ==
    LET SetFrag(f) == [acc EXCEPT !.frag = f,
                                  !.v.fragment = IF @ # <<>> \/ f.fragCount > 1 THEN <<f>> ELSE @]
        WithPayload(p) == [acc EXCEPT !.e = p.e, !.v = p.v,
                                      !.frag = IF p.v.fragment # <<>> THEN p.v.fragment[1] ELSE @]
        n == UnmarshalNNI(de.value, MaxInt32, "ErrFragment")
    IN CASE de.type = Tt.LpSeqNum ->
              IF Len(de.value) # 8 THEN [acc EXCEPT !.e = "ErrFragment"]
              ELSE SetFrag([acc.frag EXCEPT !.seqNum = Number(de.value)])
         [] de.type = Tt.FragIndex ->
              IF n.e # "nil" THEN [acc EXCEPT !.e = n.e] ELSE SetFrag([acc.frag EXCEPT !.fragIndex = n.v])
         [] de.type = Tt.FragCount ->
              IF n.e # "nil" THEN [acc EXCEPT !.e = n.e] ELSE SetFrag([acc.frag EXCEPT !.fragCount = n.v])
         [] de.type = Tt.PitToken -> [acc EXCEPT !.v.lp.pitToken = de.value]
         [] de.type = Tt.Nack ->
              DecodeWith(de.value, NackElement, [acc EXCEPT !.v.lp.nackReason = NackUnspecified])
         [] de.type = Tt.CongestionMark ->
              LET c == UnmarshalNNI(de.value, MaxUint8, "ErrRange")
              IN [acc EXCEPT !.e = c.e, !.v.lp.congMark = c.v]
         [] de.type = Tt.LpPayload -> WithPayload(decodePayload(acc.v, de.value))
         [] OTHER -> Unrecognized(acc, lpIsCritical(de.type))

decodeValue(value) ==
    DecodeChecked(value, LpElement, [e |-> "nil", v |-> Packet, frag |-> Fragment],
                  LAMBDA a : IF a.frag.fragIndex >= a.frag.fragCount THEN "ErrFragment" ELSE "nil")

(* tlv.Decode into a Packet. *)
PacketDecode(wire) ==
    LET de == ElementDecode(wire)
    IN IF de.e # "nil" THEN [e |-> de.e, v |-> Packet]
       ELSE AtEOF(IF de.type = Tt.LpPacket THEN decodeValue(de.value)
                  ELSE decodeL3(Packet, de.type, de.value), de.after)

----------------------------------------------------------------------------
(* ComputeDigest: the implicit digest of the packet received, or of the    *)
(* encoding of a Data that was made here; what it computes stays cached on *)
(* the packet.                                                             *)
ComputeDigest(pkt) ==
    LET p == IF pkt.l3type = Tt.Data THEN pkt
             ELSE [pkt EXCEPT !.l3type = Tt.Data, !.l3value = Encode(DataFields(pkt.data[1])).b]
    IN IF p.l3digest # <<>> THEN p ELSE [p EXCEPT !.l3digest = Sum256(TLVBytes(Tt.Data, p.l3value).b)]

FullName(pkt) ==
    Append(pkt.data[1].name, Comp(Tt.ImplicitSha256DigestComponent, ComputeDigest(pkt).l3digest))

CanSatisfy(pkt, i) ==
    LET d == pkt.data[1]
    IN CASE i.name = <<>>                     -> FALSE
         [] i.mustBeFresh /\ d.freshness <= 0 -> FALSE
         [] NameGet(i.name, -1).type = Tt.ImplicitSha256DigestComponent -> NameEqual(i.name, FullName(pkt))
         [] i.canBePrefix                     -> IsPrefixOf(i.name, d.name)
         [] OTHER                             -> NameEqual(i.name, d.name)

----------------------------------------------------------------------------
(* Keys and certificates. *)

ComponentKEY           == Comp(Tt.GenericNameComponent, <<7>>)
ComponentDefaultIssuer == Comp(Tt.GenericNameComponent, <<6>>)

IsKeyName(name)  == CompCompare(NameGet(name, -2), ComponentKEY) = 0
IsCertName(name) == CompCompare(NameGet(name, -4), ComponentKEY) = 0

(* keyID is the random component a subject name is completed with. *)
ToKeyName(input, keyID) == CASE IsKeyName(input)  -> input
                             [] IsCertName(input) -> GetPrefix(input, -2)
                             [] OTHER             -> input \o <<ComponentKEY, keyID>>

ToCertName(input, keyID, version) ==
    CASE IsCertName(input) -> input
      [] IsKeyName(input)  -> input \o <<ComponentDefaultIssuer, version>>
      [] OTHER             -> input \o <<ComponentKEY, keyID, ComponentDefaultIssuer, version>>

(* A key pair: the private key signs with its name in KeyLocator, the      *)
(* public key checks type and name before the signature.                   *)
newPrivateKey(keyName, secret) ==
    IF ~IsKeyName(keyName) THEN [e |-> "ErrKeyName"]
    ELSE [e |-> "nil", type |-> SigEcdsa, klName |-> keyName, secret |-> secret]

WithKeyLocator(signer, klName) == [signer EXCEPT !.klName = klName]

(* keyIDs: the two random components ToKeyName may draw. *)
PublicKeyCheck(pub, si, keyIDs) ==
    CASE si.type # pub.type -> "ErrSigType"
      [] ~NameEqual(ToKeyName(si.keyLocator.name, keyIDs[1]), ToKeyName(pub.klName, keyIDs[2])) -> "ErrKeyLocator"
      [] OTHER -> "nil"

DigestCheck(si) == IF si.type # SigSha256 THEN "ErrSigType" ELSE "nil"

VerifierCheck(v, si) ==
    IF v.type = SigSha256 THEN DigestCheck(si)
    ELSE PublicKeyCheck(v, si, <<Comp(Tt.GenericNameComponent, <<1>>), Comp(Tt.GenericNameComponent, <<2>>)>>)

(* A decoded Data is verified over the bytes received up to the signature  *)
(* value, an Interest over a re-encoding of its fields.                    *)
DataVerify(pkt, v) ==
    LET d  == pkt.data[1]
        si == IF d.sigInfo = <<>> THEN SigInfo(SigNull) ELSE d.sigInfo[1]
        signedPortion == IF d.l3SigValueOffset > 0 THEN SubSeq(pkt.l3value, 1, d.l3SigValueOffset)
                         ELSE DataSignedPortion(d).b
    IN CASE VerifierCheck(v, si) # "nil" -> VerifierCheck(v, si)
         [] d.sigValue # LLSign(v, signedPortion) -> "ErrSigValue"
         [] OTHER -> "nil"

InterestVerify(i, v) ==
    LET si == IF i.sigInfo = <<>> THEN SigInfo(SigNull) ELSE i.sigInfo[1]
    IN CASE VerifierCheck(v, si) # "nil" -> VerifierCheck(v, si)
         [] i.sigValue # LLSign(v, InterestSignedPortion(i).b) -> "ErrSigValue"
         [] OTHER -> "nil"

----------------------------------------------------------------------------
(* Validity periods.  A time is seconds, 0 the zero Time; a stamp is a     *)
(* number of digits long enough not to wrap.  Format writes local time,    *)
(* Parse reads UTC.                                                        *)

ValidityValid(vp) == vp.notBefore # 0 /\ vp.notAfter # 0 /\ vp.notBefore <= vp.notAfter

FormatTime(t)   == BigEndian(t + ZoneOffset, 3)
parseValidityPeriodTime(value) == IF Len(value) = 3 THEN Number(value) ELSE 0

ValidityField(vp) ==
    IF ~ValidityValid(vp) THEN FieldError("ErrValidityPeriod")
    ELSE TLV(Tt.ValidityPeriod, <<TLVBytes(Tt.NotBefore, FormatTime(vp.notBefore)),
                                  TLVBytes(Tt.NotAfter, FormatTime(vp.notAfter))>>)

ValidityElement(acc, de) ==
    CASE de.type = Tt.NotBefore -> [acc EXCEPT !.v.notBefore = parseValidityPeriodTime(de.value)]
      [] de.type = Tt.NotAfter  -> [acc EXCEPT !.v.notAfter = parseValidityPeriodTime(de.value)]
      [] OTHER                  -> Unrecognized(acc, IsCriticalType(de.type))

ValidityUnmarshal(wire) ==
    DecodeChecked(wire, ValidityElement, [e |-> "nil", v |-> [notBefore |-> 0, notAfter |-> 0]],
                  LAMBDA a : IF ValidityValid(a.v) THEN "nil" ELSE "ErrValidityPeriod")

----------------------------------------------------------------------------
(* Certificates: a Data of content type Key whose SigInfo carries the      *)
(* validity period; the public key is its secret here.                     *)

ContentKey == 2
MaxValidityPeriod == [notBefore |-> 1, notAfter |-> Base ^ 3 - 1 - ZoneOffset]

CertFromData(pkt) ==
    LET d   == pkt.data[1]
        ext == IF d.sigInfo = <<>> THEN <<>>
               ELSE SelectSeq(d.sigInfo[1].extensions, LAMBDA x : x.type = Tt.ValidityPeriod)
        vp  == ValidityUnmarshal(ext[1].value)
    IN CASE ~IsCertName(d.name)         -> [e |-> "ErrCertName"]
         [] d.contentType # ContentKey  -> [e |-> "ErrCertContentType"]
         [] ext = <<>>                  -> [e |-> "ErrValidityPeriod"]
         [] vp.e # "nil"                -> [e |-> vp.e]
         [] d.content = <<>>            -> [e |-> "ErrX509PublicKey"]
         [] OTHER -> [e |-> "nil", validity |-> vp.v,
                      key |-> newPrivateKey(ToKeyName(d.name, NoComp), d.content)]

MakeCert(pub, signer, opts) ==
    LET vp  == IF ValidityValid(opts.validity) THEN opts.validity ELSE MaxValidityPeriod
        ext == ElementDecode(ValidityField(vp).b)
        d   == [Data EXCEPT !.name = pub.klName \o <<IF isValidNameComponentType(opts.issuerID.type) THEN opts.issuerID
                                                     ELSE ComponentDefaultIssuer, opts.version>>,
                            !.contentType = ContentKey, !.freshness = opts.freshness, !.content = pub.secret,
                            !.sigInfo = <<[SigInfo(0) EXCEPT !.extensions = <<Comp(ext.type, ext.value)>>]>>]
    IN [Packet EXCEPT !.data = <<DataSign(d, signer)>>]

----------------------------------------------------------------------------
(* Objects: versions and files. *)

FileTt == [SegmentSize |-> 110, Size |-> 112, Mode |-> 114, Atime |-> 116, Btime |-> 118, Ctime |-> 120, Mtime |-> 122]

KeywordMetadata == Comp(Tt.KeywordNameComponent, <<3, 5>>)

(* prefix is not empty: MakeDiscoveryInterest looks at its last component. *)
MakeDiscoveryInterest(prefix) ==
    [Interest EXCEPT !.name = IF CompCompare(NameGet(prefix, -1), KeywordMetadata) = 0 THEN prefix
                              ELSE Append(prefix, KeywordMetadata),
                     !.canBePrefix = TRUE, !.mustBeFresh = TRUE]

IsDiscoveryInterest(i) == /\ Len(i.name) > 1 /\ CompCompare(NameGet(i.name, -1), KeywordMetadata) = 0
                          /\ i.canBePrefix /\ i.mustBeFresh

----------------------------------------------------------------------------
(* Metadata with the file server's fields; a time is -1 when it is zero.   *)
(* Of Mode, the bits that tell a file from a directory.                    *)
NoTime == -1
Metadata == [name |-> <<>>, finalBlock |-> NoComp, segmentSize |-> 0, size |-> 0, mode |-> 0,
             atime |-> NoTime, btime |-> NoTime, ctime |-> NoTime, mtime |-> NoTime]

IsFile(m) == (m.mode \div 8) % 2 = 1
IsDir(m)  == (m.mode \div 4) % 2 = 1

MetadataEncode(m, extensions) == Encode(<<NameField(m.name)>> \o extensions)

MetadataMarshal(m) ==
    LET If(c, field) == IF c THEN <<field>> ELSE <<>>
        Time(type, t) == If(t # NoTime, TLVNNI(type, t))
    IN MetadataEncode(m,
         If(m.finalBlock.type # 0, TLV(Tt.FinalBlock, <<CompField(m.finalBlock)>>))
         \o If(m.segmentSize > 0, TLVNNI(FileTt.SegmentSize, m.segmentSize))
         \o If(m.segmentSize > 0, TLVNNI(FileTt.Size, m.size))
         \o <<TLVNNI(FileTt.Mode, m.mode)>>
         \o Time(FileTt.Atime, m.atime) \o Time(FileTt.Btime, m.btime)
         \o Time(FileTt.Ctime, m.ctime) \o Time(FileTt.Mtime, m.mtime))

FinalBlockDecode(acc, value) ==
    LET de == ElementDecode(value)
    IN IF de.e # "nil" THEN [acc EXCEPT !.e = de.e]
       ELSE IF ~isValidNameComponentType(de.type) THEN [acc EXCEPT !.e = "ErrComponentType"]
       ELSE [acc EXCEPT !.v.finalBlock = Comp(de.type, de.value), !.e = ErrUnlessEOF(de.after)]

(* The decoder map of ndn6file. *)
ExtensionDecode(acc, de) ==
    LET n(max) == UnmarshalNNI(de.value, max, "ErrRange")
    IN CASE de.type = Tt.FinalBlock -> FinalBlockDecode(acc, de.value)
         [] de.type = FileTt.SegmentSize -> Into(acc, "segmentSize", n(MaxUint16))
         [] de.type = FileTt.Size  -> Into(acc, "size", n(MaxInt64))
         [] de.type = FileTt.Mode  -> Into(acc, "mode", n(MaxUint16))
         [] de.type = FileTt.Atime -> Into(acc, "atime", n(MaxInt64))
         [] de.type = FileTt.Btime -> Into(acc, "btime", n(MaxInt64))
         [] de.type = FileTt.Ctime -> Into(acc, "ctime", n(MaxInt64))
         [] de.type = FileTt.Mtime -> Into(acc, "mtime", n(MaxInt64))
         [] OTHER -> acc

(* Decode: the first Name is the object's, a later one an unknown field. *)
MetadataElement(acc, de) ==
    IF de.type = Tt.Name /\ ~acc.hasName
    THEN [Into(acc, "name", NameUnmarshal(de.value)) EXCEPT !.hasName = TRUE]
    ELSE ExtensionDecode(acc, de)

MetadataUnmarshal(value) ==
    DecodeChecked(value, MetadataElement, [e |-> "nil", v |-> Metadata, hasName |-> FALSE],
                  LAMBDA a : IF a.hasName THEN "nil" ELSE "missing Name")

(* RetrieveMetadata, from the Data that Consume returns. *)
ContentBlob == 0
RetrieveMetadata(data) ==
    IF data.contentType # ContentBlob THEN [e |-> "ErrContentType"] ELSE MetadataUnmarshal(data.content)

----------------------------------------------------------------------------
(* DirectoryListing: names, each with a NUL after it, a directory's with a *)
(* slash before that.                                                      *)
KeywordLs == Comp(Tt.KeywordNameComponent, <<3, 6>>)
Nul == 0
Slash == 7

ListingMarshal(ls) ==
    FlattenSeq([k \in DOMAIN ls |-> ls[k].name \o (IF ls[k].isDir THEN <<Slash>> ELSE <<>>) \o <<Nul>>])

RECURSIVE ListingUnmarshal(_)
ListingUnmarshal(value) ==
    IF value = <<>> THEN [e |-> "nil", v |-> <<>>]
    ELSE LET nuls == {i \in DOMAIN value : value[i] = Nul}
             pos  == CHOOSE i \in nuls : \A j \in nuls : i <= j
         IN IF nuls = {} \/ value[1] = Nul THEN [e |-> "unterminated or blank line", v |-> <<>>]
            ELSE LET more  == ListingUnmarshal(From(value, pos + 1))
                     dir   == value[pos - 1] = Slash
                     entry == [name |-> SubSeq(value, 1, IF dir THEN pos - 2 ELSE pos - 1), isDir |-> dir]
                 IN [e |-> more.e, v |-> <<entry>> \o more.v]
============================================================================

------------------------------- MODULE MCLink -------------------------------
(***************************************************************************)
(* The link layers for TLC: that of the forwarder, in C (LpLink), and that *)
(* of the Go client library with the packets it carries (NdnFace).  A      *)
(* behaviour is one of the component that `which` names.                   *)
(*                                                                         *)
(* NdnFace: one packet of every kind, with and without each optional       *)
(* field, over a small MTU; and pairs of packets, for the reassembler and  *)
(* for matching.                                                           *)
(***************************************************************************)
EXTENDS NdnFace

CONSTANT Chosen
VARIABLES which, tx, net, rx, budget, out
lpVars == <<tx, net, rx, budget, out>>

Named(s) == [k \in DOMAIN s |-> Comp(Tt.GenericNameComponent, <<s[k]>>)]

MCKey  == newPrivateKey(Named(<<4, 7, 1>>), <<5, 5>>)
MCCert == WithKeyLocator(MCKey, ToCertName(MCKey.klName, NoComp, Comp(Tt.VersionNameComponent, <<3>>)))
MCVerifiers == {MCKey, DigestSigning}

Token == [LpL3 EXCEPT !.pitToken = <<1, 2>>, !.congMark = 1]

Plain == [Interest EXCEPT !.name = Named(<<4, 5>>)]
Interests == {[Plain EXCEPT !.canBePrefix = c, !.lifetime = t, !.hopLimit = h, !.forwardingHint = fh] :
                c \in BOOLEAN, t \in {0, 3, 8000}, h \in {0, 5}, fh \in {<<>>, <<Named(<<3>>), Named(<<2>>)>>}}
SignedInterests == {InterestSign([Plain EXCEPT !.appParameters = a, !.sigInfo = <<[SigInfo(0) EXCEPT !.time = t]>>], v) :
                      a \in {<<>>, <<9, 9>>}, t \in {0, 15}, v \in {MCKey, MCCert, DigestSigning}}
Block == [Data EXCEPT !.name = Named(<<4, 5>>), !.content = <<1, 2, 3>>]
Datas == {DataSign([Block EXCEPT !.content = c, !.freshness = f, !.finalBlock = b], v) :
            c \in {<<>>, <<1, 2, 3>>}, f \in {0, 1, 40}, b \in {NoComp, Comp(Tt.GenericNameComponent, <<5>>)},
            v \in {MCKey, MCCert, DigestSigning, NullSigner}} \cup {Block}
Cert == MakeCert(MCKey, MCKey, [issuerID |-> NoComp, version |-> Comp(Tt.VersionNameComponent, <<3>>),
                                freshness |-> 4, validity |-> [notBefore |-> 5, notAfter |-> 900]])

InPacket(d) == [Packet EXCEPT !.data = <<d>>]
Asked == InterestPacket(Plain, Token)

Singles == {InterestPacket(i, lp) : i \in Interests \cup SignedInterests, lp \in {LpL3}}
           \cup {Asked, Cert} \cup {InPacket(d) : d \in Datas}
           \cup {NackPacket(Asked, r) : r \in {5, NackUnspecified}} \cup {DataPacket(Block, Asked)}

Long == [Packet EXCEPT !.lp = Token, !.data = <<[Block EXCEPT !.content = [k \in 1 .. 40 |-> k % 9]]>>]
Other == [Packet EXCEPT !.data = <<[Block EXCEPT !.content = [k \in 1 .. 37 |-> (k + 3) % 9]]>>]

(* Interests to be matched with Data: digests right and wrong, prefixes. *)
Fresh == [Block EXCEPT !.freshness = 40]
Questions == {[Plain EXCEPT !.name = n, !.canBePrefix = c, !.mustBeFresh = f] : c \in BOOLEAN, f \in BOOLEAN,
                n \in {<<>>, Named(<<4>>), Named(<<4, 5>>), Named(<<4, 5, 6>>), Named(<<4, 6>>),
                       FullName(InPacket(Fresh)), FullName(InPacket(Block))}}

(* A file with every field and with none, and a directory. *)
File == [Metadata EXCEPT !.name = Named(<<4, 5>>), !.mode = 8]
MCObjects == {File, [File EXCEPT !.mode = 4, !.mtime = 900],
              [File EXCEPT !.finalBlock = Comp(Tt.SegmentNameComponent, <<2>>), !.segmentSize = 6, !.size = 14,
                           !.atime = 0, !.btime = 3, !.ctime = 400, !.mtime = 41]}
MetadataOf(m) == InPacket([Fresh EXCEPT !.name = m.name \o <<KeywordMetadata, Comp(Tt.VersionNameComponent, <<3>>)>>,
                                        !.content = MetadataMarshal(m).b])
MCListings == {<<[name |-> <<2, 3>>, isDir |-> FALSE], [name |-> <<4>>, isDir |-> TRUE]>>,
               <<[name |-> <<4>>, isDir |-> TRUE]>>}
ListingOf(ls) == InPacket([Fresh EXCEPT !.name = Append(@, KeywordLs), !.content = ListingMarshal(ls)])

MCWorkloads == {{p} : p \in Singles} \cup {{Long, Other}}
               \cup {{MetadataOf(m)} : m \in MCObjects} \cup {{ListingOf(ls)} : ls \in MCListings}
               \cup {{InterestPacket(i, LpL3), InPacket(d)} : i \in Questions, d \in {Block, Fresh, [Block EXCEPT !.freshness = 1]}}
MCFirstSeqNums == {MaxUint64}
MCNonce == <<1, 2, 3, 4>>

----------------------------------------------------------------------------
(* LpLink: one fragment too many for a packet, and room for one message in *)
(* the reassembler.                                                        *)
L == INSTANCE LpLink WITH
  LpMaxFragments <- 3, MaxBurstSize <- 2, Capacity <- 1, RxThread <- {0}, MaxLen <- 4,
  MaxPackets <- 2, MaxNoise <- 1, MaxRestarts <- 1, HashMayFail <- FALSE, AllocMayFail <- TRUE

LpRests == tx = 0 /\ net = 0 /\ rx = 0 /\ budget = 0 /\ out = 0
NdnRests == toSend = 0 /\ sent = 0 /\ nextSeqNum = 0 /\ link = 0 /\ pms = 0 /\ delivered = 0

MCInit == /\ which \in Chosen
          /\ IF which = "ndn" THEN Init ELSE NdnRests
          /\ IF which = "lp" THEN L!Init ELSE LpRests
MCNext == \/ which = "ndn" /\ Next /\ UNCHANGED <<which, lpVars>>
          \/ which = "lp" /\ L!Next /\ UNCHANGED <<which, vars>>
MCSpec == MCInit /\ [][MCNext]_<<which, vars, lpVars>>

----------------------------------------------------------------------------
(* Properties.                                                             *)

(* What leaves RxProc is what went into TxProc: all fragments of one       *)
(* packet, each once, in order (Reassembler_Accept), and the tables of the *)
(* reassembler agree (Reassembler_Delete_).  Neither face leaks an mbuf or *)
(* releases one twice, and the counters add up to the frames that arrived  *)
(* (RxProc_Input, TxLoop_TxFrames).                                        *)
LpDelivers ==
  which = "lp" => /\ L!TypeOK /\ L!IntactDelivery
                  /\ L!FramesAccounted /\ L!MbufsAccounted

(* What is read from Rx of an l3 face was written to Tx of its peer, and   *)
(* means the same to the receiver: which Interests a Data satisfies, what  *)
(* metadata and directory listings say (ndn/lp.go, Data.CanSatisfy,        *)
(* ndn/rdr); the verdict on a signature is the sender's, a changed byte is *)
(* noticed, and unknown elements are skipped or refused by criticality     *)
(* (ndn/sign.go, ndn/keychain, Interest and Data UnmarshalBinary).         *)
NdnDelivers ==
  which = "ndn" => /\ DeliveredWasSent /\ Satisfies /\ MetadataArrives
                   /\ Authentic /\ Evolvable
=============================================================================

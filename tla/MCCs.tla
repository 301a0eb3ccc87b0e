-------------------------------- MODULE MCCs --------------------------------
(* The Content Store for TLC: the replacement policy alone (CsArc), and the *)
(* whole store (Cs).  A behaviour is one of the component that `which`      *)
(* names; the other one rests.                                              *)
EXTENDS CsArc, TLC

CONSTANTS Chosen, e1, e2, e3
VARIABLES which, cs, pit

(* An instance in which no Data name is a prefix of another one.            *)
CsNames == {"r", "a", "a1", "a2", "a3", "a1v1", "a1v2"}
CsDataNames == {"a1", "a2", "a3"}
CsPrefixes == ("a1" :> {"r", "a"}) @@ ("a2" :> {"a"}) @@ ("a3" :> {})
CsDigests == "a1" :> [v1 |-> "a1v1", v2 |-> "a1v2"]
CsAsked == {<<"r", TRUE>>, <<"a", TRUE>>, <<"a1", FALSE>>, <<"a2", FALSE>>, <<"a3", FALSE>>,
            <<"a1v1", FALSE>>, <<"a1v2", FALSE>>}
AnyList == {"0"} \cup ArcList
S == INSTANCE Cs WITH
  Name <- CsNames, DataName <- CsDataNames, Version <- {"v1", "v2"}, ProperPrefixes <- CsPrefixes,
  Digest <- CsDigests, Ask <- CsAsked, MaxPending <- 2, C <- 1, Bulk <- 1, Scale <- 1,
  CapMi <- 2, CsMaxIndirects <- 2, Garbage <- AnyList

(* CsArc treats its entries alike; three of them are interchangeable here.  *)
Alike == Permutations({e1, e2, e3})

MCInit == which \in Chosen /\ Init /\ S!Init
MCNext == \/ which = "arc" /\ Next /\ UNCHANGED <<which, cs, pit>>
          \/ which = "cs" /\ S!Next /\ UNCHANGED <<which, arc>>
MCSpec == MCInit /\ [][MCNext]_<<which, arc, cs, pit>>

(* Every CS entry is on exactly the list that its kind calls for, direct    *)
(* and indirect entries point at each other, and an indirect entry leads to *)
(* Data that answers an Interest with the name of the indirect one          *)
(* (Cs_Insert, Cs_Erase, Cs_MatchInterest, CsEntry_Assoc).                  *)
CsSound == which = "cs" => S!OneListEach /\ S!PointersAgree /\ S!IndirectMatches
=============================================================================

---------------------------- MODULE CsArcProofs ----------------------------
(***************************************************************************)
(* Proofs about CsArc, for every capacity, bulk size, resolution of p and  *)
(* set of entries.                                                         *)
(***************************************************************************)
EXTENDS CsArc, SequenceTheorems, FiniteSetTheorems, TLAPS

(* SequencesExt!RemoveAt drops the k-th element and shifts the rest down.  *)
LEMMA RemoveAtProperties ==
  ASSUME NEW S, NEW s \in Seq(S), NEW k \in 1 .. Len(s)
  PROVE  /\ RemoveAt(s, k) \in Seq(S)
         /\ Len(RemoveAt(s, k)) = Len(s) - 1
         /\ \A j \in 1 .. Len(s) - 1 :
              RemoveAt(s, k)[j] = IF j < k THEN s[j] ELSE s[j + 1]
<1> DEFINE u == SubSeq(s, 1, k - 1)
           v == SubSeq(s, k + 1, Len(s))
<1>1. u \in Seq(S) /\ Len(u) = k - 1 /\ \A j \in 1 .. k - 1 : u[j] = s[j]
  OBVIOUS
<1>2. v \in Seq(S) /\ Len(v) = Len(s) - k /\ \A j \in 1 .. Len(s) - k : v[j] = s[k + j]
  OBVIOUS
<1>3. RemoveAt(s, k) = u \o v
  BY DEF RemoveAt
<1> HIDE DEF u, v
<1>4. /\ u \o v \in Seq(S)
      /\ Len(u \o v) = Len(u) + Len(v)
      /\ \A i \in 1 .. Len(u) + Len(v) :
           (u \o v)[i] = IF i <= Len(u) THEN u[i] ELSE v[i - Len(u)]
  BY <1>1, <1>2, ConcatProperties, ZenonT(40)
<1>5. Len(s) \in Nat /\ k \in Int
  OBVIOUS
<1>6. Len(u \o v) = Len(s) - 1
  BY <1>1, <1>2, <1>4, <1>5
<1>7. ASSUME NEW j \in 1 .. Len(s) - 1
      PROVE  (u \o v)[j] = IF j < k THEN s[j] ELSE s[j + 1]
  <2>1. CASE j < k
    BY <2>1, <1>1, <1>2, <1>4, <1>5, SMTT(30)
  <2>2. CASE ~(j < k)
    <3>1. j - (k - 1) \in 1 .. Len(s) - k /\ j \in 1 .. Len(u) + Len(v) /\ ~(j <= Len(u))
      BY <2>2, <1>1, <1>2, <1>5
    <3>2. (u \o v)[j] = v[j - (k - 1)]
      BY <3>1, <1>1, <1>4
    <3>3. v[j - (k - 1)] = s[k + (j - (k - 1))]
      BY <3>1, <1>2, ZenonT(40)
    <3>4. k + (j - (k - 1)) = j + 1
      BY <1>5
    <3> QED
      BY <2>2, <3>2, <3>3, <3>4
  <2> QED
    BY <2>1, <2>2, ZenonT(40)
<1> QED
  BY <1>3, <1>4, <1>6, <1>7

(* The links of a well-formed state: sequences of entries, without         *)
(* repetition.                                                             *)
Links == [ArcList -> Seq(Entry)]

NoRepeat(s) == \A j, k \in DOMAIN s : s[j] = s[k] => j = k

(* Appending an entry that is not there yet.                               *)
LEMMA AppendLinks ==
  ASSUME NEW s \in Seq(Entry), NEW e \in Entry
  PROVE  /\ Append(s, e) \in Seq(Entry)
         /\ Len(Append(s, e)) = Len(s) + 1
         /\ \A x : (\E k \in DOMAIN Append(s, e) : Append(s, e)[k] = x)
                  <=> (\E k \in DOMAIN s : s[k] = x) \/ x = e
         /\ NoRepeat(s) /\ (\A k \in DOMAIN s : s[k] # e) => NoRepeat(Append(s, e))
<1> DEFINE t == Append(s, e)
<1>1. /\ t \in Seq(Entry) /\ Len(t) = Len(s) + 1 /\ Len(s) \in Nat
      /\ DOMAIN s = 1 .. Len(s) /\ DOMAIN t = 1 .. Len(s) + 1
      /\ \A k \in 1 .. Len(s) : t[k] = s[k]
      /\ t[Len(s) + 1] = e
  OBVIOUS
<1> HIDE DEF t
<1>2. \A k \in 1 .. Len(s) + 1 : k \in 1 .. Len(s) \/ k = Len(s) + 1
  BY <1>1
<1>3. 1 .. Len(s) \subseteq 1 .. Len(s) + 1 /\ Len(s) + 1 \in 1 .. Len(s) + 1
  BY <1>1
<1>4. \A x : (\E k \in DOMAIN t : t[k] = x) <=> (\E k \in DOMAIN s : s[k] = x) \/ x = e
  BY <1>1, <1>2, <1>3
<1>5. ASSUME NoRepeat(s), \A k \in DOMAIN s : s[k] # e
      PROVE  NoRepeat(t)
  <2> SUFFICES ASSUME NEW j \in DOMAIN t, NEW k \in DOMAIN t, t[j] = t[k]
               PROVE  j = k
    BY DEF NoRepeat
  <2> QED
    BY <1>1, <1>2, <1>5 DEF NoRepeat
<1> QED
  BY <1>1, <1>4, <1>5 DEF t

(* CsList_RemoveNode on the one list that holds e takes e off that list,   *)
(* keeps its other entries, and leaves the other lists alone.              *)
LEMMA RemoveNodeProperties ==
  ASSUME NEW l \in Links, NEW e \in Entry, NEW i \in ArcList,
         NoRepeat(l[i]), Linked(l, i, e),
         \A j \in ArcList : Linked(l, j, e) => j = i
  PROVE  LET r == CsList_RemoveNode(l, e) IN
         /\ r \in Links
         /\ Len(r[i]) = Len(l[i]) - 1
         /\ \A j \in ArcList : j # i => r[j] = l[j]
         /\ NoRepeat(r[i])
         /\ \A x \in Entry : Linked(r, i, x) <=> Linked(l, i, x) /\ x # e
<1> DEFINE s == l[i]
           k == Position(l[i], e)
           t == RemoveAt(s, k)
           r == CsList_RemoveNode(l, e)
<1>1. s \in Seq(Entry) /\ DOMAIN s = 1 .. Len(s) /\ Len(s) \in Nat
  BY DEF Links
<1>2. k \in 1 .. Len(s) /\ s[k] = e
  BY <1>1 DEF Linked, Position
<1>3. r = [j \in ArcList |-> IF j = i THEN t ELSE l[j]]
  BY DEF CsList_RemoveNode, Links
<1>4. NoRepeat(s)
  OBVIOUS
<1>h. \A x \in Entry : Linked(l, i, x) <=> \E j \in 1 .. Len(s) : s[j] = x
  BY <1>1 DEF Linked
<1> HIDE DEF s, k, t, r
<1>5. /\ t \in Seq(Entry)
      /\ Len(t) = Len(s) - 1
      /\ DOMAIN t = 1 .. Len(s) - 1
      /\ \A j \in 1 .. Len(s) - 1 : t[j] = IF j < k THEN s[j] ELSE s[j + 1]
  <2>1. /\ RemoveAt(s, k) \in Seq(Entry)
        /\ Len(RemoveAt(s, k)) = Len(s) - 1
        /\ \A j \in 1 .. Len(s) - 1 :
             RemoveAt(s, k)[j] = IF j < k THEN s[j] ELSE s[j + 1]
    BY <1>1, <1>2, RemoveAtProperties, ZenonT(40)
  <2>2. DOMAIN RemoveAt(s, k) = 1 .. Len(s) - 1
    BY <2>1
  <2> QED
    BY <2>1, <2>2, SMTT(30) DEF t
<1>6. r[i] = t /\ \A j \in ArcList : j # i => r[j] = l[j]
  BY <1>3
<1>7. r \in Links
  BY <1>3, <1>5 DEF Links
<1>8. NoRepeat(t)
  <2> SUFFICES ASSUME NEW a \in 1 .. Len(s) - 1, NEW b \in 1 .. Len(s) - 1, t[a] = t[b]
               PROVE  a = b
    BY <1>5 DEF NoRepeat
  <2> DEFINE aa == IF a < k THEN a ELSE a + 1
             bb == IF b < k THEN b ELSE b + 1
  <2>1. aa \in 1 .. Len(s) /\ bb \in 1 .. Len(s) /\ t[a] = s[aa] /\ t[b] = s[bb]
    BY <1>1, <1>2, <1>5
  <2>2. aa = bb
    BY <2>1, <1>1, <1>4, ZenonT(40) DEF NoRepeat
  <2> QED
    BY <2>2, <1>2
<1>9. ASSUME NEW x \in Entry
      PROVE  (\E j \in 1 .. Len(s) - 1 : t[j] = x) <=> (\E j \in 1 .. Len(s) : s[j] = x) /\ x # e
  <2>1. ASSUME NEW j \in 1 .. Len(s) - 1, t[j] = x
        PROVE  (\E m \in 1 .. Len(s) : s[m] = x) /\ x # e
    <3> DEFINE jj == IF j < k THEN j ELSE j + 1
    <3>1. jj \in 1 .. Len(s) /\ s[jj] = x /\ jj # k
      BY <2>1, <1>1, <1>2, <1>5
    <3>2. s[jj] # e
      BY <3>1, <1>1, <1>2, <1>4 DEF NoRepeat
    <3> QED
      BY <3>1, <3>2
  <2>2. ASSUME NEW m \in 1 .. Len(s), s[m] = x, x # e
        PROVE  \E j \in 1 .. Len(s) - 1 : t[j] = x
    <3> DEFINE mm == IF m < k THEN m ELSE m - 1
    <3>1. m # k
      BY <2>2, <1>2
    <3>2. mm \in 1 .. Len(s) - 1 /\ t[mm] = s[m]
      BY <3>1, <1>1, <1>2, <1>5
    <3> QED
      BY <3>2, <2>2
  <2> QED
    BY <2>1, <2>2
<1>10. \A x \in Entry : Linked(r, i, x) <=> \E j \in 1 .. Len(s) - 1 : t[j] = x
  BY <1>5, <1>6 DEF Linked
<1> QED
  BY <1>5, <1>6, <1>7, <1>8, <1>9, <1>10, <1>h, SMTT(30) DEF s, r

----------------------------------------------------------------------------
(* Well-formed states, and what the list operations do to them.            *)

WF(a) == ArcState(a) /\ Agree(a)

(* The counters are the lengths of the lists.                              *)
LEMMA CountsAreNaturals ==
  ASSUME NEW a, WF(a)
  PROVE  \A i \in ArcList : a.n[i] \in Nat /\ a.n[i] = Len(a.l[i])
BY DEF WF, ArcState, Agree

(* b is a with entry e moved from list src to list dst, and with the Data  *)
(* packets d.                                                              *)
MovedTo(a, b, e, src, dst, d) ==
  /\ WF(b)
  /\ b.n[src] = a.n[src] - 1
  /\ b.n[dst] = a.n[dst] + 1
  /\ \A i \in ArcList : i \notin {src, dst} => b.n[i] = a.n[i]
  /\ b.at = [a.at EXCEPT ![e] = dst]
  /\ b.data = d
  /\ b.p = a.p
  /\ b.ok = a.ok

(* CsArc_Move of an entry on its own list fails no assertion and keeps the *)
(* state well-formed.                                                      *)
LEMMA MoveProperties ==
  ASSUME NEW a, WF(a), NEW e \in Entry, NEW src \in ArcList, NEW dst \in ArcList,
         src # dst, a.at[e] = src
  PROVE  MovedTo(a, CsArc_Move(a, e, src, dst), e, src, dst, a.data)
<1> DEFINE r == CsList_RemoveNode(a.l, e)
           m == [r EXCEPT ![dst] = Append(@, e)]
           b == CsArc_Move(a, e, src, dst)
<1>1. /\ ArcState(a) /\ a.l \in Links /\ a.n \in [ArcList -> Int]
      /\ a.at \in [Entry -> ArcList \cup {"0"}] /\ a.ok \in BOOLEAN
  BY DEF WF, ArcState, Links
<1>2. /\ \A i \in ArcList : a.n[i] = Len(a.l[i])
      /\ \A x \in Entry, i \in ArcList : Linked(a.l, i, x) <=> a.at[x] = i
      /\ \A i \in ArcList : NoRepeat(a.l[i])
  BY DEF WF, Agree, NoRepeat
<1>3. /\ Linked(a.l, src, e)
      /\ \A j \in ArcList : Linked(a.l, j, e) => j = src
  BY <1>2
<1>4. /\ r \in Links
      /\ Len(r[src]) = Len(a.l[src]) - 1
      /\ \A j \in ArcList : j # src => r[j] = a.l[j]
      /\ NoRepeat(r[src])
      /\ \A x \in Entry : Linked(r, src, x) <=> Linked(a.l, src, x) /\ x # e
  BY <1>1, <1>2, <1>3, RemoveNodeProperties
<1>5. a.n[src] > 0
  <2>1. a.l[src] \in Seq(Entry) /\ DOMAIN a.l[src] # {}
    BY <1>1, <1>3 DEF Links, Linked
  <2> QED
    BY <2>1, <1>2
<1> DEFINE n1 == [a.n EXCEPT ![src] = @ - 1]
           n2 == [n1 EXCEPT ![dst] = @ + 1]
<1>6. /\ b.l = m
      /\ b.n = n2
      /\ b.at = [a.at EXCEPT ![e] = dst]
      /\ b.data = a.data
      /\ b.p = a.p
      /\ b.ok = a.ok
      /\ DOMAIN b = {"l", "n", "at", "data", "p", "ok"}
  <2> DEFINE x == CsList_Remove(a, src, e)
             y == [x EXCEPT !.ok = @ /\ a.at[e] = src, !.at[e] = dst]
  <2>1. x.l = r
    BY <1>1 DEF CsList_Remove, ArcState
  <2>2. x.n = n1
    BY <1>1 DEF CsList_Remove, ArcState
  <2>3. x.at = a.at /\ x.data = a.data /\ x.p = a.p
    BY <1>1 DEF CsList_Remove, ArcState
  <2>4. x.ok = a.ok
    BY <1>1, <1>5 DEF CsList_Remove, ArcState
  <2>5. DOMAIN x = {"l", "n", "at", "data", "p", "ok"}
    BY <1>1 DEF CsList_Remove, ArcState
  <2> HIDE DEF x, r, n1
  <2>6. y.l = r /\ y.n = n1 /\ y.data = a.data /\ y.p = a.p
    BY <2>1, <2>2, <2>3, <2>5
  <2>7. y.at = [a.at EXCEPT ![e] = dst]
    BY <2>3, <2>5
  <2>8. y.ok = a.ok
    BY <1>1, <2>4, <2>5 DEF ArcState
  <2>9. DOMAIN y = {"l", "n", "at", "data", "p", "ok"}
    BY <2>5
  <2>10. b = CsList_Append(y, dst, e)
    BY DEF CsArc_Move, x
  <2> HIDE DEF y, b
  <2>11. b.l = m
    BY <2>6, <2>9, <2>10 DEF CsList_Append
  <2>12. b.n = n2
    BY <2>6, <2>9, <2>10 DEF CsList_Append
  <2>13. b.at = [a.at EXCEPT ![e] = dst]
    BY <2>7, <2>9, <2>10 DEF CsList_Append
  <2>14. b.data = a.data /\ b.p = a.p
    BY <2>6, <2>9, <2>10 DEF CsList_Append
  <2>15. b.ok = a.ok
    BY <2>8, <2>9, <2>10 DEF CsList_Append
  <2>16. DOMAIN b = {"l", "n", "at", "data", "p", "ok"}
    BY <2>9, <2>10 DEF CsList_Append
  <2> QED
    BY <2>11, <2>12, <2>13, <2>14, <2>15, <2>16, SMTT(30)
<1>7. n2 = [i \in ArcList |-> IF i = src THEN a.n[src] - 1
                              ELSE IF i = dst THEN a.n[dst] + 1 ELSE a.n[i]]
  BY <1>1
<1> HIDE DEF r, b, n2
<1>8. /\ m \in Links
      /\ m[dst] = Append(a.l[dst], e)
      /\ \A j \in ArcList : j # dst => m[j] = r[j]
  BY <1>1, <1>4 DEF Links
<1> HIDE DEF m
<1>9. ArcState(b)
  <2>1. b.n \in [ArcList -> Int] /\ b.at \in [Entry -> ArcList \cup {"0"}]
    BY <1>1, <1>6, <1>7
  <2> QED
    BY <1>1, <1>6, <1>7, <1>8, <2>1 DEF ArcState, Links
<1>10. a.l[dst] \in Seq(Entry) /\ Len(a.l[dst]) \in Nat
  BY <1>1 DEF Links
<1>11. /\ Len(m[dst]) = Len(a.l[dst]) + 1
       /\ \A x \in Entry : Linked(m, dst, x) <=> Linked(a.l, dst, x) \/ x = e
  <2> DEFINE s == a.l[dst]
  <2>1. s \in Seq(Entry) /\ m[dst] = Append(s, e)
    BY <1>8, <1>10
  <2> HIDE DEF s
  <2>2. Len(m[dst]) = Len(s) + 1
    BY <2>1, AppendLinks
  <2>3. \A x : (\E k \in DOMAIN m[dst] : m[dst][k] = x)
             <=> (\E k \in DOMAIN s : s[k] = x) \/ x = e
    BY <2>1, AppendLinks
  <2> QED
    BY <2>2, <2>3 DEF Linked, s
<1>12. \A k \in DOMAIN a.l[dst] : a.l[dst][k] # e
  BY <1>3 DEF Linked
<1>13. NoRepeat(m[dst])
  BY <1>2, <1>8, <1>10, <1>12, AppendLinks
<1>14. \A i \in ArcList : NoRepeat(m[i])
  BY <1>2, <1>4, <1>8, <1>13, ZenonT(40)
<1>15. \A i \in ArcList : b.n[i] = Len(m[i])
  <2>1. \A i \in ArcList : Len(a.l[i]) \in Nat
    BY <1>1 DEF Links
  <2>2. \A i \in ArcList : i \notin {src, dst} => b.n[i] = Len(m[i])
    BY <1>1, <1>2, <1>4, <1>6, <1>7, <1>8
  <2>3. b.n[src] = Len(m[src])
    BY <1>1, <1>2, <1>4, <1>6, <1>7, <1>8
  <2>4. b.n[dst] = Len(m[dst])
    BY <1>1, <1>2, <1>6, <1>7, <1>11
  <2> QED
    BY <2>2, <2>3, <2>4
<1>16. ASSUME NEW x \in Entry, NEW i \in ArcList
       PROVE  Linked(m, i, x) <=> b.at[x] = i
  <2>1. Linked(m, i, x) <=> IF i = dst THEN Linked(m, dst, x)
                            ELSE IF i = src THEN Linked(r, src, x) ELSE Linked(a.l, i, x)
    BY <1>4, <1>8 DEF Linked
  <2>2. b.at[x] = IF x = e THEN dst ELSE a.at[x]
    BY <1>1, <1>6
  <2> QED
    BY <2>1, <2>2, <1>2, <1>3, <1>4, <1>11
<1>17. Agree(b)
  BY <1>6, <1>14, <1>15, <1>16 DEF Agree, NoRepeat
<1>18. /\ b.n[src] = a.n[src] - 1
       /\ b.n[dst] = a.n[dst] + 1
       /\ \A i \in ArcList : i \notin {src, dst} => b.n[i] = a.n[i]
  BY <1>1, <1>6, <1>7
<1> QED
  BY <1>6, <1>9, <1>17, <1>18 DEF MovedTo, WF, b

(* A state with the lists of a well-formed one is well-formed.             *)
LEMMA SameLists ==
  ASSUME NEW a, WF(a), NEW b, ArcState(b), b.l = a.l, b.n = a.n, b.at = a.at
  PROVE  WF(b)
BY DEF WF, Agree

(* Clearing the Data of an entry touches nothing else.                     *)
LEMMA ClearDataProperties ==
  ASSUME NEW a, WF(a), NEW e \in Entry
  PROVE  LET b == CsEntry_ClearData(a, e)
         IN  /\ WF(b)
             /\ b.l = a.l /\ b.n = a.n /\ b.at = a.at /\ b.p = a.p /\ b.ok = a.ok
             /\ b.data = a.data \ {e}
<1> DEFINE b == CsEntry_ClearData(a, e)
<1>1. ArcState(a)
  BY DEF WF
<1>2. /\ b.l = a.l /\ b.n = a.n /\ b.at = a.at /\ b.p = a.p /\ b.ok = a.ok
      /\ b.data = a.data \ {e} /\ DOMAIN b = DOMAIN a
  BY <1>1 DEF ArcState, CsEntry_ClearData
<1> HIDE DEF b
<1>3. ArcState(b)
  BY <1>1, <1>2 DEF ArcState
<1> QED
  BY <1>2, <1>3, SameLists DEF b

(* The front of a list with a positive counter is an entry of that list.   *)
LEMMA FrontProperties ==
  ASSUME NEW a, WF(a), NEW src \in ArcList, a.n[src] > 0
  PROVE  /\ HasFront(a, src)
         /\ Head(a.l[src]) \in Entry
         /\ a.at[Head(a.l[src])] = src
<1>1. a.l[src] \in Seq(Entry) /\ Len(a.l[src]) > 0
  BY DEF WF, ArcState, Agree
<1>2. a.l[src] # <<>> /\ 1 \in DOMAIN a.l[src] /\ Head(a.l[src]) = a.l[src][1]
  BY <1>1
<1>3. Linked(a.l, src, Head(a.l[src])) /\ Head(a.l[src]) \in Entry
  BY <1>1, <1>2 DEF Linked
<1> QED
  BY <1>2, <1>3 DEF HasFront, WF, Agree

(* CsArc_MoveFront moves the first entry of a list that has one.           *)
LEMMA MoveFrontProperties ==
  ASSUME NEW a, WF(a), NEW src \in ArcList, NEW dst \in ArcList, src # dst,
         a.n[src] > 0
  PROVE  MovedTo(a, MoveFront(a, src, dst), Head(a.l[src]), src, dst, a.data)
BY FrontProperties, MoveProperties DEF MoveFront

(* CsArc_Replace, when the list it picks is not empty: one entry becomes a *)
(* ghost.                                                                  *)
LEMMA ReplaceProperties ==
  ASSUME NEW a, WF(a), NEW isB2 \in BOOLEAN, a.n[VictimList(a, isB2)] > 0
  PROVE  LET src == VictimList(a, isB2)
             dst == IF src = "T1" THEN "B1" ELSE "B2"
             v == Head(a.l[src])
         IN  v \in Entry /\ a.at[v] = src
             /\ MovedTo(a, CsArc_Replace(a, isB2), v, src, dst, a.data \ {v})
<1> DEFINE src == VictimList(a, isB2)
           dst == IF src = "T1" THEN "B1" ELSE "B2"
           v == Head(a.l[src])
           m == MoveFront(a, src, dst)
           b == CsEntry_ClearData(m, v)
<1>1. src \in {"T1", "T2"}
  BY DEF VictimList
<1>2. CsArc_Replace(a, isB2) = IF HasFront(a, src) THEN b ELSE m
  BY DEF CsArc_Replace
<1> HIDE DEF src
<1>3. src \in ArcList /\ dst \in ArcList /\ src # dst /\ a.n[src] > 0
  BY <1>1 DEF ArcList, src
<1> HIDE DEF dst
<1>4. HasFront(a, src) /\ v \in Entry /\ a.at[v] = src
  BY <1>3, FrontProperties
<1>5. MovedTo(a, m, v, src, dst, a.data)
  BY <1>3, MoveFrontProperties
<1> HIDE DEF v, m
<1>6. /\ WF(b) /\ b.l = m.l /\ b.n = m.n /\ b.at = m.at /\ b.p = m.p /\ b.ok = m.ok
      /\ b.data = m.data \ {v}
  BY <1>4, <1>5, ClearDataProperties DEF MovedTo
<1> HIDE DEF b
<1>7. MovedTo(a, b, v, src, dst, a.data \ {v})
  BY <1>5, <1>6 DEF MovedTo
<1> QED
  BY <1>2, <1>4, <1>7 DEF v, src, dst

(* CsArc_Remove, for any entry a list holds.                               *)
RemovedFrom(a, b, e, src) ==
  /\ WF(b)
  /\ b.n[src] = a.n[src] - 1
  /\ \A i \in ArcList : i # src => b.n[i] = a.n[i]
  /\ b.at = [a.at EXCEPT ![e] = "0"]
  /\ b.data = a.data
  /\ b.p = a.p
  /\ b.ok = a.ok

(* CsArc_Remove takes an entry off its list.                               *)
LEMMA RemoveProperties ==
  ASSUME NEW a, WF(a), NEW e \in Entry, NEW src \in ArcList, a.at[e] = src
  PROVE  RemovedFrom(a, CsArc_Remove(a, e), e, src)
<1> DEFINE r == CsList_RemoveNode(a.l, e)
           n1 == [a.n EXCEPT ![src] = @ - 1]
           x == CsList_Remove(a, src, e)
           b == CsArc_Remove(a, e)
<1>1. /\ ArcState(a) /\ a.l \in Links /\ a.n \in [ArcList -> Int]
      /\ a.at \in [Entry -> ArcList \cup {"0"}] /\ a.ok \in BOOLEAN
  BY DEF WF, ArcState, Links
<1>2. /\ \A i \in ArcList : a.n[i] = Len(a.l[i])
      /\ \A y \in Entry, i \in ArcList : Linked(a.l, i, y) <=> a.at[y] = i
      /\ \A i \in ArcList : NoRepeat(a.l[i])
  BY DEF WF, Agree, NoRepeat
<1>3. /\ Linked(a.l, src, e)
      /\ \A j \in ArcList : Linked(a.l, j, e) => j = src
  BY <1>2
<1>4. /\ r \in Links
      /\ Len(r[src]) = Len(a.l[src]) - 1
      /\ \A j \in ArcList : j # src => r[j] = a.l[j]
      /\ NoRepeat(r[src])
      /\ \A y \in Entry : Linked(r, src, y) <=> Linked(a.l, src, y) /\ y # e
  BY <1>1, <1>2, <1>3, RemoveNodeProperties
<1>5. a.n[src] > 0
  <2>1. a.l[src] \in Seq(Entry) /\ DOMAIN a.l[src] # {}
    BY <1>1, <1>3 DEF Links, Linked
  <2> QED
    BY <2>1, <1>2
<1>6. x.l = r
  BY <1>1 DEF CsList_Remove, ArcState
<1>7. x.n = n1
  BY <1>1 DEF CsList_Remove, ArcState
<1>8. x.at = a.at /\ x.data = a.data /\ x.p = a.p
  BY <1>1 DEF CsList_Remove, ArcState
<1>9. x.ok = a.ok
  BY <1>1, <1>5 DEF CsList_Remove, ArcState
<1>10. DOMAIN x = {"l", "n", "at", "data", "p", "ok"}
  BY <1>1 DEF CsList_Remove, ArcState
<1>11. b = [x EXCEPT !.at[e] = "0"]
  BY DEF CsArc_Remove
<1> HIDE DEF x, b, r
<1>12. b.l = r /\ b.n = n1 /\ b.data = a.data /\ b.p = a.p
  BY <1>6, <1>7, <1>8, <1>10, <1>11
<1>13. b.at = [a.at EXCEPT ![e] = "0"]
  BY <1>8, <1>10, <1>11
<1>14. b.ok = a.ok
  BY <1>9, <1>10, <1>11
<1>15. DOMAIN b = {"l", "n", "at", "data", "p", "ok"}
  BY <1>10, <1>11
<1>16. ArcState(b)
  BY <1>1, <1>4, <1>12, <1>13, <1>14, <1>15 DEF ArcState, Links
<1>17. \A i \in ArcList : b.n[i] = Len(r[i])
  BY <1>1, <1>2, <1>4, <1>12
<1>18. \A i \in ArcList : NoRepeat(r[i])
  BY <1>2, <1>4
<1>19. ASSUME NEW y \in Entry, NEW i \in ArcList
       PROVE  Linked(r, i, y) <=> b.at[y] = i
  <2>1. Linked(r, i, y) <=> IF i = src THEN Linked(r, src, y) ELSE Linked(a.l, i, y)
    BY <1>4 DEF Linked
  <2>2. b.at[y] = IF y = e THEN "0" ELSE a.at[y]
    BY <1>1, <1>13
  <2>3. "0" \notin ArcList
    BY DEF ArcList
  <2> QED
    BY <2>1, <2>2, <2>3, <1>2, <1>4
<1>20. Agree(b)
  BY <1>12, <1>17, <1>18, <1>19 DEF Agree, NoRepeat
<1>21. b.n[src] = a.n[src] - 1 /\ \A i \in ArcList : i # src => b.n[i] = a.n[i]
  BY <1>1, <1>12
<1> QED
  BY <1>12, <1>13, <1>14, <1>16, <1>20, <1>21 DEF RemovedFrom, WF, b

(* Appending an entry that no list holds, with arcList set.                *)
AddedTo(a, b, e, dst) ==
  /\ WF(b)
  /\ b.n[dst] = a.n[dst] + 1
  /\ \A i \in ArcList : i # dst => b.n[i] = a.n[i]
  /\ b.at = [a.at EXCEPT ![e] = dst]
  /\ b.data = a.data
  /\ b.p = a.p
  /\ b.ok = a.ok

(* CsArc_AddNew puts an entry that is on no list at the end of one.        *)
LEMMA TrackProperties ==
  ASSUME NEW a, WF(a), NEW e \in Entry, NEW dst \in ArcList, a.at[e] = "0"
  PROVE  AddedTo(a, Track(a, dst, e), e, dst)
<1> DEFINE x == [a EXCEPT !.at[e] = dst]
           s == a.l[dst]
           m == [a.l EXCEPT ![dst] = Append(@, e)]
           b == CsList_Append(x, dst, e)
<1> SUFFICES AddedTo(a, b, e, dst)
  BY DEF Track
<1>1. /\ ArcState(a) /\ a.l \in Links /\ a.n \in [ArcList -> Int]
      /\ a.at \in [Entry -> ArcList \cup {"0"}] /\ a.ok \in BOOLEAN
  BY DEF WF, ArcState, Links
<1>2. /\ \A i \in ArcList : a.n[i] = Len(a.l[i])
      /\ \A y \in Entry, i \in ArcList : Linked(a.l, i, y) <=> a.at[y] = i
      /\ \A i \in ArcList : NoRepeat(a.l[i])
  BY DEF WF, Agree, NoRepeat
<1>3. \A j \in ArcList : ~ Linked(a.l, j, e)
  BY <1>2 DEF ArcList
<1>4. /\ x.l = a.l /\ x.n = a.n /\ x.at = [a.at EXCEPT ![e] = dst] /\ x.data = a.data
      /\ x.p = a.p /\ x.ok = a.ok /\ DOMAIN x = {"l", "n", "at", "data", "p", "ok"}
  BY <1>1 DEF ArcState
<1> HIDE DEF x
<1>5. b.l = m /\ b.at = [a.at EXCEPT ![e] = dst]
  BY <1>4 DEF CsList_Append
<1>6. b.n = [a.n EXCEPT ![dst] = @ + 1]
  BY <1>4 DEF CsList_Append
<1>7. b.data = a.data /\ b.p = a.p /\ b.ok = a.ok
  BY <1>4 DEF CsList_Append
<1>8. DOMAIN b = {"l", "n", "at", "data", "p", "ok"}
  BY <1>4 DEF CsList_Append
<1> HIDE DEF b
<1>9. m \in Links /\ m[dst] = Append(a.l[dst], e)
      /\ \A j \in ArcList : j # dst => m[j] = a.l[j]
  BY <1>1 DEF Links
<1> HIDE DEF m
<1>10. ArcState(b)
  BY <1>1, <1>5, <1>6, <1>7, <1>8, <1>9, SMTT(30) DEF ArcState, Links
<1>11. s \in Seq(Entry) /\ m[dst] = Append(s, e) /\ NoRepeat(s)
       /\ \A k \in DOMAIN s : s[k] # e
  BY <1>1, <1>2, <1>3, <1>9 DEF Links, Linked
<1> HIDE DEF s
<1>12. Len(m[dst]) = Len(s) + 1 /\ NoRepeat(m[dst])
  BY <1>11, AppendLinks
<1>13. \A y : (\E k \in DOMAIN m[dst] : m[dst][k] = y)
             <=> (\E k \in DOMAIN s : s[k] = y) \/ y = e
  BY <1>11, AppendLinks
<1>14. \A i \in ArcList : b.n[i] = Len(m[i])
  BY <1>1, <1>2, <1>6, <1>9, <1>12 DEF s
<1>15. \A i \in ArcList : NoRepeat(m[i])
  BY <1>2, <1>9, <1>12, ZenonT(40)
<1>16. ASSUME NEW y \in Entry, NEW i \in ArcList
       PROVE  Linked(m, i, y) <=> b.at[y] = i
  <2>1. Linked(m, i, y) <=> Linked(a.l, i, y) \/ (i = dst /\ y = e)
    BY <1>9, <1>13, ZenonT(40) DEF Linked, s
  <2>2. b.at[y] = IF y = e THEN dst ELSE a.at[y]
    BY <1>1, <1>5
  <2> QED
    BY <2>1, <2>2, <1>2, <1>3
<1>17. Agree(b)
  BY <1>5, <1>14, <1>15, <1>16 DEF Agree, NoRepeat
<1>18. b.n[dst] = a.n[dst] + 1 /\ \A i \in ArcList : i # dst => b.n[i] = a.n[i]
  BY <1>1, <1>6
<1> QED
  BY <1>5, <1>7, <1>10, <1>17, <1>18 DEF AddedTo, WF

(* CsList_MoveToLast on the entry's own list.                              *)
LEMMA MoveToLastProperties ==
  ASSUME NEW a, WF(a), NEW e \in Entry, NEW i \in ArcList, a.at[e] = i
  PROVE  LET b == CsList_MoveToLast(a, i, e)
         IN  /\ WF(b)
             /\ b.n = a.n /\ b.at = a.at /\ b.data = a.data /\ b.p = a.p /\ b.ok = a.ok
<1> DEFINE r == CsList_RemoveNode(a.l, e)
           s == r[i]
           m == [r EXCEPT ![i] = Append(@, e)]
           b == CsList_MoveToLast(a, i, e)
<1> SUFFICES /\ WF(b)
             /\ b.n = a.n /\ b.at = a.at /\ b.data = a.data /\ b.p = a.p /\ b.ok = a.ok
  OBVIOUS
<1>1. /\ ArcState(a) /\ a.l \in Links /\ a.n \in [ArcList -> Int]
  BY DEF WF, ArcState, Links
<1>2. /\ \A j \in ArcList : a.n[j] = Len(a.l[j])
      /\ \A y \in Entry, j \in ArcList : Linked(a.l, j, y) <=> a.at[y] = j
      /\ \A j \in ArcList : NoRepeat(a.l[j])
  BY DEF WF, Agree, NoRepeat
<1>3. /\ Linked(a.l, i, e)
      /\ \A j \in ArcList : Linked(a.l, j, e) => j = i
  BY <1>2
<1>4. /\ r \in Links
      /\ Len(r[i]) = Len(a.l[i]) - 1
      /\ \A j \in ArcList : j # i => r[j] = a.l[j]
      /\ NoRepeat(r[i])
      /\ \A y \in Entry : Linked(r, i, y) <=> Linked(a.l, i, y) /\ y # e
  BY <1>1, <1>2, <1>3, RemoveNodeProperties
<1>5. /\ b.l = m /\ b.n = a.n /\ b.at = a.at /\ b.data = a.data /\ b.p = a.p /\ b.ok = a.ok
      /\ DOMAIN b = {"l", "n", "at", "data", "p", "ok"}
  BY <1>1 DEF CsList_MoveToLast, ArcState
<1> HIDE DEF r, b
<1>6. m \in Links /\ m[i] = Append(s, e)
      /\ \A j \in ArcList : j # i => m[j] = a.l[j]
  BY <1>4 DEF Links
<1>7. s \in Seq(Entry) /\ NoRepeat(s) /\ \A k \in DOMAIN s : s[k] # e
  BY <1>4 DEF Links, Linked
<1>8. \A y \in Entry : Linked(r, i, y) <=> \E k \in DOMAIN s : s[k] = y
  BY DEF Linked
<1>9. Len(s) = Len(a.l[i]) - 1 /\ Len(a.l[i]) \in Nat
  BY <1>1, <1>4 DEF Links
<1> HIDE DEF m, s
<1>10. Len(m[i]) = Len(s) + 1 /\ NoRepeat(m[i])
  BY <1>6, <1>7, AppendLinks
<1>11. \A y : (\E k \in DOMAIN m[i] : m[i][k] = y)
             <=> (\E k \in DOMAIN s : s[k] = y) \/ y = e
  BY <1>6, <1>7, AppendLinks
<1>12. \A j \in ArcList : b.n[j] = Len(m[j])
  BY <1>2, <1>5, <1>6, <1>9, <1>10
<1>13. \A j \in ArcList : NoRepeat(m[j])
  BY <1>2, <1>6, <1>10, ZenonT(40)
<1>14. ASSUME NEW y \in Entry, NEW j \in ArcList
       PROVE  Linked(m, j, y) <=> b.at[y] = j
  <2>1. Linked(m, j, y) <=> IF j = i THEN Linked(r, i, y) \/ y = e ELSE Linked(a.l, j, y)
    BY <1>6, <1>8, <1>11 DEF Linked
  <2> QED
    BY <2>1, <1>2, <1>4, <1>5
<1>15. Agree(b)
  BY <1>5, <1>12, <1>13, <1>14 DEF Agree, NoRepeat
<1>16. ArcState(b)
  BY <1>1, <1>5, <1>6 DEF ArcState, Links
<1> QED
  BY <1>5, <1>15, <1>16 DEF WF

(* Cs_Evict on a full Del list empties it.                                 *)
LEMMA EvictDelProperties ==
  ASSUME NEW a, WF(a), a.n["Del"] <= Bulk
  PROVE  LET b == EvictDel(a)
         IN  /\ WF(b)
             /\ b.n["Del"] < Bulk
             /\ \A i \in ArcList \ {"Del"} : b.n[i] = a.n[i]
             /\ b.data = a.data /\ b.p = a.p /\ b.ok = a.ok
             /\ \A x \in Entry : \/ b.at[x] = a.at[x]
                                 \/ a.at[x] = "Del" /\ b.at[x] = "0"
<1> DEFINE b == EvictDel(a)
           s == a.l["Del"]
<1> SUFFICES /\ WF(b)
             /\ b.n["Del"] < Bulk
             /\ \A i \in ArcList \ {"Del"} : b.n[i] = a.n[i]
             /\ b.data = a.data /\ b.p = a.p /\ b.ok = a.ok
             /\ \A x \in Entry : \/ b.at[x] = a.at[x]
                                 \/ a.at[x] = "Del" /\ b.at[x] = "0"
  OBVIOUS
<1>1. "Del" \in ArcList /\ "0" \notin ArcList
  BY DEF ArcList
<1>2. /\ ArcState(a) /\ a.l \in Links /\ a.n \in [ArcList -> Int] /\ s \in Seq(Entry)
      /\ a.n["Del"] = Len(s) /\ a.at \in [Entry -> ArcList \cup {"0"}]
  BY <1>1 DEF WF, ArcState, Links, Agree
<1>3. /\ \A j \in ArcList : a.n[j] = Len(a.l[j])
      /\ \A y \in Entry, j \in ArcList : Linked(a.l, j, y) <=> a.at[y] = j
      /\ \A j \in ArcList : NoRepeat(a.l[j])
  BY DEF WF, Agree, NoRepeat
<1>4. CASE a.n["Del"] < Bulk
  BY <1>4 DEF EvictDel
<1>5. CASE ~ (a.n["Del"] < Bulk)
  <2> DEFINE k == Min2(Bulk, a.n["Del"])
             gone == {a.l["Del"][j] : j \in 1..k}
  <2>1. k = Len(s) /\ Bulk = Len(s) /\ Len(s) \in Nat
    BY <1>2, <1>5, BulkAssumption DEF Min2
  <2>2. \A x \in Entry : x \in gone <=> a.at[x] = "Del"
    <3>1. \A x \in Entry : x \in gone <=> Linked(a.l, "Del", x)
      BY <1>2, <2>1 DEF Linked
    <3> QED
      BY <3>1, <1>1, <1>3
  <2>3. /\ b.l = [a.l EXCEPT !["Del"] = SubSeq(s, k + 1, Len(s))]
        /\ b.n = [a.n EXCEPT !["Del"] = a.n["Del"] - k]
        /\ b.data = a.data /\ b.p = a.p /\ b.ok = a.ok
        /\ DOMAIN b = {"l", "n", "at", "data", "p", "ok"}
    BY <1>2, <1>5 DEF EvictDel, ArcState
  <2>4. b.at = [x \in Entry |-> IF x \in gone THEN "0" ELSE a.at[x]]
    BY <1>2, <1>5 DEF EvictDel, ArcState
  <2> HIDE DEF b, gone
  <2>5. b.l \in Links /\ b.l["Del"] = << >> /\ \A j \in ArcList : j # "Del" => b.l[j] = a.l[j]
    <3>1. SubSeq(s, k + 1, Len(s)) = << >>
      BY <1>2, <2>1
    <3>2. << >> \in Seq(Entry)
      OBVIOUS
    <3>3. b.l = [a.l EXCEPT !["Del"] = << >>]
      BY <3>1, <2>3, Zenon
    <3> QED
      BY <3>2, <3>3, <1>1, <1>2 DEF Links
  <2>6. \A x \in Entry : b.at[x] = IF a.at[x] = "Del" THEN "0" ELSE a.at[x]
    BY <2>2, <2>4
  <2>7. b.n["Del"] = 0 /\ \A j \in ArcList : j # "Del" => b.n[j] = a.n[j]
    BY <1>1, <1>2, <2>1, <2>3
  <2>8. ArcState(b)
    <3>1. b.at \in [Entry -> ArcList \cup {"0"}]
      BY <1>2, <2>4
    <3>2. b.n \in [ArcList -> Int]
      <4>1. a.n["Del"] - k \in Int
        BY <1>2, <2>1
      <4> QED
        BY <4>1, <1>2, <2>3, ZenonT(40)
    <3> QED
      BY <1>2, <2>3, <2>5, <3>1, <3>2 DEF ArcState, Links
  <2>9. \A j \in ArcList : b.n[j] = Len(b.l[j]) /\ NoRepeat(b.l[j])
    BY <1>3, <2>5, <2>7 DEF NoRepeat
  <2>10. \A y \in Entry, j \in ArcList : Linked(b.l, j, y) <=> b.at[y] = j
    <3>1. \A y \in Entry : ~ Linked(b.l, "Del", y)
      BY <2>5 DEF Linked
    <3>2. \A y \in Entry, j \in ArcList : j # "Del" => (Linked(b.l, j, y) <=> Linked(a.l, j, y))
      BY <2>5 DEF Linked
    <3> QED
      BY <3>1, <3>2, <1>1, <1>3, <2>6
  <2>11. WF(b)
    BY <2>8, <2>9, <2>10 DEF WF, Agree, NoRepeat
  <2> QED
    BY <2>3, <2>6, <2>7, <2>11, BulkAssumption
<1> QED
  BY <1>4, <1>5

----------------------------------------------------------------------------
(* The counters.                                                           *)

(* The target size p, without its fraction, is between 0 and c.            *)
LEMMA IntegerPart ==
  ASSUME NEW p \in 0 .. C * Scale
  PROVE  p \div Scale \in 0 .. C
<1> DEFINE q == p \div Scale
<1>1. C \in Nat /\ Scale \in Nat /\ Scale > 0 /\ C * Scale \in Nat /\ p \in Nat
  BY CAssumption, ScaleAssumption
<1>2. q \in Nat /\ q * Scale <= p
  BY <1>1
<1>3. ASSUME q > C
      PROVE  FALSE
  <2> HIDE DEF q
  <2>1. q * Scale >= (C + 1) * Scale
    BY <1>1, <1>2, <1>3
  <2>2. (C + 1) * Scale = C * Scale + Scale
    BY <1>1
  <2> QED
    BY <1>1, <1>2, <2>1, <2>2
<1> QED
  BY <1>1, <1>2, <1>3

(* What every state between two steps satisfies about the counters: the    *)
(* bounds, and that ghosts appear only when the cache is full.             *)
Bounds(a) ==
  /\ a.n["T1"] + a.n["T2"] <= C
  /\ a.n["T1"] + a.n["B1"] <= C
  /\ a.n["T1"] + a.n["B1"] + a.n["T2"] + a.n["B2"] <= 2 * C
  /\ a.n["T1"] + a.n["T2"] < C => a.n["B1"] = 0 /\ a.n["B2"] = 0

(* The entries with Data are those of T1 and T2, e possibly excepted: it   *)
(* is the entry being inserted.                                            *)
CachedBut(a, e) ==
  \A x \in Entry : x # e => (x \in a.data <=> a.at[x] \in {"T1", "T2"})

(* What has Data stays what is in T1 or T2 when an entry moves.            *)
LEMMA CachedMove ==
  ASSUME NEW a, WF(a), NEW b, NEW e \in Entry, NEW v \in Entry, NEW src \in ArcList,
         NEW dst \in ArcList, NEW d, CachedBut(a, e), MovedTo(a, b, v, src, dst, d),
         \/ d = a.data /\ v = e
         \/ d = a.data /\ {src, dst} \subseteq {"B1", "B2", "Del"} /\ a.at[v] = src
         \/ d = a.data \ {v} /\ dst \in {"B1", "B2", "Del"}
  PROVE  CachedBut(b, e) /\ \A x \in Entry : x # v => b.at[x] = a.at[x]
<1>1. a.at \in [Entry -> ArcList \cup {"0"}]
  BY DEF WF, ArcState
<1>2. b.data = d /\ b.at[v] = dst /\ \A x \in Entry : x # v => b.at[x] = a.at[x]
  BY <1>1 DEF MovedTo
<1> QED
  BY <1>2 DEF CachedBut

(* The seven counters of a well-formed state are natural numbers.          *)
LEMMA Counters ==
  ASSUME NEW a, WF(a)
  PROVE  /\ a.n["T1"] \in Nat /\ a.n["B1"] \in Nat /\ a.n["T2"] \in Nat
         /\ a.n["B2"] \in Nat /\ a.n["Del"] \in Nat
BY CountsAreNaturals DEF ArcList

(* b has lost the Data of one entry of a, and a.n["T1"] + a.n["T2"] was the *)
(* capacity; or it has lost none.                                          *)
Drops(a, b) ==
  \/ b.data = a.data
  \/ /\ a.n["T1"] + a.n["T2"] = C
     /\ \E v \in a.data : b.data = a.data \ {v}

(* What CsArc_Add promises for the entry e.                                *)
Added(a, b, e) ==
  /\ WF(b) /\ b.ok /\ Bounds(b) /\ CachedBut(b, e)
  /\ b.at[e] \in {"T1", "T2"}
  /\ b.n["Del"] <= a.n["Del"] + 1
  /\ Drops(a, b)

(* A replacement that found a victim, seen by the counters.                *)
LEMMA ReplaceCounts ==
  ASSUME NEW a, WF(a), a.ok, NEW isB2 \in BOOLEAN, NEW e \in Entry, CachedBut(a, e),
         a.at[e] \notin {"T1", "T2"}, a.n[VictimList(a, isB2)] > 0
  PROVE  LET b == CsArc_Replace(a, isB2)
         IN  /\ WF(b) /\ b.ok /\ CachedBut(b, e) /\ b.at[e] = a.at[e]
             /\ b.n["T1"] + b.n["B1"] = a.n["T1"] + a.n["B1"]
             /\ b.n["T2"] + b.n["B2"] = a.n["T2"] + a.n["B2"]
             /\ b.n["T1"] + b.n["T2"] = a.n["T1"] + a.n["T2"] - 1
             /\ b.n["B1"] >= a.n["B1"] /\ b.n["B2"] >= a.n["B2"]
             /\ b.n["Del"] = a.n["Del"]
             /\ \E v \in a.data : b.data = a.data \ {v}
<1> DEFINE src == VictimList(a, isB2)
           dst == IF src = "T1" THEN "B1" ELSE "B2"
           v == Head(a.l[src])
           b == CsArc_Replace(a, isB2)
<1>1. v \in Entry /\ a.at[v] = src /\ MovedTo(a, b, v, src, dst, a.data \ {v})
  BY ReplaceProperties
<1>2. \/ src = "T1" /\ dst = "B1"
      \/ src = "T2" /\ dst = "B2"
  BY DEF VictimList
<1> HIDE DEF src, dst, v, b
<1>3. src \in ArcList /\ dst \in ArcList /\ dst \in {"B1", "B2", "Del"} /\ v # e
  BY <1>1, <1>2 DEF ArcList
<1>4. CachedBut(b, e) /\ b.at[e] = a.at[e]
  BY <1>1, <1>3, CachedMove
<1>5. WF(b) /\ b.ok
  BY <1>1 DEF MovedTo
<1>6. /\ b.n[src] = a.n[src] - 1
      /\ b.n[dst] = a.n[dst] + 1
      /\ \A i \in {"T1", "B1", "T2", "B2", "Del"} : i \notin {src, dst} => b.n[i] = a.n[i]
  BY <1>1 DEF MovedTo, ArcList
<1>7. /\ b.n["T1"] + b.n["B1"] = a.n["T1"] + a.n["B1"]
      /\ b.n["T2"] + b.n["B2"] = a.n["T2"] + a.n["B2"]
      /\ b.n["T1"] + b.n["T2"] = a.n["T1"] + a.n["T2"] - 1
      /\ b.n["B1"] >= a.n["B1"] /\ b.n["B2"] >= a.n["B2"]
      /\ b.n["Del"] = a.n["Del"]
  BY <1>2, <1>6, Counters
<1>8. v \in a.data /\ b.data = a.data \ {v}
  BY <1>1, <1>2, <1>3 DEF MovedTo, CachedBut
<1> QED
  BY <1>4, <1>5, <1>7, <1>8 DEF b

(* The list of an entry is not empty.                                      *)
LEMMA OnListPositive ==
  ASSUME NEW a, WF(a), NEW e \in Entry, NEW i \in ArcList, a.at[e] = i
  PROVE  a.n[i] > 0
<1>1. a.l[i] \in Seq(Entry) /\ a.n[i] = Len(a.l[i]) /\ Linked(a.l, i, e)
  BY DEF WF, ArcState, Agree
<1> QED
  BY <1>1 DEF Linked

(* CsArc_Replace finds a victim whenever T2 is not empty.                  *)
LEMMA VictimFound ==
  ASSUME NEW a, WF(a), NEW isB2 \in BOOLEAN,
         a.n["T2"] > 0 \/ (isB2 /\ a.n["T1"] = C)
  PROVE  a.n[VictimList(a, isB2)] > 0
<1>1. CsArc_p(a) \in 0 .. C
  BY IntegerPart DEF WF, ArcState, CsArc_p
<1>2. CsArc_p1(a) \in 1 .. C
  BY <1>1, CAssumption DEF CsArc_p1, Max2
<1> QED
  BY <1>1, <1>2, Counters, CAssumption DEF VictimList

(* A change of p or of ok leaves the lists as they are.                    *)
LEMMA SetFields ==
  ASSUME NEW a, WF(a), NEW p \in 0 .. C * Scale, NEW ok \in BOOLEAN
  PROVE  /\ WF([a EXCEPT !.p = p]) /\ WF([a EXCEPT !.ok = ok])
<1>1. ArcState(a)
  BY DEF WF
<1> DEFINE b == [a EXCEPT !.p = p]
           c == [a EXCEPT !.ok = ok]
<1>2. /\ b.l = a.l /\ b.n = a.n /\ b.at = a.at /\ b.p = p /\ b.ok = a.ok
      /\ b.data = a.data /\ DOMAIN b = DOMAIN a
  BY <1>1 DEF ArcState
<1>3. /\ c.l = a.l /\ c.n = a.n /\ c.at = a.at /\ c.p = a.p /\ c.ok = ok
      /\ c.data = a.data /\ DOMAIN c = DOMAIN a
  BY <1>1 DEF ArcState
<1> HIDE DEF b, c
<1>4. ArcState(b) /\ ArcState(c)
  BY <1>1, <1>2, <1>3 DEF ArcState
<1>5. WF(b) /\ WF(c)
  BY <1>2, <1>3, <1>4, SameLists, SMTT(30)
<1> QED
  BY <1>5 DEF b, c

(* Moving a ghost to Del.                                                  *)
LEMMA DropGhost ==
  ASSUME NEW a, WF(a), a.ok, NEW e \in Entry, CachedBut(a, e), a.at[e] = "0",
         NEW src \in {"B1", "B2"}, a.n[src] > 0
  PROVE  LET b == MoveFront(a, src, "Del")
         IN  /\ WF(b) /\ b.ok /\ CachedBut(b, e) /\ b.at[e] = "0" /\ b.data = a.data
             /\ b.n[src] = a.n[src] - 1
             /\ b.n["Del"] = a.n["Del"] + 1
             /\ \A i \in {"T1", "B1", "T2", "B2"} : i # src => b.n[i] = a.n[i]
<1> DEFINE b == MoveFront(a, src, "Del")
           v == Head(a.l[src])
<1>1. src \in ArcList /\ "Del" \in ArcList /\ src # "Del" /\ {src, "Del"} \subseteq {"B1", "B2", "Del"}
  BY DEF ArcList
<1>2. MovedTo(a, b, v, src, "Del", a.data) /\ v \in Entry /\ a.at[v] = src
  BY <1>1, MoveFrontProperties, FrontProperties
<1> HIDE DEF b, v
<1>3. v # e
  BY <1>2
<1>4. CachedBut(b, e) /\ \A x \in Entry : x # v => b.at[x] = a.at[x]
  BY <1>1, <1>2, CachedMove
<1> QED
  BY <1>2, <1>3, <1>4, ZenonT(40) DEF b, MovedTo, ArcList

(* MakeRoom leaves a place in T1 for one more entry.                       *)
Room(a, b, e) ==
  /\ WF(b) /\ b.ok /\ CachedBut(b, e) /\ b.at[e] = "0"
  /\ b.n["T1"] + b.n["T2"] < C
  /\ b.n["T1"] + b.n["B1"] < C
  /\ b.n["T1"] + b.n["B1"] + b.n["T2"] + b.n["B2"] < 2 * C
  /\ b.n["T1"] + b.n["T2"] + 1 < C => b.n["B1"] = 0 /\ b.n["B2"] = 0
  /\ b.n["Del"] <= a.n["Del"] + 1
  /\ Drops(a, b)

(* The evictions of CsArc_AddNew leave room for one entry.                 *)
LEMMA MakeRoomProperties ==
  ASSUME NEW a, WF(a), a.ok, Bounds(a), NEW e \in Entry, CachedBut(a, e), a.at[e] = "0"
  PROVE  Room(a, MakeRoom(a), e)
<1> DEFINE nL1 == a.n["T1"] + a.n["B1"]
           nL1L2 == nL1 + a.n["T2"] + a.n["B2"]
           R(x) == CsArc_Replace(x, FALSE)
<1>1. /\ a.n["T1"] \in Nat /\ a.n["B1"] \in Nat /\ a.n["T2"] \in Nat
      /\ a.n["B2"] \in Nat /\ a.n["Del"] \in Nat /\ C \in Nat /\ C > 0
  BY Counters, CAssumption
<1>2. CASE nL1 = C /\ a.n["T1"] < C
  <2> DEFINE m == MoveFront(a, "B1", "Del")
  <2>1. a.n["B1"] > 0
    BY <1>1, <1>2
  <2>2. /\ WF(m) /\ m.ok /\ CachedBut(m, e) /\ m.at[e] = "0" /\ m.data = a.data
        /\ m.n["B1"] = a.n["B1"] - 1 /\ m.n["Del"] = a.n["Del"] + 1
        /\ m.n["T1"] = a.n["T1"] /\ m.n["T2"] = a.n["T2"] /\ m.n["B2"] = a.n["B2"]
    BY <2>1, DropGhost
  <2>3. MakeRoom(a) = R(m)
    BY <1>2 DEF MakeRoom
  <2> HIDE DEF m
  <2>4. m.n["T2"] > 0
    BY <1>1, <1>2, <2>1, <2>2 DEF Bounds
  <2>5. m.n[VictimList(m, FALSE)] > 0
    BY <2>2, <2>4, VictimFound, ZenonT(40)
  <2> DEFINE b == R(m)
  <2>6. /\ WF(b) /\ b.ok /\ CachedBut(b, e) /\ b.at[e] = m.at[e]
        /\ b.n["T1"] + b.n["B1"] = m.n["T1"] + m.n["B1"]
        /\ b.n["T2"] + b.n["B2"] = m.n["T2"] + m.n["B2"]
        /\ b.n["T1"] + b.n["T2"] = m.n["T1"] + m.n["T2"] - 1
        /\ b.n["Del"] = m.n["Del"]
        /\ \E v \in m.data : b.data = m.data \ {v}
    BY <2>2, <2>5, ReplaceCounts, ZenonT(40)
  <2> HIDE DEF b
  <2>7. /\ b.n["T1"] \in Nat /\ b.n["B1"] \in Nat /\ b.n["T2"] \in Nat /\ b.n["B2"] \in Nat
    BY <2>6, Counters
  <2>8. Drops(a, b)
    BY <1>1, <1>2, <2>1, <2>2, <2>6, SMTT(30) DEF Drops, Bounds
  <2>9. Room(a, b, e)
    BY <1>1, <1>2, <2>1, <2>2, <2>6, <2>7, <2>8, SMTT(30) DEF Room, Bounds
  <2> QED
    BY <2>3, <2>9, ZenonT(40) DEF b
<1>3. CASE nL1 = C /\ ~ (a.n["T1"] < C)
  <2> DEFINE b == [a EXCEPT !.ok = @ /\ a.n["B1"] = 0]
             v == Head(a.l["T1"])
             c == CsEntry_ClearData(b, v)
             d == MoveFront(c, "T1", "Del")
  <2>1. a.n["T1"] = C /\ a.n["B1"] = 0 /\ a.n["T2"] = 0
    BY <1>1, <1>3 DEF Bounds
  <2>2. ArcState(a)
    BY DEF WF
  <2>3. b.l = a.l /\ b.n = a.n /\ b.at = a.at /\ b.data = a.data
    BY <2>2 DEF ArcState
  <2>4. b.ok
    BY <2>1, <2>2, ZenonT(40) DEF ArcState
  <2>5. WF(b)
    <3>1. (a.ok /\ a.n["B1"] = 0) \in BOOLEAN /\ 0 \in 0 .. C * Scale
      BY CAssumption, ScaleAssumption
    <3> QED
      BY <3>1, SetFields, ZenonT(40)
  <2>6. MakeRoom(a) = IF HasFront(b, "T1")
                      THEN MoveFront(CsEntry_ClearData(b, Head(b.l["T1"])), "T1", "Del")
                      ELSE [b EXCEPT !.ok = FALSE]
    BY <1>3 DEF MakeRoom
  <2> HIDE DEF b
  <2>7. "T1" \in ArcList /\ "Del" \in ArcList
    BY DEF ArcList
  <2>8. HasFront(b, "T1") /\ v \in Entry /\ b.at[v] = "T1"
    BY <1>1, <2>1, <2>3, <2>5, <2>7, FrontProperties, SMTT(30)
  <2>9. MakeRoom(a) = d
    BY <2>3, <2>6, <2>8
  <2>10. /\ WF(c) /\ c.l = b.l /\ c.n = b.n /\ c.at = b.at /\ c.ok = b.ok
         /\ c.data = b.data \ {v}
    BY <2>5, <2>8, ClearDataProperties
  <2>11. Head(c.l["T1"]) = v
    BY <2>3, <2>10
  <2> HIDE DEF c, v
  <2>12. MovedTo(c, d, v, "T1", "Del", c.data)
    BY <1>1, <2>1, <2>3, <2>7, <2>10, <2>11, MoveFrontProperties, SMTT(30)
  <2> HIDE DEF d
  <2>13. /\ WF(d) /\ d.ok /\ d.data = a.data \ {v} /\ d.at = [a.at EXCEPT ![v] = "Del"]
    BY <2>3, <2>4, <2>10, <2>12 DEF MovedTo
  <2>14. /\ d.n["T1"] = C - 1 /\ d.n["B1"] = 0 /\ d.n["T2"] = 0
         /\ d.n["B2"] = a.n["B2"] /\ d.n["Del"] = a.n["Del"] + 1
    BY <2>1, <2>3, <2>10, <2>12 DEF MovedTo, ArcList
  <2>15. v # e
    BY <2>3, <2>8
  <2>16. CachedBut(d, e) /\ d.at[e] = "0"
    BY <2>2, <2>8, <2>13, <2>15, SMTT(30) DEF CachedBut, ArcState
  <2>17. Drops(a, d)
    BY <1>1, <2>1, <2>3, <2>8, <2>13, <2>15, SMTT(30) DEF Drops, CachedBut
  <2>18. Room(a, d, e)
    BY <1>1, <2>1, <2>13, <2>14, <2>16, <2>17, SMTT(30) DEF Room, Bounds
  <2> QED
    BY <2>9, <2>18
<1>4. CASE nL1 # C
  <2> DEFINE b == [a EXCEPT !.ok = @ /\ nL1 < C]
             g == MoveFront(b, "B2", "Del")
             m == IF nL1L2 = 2 * C THEN g ELSE b
  <2>1. nL1 < C
    BY <1>1, <1>4 DEF Bounds
  <2>2. ArcState(a)
    BY DEF WF
  <2>3. b.l = a.l /\ b.n = a.n /\ b.at = a.at /\ b.data = a.data
    BY <2>2 DEF ArcState
  <2>4. b.ok
    BY <2>1, <2>2, ZenonT(40) DEF ArcState
  <2>5. WF(b)
    <3>1. (a.ok /\ nL1 < C) \in BOOLEAN /\ 0 \in 0 .. C * Scale
      BY CAssumption, ScaleAssumption
    <3> QED
      BY <3>1, SetFields, ZenonT(40)
  <2>6. MakeRoom(a) = IF nL1L2 < C THEN b ELSE R(m)
    BY <1>4 DEF MakeRoom
  <2> HIDE DEF b
  <2>7. CachedBut(b, e) /\ b.at[e] = "0"
    BY <2>3 DEF CachedBut
  <2>8. CASE nL1L2 < C
    BY <1>1, <2>1, <2>3, <2>4, <2>5, <2>6, <2>7, <2>8, SMTT(30) DEF Room, Bounds, Drops
  <2>9. CASE ~ (nL1L2 < C)
    <3>1. /\ a.n["T1"] + a.n["T2"] = C /\ a.n["T2"] > 0
      BY <1>1, <2>1, <2>9, SMTT(30) DEF Bounds
    <3>2. nL1L2 = 2 * C => b.n["B2"] > 0
      BY <1>1, <2>1, <2>3, <3>1, SMTT(30)
    <3>3. nL1L2 = 2 * C =>
            /\ WF(g) /\ g.ok /\ CachedBut(g, e) /\ g.at[e] = "0" /\ g.data = a.data
            /\ g.n["B2"] = a.n["B2"] - 1 /\ g.n["Del"] = a.n["Del"] + 1
            /\ g.n["T1"] = a.n["T1"] /\ g.n["T2"] = a.n["T2"] /\ g.n["B1"] = a.n["B1"]
      BY <2>3, <2>4, <2>5, <2>7, <3>2, DropGhost, SMTT(30)
    <3> HIDE DEF g
    <3>4. /\ WF(m) /\ m.ok /\ CachedBut(m, e) /\ m.at[e] = "0" /\ m.data = a.data
          /\ m.n["T1"] = a.n["T1"] /\ m.n["T2"] = a.n["T2"] /\ m.n["B1"] = a.n["B1"]
          /\ IF nL1L2 = 2 * C
             THEN m.n["B2"] = a.n["B2"] - 1 /\ m.n["Del"] = a.n["Del"] + 1
             ELSE m.n["B2"] = a.n["B2"] /\ m.n["Del"] = a.n["Del"]
      BY <2>3, <2>4, <2>5, <2>7, <3>3, SMTT(30)
    <3> HIDE DEF m
    <3>5. m.n[VictimList(m, FALSE)] > 0
      BY <3>1, <3>4, VictimFound, ZenonT(40)
    <3> DEFINE c == R(m)
    <3>6. /\ WF(c) /\ c.ok /\ CachedBut(c, e) /\ c.at[e] = m.at[e]
          /\ c.n["T1"] + c.n["B1"] = m.n["T1"] + m.n["B1"]
          /\ c.n["T2"] + c.n["B2"] = m.n["T2"] + m.n["B2"]
          /\ c.n["T1"] + c.n["T2"] = m.n["T1"] + m.n["T2"] - 1
          /\ c.n["Del"] = m.n["Del"]
          /\ \E v \in m.data : c.data = m.data \ {v}
      <4>1. WF(m) /\ m.ok /\ FALSE \in BOOLEAN /\ CachedBut(m, e) /\ m.at[e] \notin {"T1", "T2"}
        BY <3>4
      <4>2. QED
        BY <3>5, <4>1, ReplaceCounts, ZenonT(40)
    <3>7. MakeRoom(a) = c
      BY <2>6, <2>9
    <3> HIDE DEF c
    <3>8. /\ c.n["T1"] \in Nat /\ c.n["B1"] \in Nat /\ c.n["T2"] \in Nat /\ c.n["B2"] \in Nat
      BY <3>6, Counters
    <3>9. Drops(a, c)
      BY <3>1, <3>4, <3>6, SMTT(30) DEF Drops
    <3>10. Room(a, c, e)
      BY <1>1, <2>1, <3>1, <3>4, <3>6, <3>8, <3>9, SMTT(30) DEF Room, Bounds
    <3> QED
      BY <3>7, <3>10
  <2> QED
    BY <2>8, <2>9
<1> QED
  BY <1>2, <1>3, <1>4

(* CsArc_AddNew: the entry is cached, within the bounds.                   *)
LEMMA AddNewProperties ==
  ASSUME NEW a, WF(a), a.ok, Bounds(a), NEW e \in Entry, CachedBut(a, e), a.at[e] = "0"
  PROVE  Added(a, CsArc_AddNew(a, e), e)
<1> DEFINE b == MakeRoom(a)
           c == Track(b, "T1", e)
<1>1. Room(a, b, e)
  BY MakeRoomProperties
<1>2. CsArc_AddNew(a, e) = c
  BY DEF CsArc_AddNew
<1> HIDE DEF b
<1>3. "T1" \in ArcList /\ WF(b) /\ b.ok /\ CachedBut(b, e) /\ b.at[e] = "0"
  BY <1>1 DEF Room, ArcList
<1>4. AddedTo(b, c, e, "T1")
  BY <1>3, TrackProperties
<1> HIDE DEF c
<1>5. /\ b.n["T1"] \in Nat /\ b.n["B1"] \in Nat /\ b.n["T2"] \in Nat /\ b.n["B2"] \in Nat
      /\ C \in Nat /\ b.n["Del"] \in Nat
  BY <1>3, Counters, CAssumption, SMTT(30)
<1>6. /\ c.n["T1"] = b.n["T1"] + 1 /\ c.n["B1"] = b.n["B1"] /\ c.n["T2"] = b.n["T2"]
      /\ c.n["B2"] = b.n["B2"] /\ c.n["Del"] = b.n["Del"] /\ WF(c) /\ c.ok
  BY <1>3, <1>4 DEF AddedTo, ArcList
<1>7. b.at \in [Entry -> ArcList \cup {"0"}] /\ c.at = [b.at EXCEPT ![e] = "T1"] /\ c.data = b.data
  BY <1>3, <1>4 DEF AddedTo, WF, ArcState
<1>8. CachedBut(c, e) /\ c.at[e] = "T1"
  BY <1>3, <1>7, SMTT(30) DEF CachedBut
<1>9. Bounds(c)
  BY <1>1, <1>5, <1>6, SMTT(30) DEF Room, Bounds
<1>10. c.n["Del"] <= a.n["Del"] + 1 /\ Drops(a, c)
  BY <1>1, <1>6, <1>7 DEF Room, Drops
<1> QED
  BY <1>2, <1>6, <1>8, <1>9, <1>10, SMTT(30) DEF Added

(* A ghost hit: after p was adapted, one entry is replaced and the ghost   *)
(* moves to T2.                                                            *)
LEMMA GhostHit ==
  ASSUME NEW a, WF(a), a.ok, Bounds(a), NEW e \in Entry, CachedBut(a, e),
         NEW isB2 \in BOOLEAN, NEW src, src = IF isB2 THEN "B2" ELSE "B1", a.at[e] = src
  PROVE  Added(a, CsArc_Move(CsArc_Replace(a, isB2), e, src, "T2"), e)
<1> DEFINE b == CsArc_Replace(a, isB2)
           c == CsArc_Move(b, e, src, "T2")
<1>1. src \in ArcList /\ "T2" \in ArcList /\ src # "T2"
  BY DEF ArcList
<1>2. a.n[src] > 0
  BY <1>1, OnListPositive
<1>3. /\ a.n["T1"] \in Nat /\ a.n["B1"] \in Nat /\ a.n["T2"] \in Nat /\ a.n["B2"] \in Nat
      /\ C \in Nat /\ a.n["Del"] \in Nat
  BY Counters, CAssumption
<1>4. a.n["T1"] + a.n["T2"] = C
  BY <1>2, <1>3 DEF Bounds
<1>5. a.n["T2"] > 0 \/ (isB2 /\ a.n["T1"] = C)
  BY <1>2, <1>3, <1>4 DEF Bounds
<1>6. a.n[VictimList(a, isB2)] > 0
  BY <1>5, VictimFound, SMTT(30)
<1>7. /\ WF(b) /\ b.ok /\ CachedBut(b, e) /\ b.at[e] = a.at[e]
      /\ b.n["T1"] + b.n["B1"] = a.n["T1"] + a.n["B1"]
      /\ b.n["T2"] + b.n["B2"] = a.n["T2"] + a.n["B2"]
      /\ b.n["T1"] + b.n["T2"] = a.n["T1"] + a.n["T2"] - 1
      /\ b.n["Del"] = a.n["Del"]
      /\ \E v \in a.data : b.data = a.data \ {v}
  BY <1>6, ReplaceCounts, SMTT(30)
<1> HIDE DEF b
<1>8. MovedTo(b, c, e, src, "T2", b.data)
  BY <1>1, <1>7, MoveProperties, SMTT(30)
<1> HIDE DEF c
<1>9. CachedBut(c, e)
  BY <1>1, <1>7, <1>8, CachedMove, ZenonT(40)
<1>10. WF(c) /\ c.ok /\ c.at[e] = "T2"
  <2>1. b.at \in [Entry -> ArcList \cup {"0"}]
    BY <1>7 DEF WF, ArcState
  <2>2. WF(c) /\ c.ok = b.ok /\ c.at = [b.at EXCEPT ![e] = "T2"]
    BY <1>8 DEF MovedTo
  <2> QED
    BY <1>7, <2>1, <2>2
<1>11. /\ b.n["T1"] \in Nat /\ b.n["B1"] \in Nat /\ b.n["T2"] \in Nat /\ b.n["B2"] \in Nat
       /\ b.n["Del"] \in Nat
  BY <1>7, Counters
<1>12. /\ c.n[src] = b.n[src] - 1 /\ c.n["T2"] = b.n["T2"] + 1
       /\ \A i \in {"T1", "B1", "B2", "Del"} : i # src => c.n[i] = b.n[i]
  BY <1>8 DEF MovedTo, ArcList
<1>13. Bounds(c) /\ c.n["Del"] = a.n["Del"]
  BY <1>3, <1>4, <1>7, <1>11, <1>12, SMTT(30) DEF Bounds
<1>14. Drops(a, c)
  BY <1>4, <1>7, <1>8 DEF Drops, MovedTo
<1>15. Added(a, c, e)
  BY <1>3, <1>9, <1>10, <1>13, <1>14, SMTT(30) DEF Added
<1> QED
  BY <1>15 DEF b, c

(* The same entry lists under another p.                                   *)
LEMMA AdaptedGhostHit ==
  ASSUME NEW a, WF(a), a.ok, Bounds(a), NEW e \in Entry, CachedBut(a, e),
         NEW isB2 \in BOOLEAN, NEW src, src = IF isB2 THEN "B2" ELSE "B1", a.at[e] = src,
         NEW p \in 0 .. C * Scale
  PROVE  Added(a, CsArc_Move(CsArc_Replace([a EXCEPT !.p = p], isB2), e, src, "T2"), e)
<1> DEFINE b == [a EXCEPT !.p = p]
           c == CsArc_Move(CsArc_Replace(b, isB2), e, src, "T2")
<1>1. WF(b)
  BY SetFields, ZenonT(40)
<1>2. b.n = a.n /\ b.at = a.at /\ b.data = a.data /\ b.ok = a.ok
  BY ZenonT(40) DEF WF, ArcState
<1> HIDE DEF b
<1>3. Bounds(b) /\ CachedBut(b, e)
  BY <1>2 DEF Bounds, CachedBut
<1>4. Added(b, c, e)
  BY <1>1, <1>2, <1>3, GhostHit, ZenonT(40)
<1> HIDE DEF c
<1>5. Added(a, c, e)
  BY <1>2, <1>4 DEF Added, Drops
<1> QED
  BY <1>5 DEF b, c

(* The step p is moved by is a natural number.                             *)
LEMMA RatioNat ==
  ASSUME NEW x \in Nat, NEW y \in Nat, y > 0
  PROVE  Ratio(x, y) \in Nat
<1>1. Scale * x \in Nat
  BY ScaleAssumption
<1> HIDE DEF Ratio
<1> DEFINE z == Scale * x
<1>2. z \in Nat
  BY <1>1
<1> HIDE DEF z
<1>3. z \div y \in Nat
  BY <1>2
<1> QED
  BY <1>3 DEF Ratio, z

(* CsArc_AddB1: the ghost is cached again, within the bounds.              *)
LEMMA AddB1Properties ==
  ASSUME NEW a, WF(a), a.ok, Bounds(a), NEW e \in Entry, CachedBut(a, e), a.at[e] = "B1"
  PROVE  Added(a, CsArc_AddB1(a, e), e)
<1> DEFINE delta1 == IF a.n["B1"] < a.n["B2"] THEN Ratio(a.n["B2"], a.n["B1"]) ELSE Scale
           p == Min2(a.p + delta1, C * Scale)
<1>1. "B1" \in ArcList /\ a.n["B1"] > 0 /\ a.n["B1"] \in Nat /\ a.n["B2"] \in Nat
  BY OnListPositive, Counters DEF ArcList
<1>2. delta1 \in Nat
  BY <1>1, RatioNat, ScaleAssumption
<1>3. a.p \in 0 .. C * Scale /\ C * Scale \in Nat
  BY CAssumption, ScaleAssumption DEF WF, ArcState
<1> HIDE DEF delta1
<1>4. p \in 0 .. C * Scale
  BY <1>2, <1>3 DEF Min2
<1>5. CsArc_AddB1(a, e) = CsArc_Move(CsArc_Replace([a EXCEPT !.p = p], FALSE), e, "B1", "T2")
  BY DEF CsArc_AddB1, delta1
<1> HIDE DEF p
<1> QED
  BY <1>4, <1>5, AdaptedGhostHit, ZenonT(40)

(* CsArc_AddB2: the ghost is cached again, within the bounds.              *)
LEMMA AddB2Properties ==
  ASSUME NEW a, WF(a), a.ok, Bounds(a), NEW e \in Entry, CachedBut(a, e), a.at[e] = "B2"
  PROVE  Added(a, CsArc_AddB2(a, e), e)
<1> DEFINE delta2 == IF a.n["B2"] < a.n["B1"] THEN Ratio(a.n["B1"], a.n["B2"]) ELSE Scale
           p == Max2(a.p - delta2, 0)
<1>1. "B2" \in ArcList /\ a.n["B2"] > 0 /\ a.n["B1"] \in Nat /\ a.n["B2"] \in Nat
  BY OnListPositive, Counters DEF ArcList
<1>2. delta2 \in Nat
  BY <1>1, RatioNat, ScaleAssumption
<1>3. a.p \in 0 .. C * Scale /\ C * Scale \in Nat
  BY CAssumption, ScaleAssumption DEF WF, ArcState
<1> HIDE DEF delta2
<1>4. p \in 0 .. C * Scale
  BY <1>2, <1>3 DEF Max2
<1>5. CsArc_AddB2(a, e) = CsArc_Move(CsArc_Replace([a EXCEPT !.p = p], TRUE), e, "B2", "T2")
  BY DEF CsArc_AddB2, delta2
<1> HIDE DEF p
<1> QED
  BY <1>4, <1>5, AdaptedGhostHit, ZenonT(40)

(* CsArc_Add in every case of arcList.                                     *)
LEMMA AddProperties ==
  ASSUME NEW a, WF(a), a.ok, Bounds(a), NEW e \in Entry, CachedBut(a, e)
  PROVE  /\ Added(a, CsArc_Add(a, e), e)
         /\ a.at[e] \in {"T1", "T2"} => CsArc_Add(a, e).data = a.data
                                      /\ CsArc_Add(a, e).n["Del"] = a.n["Del"]
<1>1. a.at[e] \in {"T1", "B1", "T2", "B2", "Del", "0"}
  BY DEF WF, ArcState, ArcList
<1>2. /\ a.n["T1"] \in Nat /\ a.n["B1"] \in Nat /\ a.n["T2"] \in Nat /\ a.n["B2"] \in Nat
      /\ C \in Nat /\ a.n["Del"] \in Nat
  BY Counters, CAssumption
<1>3. CASE a.at[e] = "T1"
  <2> DEFINE b == CsArc_Move(a, e, "T1", "T2")
  <2>1. "T1" \in ArcList /\ "T2" \in ArcList
    BY DEF ArcList
  <2>2. CsArc_Add(a, e) = b
    BY <1>3 DEF CsArc_Add
  <2>3. MovedTo(a, b, e, "T1", "T2", a.data)
    BY <1>3, <2>1, MoveProperties
  <2> HIDE DEF b
  <2>4. CachedBut(b, e)
    BY <2>1, <2>3, CachedMove, SMTT(30)
  <2>5. WF(b) /\ b.ok /\ b.at[e] = "T2" /\ b.data = a.data
    BY <2>3 DEF MovedTo, WF, ArcState
  <2>6. /\ b.n["T1"] = a.n["T1"] - 1 /\ b.n["T2"] = a.n["T2"] + 1 /\ b.n["B1"] = a.n["B1"]
        /\ b.n["B2"] = a.n["B2"] /\ b.n["Del"] = a.n["Del"]
    BY <2>3 DEF MovedTo, ArcList
  <2>7. Bounds(b)
    BY <1>2, <2>6, SMTT(30) DEF Bounds
  <2> QED
    BY <1>2, <2>2, <2>4, <2>5, <2>6, <2>7, SMTT(30) DEF Added, Drops
<1>4. CASE a.at[e] = "T2"
  <2> DEFINE b == CsList_MoveToLast(a, "T2", e)
  <2>1. CsArc_Add(a, e) = b
    BY <1>4 DEF CsArc_Add
  <2>2. "T2" \in ArcList
    BY DEF ArcList
  <2>3. WF(b) /\ b.n = a.n /\ b.at = a.at /\ b.data = a.data /\ b.ok = a.ok
    BY <1>4, <2>2, MoveToLastProperties, ZenonT(40)
  <2> HIDE DEF b
  <2> QED
    BY <1>2, <1>4, <2>1, <2>3 DEF Added, Bounds, CachedBut, Drops
<1>5. CASE a.at[e] = "B1"
  <2>1. CsArc_Add(a, e) = CsArc_AddB1(a, e)
    BY <1>5 DEF CsArc_Add
  <2> QED
    BY <1>5, <2>1, AddB1Properties
<1>6. CASE a.at[e] = "B2"
  <2>1. CsArc_Add(a, e) = CsArc_AddB2(a, e)
    BY <1>6 DEF CsArc_Add
  <2> QED
    BY <1>6, <2>1, AddB2Properties
<1>7. CASE a.at[e] = "Del"
  <2> DEFINE b == CsArc_Remove(a, e)
             c == CsArc_AddNew(b, e)
  <2>1. CsArc_Add(a, e) = c
    BY <1>7 DEF CsArc_Add, CsArc_Remove
  <2>2. RemovedFrom(a, b, e, "Del")
    BY <1>7, RemoveProperties, SMTT(30) DEF ArcList
  <2> HIDE DEF b
  <2>3. /\ WF(b) /\ b.ok /\ b.data = a.data /\ b.at[e] = "0"
        /\ \A x \in Entry : x # e => b.at[x] = a.at[x]
    BY <2>2 DEF RemovedFrom, WF, ArcState
  <2>4. /\ b.n["T1"] = a.n["T1"] /\ b.n["T2"] = a.n["T2"] /\ b.n["B1"] = a.n["B1"]
        /\ b.n["B2"] = a.n["B2"] /\ b.n["Del"] = a.n["Del"] - 1
    BY <2>2 DEF RemovedFrom, ArcList
  <2>5. Bounds(b) /\ CachedBut(b, e)
    BY <2>3, <2>4 DEF Bounds, CachedBut
  <2>6. Added(b, c, e)
    BY <2>3, <2>5, AddNewProperties, SMTT(30)
  <2> HIDE DEF c
  <2>7. c.n["Del"] \in Nat
    BY <2>6, Counters DEF Added
  <2> QED
    BY <1>2, <1>7, <2>1, <2>3, <2>4, <2>6, <2>7, SMTT(30) DEF Added, Drops
<1>8. CASE a.at[e] = "0"
  <2>1. CsArc_Add(a, e) = CsArc_AddNew(a, e)
    BY <1>8 DEF CsArc_Add
  <2> QED
    BY <1>8, <2>1, AddNewProperties
<1> QED
  BY <1>1, <1>3, <1>4, <1>5, <1>6, <1>7, <1>8, SMTT(30)

----------------------------------------------------------------------------
(* The invariance theorem.                                                 *)

(* The inductive invariant: the invariants of the policy need each other.  *)
IInv ==
  /\ TypeOK /\ ListsAgree /\ NoAssertFailure /\ CapacityBounds /\ GhostsOnlyWhenFull

(* The invariant in terms of the state of the policy.                      *)
LEMMA IInvIs ==
  IInv <=> /\ WF(arc) /\ arc.ok /\ Bounds(arc) /\ arc.n["Del"] < Bulk
           /\ \A e \in Entry : e \in arc.data <=> arc.at[e] \in {"T1", "T2"}
BY DEF IInv, TypeOK, ListsAgree, NoAssertFailure, CapacityBounds, GhostsOnlyWhenFull, WF, Bounds

(* It holds after CsArc_Init.                                              *)
LEMMA InitIInv == Init => IInv
<1> SUFFICES ASSUME Init
             PROVE  IInv
  OBVIOUS
<1>1. /\ arc.l = [i \in ArcList |-> << >>] /\ arc.n = [i \in ArcList |-> 0]
      /\ arc.at = [e \in Entry |-> "0"] /\ arc.data = {} /\ arc.p = 0 /\ arc.ok
      /\ DOMAIN arc = {"l", "n", "at", "data", "p", "ok"}
  BY DEF Init, CsArc_Init
<1>2. << >> \in Seq(Entry) /\ Len(<< >>) = 0 /\ DOMAIN << >> = {}
  OBVIOUS
<1>3. C \in Nat /\ C > 0 /\ Bulk \in Nat /\ Bulk > 0 /\ C * Scale \in Nat
  BY CAssumption, BulkAssumption, ScaleAssumption
<1>4. TypeOK
  <2>1. arc.l \in [ArcList -> Seq(Entry)] /\ arc.n \in [ArcList -> Int]
    BY <1>1, <1>2
  <2>2. arc.at \in [Entry -> ArcList \cup {"0"}] /\ arc.data \subseteq Entry
    BY <1>1
  <2>3. arc.p \in 0 .. C * Scale /\ arc.ok \in BOOLEAN
    BY <1>1, <1>3
  <2> QED
    BY <1>1, <2>1, <2>2, <2>3 DEF TypeOK, ArcState
<1>5. ListsAgree
  BY <1>1, <1>2 DEF ListsAgree, Agree, Linked, ArcList
<1>6. CapacityBounds /\ GhostsOnlyWhenFull
  BY <1>1, <1>3 DEF CapacityBounds, GhostsOnlyWhenFull, ArcList
<1> QED
  BY <1>1, <1>4, <1>5, <1>6 DEF IInv, NoAssertFailure

(* Cs_Insert of a direct entry keeps it.                                   *)
LEMMA PutIInv ==
  ASSUME IInv, NEW e \in Entry, Put(e)
  PROVE  IInv'
<1> DEFINE a == CsEntry_ClearData(arc, e)
           b == CsArc_Add(a, e)
           c == [b EXCEPT !.data = @ \cup {e}]
<1>1. /\ WF(arc) /\ arc.ok /\ Bounds(arc) /\ arc.n["Del"] < Bulk
      /\ \A x \in Entry : x \in arc.data <=> arc.at[x] \in {"T1", "T2"}
  BY IInvIs
<1>2. arc' = EvictDel(c)
  BY DEF Put
<1>3. /\ WF(a) /\ a.n = arc.n /\ a.at = arc.at /\ a.ok = arc.ok /\ a.data = arc.data \ {e}
  BY <1>1, ClearDataProperties, ZenonT(40)
<1> HIDE DEF a
<1>4. Bounds(a) /\ CachedBut(a, e) /\ a.n["Del"] < Bulk /\ a.n["Del"] \in Nat
  BY <1>1, <1>3, Counters DEF Bounds, CachedBut
<1>5. Added(a, b, e)
  BY <1>1, <1>3, <1>4, AddProperties, ZenonT(40)
<1> HIDE DEF b
<1>6. /\ WF(b) /\ b.ok /\ Bounds(b) /\ CachedBut(b, e) /\ b.at[e] \in {"T1", "T2"}
      /\ b.n["Del"] <= Bulk /\ b.n["Del"] \in Nat
  <2>1. WF(b) /\ b.ok /\ Bounds(b) /\ CachedBut(b, e) /\ b.at[e] \in {"T1", "T2"}
        /\ b.n["Del"] <= a.n["Del"] + 1
    BY <1>5 DEF Added
  <2> QED
    BY <1>4, <2>1, Counters, BulkAssumption
<1>7. /\ c.l = b.l /\ c.n = b.n /\ c.at = b.at /\ c.p = b.p /\ c.ok = b.ok
      /\ c.data = b.data \cup {e} /\ DOMAIN c = DOMAIN b
  BY <1>6, ZenonT(40) DEF WF, ArcState
<1> HIDE DEF c
<1>8. WF(c)
  <2>1. ArcState(c)
    BY <1>6, <1>7 DEF WF, ArcState
  <2> QED
    BY <1>6, <1>7, <2>1, SameLists
<1>9. /\ WF(arc') /\ arc'.n["Del"] < Bulk
      /\ \A i \in ArcList \ {"Del"} : arc'.n[i] = c.n[i]
      /\ arc'.data = c.data /\ arc'.ok = c.ok
      /\ \A x \in Entry : \/ arc'.at[x] = c.at[x]
                          \/ c.at[x] = "Del" /\ arc'.at[x] = "0"
  <2> DEFINE d == EvictDel(c)
  <2>1. c.n["Del"] <= Bulk
    BY <1>6, <1>7
  <2>2. /\ WF(d) /\ d.n["Del"] < Bulk
        /\ \A i \in ArcList \ {"Del"} : d.n[i] = c.n[i]
        /\ d.data = c.data /\ d.ok = c.ok
        /\ \A x \in Entry : \/ d.at[x] = c.at[x]
                            \/ c.at[x] = "Del" /\ d.at[x] = "0"
    BY <1>8, <2>1, EvictDelProperties
  <2>3. arc' = d
    BY <1>2
  <2> HIDE DEF d
  <2> QED
    BY <2>2, <2>3
<1>10. \A x \in Entry : x \in arc'.data <=> arc'.at[x] \in {"T1", "T2"}
  BY <1>6, <1>7, <1>9, SMTT(30) DEF CachedBut
<1>11. /\ arc'.n["T1"] = b.n["T1"] /\ arc'.n["B1"] = b.n["B1"]
       /\ arc'.n["T2"] = b.n["T2"] /\ arc'.n["B2"] = b.n["B2"]
  BY <1>7, <1>9, SMTT(30) DEF ArcList
<1>12. Bounds(arc') /\ arc'.ok
  BY <1>6, <1>7, <1>9, <1>11, SMTT(30) DEF Bounds
<1>13. WF(arc') /\ arc'.n["Del"] < Bulk
  BY <1>9
<1>14. TypeOK' /\ ListsAgree'
  BY <1>13 DEF WF, TypeOK, ListsAgree
<1>15. CapacityBounds' /\ GhostsOnlyWhenFull' /\ NoAssertFailure'
  BY <1>10, <1>12, <1>13, SMTT(30) DEF CapacityBounds, GhostsOnlyWhenFull, NoAssertFailure, Bounds
<1> QED
  BY <1>14, <1>15 DEF IInv

(* A match keeps it.                                                       *)
LEMMA MatchIInv ==
  ASSUME IInv, NEW e \in Entry, Match(e)
  PROVE  IInv'
<1>1. /\ WF(arc) /\ arc.ok /\ Bounds(arc) /\ arc.n["Del"] < Bulk
      /\ \A x \in Entry : x \in arc.data <=> arc.at[x] \in {"T1", "T2"}
  BY IInvIs
<1>2. e \in arc.data /\ arc' = CsArc_Add(arc, e)
  BY DEF Match
<1>3. arc.at[e] \in {"T1", "T2"} /\ CachedBut(arc, e)
  BY <1>1, <1>2, SMTT(30) DEF CachedBut
<1>4. Added(arc, arc', e) /\ arc'.data = arc.data /\ arc'.n["Del"] = arc.n["Del"]
  BY <1>1, <1>2, <1>3, AddProperties, SMTT(30)
<1>5. \A x \in Entry : x \in arc'.data <=> arc'.at[x] \in {"T1", "T2"}
  BY <1>2, <1>4 DEF Added, CachedBut
<1>6. WF(arc') /\ Bounds(arc') /\ arc'.ok /\ arc'.n["Del"] < Bulk
  BY <1>1, <1>4 DEF Added
<1>7. TypeOK' /\ ListsAgree'
  BY <1>6 DEF WF, TypeOK, ListsAgree
<1>8. CapacityBounds' /\ GhostsOnlyWhenFull' /\ NoAssertFailure'
  BY <1>5, <1>6 DEF CapacityBounds, GhostsOnlyWhenFull, NoAssertFailure, Bounds
<1> QED
  BY <1>7, <1>8 DEF IInv

(* Insertions and matches preserve the invariant.                          *)
LEMMA NextIInv == IInv /\ [Next]_arc => IInv'
<1> SUFFICES ASSUME IInv, [Next]_arc
             PROVE  IInv'
  OBVIOUS
<1>1. CASE UNCHANGED arc
  BY <1>1 DEF IInv, TypeOK, ListsAgree, NoAssertFailure, CapacityBounds, GhostsOnlyWhenFull
<1>2. CASE Next
  BY <1>2, PutIInv, MatchIInv DEF Next
<1> QED
  BY <1>1, <1>2

(* For every capacity, bulk size and set of names: the ARC lists, their    *)
(* counters and arcList agree, and p stays in range, after any sequence of *)
(* Cs_PutDirect and Cs_MatchInterest.                                      *)
THEOREM ListsAlwaysAgree == Spec => [](TypeOK /\ ListsAgree)
BY InitIInv, NextIInv, PTL DEF Spec, IInv

(* No assertion of cs-arc.c or cs-list.c can fail in such a sequence.      *)
THEOREM NeverAsserts == Spec => []NoAssertFailure
BY InitIInv, NextIInv, PTL DEF Spec, IInv

(* The CS never holds more than c Data packets nor tracks more than 2c     *)
(* entries besides those awaiting deletion; ghosts exist only when full.   *)
THEOREM StaysBounded == Spec => [](CapacityBounds /\ GhostsOnlyWhenFull)
BY InitIInv, NextIInv, PTL DEF Spec, IInv

----------------------------------------------------------------------------
(* The policy implements the bounded cache of module BoundedCache.         *)

(* A list without repetitions has as many entries as its length.           *)
LEMMA CountList ==
  ASSUME NEW s \in Seq(Entry), NoRepeat(s)
  PROVE  LET S == {s[k] : k \in DOMAIN s} IN IsFiniteSet(S) /\ Cardinality(S) = Len(s)
<1> DEFINE S == {s[k] : k \in DOMAIN s}
<1>1. Len(s) \in Nat /\ DOMAIN s = 1 .. Len(s)
  OBVIOUS
<1>2. s \in [1 .. Len(s) -> S]
  BY <1>1
<1>3. s \in Bijection(1 .. Len(s), S)
  <2>1. \A j, k \in 1 .. Len(s) : s[j] = s[k] => j = k
    BY <1>1 DEF NoRepeat
  <2>2. \A x \in S : \E j \in 1 .. Len(s) : s[j] = x
    BY <1>1
  <2> HIDE DEF S
  <2>3. s \in Injection(1 .. Len(s), S)
    BY <1>2, <2>1 DEF Injection, IsInjective
  <2>4. s \in Surjection(1 .. Len(s), S)
    BY <1>2, <2>2 DEF Surjection
  <2> QED
    BY <2>3, <2>4 DEF Bijection
<1>4. ExistsBijection(1 .. Len(s), S)
  BY <1>3 DEF ExistsBijection
<1> QED
  BY <1>1, <1>4, FS_CountingElements, FS_NatBijection, SMTT(30)

(* The counters of T1 and T2 count the Data packets.                       *)
LEMMA DataCount ==
  ASSUME NEW a, WF(a), \A e \in Entry : e \in a.data <=> a.at[e] \in {"T1", "T2"}
  PROVE  IsFiniteSet(a.data) /\ Cardinality(a.data) = a.n["T1"] + a.n["T2"]
<1> DEFINE S(i) == {a.l[i][k] : k \in DOMAIN a.l[i]}
<1>1. /\ "T1" \in ArcList /\ "T2" \in ArcList /\ a.data \subseteq Entry
      /\ \A i \in ArcList : a.l[i] \in Seq(Entry) /\ a.n[i] = Len(a.l[i]) /\ NoRepeat(a.l[i])
      /\ \A e \in Entry, i \in ArcList : Linked(a.l, i, e) <=> a.at[e] = i
  BY DEF WF, ArcState, Agree, ArcList, NoRepeat
<1>2. \A i \in ArcList : IsFiniteSet(S(i)) /\ Cardinality(S(i)) = a.n[i]
  BY <1>1, CountList, ZenonT(40)
<1>3. \A i \in ArcList : S(i) = {e \in Entry : a.at[e] = i}
  BY <1>1 DEF Linked
<1>4. a.data = S("T1") \cup S("T2") /\ S("T1") \cap S("T2") = {}
  BY <1>1, <1>3, ZenonT(40)
<1> HIDE DEF S
<1>5. a.n["T1"] \in Nat /\ a.n["T2"] \in Nat
  BY Counters
<1>6. Cardinality(S("T1") \cap S("T2")) = 0
  BY <1>4, FS_EmptySet
<1>7. IsFiniteSet(S("T1")) /\ IsFiniteSet(S("T2")) /\ Cardinality(S("T1")) = a.n["T1"]
      /\ Cardinality(S("T2")) = a.n["T2"]
  BY <1>1, <1>2, SMTT(30)
<1>8. /\ IsFiniteSet(S("T1") \cup S("T2"))
      /\ Cardinality(S("T1") \cup S("T2"))
           = Cardinality(S("T1")) + Cardinality(S("T2")) - Cardinality(S("T1") \cap S("T2"))
  BY <1>7, FS_Union
<1> QED
  BY <1>4, <1>5, <1>6, <1>7, <1>8, SMTT(30)

(* BoundedCache counts as this module does.                                *)
LEMMA CacheCardinality == \A S : Cache!Cardinality(S) = Cardinality(S)
BY Zenon DEF Cache!Cardinality, Cardinality

(* The initial ARC is an empty cache.                                      *)
LEMMA InitCache == Init => Cache!Init
BY DEF Init, Cache!Init, CsArc_Init

(* Cs_PutDirect inserts its entry, dropping at most one other entry's Data *)
(* and only when c Data packets were cached.                               *)
LEMMA PutInserts ==
  ASSUME IInv, NEW e \in Entry, Put(e)
  PROVE  Cache!Insert(e)
<1> DEFINE a == CsEntry_ClearData(arc, e)
           b == CsArc_Add(a, e)
<1>1. /\ WF(arc) /\ arc.ok /\ Bounds(arc)
      /\ \A x \in Entry : x \in arc.data <=> arc.at[x] \in {"T1", "T2"}
  BY IInvIs
<1>2. arc' = EvictDel([b EXCEPT !.data = @ \cup {e}])
  BY DEF Put
<1>3. /\ WF(a) /\ a.n = arc.n /\ a.at = arc.at /\ a.ok = arc.ok /\ a.data = arc.data \ {e}
  BY <1>1, ClearDataProperties, ZenonT(40)
<1> HIDE DEF a
<1>4. Bounds(a) /\ CachedBut(a, e)
  BY <1>1, <1>3 DEF Bounds, CachedBut
<1>5. Added(a, b, e) /\ (a.at[e] \in {"T1", "T2"} => b.data = a.data)
  BY <1>1, <1>3, <1>4, AddProperties, ZenonT(40)
<1> HIDE DEF b
<1>6. arc'.data = b.data \cup {e}
  <2> DEFINE c == [b EXCEPT !.data = @ \cup {e}]
  <2>1. c.data = b.data \cup {e} /\ ArcState(c)
    BY <1>5, ZenonT(40) DEF Added, WF, ArcState
  <2> HIDE DEF c
  <2>2. EvictDel(c).data = c.data
    BY <2>1 DEF EvictDel, ArcState
  <2> QED
    BY <1>2, <2>1, <2>2 DEF c
<1>7. CASE e \in arc.data
  BY <1>1, <1>3, <1>5, <1>6, <1>7 DEF Cache!Insert
<1>8. CASE e \notin arc.data
  <2>1. a.data = arc.data /\ Drops(a, b)
    BY <1>3, <1>5, <1>8, SMTT(30) DEF Added
  <2>2. Cardinality(arc.data) = arc.n["T1"] + arc.n["T2"]
    BY <1>1, DataCount
  <2> QED
    BY <1>3, <1>6, <1>8, <2>1, <2>2, CacheCardinality, SMTT(30) DEF Drops, Cache!Insert
<1> QED
  BY <1>7, <1>8

(* At most c Data packets are cached.                                      *)
LEMMA IInvBounded == IInv => Cardinality(arc.data) <= C
BY IInvIs, DataCount DEF Bounds

(* Every step of the policy is a step of the bounded cache: an insertion   *)
(* for Cs_PutDirect, none at all for Cs_MatchInterest.                     *)
LEMMA NextCache == IInv /\ IInv' /\ [Next]_arc => [Cache!Next]_(arc.data)
<1> SUFFICES ASSUME IInv, IInv', [Next]_arc
             PROVE  [Cache!Next]_(arc.data)
  OBVIOUS
<1>1. Cache!Bounded'
  <2>1. (Cardinality(arc.data) <= C)'
    BY IInvBounded, PTL
  <2> QED
    BY <2>1, CacheCardinality DEF Cache!Bounded
<1>2. ASSUME NEW e \in Entry, Put(e) PROVE Cache!Next
  BY <1>1, <1>2, PutInserts, SMTT(30) DEF Cache!Next
<1>3. ASSUME NEW e \in Entry, Match(e) PROVE arc'.data = arc.data
  <2>1. /\ WF(arc) /\ arc.ok /\ Bounds(arc)
        /\ \A x \in Entry : x \in arc.data <=> arc.at[x] \in {"T1", "T2"}
    BY IInvIs
  <2> QED
    BY <1>3, <2>1, AddProperties, SMTT(30) DEF Match, CachedBut
<1> QED
  BY <1>2, <1>3 DEF Next

(* The Adaptive Replacement Cache implements the bounded cache, whatever   *)
(* the capacity: a packet Cs_PutDirect stores is cached, a cached packet   *)
(* is lost only when c of them are held and another one comes in, one at a *)
(* time, and Cs_MatchInterest loses none.                                  *)
THEOREM ArcIsBoundedCache == Spec => CacheSpec
<1>1. IInv /\ IInv' /\ [Next]_arc => [Cache!Next]_(arc.data)
  BY NextCache
<1> QED
  BY InitIInv, NextIInv, InitCache, <1>1, PTL DEF Spec, CacheSpec, Cache!Spec
=============================================================================

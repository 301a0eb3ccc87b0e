------------------------------ MODULE FibTree ------------------------------
(***************************************************************************)
(* The name hierarchy of the FIB (container/fib/fibtree): what Insert and  *)
(* Erase do to the tree, and the update command they derive for the        *)
(* replicas.  A name is a sequence of components and a node is its name; a *)
(* tree is a record of functions over its set of nodes, which is closed    *)
(* under prefixes.  An EntryBody (nexthops and strategy) is one value, and *)
(* NoBody is the zero EntryBody of a node that is not an entry.            *)
(***************************************************************************)
EXTENDS Integers, Sequences, SequencesExt, FiniteSetsExt

CONSTANTS StartDepth, \* 'M' of the 2-stage LPM algorithm
          NoBody

StartDepthAssumption == StartDepth \in Nat \ {0}

NoUpdate == [action |-> "none"]

Nodes(t) == DOMAIN t.body

IsEntry(t, n) == t.body[n] # NoBody

Entries(t) == {n \in Nodes(t) : IsEntry(t, n)}

Children(t, n) == {c \in Nodes(t) : c # <<>> /\ Front(c) = n}

\* The d-component prefix of name n.
Prefix(n, d) == SubSeq(n, 1, d)

New == [body |-> (<<>> :> NoBody), height |-> (<<>> :> 0), nNodes |-> 1, nEntries |-> 0]

\* Tree.seek with canInsert: every missing node on the path is created.
Seek(t, name) ==
  LET fresh == Prefixes(name) \ Nodes(t) IN
  [t EXCEPT !.body = [n \in fresh |-> NoBody] @@ t.body,
            !.height = [n \in fresh |-> 0] @@ t.height,
            !.nNodes = t.nNodes + Cardinality(fresh)]

\* node.updateHeight: one more than the highest child, zero without children.
UpdateHeight(t, n) ==
  [t EXCEPT !.height[n] = Max({-1} \cup {t.height[c] : c \in Children(t, n)}) + 1]

RemoveChild(t, c) ==
  [t EXCEPT !.body = [n \in Nodes(t) \ {c} |-> t.body[n]],
            !.height = [n \in Nodes(t) \ {c} |-> t.height[n]],
            !.nNodes = @ - 1]

\* The depths of the proper ancestors of a name, nearest first.
AncestorDepths(name) == [i \in 1..Len(name) |-> Len(name) - i]

\* The VirtUpdate that follows from the height of the start-depth ancestor of
\* `name` changing from tree t to tree u; "gone" is the action of a caller whose
\* zero height means that the virtual entry appears or disappears.
VirtUpdate(t, u, name, gone) ==
  LET s == Prefix(name, StartDepth)
      old == IF s \in Nodes(t) THEN t.height[s] ELSE 0
      new == IF s \in Nodes(u) THEN u.height[s] ELSE 0
      zero == IF gone = "insert" THEN old ELSE new
  IN IF Len(name) <= StartDepth \/ old = new THEN NoUpdate
     ELSE [name |-> s, action |-> IF zero = 0 THEN gone ELSE "replace",
           hasReal |-> s \in Nodes(u) /\ IsEntry(u, s), height |-> new]

\* The VirtUpdate that accompanies a real update of a node which has descendants.
WithVirt(t, name, hasReal) ==
  IF Len(name) = StartDepth /\ t.height[name] > 0
  THEN [name |-> name, action |-> "replace", hasReal |-> hasReal, height |-> t.height[name]]
  ELSE NoUpdate

\* The heights of all ancestors of a new node, from its parent to the root.
RaiseHeights(t, name) ==
  FoldLeft(LAMBDA u, d : UpdateHeight(u, Prefix(name, d)), t, AncestorDepths(name))

Insert(t, name, body) ==
  LET isNew == name \notin Nodes(t)
      seek == Seek(t, name)
      isEntry == IsEntry(seek, name)
      set == [seek EXCEPT !.body[name] = body,
                          !.nEntries = IF isEntry THEN @ ELSE @ + 1]
      with == WithVirt(set, name, TRUE)
      up == IF isNew THEN RaiseHeights(set, name) ELSE set
  IN IF seek.body[name] = body
     THEN [tree |-> seek, real |-> NoUpdate, virt |-> NoUpdate]
     ELSE [tree |-> up,
           real |-> [name |-> name, action |-> IF isEntry THEN "replace" ELSE "insert",
                     body |-> body, withVirt |-> with],
           virt |-> VirtUpdate(t, up, name, "insert")]

\* The walk of Erase: bare leaves are removed from the bottom up, and each one's
\* parent has its height recomputed; the first node that stays ends the walk.
Prune(t, name) ==
  FoldLeft(LAMBDA w, d :
             LET c == Prefix(name, d + 1) IN
             IF w.go /\ ~IsEntry(w.tree, c) /\ Children(w.tree, c) = {}
             THEN [go |-> TRUE, tree |-> UpdateHeight(RemoveChild(w.tree, c), Prefix(name, d))]
             ELSE [w EXCEPT !.go = FALSE],
           [go |-> TRUE, tree |-> t], AncestorDepths(name)).tree

Erase(t, name) ==
  LET clear == [t EXCEPT !.body[name] = NoBody, !.nEntries = @ - 1]
      with == WithVirt(clear, name, FALSE)
      cut == IF with = NoUpdate THEN Prune(clear, name) ELSE clear
  IN IF name \notin Entries(t)
     THEN [tree |-> t, real |-> NoUpdate, virt |-> NoUpdate]
     ELSE [tree |-> cut,
           real |-> [name |-> name, action |-> "erase", body |-> NoBody, withVirt |-> with],
           virt |-> VirtUpdate(t, cut, name, "erase")]

\* What the update's revert function does to the tree u.tree, t being the tree
\* before the update: the converse operation, whose own update is dropped.
Revert(t, u) ==
  CASE u.real = NoUpdate -> u.tree
    [] u.real # NoUpdate /\ u.real.name \in Entries(t) ->
         Insert(u.tree, u.real.name, t.body[u.real.name]).tree
    [] OTHER -> Erase(u.tree, u.real.name).tree

\* The longest prefix of `name` that is an entry, as a set of at most one name.
LongestPrefix(t, name) ==
  LET m == Prefixes(name) \cap Entries(t) IN {n \in m : \A o \in m : Len(o) <= Len(n)}
=============================================================================

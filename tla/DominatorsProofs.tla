-------------------------- MODULE DominatorsProofs --------------------------
(***************************************************************************)
(* What the loops of Dominators (dom.go) rest on, on every object graph.   *)
(*                                                                         *)
(* The walk: in whatever order the references of an object are followed,   *)
(* it is a depth-first walk of what the GC roots reach.  WalkInv is its    *)
(* invariant, and WalkResult what the rest of the algorithm relies on.     *)
(*                                                                         *)
(* Dominance: how semidominators, read off the numbers of that walk,       *)
(* determine immediate dominators, what the tree of immediate dominators   *)
(* has beneath a node, and sums of sizes.                                  *)
(***************************************************************************)
EXTENDS Dominators, WellFoundedInduction, TLAPS

Pushed == Range(stack)

\* The nodes and numbers of the walk are in step, and its tree is one of
\* references from lower to higher numbers.
WalkTypeOK ==
  /\ g \in Graphs
  /\ stack \in Seq(Vertices)
  /\ vertex \in Seq(Vertices)
  /\ dfn \in [Vertices -> Int]
  /\ parent \in [Vertices -> Vertices \cup {-1}]

Numbering ==
  /\ \A v \in Vertices : Reachable(v) => dfn[v] < Len(vertex) /\ Numbered(dfn[v]) = v
  /\ \A k \in 0..(Len(vertex) - 1) : dfn[Numbered(k)] = k
  /\ dfn[Root] = 0
  /\ \A v \in Vertices : ~Reachable(v) => dfn[v] = -1

TreeOfReferences ==
  /\ parent[Root] = -1
  /\ \A v \in Vertices : ~Reachable(v) => parent[v] = -1
  /\ \A v \in Vertices \ {Root} :
       Reachable(v) => /\ parent[v] \in Vertices /\ Reachable(parent[v])
                       /\ dfn[parent[v]] < dfn[v]
                       /\ v \in succ(parent[v])

\* What is numbered between a node and one of its descendants descends from it.
Intervals ==
  \A a, u, y \in Vertices :
    Reachable(a) /\ dfn[a] <= dfn[u] /\ dfn[u] <= dfn[y] /\ a \in Ancestors(parent, y)
      => a \in Ancestors(parent, u)

\* A node that is left has had its references followed, and they do not lead
\* to a higher number outside the node's subtree.
Left(v) == \A w \in succ(v) : Reachable(w) /\ (dfn[v] < dfn[w] => v \in Ancestors(parent, w))

\* The stack is a path of the tree, and whatever was visited since a node of it
\* was entered descends from that node.
StackIsPath ==
  /\ \A k \in DOMAIN stack : Reachable(stack[k])
  /\ \A j, k \in DOMAIN stack : j < k => dfn[stack[j]] < dfn[stack[k]]
  /\ \A v \in Pushed : parent[v] = -1 \/ parent[v] \in Pushed
  /\ \A v \in Pushed, w \in Vertices : dfn[v] <= dfn[w] => v \in Ancestors(parent, w)

WalkInv ==
  /\ WalkTypeOK
  /\ Numbering
  /\ TreeOfReferences
  /\ Intervals
  /\ StackIsPath
  /\ \A v \in Vertices : Reachable(v) => v \in Live
  /\ \A v \in Vertices : Reachable(v) /\ v \notin Pushed => Left(v)
  /\ pc # "walk" => stack = <<>>

-----------------------------------------------------------------------------

\* The graph considered has references and GC roots among the objects only.
LEMMA GraphType ==
  ASSUME g \in Graphs
  PROVE  \A v \in Vertices : succ(v) \subseteq Node
  BY GraphAssumption DEF succ, Vertices, Node, Root

Tree == [Vertices -> Vertices \cup {-1}]

\* Ancestors by their closure: the node, the ancestors of its parent, and
\* nothing else.
LEMMA AncestorSelf ==
  ASSUME NEW tree, NEW v \in Vertices
  PROVE  v \in Ancestors(tree, v)
  BY Zenon DEF Ancestors

\* A set closed under parents that holds v holds the ancestors of v.
LEMMA AncestorsWithin ==
  ASSUME NEW tree, NEW v \in Vertices, NEW S \in SUBSET Vertices, v \in S,
         \A x \in S : tree[x] >= 0 => tree[x] \in S
  PROVE  Ancestors(tree, v) \subseteq S
  BY Zenon DEF Ancestors

\* An ancestor of an ancestor is an ancestor.
LEMMA AncestorTransitive ==
  ASSUME NEW tree, NEW v \in Vertices, NEW u \in Ancestors(tree, v)
  PROVE  Ancestors(tree, u) \subseteq Ancestors(tree, v)
  BY Zenon DEF Ancestors

\* The parent of v and its ancestors are ancestors of v.
LEMMA AncestorOfParent ==
  ASSUME NEW tree \in Tree, NEW v \in Vertices, tree[v] # -1
  PROVE  /\ tree[v] \in Vertices
         /\ tree[v] \in Ancestors(tree, v)
         /\ Ancestors(tree, tree[v]) \subseteq Ancestors(tree, v)
<1>1. tree[v] \in Vertices /\ tree[v] >= 0
  BY GraphAssumption DEF Tree, Vertices
<1> QED
  BY <1>1, Zenon DEF Ancestors

\* A proper ancestor of v is an ancestor of the parent of v.
LEMMA AncestorSplit ==
  ASSUME NEW tree \in Tree, NEW v \in Vertices, NEW u \in Ancestors(tree, v), u # v
  PROVE  tree[v] # -1 /\ u \in Ancestors(tree, tree[v])
<1>1. tree[v] \in Vertices \cup {-1}
  BY Zenon DEF Tree
<1>2. CASE tree[v] = -1
  <2> DEFINE S == {v}
  <2>1. \A x \in S : ~(tree[x] >= 0)
    BY <1>2
  <2>2. S \in SUBSET Vertices /\ v \in S
    BY Zenon
  <2> HIDE DEF S
  <2>3. Ancestors(tree, v) \subseteq S
    BY <2>1, <2>2, AncestorsWithin, Zenon
  <2> QED
    BY <2>3, Zenon DEF S
<1>3. CASE tree[v] # -1
  <2>1. tree[v] \in Ancestors(tree, tree[v])
    BY <1>1, <1>3, AncestorSelf, Zenon
  <2> DEFINE S == {v} \cup Ancestors(tree, tree[v])
  <2>2. S \in SUBSET Vertices
    BY Zenon DEF Ancestors
  <2>3. ASSUME NEW x \in Ancestors(tree, tree[v]), tree[x] >= 0
        PROVE  tree[x] \in Ancestors(tree, tree[v])
    <3>1. x \in Vertices /\ tree[x] \in Vertices
      BY <2>3 DEF Ancestors, Tree
    <3> QED
      BY <2>3, <3>1, Zenon DEF Ancestors
  <2>4. Ancestors(tree, v) \subseteq S
    <3>1. v \in S /\ \A x \in S : tree[x] >= 0 => tree[x] \in S
      BY <2>1, <2>3, Zenon
    <3> HIDE DEF S
    <3> QED
      BY <2>2, <3>1, AncestorsWithin, Zenon
  <2> QED
    BY <1>3, <2>4, Zenon
<1> QED
  BY <1>2, <1>3, Zenon

\* A new leaf w under p changes the ancestors of no other node of the tree.
GrownBy(tree, grown, w, p) ==
  /\ tree \in Tree /\ grown \in Tree
  /\ w \in Vertices /\ p \in Vertices /\ p # w
  /\ tree[w] = -1 /\ \A x \in Vertices : tree[x] # w
  /\ grown[w] = p /\ \A x \in Vertices \ {w} : grown[x] = tree[x]

\* The ancestors in the grown tree: the new leaf has p and those of p.
LEMMA AncestorsOfLeaf ==
  ASSUME NEW tree, NEW grown, NEW w, NEW p, GrownBy(tree, grown, w, p)
  PROVE  /\ \A v \in Vertices \ {w} : Ancestors(grown, v) = Ancestors(tree, v)
         /\ Ancestors(grown, w) = {w} \cup Ancestors(tree, p)
<1>1. /\ tree \in Tree /\ grown \in Tree /\ w \in Vertices /\ p \in Vertices /\ p # w
      /\ tree[w] = -1 /\ \A x \in Vertices : tree[x] # w
      /\ grown[w] = p /\ \A x \in Vertices \ {w} : grown[x] = tree[x]
  BY Zenon DEF GrownBy
<1>2. ASSUME NEW v \in Vertices
      PROVE  Ancestors(tree, v) \subseteq Ancestors(grown, v)
  BY <1>1 DEF Ancestors
<1>3. ASSUME NEW v \in Vertices \ {w}
      PROVE  Ancestors(grown, v) \subseteq Ancestors(tree, v)
  <2>1. Ancestors(tree, v) \subseteq Vertices \ {w}
    <3>1. \A x \in Vertices \ {w} : tree[x] >= 0 => tree[x] \in Vertices \ {w}
      BY <1>1 DEF Tree
    <3> QED
      BY <3>1, AncestorsWithin, Zenon
  <2>2. ASSUME NEW x \in Ancestors(tree, v), grown[x] >= 0
        PROVE  grown[x] \in Ancestors(tree, v)
    <3>1. x \in Vertices /\ grown[x] = tree[x] /\ tree[x] # -1
      BY <1>1, <2>1, <2>2
    <3>2. tree[x] \in Ancestors(tree, x)
      BY <1>1, <3>1, AncestorOfParent, Zenon
    <3> QED
      BY <3>1, <3>2, AncestorTransitive, Zenon
  <2>3. v \in Ancestors(tree, v) /\ Ancestors(tree, v) \in SUBSET Vertices
    BY AncestorSelf, Zenon DEF Ancestors
  <2> QED
    BY <2>2, <2>3, AncestorsWithin, Zenon
<1>4. Ancestors(grown, w) = {w} \cup Ancestors(tree, p)
  <2>1. grown[w] # -1
    BY <1>1, GraphAssumption DEF Vertices
  <2>2. Ancestors(grown, p) = Ancestors(tree, p)
    BY <1>1, <1>2, <1>3, Zenon
  <2>3. w \in Ancestors(grown, w) /\ Ancestors(grown, p) \subseteq Ancestors(grown, w)
    BY <1>1, <2>1, AncestorSelf, AncestorOfParent, Zenon
  <2>4. ASSUME NEW u \in Ancestors(grown, w), u # w
        PROVE  u \in Ancestors(grown, p)
    BY <1>1, <2>4, AncestorSplit, Zenon
  <2> QED
    BY <2>2, <2>3, <2>4, Zenon
<1> QED
  BY <1>1, <1>2, <1>3, <1>4, Zenon

\* Ancestors have lower numbers.
LEMMA AncestorLower ==
  ASSUME WalkTypeOK, Numbering, TreeOfReferences, NEW v \in Vertices, Reachable(v)
  PROVE  \A u \in Ancestors(parent, v) : u \in Vertices /\ Reachable(u) /\ dfn[u] <= dfn[v]
<1> DEFINE S == {x \in Vertices : Reachable(x) /\ dfn[x] <= dfn[v]}
<1>1. v \in S
  BY DEF WalkTypeOK
<1>2. ASSUME NEW x \in S, parent[x] >= 0
      PROVE  parent[x] \in S
  BY <1>2 DEF WalkTypeOK, TreeOfReferences
<1>3. Ancestors(parent, v) \subseteq S
  BY <1>1, <1>2, AncestorsWithin, Zenon
<1> QED
  BY <1>3, Zenon

-----------------------------------------------------------------------------
(* The walk.                                                               *)

\* The walk starts at the virtual root, with nothing else numbered.
LEMMA InitWalkInv == Init => WalkInv
<1> SUFFICES ASSUME Init PROVE WalkInv
  BY Zenon
<1>1. /\ Root \in Vertices /\ g \in Graphs /\ pc = "walk" /\ N \in Nat
      /\ stack = <<Root>> /\ vertex = <<Root>>
      /\ dfn \in [Vertices -> Int] /\ dfn[Root] = 0
      /\ \A v \in Vertices \ {Root} : dfn[v] = -1
      /\ parent \in [Vertices -> Vertices \cup {-1}]
      /\ \A v \in Vertices : parent[v] = -1
  BY GraphAssumption DEF Init, Vertices, Root, Nowhere
<1>2. WalkTypeOK
  BY <1>1 DEF WalkTypeOK
<1>3. Numbering
  BY <1>1 DEF Numbering, Numbered, Reachable
<1>4. TreeOfReferences
  BY <1>1 DEF TreeOfReferences, Reachable
<1>5. \A v \in Vertices : Reachable(v) => v = Root
  BY <1>1 DEF Reachable
<1>6. Root \in Ancestors(parent, Root)
  BY <1>1, AncestorSelf, Zenon
<1>7. Intervals
  BY <1>1, <1>5, <1>6, Zenon DEF Intervals, Reachable
<1>8. Pushed = {Root}
  BY <1>1 DEF Pushed, Range
<1>9. StackIsPath
  BY <1>1, <1>6, <1>8 DEF StackIsPath, Reachable
<1>10. Root \in Live
  BY <1>1 DEF Live, ReachedWithout, Vertices
<1> QED
  BY <1>1, <1>2, <1>3, <1>4, <1>5, <1>7, <1>8, <1>9, <1>10, Zenon DEF WalkInv

\* The steps after the walk leave its result alone.
LEMMA SameWalk ==
  ASSUME WalkInv, UNCHANGED <<g, walkVars>>, pc' # "walk" => stack = <<>>
  PROVE  WalkInv'
<1>1. g' = g /\ stack' = stack /\ vertex' = vertex /\ dfn' = dfn /\ parent' = parent
  BY Zenon DEF walkVars
<1>2. WalkTypeOK'
  BY <1>1, Zenon DEF WalkInv, WalkTypeOK
<1>3. Numbering'
  BY <1>1, Zenon DEF WalkInv, Numbering, Reachable, Numbered
<1>4. TreeOfReferences'
  BY <1>1, Zenon DEF WalkInv, TreeOfReferences, Reachable, succ
<1>5. Intervals'
  BY <1>1, Zenon DEF WalkInv, Intervals, Reachable
<1>6. StackIsPath'
  BY <1>1, Zenon DEF WalkInv, StackIsPath, Reachable, Pushed
<1>7. (\A v \in Vertices : Reachable(v) => v \in Live)'
  BY <1>1, ZenonT(30) DEF WalkInv, Reachable, Live, ReachedWithout, succ
<1>8. (\A v \in Vertices : Reachable(v) /\ v \notin Pushed => Left(v))'
  BY <1>1, Zenon DEF WalkInv, Reachable, Pushed, Left, succ
<1> QED
  BY <1>1, <1>2, <1>3, <1>4, <1>5, <1>6, <1>7, <1>8, Zenon DEF WalkInv

\* Entering a node keeps numbers and tree in step.
LEMMA VisitTree ==
  ASSUME WalkInv, NEW w \in Node, Visit(w), NEW p, p = Top
  PROVE  /\ p \in Pushed /\ p \in Vertices /\ Reachable(p) /\ p # w
         /\ w \in Vertices /\ ~Reachable(w) /\ w \in succ(p)
         /\ \A v \in Pushed : v \in Vertices /\ dfn[v] <= dfn[p]
         /\ g' = g /\ pc' = pc
         /\ WalkTypeOK' /\ Numbering' /\ TreeOfReferences'
         /\ Pushed' = Pushed \cup {w}
         /\ dfn'[w] = Len(vertex) /\ \A v \in Vertices : dfn[v] < dfn'[w]
         /\ \A v \in Vertices \ {w} : dfn'[v] = dfn[v] /\ parent'[v] = parent[v]
         /\ parent'[w] = p
         /\ \A v \in Vertices \ {w} : Ancestors(parent', v) = Ancestors(parent, v)
         /\ Ancestors(parent', w) = {w} \cup Ancestors(parent, p)
<1>1. /\ stack \in Seq(Vertices) /\ stack # <<>> /\ vertex \in Seq(Vertices)
      /\ dfn \in [Vertices -> Int] /\ parent \in Tree /\ g \in Graphs
  BY Zenon DEF WalkInv, WalkTypeOK, Visit, Tree
<1>2. Len(stack) \in Nat \ {0} /\ p = stack[Len(stack)] /\ Len(stack) \in DOMAIN stack
  BY <1>1 DEF Top
<1>3. p \in Pushed /\ p \in Vertices /\ Reachable(p)
  BY <1>1, <1>2 DEF Pushed, Range, WalkInv, StackIsPath
<1>4. \A v \in Pushed : v \in Vertices /\ dfn[v] <= dfn[p]
  <2> SUFFICES ASSUME NEW k \in DOMAIN stack
               PROVE  stack[k] \in Vertices /\ dfn[stack[k]] <= dfn[p]
    BY Zenon DEF Pushed, Range
  <2>1. k = Len(stack) \/ k < Len(stack)
    BY <1>1
  <2> QED
    BY <1>1, <1>2, <1>3, <2>1 DEF WalkInv, StackIsPath
<1>5. w \in Vertices /\ w # Root /\ ~Reachable(w) /\ w \in succ(p) /\ p # w
  BY <1>2, <1>3, GraphAssumption DEF Visit, Unvisited, Node, Vertices, Root
<1>6. /\ dfn' = [dfn EXCEPT ![w] = Len(vertex)]
      /\ parent' = [parent EXCEPT ![w] = p]
      /\ vertex' = Append(vertex, w)
      /\ stack' = Append(stack, w)
      /\ g' = g /\ pc' = pc
  BY Zenon DEF Visit
<1>7. Len(vertex) \in Nat /\ \A v \in Vertices : dfn[v] < Len(vertex)
  BY <1>1 DEF WalkInv, Numbering, Reachable
<1>8. parent[w] = -1 /\ \A x \in Vertices : parent[x] # w
  BY <1>5, GraphAssumption, SMTT(30) DEF WalkInv, TreeOfReferences, Reachable, Vertices
<1>9. /\ parent' \in Tree
      /\ \A v \in Vertices \ {w} : Ancestors(parent', v) = Ancestors(parent, v)
      /\ Ancestors(parent', w) = {w} \cup Ancestors(parent, p)
  <2>1. PICK grown : grown = [parent EXCEPT ![w] = p]
    BY Zenon
  <2>2. /\ grown \in Tree /\ grown[w] = p
        /\ \A x \in Vertices \ {w} : grown[x] = parent[x]
    BY <1>1, <1>3, <1>5, <2>1, Zenon DEF Tree
  <2>3. GrownBy(parent, grown, w, p)
    BY <1>1, <1>3, <1>5, <1>8, <2>2, Zenon DEF GrownBy
  <2>4. /\ \A v \in Vertices \ {w} : Ancestors(grown, v) = Ancestors(parent, v)
        /\ Ancestors(grown, w) = {w} \cup Ancestors(parent, p)
    BY <2>3, AncestorsOfLeaf
  <2>5. parent' = grown
    BY <1>6, <2>1, Zenon
  <2> QED
    BY <2>2, <2>4, <2>5, Zenon
<1>10. /\ dfn' \in [Vertices -> Int] /\ dfn'[w] = Len(vertex)
       /\ \A v \in Vertices \ {w} : dfn'[v] = dfn[v] /\ parent'[v] = parent[v]
       /\ parent'[w] = p
  BY <1>1, <1>5, <1>6, <1>7 DEF Tree
<1>11. WalkTypeOK'
  BY <1>1, <1>5, <1>6, <1>9, <1>10 DEF WalkTypeOK, Tree
<1>12. Numbering'
  <2>1. Len(vertex') = Len(vertex) + 1 /\ vertex'[Len(vertex) + 1] = w
    BY <1>1, <1>6
  <2>2. \A k \in 1..Len(vertex) : vertex'[k] = vertex[k] /\ vertex[k] \in Vertices
    BY <1>1, <1>6
  <2>3. ASSUME NEW v \in Vertices, Reachable(v)'
        PROVE  dfn'[v] < Len(vertex') /\ vertex'[dfn'[v] + 1] = v
    <3>1. CASE v = w
      BY <1>7, <1>10, <2>1, <3>1
    <3>2. CASE v # w
      <4>1. dfn'[v] = dfn[v] /\ Reachable(v)
        BY <1>10, <2>3, <3>2, Zenon DEF Reachable
      <4>2. dfn[v] \in 0..(Len(vertex) - 1) /\ vertex[dfn[v] + 1] = v
        BY <1>1, <4>1 DEF WalkInv, Numbering, Numbered, Reachable
      <4> QED
        BY <1>7, <2>1, <2>2, <4>1, <4>2, SMTT(30)
    <3> QED
      BY <3>1, <3>2, Zenon
  <2>4. ASSUME NEW k \in 0..(Len(vertex') - 1)
        PROVE  dfn'[vertex'[k + 1]] = k
    <3>1. CASE k = Len(vertex)
      BY <1>10, <2>1, <3>1, Zenon
    <3>2. CASE k # Len(vertex)
      <4>1. k \in 0..(Len(vertex) - 1)
        BY <1>7, <2>1, <3>2
      <4>2. dfn[vertex[k + 1]] = k /\ vertex[k + 1] \in Vertices
        BY <1>7, <2>2, <4>1 DEF WalkInv, Numbering, Numbered
      <4>3. vertex[k + 1] # w
        BY <1>5, <4>1, <4>2 DEF Reachable
      <4> QED
        BY <1>7, <1>10, <2>2, <4>1, <4>2, <4>3, SMTT(30)
    <3> QED
      BY <3>1, <3>2, Zenon
  <2>5. dfn'[Root] = 0
    BY <1>5, <1>10, GraphAssumption DEF WalkInv, Numbering, Root, Vertices
  <2>6. \A v \in Vertices : ~Reachable(v)' => dfn'[v] = -1
    BY <1>7, <1>10 DEF WalkInv, Numbering, Reachable
  <2> QED
    BY <2>3, <2>4, <2>5, <2>6, Zenon DEF Numbering, Numbered
<1>13. TreeOfReferences'
  <2>1. \A v : succ(v)' = succ(v)
    BY <1>6, Zenon DEF succ
  <2>2. Root \in Vertices
    BY GraphAssumption DEF Root, Vertices
  <2>3. parent'[Root] = -1
    BY <1>5, <1>10, <2>2, Zenon DEF WalkInv, TreeOfReferences
  <2>4. ASSUME NEW v \in Vertices, ~Reachable(v)'
        PROVE  parent'[v] = -1
    BY <1>7, <1>10, <2>4 DEF WalkInv, TreeOfReferences, Reachable
  <2>5. ASSUME NEW v \in Vertices \ {Root}, Reachable(v)'
        PROVE  /\ parent'[v] \in Vertices /\ Reachable(parent[v])'
               /\ dfn'[parent'[v]] < dfn'[v]
               /\ v \in succ(parent'[v])
    <3>1. CASE v = w
      BY <1>3, <1>5, <1>7, <1>10, <3>1, Zenon DEF Reachable
    <3>2. CASE v # w
      <4>1. Reachable(v) /\ dfn'[v] = dfn[v] /\ parent'[v] = parent[v]
        BY <1>10, <2>5, <3>2, Zenon DEF Reachable
      <4>2. /\ parent[v] \in Vertices /\ Reachable(parent[v])
            /\ dfn[parent[v]] < dfn[v] /\ v \in succ(parent[v])
        BY <4>1, Zenon DEF WalkInv, TreeOfReferences
      <4>3. parent[v] # w
        BY <1>8, Zenon
      <4> QED
        BY <1>10, <4>1, <4>2, <4>3, Zenon DEF Reachable
    <3> QED
      BY <3>1, <3>2, Zenon
  <2> QED
    BY <2>1, <2>3, <2>4, <2>5, Zenon DEF TreeOfReferences
<1>14. Pushed' = Pushed \cup {w}
  <2>1. DOMAIN stack = 1..Len(stack) /\ DOMAIN stack' = 1..(Len(stack) + 1)
    BY <1>1, <1>6
  <2>2. \A k \in 1..Len(stack) : stack'[k] = stack[k]
    BY <1>1, <1>6
  <2>3. stack'[Len(stack) + 1] = w
    BY <1>1, <1>6
  <2> QED
    BY <1>2, <2>1, <2>2, <2>3 DEF Pushed, Range
<1> QED
  BY <1>3, <1>4, <1>5, <1>6, <1>7, <1>9, <1>10, <1>11, <1>12, <1>13, <1>14, Zenon

\* A node is entered from the top of the stack: it descends from all the nodes
\* on it, and from no others.
LEMMA VisitWalkInv ==
  ASSUME WalkInv, NEW w \in Node, Visit(w)
  PROVE  WalkInv'
<1>1. PICK p : p = Top
  BY Zenon
<1>2. /\ p \in Pushed /\ p \in Vertices /\ Reachable(p) /\ p # w
      /\ w \in Vertices /\ ~Reachable(w) /\ w \in succ(p)
      /\ \A v \in Pushed : v \in Vertices /\ dfn[v] <= dfn[p]
      /\ g' = g /\ pc' = pc
      /\ WalkTypeOK' /\ Numbering' /\ TreeOfReferences'
      /\ Pushed' = Pushed \cup {w}
      /\ dfn'[w] = Len(vertex) /\ \A v \in Vertices : dfn[v] < dfn'[w]
      /\ \A v \in Vertices \ {w} : dfn'[v] = dfn[v] /\ parent'[v] = parent[v]
      /\ parent'[w] = p
      /\ \A v \in Vertices \ {w} : Ancestors(parent', v) = Ancestors(parent, v)
      /\ Ancestors(parent', w) = {w} \cup Ancestors(parent, p)
  BY <1>1, VisitTree, Zenon
<1>3. \A v \in Pushed : v \in Ancestors(parent, p)
  BY <1>2, Zenon DEF WalkInv, StackIsPath
<1>4. dfn \in [Vertices -> Int] /\ parent \in Tree /\ dfn' \in [Vertices -> Int]
  BY <1>2, Zenon DEF WalkInv, WalkTypeOK, Tree
<1>5. \A a \in Ancestors(parent, p) : a \in Pushed
  <2>1. \A x \in Pushed : parent[x] >= 0 => parent[x] \in Pushed
    BY DEF WalkInv, StackIsPath
  <2>2. Pushed \in SUBSET Vertices
    BY <1>2, Zenon
  <2> QED
    BY <1>2, <2>1, <2>2, AncestorsWithin, Zenon
<1>6. \A v \in Pushed, x \in Vertices : dfn[v] <= dfn[x] => v \in Ancestors(parent, x)
  BY Zenon DEF WalkInv, StackIsPath
<1>7. w \notin Pushed /\ \A v \in Pushed : Reachable(v) /\ v # w
  BY Zenon DEF Pushed, Range, WalkInv, StackIsPath, Visit, Unvisited
<1>8. Intervals'
  <2> SUFFICES ASSUME NEW a \in Vertices, NEW u \in Vertices, NEW y \in Vertices,
                      dfn'[a] >= 0, dfn'[a] <= dfn'[u], dfn'[u] <= dfn'[y],
                      a \in Ancestors(parent', y)
               PROVE  a \in Ancestors(parent', u)
    BY Zenon DEF Intervals, Reachable
  <2>1. CASE y = w
    <3>1. CASE a = w
      <4>1. u = w
        BY <1>2, <1>4, <3>1
      <4> QED
        BY <1>2, <3>1, <4>1, Zenon
    <3>2. CASE a # w
      <4>1. a \in Ancestors(parent, p) /\ a \in Pushed
        BY <1>2, <1>5, <2>1, <3>2, Zenon
      <4>2. CASE u = w
        BY <1>2, <4>1, <4>2, Zenon
      <4>3. CASE u # w
        <5>1. dfn[a] <= dfn[u]
          BY <1>2, <3>2, <4>3, Zenon
        <5> QED
          BY <1>2, <1>6, <4>1, <4>3, <5>1, Zenon
      <4> QED
        BY <4>2, <4>3, Zenon
    <3> QED
      BY <3>1, <3>2, Zenon
  <2>2. CASE y # w
    <3>1. dfn'[y] = dfn[y] /\ dfn[y] < dfn'[w]
      BY <1>2, <2>2, Zenon
    <3>2. a # w /\ u # w
      BY <1>4, <3>1
    <3>3. dfn'[a] = dfn[a] /\ dfn'[u] = dfn[u] /\ a \in Ancestors(parent, y)
      BY <1>2, <2>2, <3>2, Zenon
    <3>4. a \in Ancestors(parent, u)
      BY <3>1, <3>3, Zenon DEF WalkInv, Intervals, Reachable
    <3> QED
      BY <1>2, <3>2, <3>4, Zenon
  <2> QED
    BY <2>1, <2>2, Zenon
<1>9. StackIsPath'
  <2>1. stack \in Seq(Vertices) /\ stack' = Append(stack, w)
    BY Zenon DEF WalkInv, WalkTypeOK, Visit
  <2>2. /\ DOMAIN stack' = 1..(Len(stack) + 1) /\ DOMAIN stack = 1..Len(stack)
        /\ \A k \in 1..Len(stack) : stack'[k] = stack[k] /\ stack[k] \in Pushed
        /\ stack'[Len(stack) + 1] = w
    BY <2>1 DEF Pushed, Range
  <2>3. ASSUME NEW k \in DOMAIN stack'
        PROVE  dfn'[stack'[k]] >= 0
    <3>1. CASE k = Len(stack) + 1
      BY <1>2, <1>4, <2>2, <3>1 DEF Reachable
    <3>2. CASE k # Len(stack) + 1
      <4>1. k \in 1..Len(stack)
        BY <2>1, <2>2, <3>2
      <4> QED
        BY <1>2, <1>7, <2>2, <4>1, Zenon DEF Reachable
    <3> QED
      BY <3>1, <3>2, Zenon
  <2>4. ASSUME NEW j \in DOMAIN stack', NEW k \in DOMAIN stack', j < k
        PROVE  dfn'[stack'[j]] < dfn'[stack'[k]]
    <3>1. j \in 1..Len(stack)
      BY <2>1, <2>2, <2>4
    <3>2. stack'[j] = stack[j] /\ stack[j] \in Vertices /\ dfn'[stack[j]] = dfn[stack[j]]
      BY <1>2, <1>7, <2>2, <3>1, Zenon
    <3>3. CASE k = Len(stack) + 1
      BY <1>2, <2>2, <3>2, <3>3, Zenon
    <3>4. CASE k # Len(stack) + 1
      <4>1. k \in 1..Len(stack)
        BY <2>1, <2>2, <3>4
      <4>2. stack'[k] = stack[k] /\ dfn'[stack[k]] = dfn[stack[k]]
        BY <1>2, <1>7, <2>2, <4>1, Zenon
      <4>3. dfn[stack[j]] < dfn[stack[k]]
        BY <2>2, <2>4, <3>1, <4>1, Zenon DEF WalkInv, StackIsPath
      <4> QED
        BY <3>2, <4>2, <4>3, Zenon
    <3> QED
      BY <3>3, <3>4, Zenon
  <2>5. \A v \in Pushed' : parent'[v] = -1 \/ parent'[v] \in Pushed'
    BY <1>2, <1>7, Zenon DEF WalkInv, StackIsPath
  <2>6. ASSUME NEW v \in Pushed', NEW x \in Vertices, dfn'[v] <= dfn'[x]
        PROVE  v \in Ancestors(parent', x)
    <3>1. CASE v = w
      <4>1. x = w
        BY <1>2, <1>4, <2>6, <3>1
      <4> QED
        BY <1>2, <3>1, <4>1, Zenon
    <3>2. CASE v # w
      <4>1. v \in Pushed
        BY <1>2, <3>2, Zenon
      <4>2. CASE x = w
        BY <1>2, <1>3, <4>1, <4>2, Zenon
      <4>3. CASE x # w
        BY <1>2, <1>6, <2>6, <3>2, <4>1, <4>3, Zenon
      <4> QED
        BY <4>2, <4>3, Zenon
    <3> QED
      BY <3>1, <3>2, Zenon
  <2> QED
    BY <2>3, <2>4, <2>5, <2>6, Zenon DEF StackIsPath, Reachable
<1>10. Live' = Live /\ \A v : succ(v)' = succ(v)
  BY <1>2, Zenon DEF Live, ReachedWithout, succ
<1>11. w \in Live
  <2>1. p \in Live
    BY <1>2, Zenon DEF WalkInv
  <2>2. w # -1
    BY <1>2, GraphAssumption DEF Vertices
  <2> QED
    BY <1>2, <2>1, <2>2, Zenon DEF Live, ReachedWithout
<1>12. \A v \in Vertices : Reachable(v)' => v \in Live
  BY <1>2, <1>11, Zenon DEF WalkInv, Reachable
<1>13. ASSUME NEW v \in Vertices, Reachable(v)', v \notin Pushed'
       PROVE  Left(v)'
  <2>1. v # w /\ v \notin Pushed /\ Reachable(v) /\ dfn'[v] = dfn[v]
    BY <1>2, <1>13, Zenon DEF Reachable
  <2>2. Left(v)
    BY <2>1, Zenon DEF WalkInv
  <2>3. ASSUME NEW x \in succ(v)
        PROVE  dfn'[x] >= 0 /\ (dfn'[v] < dfn'[x] => v \in Ancestors(parent', x))
    <3>1. Reachable(x) /\ (dfn[v] < dfn[x] => v \in Ancestors(parent, x)) /\ x \in Vertices
      <4>1. succ(v) \subseteq Node
        BY GraphType, Zenon DEF WalkInv, WalkTypeOK
      <4> QED
        BY <2>2, <2>3, <4>1, GraphAssumption DEF Left, Node, Vertices
    <3>2. x # w
      BY <1>2, <3>1, Zenon
    <3> QED
      BY <1>2, <2>1, <3>1, <3>2, Zenon DEF Reachable
  <2> QED
    BY <1>10, <2>3, Zenon DEF Left, Reachable
<1>14. pc' = "walk"
  BY <1>2, Zenon DEF Visit
<1> QED
  BY <1>2, <1>8, <1>9, <1>10, <1>12, <1>13, <1>14, Zenon DEF WalkInv

\* A node is left when all it refers to is visited.
LEMMA BacktrackWalkInv ==
  ASSUME WalkInv, Backtrack
  PROVE  WalkInv'
<1>1. /\ stack \in Seq(Vertices) /\ stack # <<>> /\ stack' = SubSeq(stack, 1, Len(stack) - 1)
      /\ g' = g /\ pc' = pc /\ vertex' = vertex /\ dfn' = dfn /\ parent' = parent
      /\ dfn \in [Vertices -> Int]
  BY Zenon DEF WalkInv, WalkTypeOK, Backtrack
<1>2. PICK p : p = Top
  BY Zenon
<1>3. /\ Len(stack) \in Nat \ {0} /\ p = stack[Len(stack)] /\ p \in Vertices
      /\ DOMAIN stack = 1..Len(stack) /\ DOMAIN stack' = 1..(Len(stack) - 1)
      /\ stack' \in Seq(Vertices)
      /\ \A k \in 1..(Len(stack) - 1) : stack'[k] = stack[k]
  BY <1>1, <1>2 DEF Top
<1>4. /\ \A k \in 1..(Len(stack) - 1) : dfn[stack[k]] < dfn[p]
      /\ p \in Pushed
  BY <1>3, SMTT(30) DEF WalkInv, StackIsPath, Pushed, Range
<1>5. Pushed = Pushed' \cup {p}
  BY <1>3, SMTT(30) DEF Pushed, Range
<1>6. \A v \in Pushed' : v \in Pushed /\ dfn[v] < dfn[p]
  BY <1>3, <1>4 DEF Pushed, Range
<1>7. WalkTypeOK' /\ Numbering'
  BY <1>1, <1>3, Zenon DEF WalkInv, WalkTypeOK, Numbering, Reachable, Numbered
<1>8. TreeOfReferences'
  BY <1>1, Zenon DEF WalkInv, TreeOfReferences, Reachable, succ
<1>9. Intervals'
  BY <1>1, Zenon DEF WalkInv, Intervals, Reachable
<1>10. StackIsPath'
  <2>1. /\ \A k \in DOMAIN stack : dfn[stack[k]] >= 0
        /\ \A j, k \in DOMAIN stack : j < k => dfn[stack[j]] < dfn[stack[k]]
        /\ \A v \in Pushed : parent[v] = -1 \/ parent[v] \in Pushed
    BY Zenon DEF WalkInv, StackIsPath, Reachable
  <2>2. /\ \A k \in DOMAIN stack' : dfn'[stack'[k]] >= 0
        /\ \A j, k \in DOMAIN stack' : j < k => dfn'[stack'[j]] < dfn'[stack'[k]]
    <3>1. \A k \in DOMAIN stack' : k \in DOMAIN stack /\ stack'[k] = stack[k]
      BY <1>3
    <3> QED
      BY <1>1, <2>1, <3>1, ZenonT(30)
  <2>3. ASSUME NEW v \in Pushed'
        PROVE  parent[v] = -1 \/ parent[v] \in Pushed'
    <3>1. v \in Pushed /\ dfn[v] < dfn[p]
      BY <1>6, Zenon
    <3>2. PICK k \in DOMAIN stack : v = stack[k]
      BY <3>1, Zenon DEF Pushed, Range
    <3>3. v \in Vertices /\ dfn[v] >= 0
      BY <1>1, <2>1, <3>2
    <3>4. parent[v] # -1 => dfn[parent[v]] < dfn[v]
      BY <3>3, Zenon DEF WalkInv, TreeOfReferences, Reachable
    <3>5. parent[v] # p \/ parent[v] = -1
      BY <1>1, <1>3, <3>1, <3>3, <3>4
    <3> QED
      BY <1>5, <2>1, <3>1, <3>5, Zenon
  <2>4. \A v \in Pushed', w \in Vertices : dfn[v] <= dfn[w] => v \in Ancestors(parent, w)
    BY <1>6, Zenon DEF WalkInv, StackIsPath
  <2> QED
    BY <1>1, <2>2, <2>3, <2>4, Zenon DEF StackIsPath, Reachable
<1>11. (\A v \in Vertices : Reachable(v) => v \in Live)'
  BY <1>1, ZenonT(30) DEF WalkInv, Reachable, Live, ReachedWithout, succ
<1>12. Left(p)
  <2>1. \A w \in succ(p) : Reachable(w) /\ w \in Vertices
    BY <1>1, <1>2, <1>3, GraphType, GraphAssumption, SMTT(30)
      DEF Backtrack, Unvisited, WalkInv, WalkTypeOK, Node, Vertices
  <2>2. \A w \in Vertices : dfn[p] <= dfn[w] => p \in Ancestors(parent, w)
    BY <1>4, Zenon DEF WalkInv, StackIsPath
  <2> QED
    BY <1>1, <1>3, <2>1, <2>2 DEF Left
<1>13. \A v \in Vertices : Reachable(v) /\ v \notin Pushed' => Left(v)
  BY <1>5, <1>12, Zenon DEF WalkInv
<1>14. (\A v \in Vertices : Reachable(v) /\ v \notin Pushed => Left(v))'
  BY <1>1, <1>13, Zenon DEF Reachable, Left, succ
<1>15. pc' = "walk"
  BY <1>1, Zenon DEF Backtrack
<1> QED
  BY <1>7, <1>8, <1>9, <1>10, <1>11, <1>14, <1>15, Zenon DEF WalkInv

\* Every step keeps the invariant of the walk; only the walk changes its state.
LEMMA NextWalkInv == WalkInv /\ [Next]_vars => WalkInv'
<1> SUFFICES ASSUME WalkInv, [Next]_vars PROVE WalkInv'
  BY Zenon
<1>1. CASE Walked
  BY <1>1, SameWalk, Zenon DEF Walked
<1>2. CASE Scan \/ Link \/ Settle \/ NextNumber \/ SemidominatorsDone
  BY <1>2, SameWalk, Zenon DEF Scan, Link, Settle, NextNumber, SemidominatorsDone, WalkInv
<1>3. CASE ImmediateDominator \/ ImmediateDominatorsDone \/ Retain \/ Return
  BY <1>3, SameWalk, Zenon DEF ImmediateDominator, ImmediateDominatorsDone, Retain, Return, WalkInv
<1>4. CASE UNCHANGED vars
  BY <1>4, SameWalk, Zenon DEF vars, WalkInv
<1> QED
  BY <1>1, <1>2, <1>3, <1>4, VisitWalkInv, BacktrackWalkInv, Zenon DEF Next

\* The walk numbers exactly the reachable objects, in depth-first order.
LEMMA WalkFacts ==
  ASSUME WalkInv, stack = <<>>
  PROVE  /\ {v \in Vertices : Reachable(v)} = Live
         /\ \A v \in Vertices : Reachable(v) => Left(v)
<1>1. Pushed = {}
  BY DEF Pushed, Range
<1>2. \A v \in Vertices : Reachable(v) => Left(v)
  BY <1>1, Zenon DEF WalkInv
<1> DEFINE S == {v \in Vertices : Reachable(v)}
<1>3. Root \in S
  BY GraphAssumption DEF WalkInv, Numbering, Reachable, Vertices, Root
<1>4. \A v \in S : succ(v) \subseteq S
  BY <1>2, GraphType, GraphAssumption DEF WalkInv, WalkTypeOK, Left, Node, Vertices
<1>5. Live \subseteq S
  BY <1>3, <1>4, Zenon DEF Live, ReachedWithout
<1>6. S \subseteq Live
  BY Zenon DEF WalkInv
<1> QED
  BY <1>2, <1>5, <1>6, Zenon

\* The invariant of the walk holds throughout, the later loops included.
LEMMA WalkInvariant == Spec => []WalkInv
  BY InitWalkInv, NextWalkInv, PTL DEF Spec

\* The first loop of Dominators is a depth-first walk of what the GC roots
\* reach, on every object graph and in whatever order the references are
\* followed: it numbers exactly the reachable objects, and no reference leads
\* from a lower to a higher number except along the tree.
THEOREM WalkDepthFirst == Spec => []WalkIsDepthFirst
<1>1. WalkInv => WalkIsDepthFirst
  <2> SUFFICES ASSUME WalkInv, pc = "idom"
               PROVE  /\ {v \in Vertices : Reachable(v)} = Live
                      /\ \A v \in Range(vertex) : \A w \in succ(v) :
                           dfn[v] < dfn[w] => v \in Ancestors(parent, w)
    BY Zenon DEF WalkIsDepthFirst
  <2>1. stack = <<>>
    BY Zenon DEF WalkInv
  <2>2. \A v \in Range(vertex) : v \in Vertices /\ Reachable(v)
    <3> SUFFICES ASSUME NEW k \in DOMAIN vertex
                 PROVE  vertex[k] \in Vertices /\ Reachable(vertex[k])
      BY Zenon DEF Range
    <3>1. vertex \in Seq(Vertices) /\ k \in 1..Len(vertex) /\ k - 1 \in 0..(Len(vertex) - 1)
      BY DEF WalkInv, WalkTypeOK
    <3>2. dfn[vertex[k - 1 + 1]] = k - 1 /\ k - 1 + 1 = k
      BY <3>1 DEF WalkInv, Numbering, Numbered
    <3> QED
      BY <3>1, <3>2 DEF Reachable
  <2> QED
    BY <2>1, <2>2, WalkFacts, Zenon DEF Left
<1> QED
  BY <1>1, WalkInvariant, PTL

Anc(v) == Ancestors(parent, v)

\* What the walk leaves behind: numbers and a tree of the live nodes in which
\* the numbers between a node and a descendant are descendants too, and
\* references to higher numbers run down the tree.
WalkResult ==
  /\ dfn \in [Vertices -> Int] /\ parent \in Tree /\ g \in Graphs
  /\ Live = {v \in Vertices : dfn[v] >= 0}
  /\ Root \in Live /\ dfn[Root] = 0 /\ parent[Root] = -1
  /\ \A u, v \in Live : dfn[u] = dfn[v] => u = v
  /\ \A v \in Live \ {Root} :
       /\ parent[v] # -1 /\ parent[v] \in Live
       /\ dfn[parent[v]] < dfn[v] /\ v \in succ(parent[v])
  /\ \A v \in Live : \A u \in Anc(v) : u \in Live /\ dfn[u] <= dfn[v]
  /\ \A y, u \in Live : \A a \in Anc(y) :
       dfn[a] <= dfn[u] /\ dfn[u] <= dfn[y] => a \in Anc(u)
  /\ \A v \in Live : \A w \in succ(v) : w \in Live /\ (dfn[v] < dfn[w] => v \in Anc(w))

\* A walk whose stack is empty has the result the loops rely on.
LEMMA WalkGivesResult ==
  ASSUME WalkInv, stack = <<>>
  PROVE  WalkResult
<1>1. /\ dfn \in [Vertices -> Int] /\ parent \in Tree /\ g \in Graphs
      /\ WalkTypeOK /\ Numbering /\ TreeOfReferences /\ Intervals
  BY Zenon DEF WalkInv, WalkTypeOK, Tree
<1>2. Live = {v \in Vertices : dfn[v] >= 0}
  BY WalkFacts, Zenon DEF Reachable
<1>3. Root \in Live /\ dfn[Root] = 0 /\ parent[Root] = -1
  BY <1>1, <1>2, GraphAssumption DEF Numbering, TreeOfReferences, Root, Vertices
<1>4. \A u, v \in Live : dfn[u] = dfn[v] => u = v
  BY <1>1, <1>2, Zenon DEF Numbering, Reachable
<1>5. ASSUME NEW v \in Live \ {Root}
      PROVE  /\ parent[v] # -1 /\ parent[v] \in Live
             /\ dfn[parent[v]] < dfn[v] /\ v \in succ(parent[v])
  <2>1. /\ parent[v] \in Vertices /\ dfn[parent[v]] >= 0
        /\ dfn[parent[v]] < dfn[v] /\ v \in succ(parent[v])
    BY <1>1, <1>2, Zenon DEF TreeOfReferences, Reachable
  <2> QED
    BY <1>2, <2>1, GraphAssumption DEF Vertices
<1>6. \A v \in Live : \A u \in Anc(v) : u \in Live /\ dfn[u] <= dfn[v]
  BY <1>1, <1>2, AncestorLower, Zenon DEF Reachable, Anc
<1>7. ASSUME NEW y \in Live, NEW u \in Live, NEW a \in Anc(y),
             dfn[a] <= dfn[u], dfn[u] <= dfn[y]
      PROVE  a \in Anc(u)
  <2>1. a \in Vertices /\ u \in Vertices /\ y \in Vertices /\ dfn[a] >= 0
    BY <1>2, <1>6, Zenon
  <2> QED
    BY <1>1, <1>7, <2>1, Zenon DEF Intervals, Reachable, Anc
<1>8. ASSUME NEW v \in Live, NEW w \in succ(v)
      PROVE  w \in Live /\ (dfn[v] < dfn[w] => v \in Anc(w))
  <2>1. v \in Vertices /\ Reachable(v)
    BY <1>2, Zenon DEF Reachable
  <2>2. w \in Vertices
    BY <1>1, <2>1, GraphType, GraphAssumption DEF Node, Vertices
  <2> QED
    BY <1>2, <2>1, <2>2, WalkFacts, Zenon DEF Left, Reachable, Anc
<1> QED
  BY <1>1, <1>2, <1>3, <1>4, <1>5, <1>6, <1>7, <1>8, Zenon DEF WalkResult

-----------------------------------------------------------------------------
(* Semidominators.                                                         *)

High(w) == HighPredecessors(Live, w)

\* m is the number of the semidominator of w.
SemiIs(w, m) == (\E x \in High(w) : dfn[x] = m) /\ \A x \in High(w) : m <= dfn[x]

-----------------------------------------------------------------------------
(* High predecessors and semidominators.                                   *)

\* Every set of numbers that is not empty has a least one: the only form of
\* induction used here.
LEMMA LeastNumber ==
  ASSUME NEW S \in SUBSET Nat, S # {}
  PROVE  \E m \in S : \A k \in S : m <= k
<1>1. PICK m \in S : \A k \in S : ~(<<k, m>> \in OpToRel(<, Nat))
  BY WFMin, NatLessThanWellFounded, Zenon
<1>2. \A k \in S : m <= k
  <2> SUFFICES ASSUME NEW k \in S, ~(m <= k) PROVE FALSE
    BY Zenon
  <2>1. <<k, m>> \in {ss \in Nat \X Nat : ss[1] < ss[2]}
    OBVIOUS
  <2>2. OpToRel(<, Nat) = {ss \in Nat \X Nat : ss[1] < ss[2]}
    BY Zenon DEF OpToRel
  <2> QED
    BY <1>1, <2>1, <2>2, Zenon
<1> QED
  BY <1>2, Zenon

\* High predecessors: the referrers of w, and the referrers of high
\* predecessors numbered above w.
LEMMA HighClosed ==
  ASSUME NEW w, NEW z \in Live, NEW y \in succ(z), y = w \/ (y \in High(w) /\ dfn[y] > dfn[w])
  PROVE  z \in High(w)
<1> SUFFICES ASSUME NEW S \in SUBSET Live,
                    {v \in Live : succ(v) \cap ({w} \cup {x \in S : dfn[x] > dfn[w]}) # {}}
                      \subseteq S
             PROVE  z \in S
  BY Zenon DEF High, HighPredecessors
<1>1. y = w \/ (y \in S /\ dfn[y] > dfn[w])
  BY Zenon DEF High, HighPredecessors
<1> QED
  BY <1>1, Zenon

\* Nothing else is one: a set closed in that way holds them all.
LEMMA HighWithin ==
  ASSUME NEW w, NEW S \in SUBSET Live,
         \A z \in Live : \A y \in succ(z) : (y = w \/ (y \in S /\ dfn[y] > dfn[w])) => z \in S
  PROVE  High(w) \subseteq S
<1>1. {v \in Live : succ(v) \cap ({w} \cup {x \in S : dfn[x] > dfn[w]}) # {}} \subseteq S
  BY Zenon
<1> QED
  BY <1>1, Zenon DEF High, HighPredecessors

\* High predecessors are reachable.
LEMMA HighIsLive == \A w : High(w) \subseteq Live
  BY Zenon DEF High, HighPredecessors

\* Of the nodes with a path to u through higher numbers, those numbered below u
\* are ancestors of u.
LEMMA LowerHighIsAncestor ==
  ASSUME WalkResult, NEW u \in Live, NEW y \in High(u), dfn[y] < dfn[u]
  PROVE  y \in Anc(u)
<1> DEFINE S == {x \in Live : dfn[x] < dfn[u] => x \in Anc(u)}
<1>1. ASSUME NEW z \in Live, NEW x \in succ(z), x = u \/ (x \in S /\ dfn[x] > dfn[u]),
             dfn[z] < dfn[u]
      PROVE  z \in Anc(u)
  <2>1. x \in Live /\ (dfn[z] < dfn[x] => z \in Anc(x))
    BY Zenon DEF WalkResult
  <2>2. dfn[u] <= dfn[x] /\ dfn[u] \in Int /\ dfn[x] \in Int /\ dfn[z] \in Int
    BY <1>1, <2>1 DEF WalkResult
  <2>3. z \in Anc(x)
    BY <1>1, <2>1, <2>2
  <2> QED
    BY <1>1, <2>1, <2>2, <2>3 DEF WalkResult
<1>2. High(u) \subseteq S
  BY <1>1, HighWithin, Zenon
<1> QED
  BY <1>2, Zenon

\* A path to a referrer z of w, entered at u above w, is a path to w.
LEMMA HighThroughReferrer ==
  ASSUME WalkResult, NEW w \in Live, NEW z \in Live, w \in succ(z),
         NEW u \in Anc(z), dfn[u] > dfn[w]
  PROVE  High(u) \subseteq High(w)
<1>1. z \in High(w)
  BY HighClosed, Zenon
<1> DEFINE T == {y \in Live : dfn[y] <= dfn[w] \/ y \in High(w)}
<1>2. ASSUME NEW y \in T, parent[y] >= 0
      PROVE  parent[y] \in T
  <2>1. y \in Live \ {Root}
    BY <1>2 DEF WalkResult
  <2>2. /\ parent[y] \in Live /\ dfn[parent[y]] < dfn[y] /\ y \in succ(parent[y])
        /\ dfn[y] \in Int /\ dfn[w] \in Int /\ dfn[parent[y]] \in Int
    BY <2>1, Zenon DEF WalkResult
  <2>3. CASE dfn[y] <= dfn[w]
    BY <2>2, <2>3
  <2>4. CASE dfn[y] > dfn[w]
    <3>1. y \in High(w)
      BY <2>2, <2>4
    <3> QED
      BY <2>2, <2>4, <3>1, HighClosed, Zenon
  <2> QED
    BY <2>2, <2>3, <2>4
<1>3. T \in SUBSET Vertices /\ z \in Vertices /\ z \in T
  BY <1>1, Zenon DEF WalkResult
<1>4. u \in T
  <2> HIDE DEF T
  <2> QED
    BY <1>2, <1>3, AncestorsWithin, Zenon DEF Anc
<1>5. u \in High(w) /\ dfn[u] \in Int /\ dfn[w] \in Int
  BY <1>4 DEF WalkResult
<1>6. ASSUME NEW x \in Live, NEW y \in succ(x),
             y = u \/ (y \in High(w) /\ dfn[y] > dfn[u])
      PROVE  x \in High(w)
  <2>1. y \in Live /\ dfn[y] \in Int
    BY Zenon DEF WalkResult
  <2>2. y \in High(w) /\ dfn[y] > dfn[w]
    BY <1>5, <1>6, <2>1
  <2> QED
    BY <2>2, HighClosed, Zenon
<1> QED
  BY <1>6, HighIsLive, HighWithin, Zenon

\* A number that is a lower bound for the referrers of w and for the
\* semidominators of the nodes above w on the tree paths to them is a lower
\* bound for all paths to w through higher numbers.
LEMMA SemiLowerBound ==
  ASSUME WalkResult, NEW w \in Live, NEW m \in Int,
         \A z \in Live : w \in succ(z) =>
           /\ m <= dfn[z]
           /\ \A u \in Anc(z) : dfn[u] > dfn[w] => \A x \in High(u) : m <= dfn[x]
  PROVE  \A x \in High(w) : m <= dfn[x]
<1> DEFINE Good(u) == dfn[u] > dfn[w] /\ \E z \in Live : w \in succ(z) /\ u \in Anc(z)
           S == {x \in Live : w \in succ(x) \/ \E u \in Live : Good(u) /\ x \in High(u)}
<1>1. ASSUME NEW x \in S
      PROVE  m <= dfn[x]
  BY Zenon
<1>2. ASSUME NEW z \in Live, NEW y \in succ(z), y = w \/ (y \in S /\ dfn[y] > dfn[w])
      PROVE  z \in S
  <2>1. CASE y = w
    BY <2>1, Zenon
  <2>2. ASSUME NEW u \in Live, Good(u), y = u
        PROVE  z \in S
    <3>1. z \in High(u)
      BY <2>2, HighClosed, Zenon
    <3> QED
      BY <2>2, <3>1, Zenon
  <2>3. CASE w \in succ(y) /\ y \in S /\ dfn[y] > dfn[w]
    <3>1. y \in Live /\ y \in Anc(y)
      BY <2>3, AncestorSelf, Zenon DEF WalkResult, Anc
    <3> QED
      BY <2>2, <2>3, <3>1, Zenon
  <2>4. ASSUME NEW u \in Live, Good(u), y \in High(u), dfn[y] > dfn[w]
        PROVE  z \in S
    <3>1. y \in Live /\ dfn[y] \in Int /\ dfn[u] \in Int
      BY <2>4, HighIsLive, ZenonT(30) DEF WalkResult
    <3>2. CASE dfn[y] > dfn[u]
      <4>1. z \in High(u)
        BY <2>4, <3>2, HighClosed, Zenon
      <4> QED
        BY <2>4, <4>1, Zenon
    <3>3. CASE dfn[y] = dfn[u]
      <4>1. y = u
        BY <3>1, <3>3, Zenon DEF WalkResult
      <4> QED
        BY <2>2, <2>4, <4>1, Zenon
    <3>4. CASE dfn[y] < dfn[u]
      <4>1. y \in Anc(u)
        BY <2>4, <3>4, LowerHighIsAncestor, Zenon
      <4>2. PICK v \in Live : w \in succ(v) /\ u \in Anc(v)
        BY <2>4, Zenon
      <4>3. v \in Vertices /\ Anc(u) \subseteq Anc(v)
        BY <4>2, AncestorTransitive, Zenon DEF Anc, WalkResult
      <4>4. Good(y)
        BY <2>4, <4>1, <4>2, <4>3, Zenon
      <4> QED
        BY <2>2, <3>1, <4>4, Zenon
    <3> QED
      BY <3>1, <3>2, <3>3, <3>4
  <2> QED
    BY <1>2, <2>1, <2>3, <2>4, Zenon
<1>3. S \in SUBSET Live
  BY Zenon
<1>4. High(w) \subseteq S
  <2> HIDE DEF S
  <2> QED
    BY <1>2, <1>3, HighWithin, Zenon
<1> QED
  BY <1>1, <1>4, Zenon

-----------------------------------------------------------------------------
(* Dominance.                                                              *)

\* What a reached node refers to is reached, unless it is the node taken out.
LEMMA ReachedStep ==
  ASSUME NEW d, NEW x \in ReachedWithout(d), NEW y \in succ(x), y # d, y \in Vertices
  PROVE  y \in ReachedWithout(d)
  BY Zenon DEF ReachedWithout

\* The virtual root is reached unless it is taken out.
LEMMA ReachedRoot ==
  ASSUME NEW d, d # Root
  PROVE  Root \in ReachedWithout(d)
  BY GraphAssumption DEF ReachedWithout, Root, Vertices

\* A set that holds the root and is closed under references but for d holds all
\* that is reached without d.
LEMMA ReachedWithin ==
  ASSUME NEW d, NEW S \in SUBSET Vertices, Root \in S \/ d = Root,
         \A x \in S : \A y \in succ(x) : y # d => y \in S
  PROVE  ReachedWithout(d) \subseteq S
  BY Zenon DEF ReachedWithout

\* Taking a node out of the graph makes nothing reachable.
LEMMA ReachedIsLive ==
  ASSUME WalkResult, NEW d
  PROVE  ReachedWithout(d) \subseteq Live
<1>1. Live \in SUBSET Vertices /\ Root \in Live /\ \A x \in Live : succ(x) \subseteq Live
  BY Zenon DEF WalkResult
<1> QED
  BY <1>1, ReachedWithin, Zenon

\* A node that is taken out is not reached: every live node dominates itself.
LEMMA NotReachedWithoutItself ==
  ASSUME WalkResult, NEW d
  PROVE  d \notin ReachedWithout(d)
<1> DEFINE S == Live \ {d}
<1>1. S \in SUBSET Vertices /\ (Root \in S \/ d = Root)
  BY Zenon DEF WalkResult
<1>2. \A x \in S : \A y \in succ(x) : y # d => y \in S
  BY Zenon DEF WalkResult
<1>3. ReachedWithout(d) \subseteq S
  BY <1>1, <1>2, ReachedWithin, Zenon
<1> QED
  BY <1>3, Zenon

\* Every live node descends from the virtual root.
LEMMA RootIsAncestor ==
  ASSUME WalkResult, NEW v \in Live
  PROVE  Root \in Anc(v)
<1> DEFINE K == {dfn[x] : x \in {y \in Live : Root \notin Anc(y)}}
<1> SUFFICES ASSUME Root \notin Anc(v) PROVE FALSE
  BY Zenon
<1>1. K \in SUBSET Nat /\ K # {}
  BY DEF WalkResult
<1>2. PICK m \in K : \A k \in K : m <= k
  <2> HIDE DEF K
  <2> QED
    BY <1>1, LeastNumber, Zenon
<1>3. PICK y \in Live : Root \notin Anc(y) /\ dfn[y] = m
  BY <1>2, Zenon
<1>4. y # Root
  BY <1>3, AncestorSelf, Zenon DEF Anc, WalkResult
<1>5. parent[y] # -1 /\ parent[y] \in Live /\ dfn[parent[y]] < dfn[y]
  BY <1>3, <1>4, Zenon DEF WalkResult
<1>6. Root \notin Anc(parent[y])
  BY <1>3, <1>5, AncestorOfParent, Zenon DEF Anc, WalkResult
<1>7. dfn[parent[y]] \in K
  BY <1>5, <1>6, Zenon
<1>8. dfn[y] \in Int /\ dfn[parent[y]] \in Int
  BY <1>5, Zenon DEF WalkResult
<1> QED
  BY <1>2, <1>3, <1>5, <1>7, <1>8

\* A tree path below a reached node reaches its end if it avoids d.
LEMMA ReachedAlongTree ==
  ASSUME WalkResult, NEW v \in Live, NEW d, NEW x \in Anc(v), x \in ReachedWithout(d),
         \A y \in Anc(v) : dfn[y] > dfn[x] => y # d
  PROVE  v \in ReachedWithout(d)
<1> SUFFICES ASSUME v \notin ReachedWithout(d) PROVE FALSE
  BY Zenon
<1> DEFINE K == {dfn[y] : y \in {t \in Anc(v) : dfn[t] >= dfn[x] /\ t \notin ReachedWithout(d)}}
<1>1. v \in Anc(v) /\ \A y \in Anc(v) : y \in Live /\ dfn[y] <= dfn[v]
  BY AncestorSelf, Zenon DEF Anc, WalkResult
<1>2. \A y \in Live : dfn[y] \in Nat /\ y \in Vertices
  BY DEF WalkResult
<1>3. K \in SUBSET Nat /\ K # {}
  BY <1>1, <1>2, Zenon
<1>4. PICK m \in K : \A k \in K : m <= k
  <2> HIDE DEF K
  <2> QED
    BY <1>3, LeastNumber, Zenon
<1>5. PICK y \in Anc(v) : dfn[y] >= dfn[x] /\ y \notin ReachedWithout(d) /\ dfn[y] = m
  BY <1>4, Zenon
<1>6. y \in Live /\ x \in Live /\ y # x
  BY <1>1, <1>5, Zenon
<1>7. dfn[y] > dfn[x] /\ y # d
  BY <1>2, <1>5, <1>6 DEF WalkResult
<1>8. x \in Anc(y)
  BY <1>1, <1>5, <1>6, Zenon DEF WalkResult
<1>9. y # Root
  BY <1>2, <1>6, <1>7 DEF WalkResult
<1>10. parent[y] # -1 /\ parent[y] \in Live /\ dfn[parent[y]] < dfn[y] /\ y \in succ(parent[y])
  BY <1>6, <1>9, Zenon DEF WalkResult
<1>11. x \in Anc(parent[y])
  BY <1>2, <1>6, <1>8, AncestorSplit, Zenon DEF Anc, WalkResult
<1>12. dfn[parent[y]] >= dfn[x]
  BY <1>2, <1>6, <1>10, <1>11, Zenon DEF WalkResult
<1>13. parent[y] \in Anc(v)
  <2>1. parent[y] \in Anc(y)
    BY <1>2, <1>6, <1>10, AncestorOfParent, Zenon DEF Anc, WalkResult
  <2> QED
    BY <1>2, <1>5, <2>1, AncestorTransitive, Zenon DEF Anc
<1>14. parent[y] \in ReachedWithout(d)
  <2> SUFFICES ASSUME parent[y] \notin ReachedWithout(d) PROVE FALSE
    BY Zenon
  <2>1. dfn[parent[y]] \in K
    BY <1>12, <1>13, Zenon
  <2> QED
    BY <1>2, <1>4, <1>5, <1>6, <1>10, <2>1, SMTT(30)
<1> QED
  BY <1>2, <1>5, <1>6, <1>7, <1>10, <1>14, ReachedStep, Zenon

\* Dominators are ancestors in the tree of the walk.
LEMMA DominatorIsAncestor ==
  ASSUME WalkResult, NEW v \in Live, NEW d, v \notin ReachedWithout(d)
  PROVE  d \in Anc(v)
<1> SUFFICES ASSUME d \notin Anc(v) PROVE FALSE
  BY Zenon
<1>1. Root \in Anc(v)
  BY RootIsAncestor, Zenon
<1>2. Root \in ReachedWithout(d)
  BY <1>1, ReachedRoot, Zenon
<1> QED
  BY <1>1, <1>2, ReachedAlongTree, ZenonT(30)

\* A path through numbers above v avoids everything numbered below v.
LEMMA ReachedThroughHigh ==
  ASSUME WalkResult, NEW v \in Live, NEW d \in Live, dfn[d] < dfn[v],
         NEW x \in High(v), x \in ReachedWithout(d)
  PROVE  v \in ReachedWithout(d)
<1> SUFFICES ASSUME v \notin ReachedWithout(d) PROVE FALSE
  BY Zenon
<1> DEFINE S == Live \ ReachedWithout(d)
<1>1. ASSUME NEW z \in Live, NEW y \in succ(z), y = v \/ (y \in S /\ dfn[y] > dfn[v])
      PROVE  z \in S
  <2>1. y \in Live /\ y \in Vertices /\ y \notin ReachedWithout(d)
    BY <1>1, Zenon DEF WalkResult
  <2>2. y # d
    BY <1>1, <2>1 DEF WalkResult
  <2> QED
    BY <2>1, <2>2, ReachedStep, Zenon
<1>2. High(v) \subseteq S
  BY <1>1, HighWithin, Zenon
<1> QED
  BY <1>2, Zenon

\* A strict dominator is not numbered above the semidominator.
LEMMA DominatorNotAboveSemi ==
  ASSUME WalkResult, NEW v \in Live, NEW d, d # v, v \notin ReachedWithout(d),
         NEW m, SemiIs(v, m)
  PROVE  d \in Anc(v) /\ dfn[d] < dfn[v] /\ dfn[d] <= m
<1>1. d \in Anc(v) /\ d \in Live /\ dfn[d] <= dfn[v]
  BY DominatorIsAncestor, Zenon DEF WalkResult
<1>2. dfn[d] \in Int /\ dfn[v] \in Int /\ dfn[d] < dfn[v]
  BY <1>1 DEF WalkResult
<1>3. PICK x \in High(v) : dfn[x] = m
  BY Zenon DEF SemiIs
<1>4. x \in Live /\ dfn[x] \in Int
  BY HighIsLive, Zenon DEF WalkResult
<1>5. x \notin ReachedWithout(d)
  BY <1>1, <1>2, ReachedThroughHigh, Zenon
<1>6. d \in Anc(x)
  BY <1>4, <1>5, DominatorIsAncestor, Zenon
<1> QED
  BY <1>1, <1>2, <1>3, <1>4, <1>6, Zenon DEF WalkResult

\* An ancestor dominates if no path through higher numbers leads from below it
\* to a node between.
LEMMA AncestorDominates ==
  ASSUME WalkResult, NEW v \in Live, NEW d \in Anc(v), d # v,
         \A y \in Anc(v) : dfn[y] > dfn[d] => \A x \in High(y) : dfn[d] <= dfn[x]
  PROVE  v \notin ReachedWithout(d)
<1> DEFINE P == {y \in Anc(v) : dfn[y] > dfn[d]}
           Z == P \cup {x \in Live : dfn[x] > dfn[d] /\ \E y \in P : x \in High(y)}
           S == Live \ (Z \cup {d})
<1>1. /\ d \in Live /\ \A y \in Live : dfn[y] \in Int
      /\ \A y \in P : y \in Live
  BY Zenon DEF WalkResult
<1>2. v \in P
  BY <1>1, AncestorSelf DEF WalkResult, Anc
<1>3. ASSUME NEW y \in P, NEW z \in Live, y \in succ(z), z # d
      PROVE  z \in Z
  <2>1. z \in High(y)
    BY <1>3, HighClosed, Zenon
  <2>2. dfn[d] <= dfn[z]
    BY <1>3, <2>1, Zenon
  <2>3. dfn[z] > dfn[d]
    BY <1>1, <1>3, <2>2 DEF WalkResult
  <2> QED
    BY <2>1, <2>3, Zenon
<1>4. ASSUME NEW x \in Z, NEW z \in Live, x \in succ(z), z # d
      PROVE  z \in Z
  <2>1. CASE x \in P
    BY <1>3, <1>4, <2>1, Zenon
  <2>2. CASE x \notin P
    <3>1. PICK y \in P : x \in Live /\ dfn[x] > dfn[d] /\ x \in High(y)
      BY <2>2, Zenon
    <3>2. CASE dfn[x] > dfn[y]
      <4>1. z \in High(y)
        BY <1>4, <3>1, <3>2, HighClosed, Zenon
      <4>2. dfn[d] <= dfn[z]
        BY <4>1, Zenon
      <4>3. dfn[z] > dfn[d]
        BY <1>1, <1>4, <4>2 DEF WalkResult
      <4> QED
        BY <4>1, <4>3, Zenon
    <3>3. CASE dfn[x] <= dfn[y]
      <4>1. x # y
        BY <2>2, <3>1, Zenon
      <4>2. dfn[x] < dfn[y]
        BY <1>1, <3>1, <3>3, <4>1 DEF WalkResult
      <4>3. x \in Anc(y)
        BY <1>1, <3>1, <4>2, LowerHighIsAncestor, Zenon
      <4>4. x \in Anc(v)
        BY <3>1, <4>3, AncestorTransitive, Zenon DEF Anc, WalkResult
      <4> QED
        BY <2>2, <3>1, <4>4, Zenon
    <3> QED
      BY <1>1, <3>1, <3>2, <3>3
  <2> QED
    BY <2>1, <2>2, Zenon
<1>5. Root \in S \/ d = Root
  <2>1. Root \in Live /\ dfn[Root] = 0 /\ dfn[d] >= 0
    BY <1>1, Zenon DEF WalkResult
  <2> QED
    BY <1>1, <2>1
<1>6. ASSUME NEW x \in S, NEW y \in succ(x), y # d
      PROVE  y \in S
  <2>1. x \in Live /\ y \in Live /\ x # d /\ x \notin Z
    BY <1>6, Zenon DEF WalkResult
  <2> HIDE DEF Z
  <2> QED
    BY <1>4, <1>6, <2>1, Zenon
<1>7. S \in SUBSET Vertices
  BY Zenon DEF WalkResult
<1>8. ReachedWithout(d) \subseteq S
  <2> HIDE DEF S
  <2> QED
    BY <1>5, <1>6, <1>7, ReachedWithin, Zenon
<1> QED
  BY <1>2, <1>8, Zenon

\* Dominance is transitive.
LEMMA DominanceTransitive ==
  ASSUME WalkResult, NEW d, NEW b, NEW v, b \notin ReachedWithout(d), v \notin ReachedWithout(b),
         b \in Live
  PROVE  v \notin ReachedWithout(d)
<1> DEFINE S == ReachedWithout(d) \cap ReachedWithout(b)
<1>1. Root \in S \/ d = Root
  BY ReachedRoot, Zenon
<1>2. ASSUME NEW x \in S, NEW y \in succ(x), y # d
      PROVE  y \in S
  <2>1. y \in Vertices
    BY ReachedIsLive, Zenon DEF WalkResult
  <2>2. y \in ReachedWithout(d)
    BY <1>2, <2>1, ReachedStep, Zenon
  <2>3. y # b
    BY <2>2, Zenon
  <2> QED
    BY <2>1, <2>2, <2>3, ReachedStep, Zenon
<1>3. S \in SUBSET Vertices
  BY Zenon DEF ReachedWithout
<1>4. ReachedWithout(d) \subseteq S
  <2> HIDE DEF S
  <2> QED
    BY <1>1, <1>2, <1>3, ReachedWithin, Zenon
<1> QED
  BY <1>4, Zenon

Strict(v) == {d \in Vertices \ {v} : v \notin ReachedWithout(d)}

\* d is the immediate dominator of v.
Immediate(d, v) == d \in Strict(v) /\ Strict(v) \ {d} = Strict(d)

\* The semidominator dominates when no node between has a lower one.
LEMMA SemidominatorIsImmediate ==
  ASSUME WalkResult, NEW v \in Live, NEW b \in Anc(v), b # v, SemiIs(v, dfn[b]),
         \A y \in Anc(v) : dfn[y] > dfn[b] => \A x \in High(y) : dfn[b] <= dfn[x]
  PROVE  Immediate(b, v)
<1>1. b \in Live /\ b \in Vertices /\ v \in Vertices /\ dfn[b] \in Int /\ dfn[v] \in Int
  BY Zenon DEF WalkResult
<1>2. b \in Strict(v)
  BY <1>1, AncestorDominates, Zenon DEF Strict
<1>3. ASSUME NEW d \in Strict(v), d # b
      PROVE  d \in Strict(b)
  <2>1. d \in Anc(v) /\ dfn[d] < dfn[v] /\ dfn[d] <= dfn[b]
    BY DominatorNotAboveSemi, Zenon DEF Strict
  <2>2. d \in Live
    BY <2>1, Zenon DEF WalkResult
  <2>3. PICK x \in High(v) : dfn[x] = dfn[b]
    BY Zenon DEF SemiIs
  <2>4. x = b
    BY <1>1, <2>3, HighIsLive, Zenon DEF WalkResult
  <2>5. b \notin ReachedWithout(d)
    BY <2>1, <2>2, <2>3, <2>4, ReachedThroughHigh, Zenon DEF Strict
  <2> QED
    BY <1>3, <2>5, Zenon DEF Strict
<1>4. ASSUME NEW d \in Strict(b)
      PROVE  d \in Strict(v) /\ d # b
  <2>1. v \notin ReachedWithout(d)
    BY <1>1, <1>2, DominanceTransitive, Zenon DEF Strict
  <2>2. d \in Anc(b)
    BY <1>1, DominatorIsAncestor, Zenon DEF Strict
  <2>3. d # v
    BY <1>1, <2>2, AncestorSelf DEF WalkResult, Anc
  <2> QED
    BY <2>1, <2>3, Zenon DEF Strict
<1> QED
  BY <1>2, <1>3, <1>4, Zenon DEF Immediate

\* Otherwise v has the strict dominators of the node u between that has the
\* lowest semidominator.
LEMMA SameStrictDominators ==
  ASSUME WalkResult, NEW v \in Live, NEW b \in Anc(v), SemiIs(v, dfn[b]),
         NEW u \in Anc(v), dfn[u] > dfn[b], NEW m, SemiIs(u, m), m < dfn[b],
         \A y \in Anc(v) : dfn[y] > dfn[b] => \A x \in High(y) : m <= dfn[x]
  PROVE  Strict(v) = Strict(u)
<1>1. /\ b \in Live /\ u \in Live /\ b \in Vertices /\ v \in Vertices /\ u \in Vertices
      /\ dfn[u] <= dfn[v] /\ \A y \in Live : dfn[y] \in Int
  BY Zenon DEF WalkResult
<1>2. m \in Int
  BY <1>1, HighIsLive, Zenon DEF SemiIs
<1>3. ASSUME NEW d \in Strict(v)
      PROVE  d \in Strict(u)
  <2>1. d \in Anc(v) /\ dfn[d] <= dfn[b] /\ d \in Live
    BY DominatorNotAboveSemi, Zenon DEF Strict, WalkResult
  <2>2. dfn[d] < dfn[u] /\ d # u
    BY <1>1, <2>1
  <2>3. \A y \in Anc(v) : dfn[y] > dfn[u] => y # d
    BY <1>1, <2>1, <2>2
  <2>4. u \notin ReachedWithout(d)
    BY <2>3, ReachedAlongTree, Zenon DEF Strict
  <2> QED
    BY <2>2, <2>4, Zenon DEF Strict
<1>4. ASSUME NEW d \in Strict(u)
      PROVE  d \in Strict(v)
  <2>1. d \in Anc(u) /\ dfn[d] < dfn[u] /\ dfn[d] <= m /\ u \notin ReachedWithout(d)
    BY <1>1, DominatorNotAboveSemi, Zenon DEF Strict
  <2>2. d \in Anc(v) /\ d \in Live
    BY <1>1, <2>1, AncestorTransitive, Zenon DEF Anc, WalkResult
  <2>3. dfn[d] < dfn[v] /\ d # v
    BY <1>1, <2>1, <2>2, SMTT(30)
  <2>4. ASSUME NEW y \in Anc(v), dfn[y] > dfn[d], NEW x \in High(y)
        PROVE  dfn[d] <= dfn[x]
    <3>1. y \in Live /\ x \in Live
      BY HighIsLive, Zenon DEF WalkResult
    <3>2. CASE dfn[y] > dfn[b]
      <4>1. m <= dfn[x]
        BY <3>2, Zenon
      <4> QED
        BY <1>1, <1>2, <2>1, <2>2, <3>1, <4>1
    <3>3. CASE dfn[y] <= dfn[b]
      <4>1. y \in Anc(u)
        BY <1>1, <3>1, <3>3 DEF WalkResult
      <4>2. \A t \in Anc(u) : dfn[t] > dfn[y] => t # d
        BY <1>1, <2>2, <2>4, <3>1
      <4>3. y \notin ReachedWithout(d)
        BY <1>1, <2>1, <4>1, <4>2, ReachedAlongTree, Zenon
      <4>4. x \notin ReachedWithout(d)
        BY <2>2, <2>4, <3>1, <4>3, ReachedThroughHigh, Zenon
      <4>5. d \in Anc(x)
        BY <3>1, <4>4, DominatorIsAncestor, Zenon
      <4> QED
        BY <3>1, <4>5, Zenon DEF WalkResult
    <3> QED
      BY <1>1, <3>1, <3>2, <3>3
  <2>5. v \notin ReachedWithout(d)
    BY <2>2, <2>3, <2>4, AncestorDominates, Zenon
  <2> QED
    BY <2>3, <2>5, Zenon DEF Strict
<1> QED
  BY <1>3, <1>4, Zenon

-----------------------------------------------------------------------------
(* Sums of sizes.                                                          *)

\* The recursion that adds up the sizes of the objects in S is well defined.
TotalOf(S, n, h) ==
  h = [k \in 0..n |-> IF k = 0 THEN 0
                      ELSE h[k - 1] + (IF k - 1 \in S THEN size[k - 1] ELSE 0)]

\* Such a function exists for every number of objects.
LEMMA TotalExists ==
  ASSUME NEW S, NEW n \in Nat
  PROVE  \E h : TotalOf(S, n, h)
<1> DEFINE K == {k \in Nat : ~\E h : TotalOf(S, k, h)}
<1> SUFFICES ASSUME n \in K PROVE FALSE
  BY Zenon
<1>1. PICK m \in K : \A k \in K : m <= k
  <2>1. K \in SUBSET Nat /\ K # {}
    BY Zenon
  <2> HIDE DEF K
  <2> QED
    BY <2>1, LeastNumber, Zenon
<1>2. m # 0
  <2> SUFFICES ASSUME m = 0 PROVE FALSE
    BY Zenon
  <2> DEFINE u == [k \in 0..0 |-> 0]
  <2>1. TotalOf(S, 0, u)
    BY DEF TotalOf
  <2> QED
    BY <1>1, <2>1, Zenon
<1>3. PICK u : TotalOf(S, m - 1, u)
  BY <1>1, <1>2
<1> DEFINE last == u[m - 1] + (IF m - 1 \in S THEN size[m - 1] ELSE 0)
           h == [k \in 0..m |-> IF k < m THEN u[k] ELSE last]
<1>4. \A k \in 0..(m - 1) :
        u[k] = (IF k = 0 THEN 0 ELSE u[k - 1] + (IF k - 1 \in S THEN size[k - 1] ELSE 0))
  BY <1>1, <1>2, <1>3, Zenon DEF TotalOf
<1>5. \A k \in 0..m :
        h[k] = (IF k = 0 THEN 0 ELSE h[k - 1] + (IF k - 1 \in S THEN size[k - 1] ELSE 0))
  <2> SUFFICES ASSUME NEW k \in 0..m
               PROVE  h[k] = (IF k = 0 THEN 0
                              ELSE h[k - 1] + (IF k - 1 \in S THEN size[k - 1] ELSE 0))
    BY Zenon
  <2>1. CASE k = m
    <3>1. h[k] = last /\ h[k - 1] = u[m - 1]
      BY <1>1, <1>2, <2>1
    <3> QED
      BY <1>2, <2>1, <3>1, Zenon
  <2>2. CASE k # m
    <3>1. h[k] = u[k] /\ k \in 0..(m - 1) /\ (k # 0 => h[k - 1] = u[k - 1])
      BY <1>1, <2>2
    <3> QED
      BY <1>4, <3>1, Zenon
  <2> QED
    BY <2>1, <2>2, Zenon
<1>6. TotalOf(S, m, h)
  <2> HIDE DEF h
  <2>1. h = [k \in 0..m |-> h[k]]
    BY Zenon DEF h
  <2> QED
    BY <1>5, <2>1, Zenon DEF TotalOf
<1> QED
  BY <1>1, <1>6, Zenon

\* h[k] is the sum over the objects of S among the first k.
Totals(S, h) ==
  /\ h \in [0..N -> Nat] /\ h[0] = 0
  /\ \A k \in 1..N : h[k] = h[k - 1] + (IF k - 1 \in S THEN size[k - 1] ELSE 0)

\* A sum of sizes is a natural number, added up object by object.
LEMMA BytesTotal ==
  ASSUME NEW S
  PROVE  \E h : Totals(S, h) /\ Bytes(S) = h[N]
<1> DEFINE h == CHOOSE u : TotalOf(S, N, u)
<1>1. N \in Nat /\ \A k \in 1..N : size[k - 1] \in Nat /\ k - 1 \in 0..N
  BY GraphAssumption DEF Node
<1>2. TotalOf(S, N, h)
  BY <1>1, TotalExists, Zenon
<1>3. Bytes(S) = h[N]
  BY Zenon DEF Bytes, TotalOf
<1> HIDE DEF h
<1>4. /\ h = [k \in 0..N |-> h[k]] /\ h[0] = 0
      /\ \A k \in 1..N : h[k] = h[k - 1] + (IF k - 1 \in S THEN size[k - 1] ELSE 0)
  <2>1. h = [k \in 0..N |-> h[k]]
    BY <1>2, Zenon DEF TotalOf
  <2>2. \A k \in 0..N : h[k] = IF k = 0 THEN 0
                               ELSE h[k - 1] + (IF k - 1 \in S THEN size[k - 1] ELSE 0)
    BY <1>2, Zenon DEF TotalOf
  <2>3. 0 \in 0..N /\ \A k \in 1..N : k \in 0..N /\ k # 0
    BY <1>1
  <2> QED
    BY <2>1, <2>2, <2>3, Zenon
<1>5. \A k \in 0..N : h[k] \in Nat
  <2> DEFINE K == {k \in 0..N : h[k] \notin Nat}
  <2> SUFFICES ASSUME K # {} PROVE FALSE
    BY Zenon
  <2>1. PICK j \in K : \A k \in K : j <= k
    <3>1. K \in SUBSET Nat
      OBVIOUS
    <3> HIDE DEF K
    <3> QED
      BY <3>1, LeastNumber, Zenon
  <2>2. j \in 1..N /\ j - 1 \in 0..N
    BY <1>1, <1>4, <2>1
  <2>3. h[j - 1] \in Nat
    BY <2>1, <2>2
  <2>4. h[j] \in Nat
    <3>1. h[j] = h[j - 1] + (IF j - 1 \in S THEN size[j - 1] ELSE 0) /\ size[j - 1] \in Nat
      BY <1>1, <1>4, <2>2, Zenon
    <3> QED
      BY <2>3, <3>1
  <2> QED
    BY <2>1, <2>4, Zenon
<1> QED
  BY <1>3, <1>4, <1>5, Zenon DEF Totals

\* A sum is determined by how it grows with the number of objects.
LEMMA TotalUnique ==
  ASSUME NEW S, NEW h, Totals(S, h)
  PROVE  Bytes(S) = h[N]
<1>1. PICK u : Totals(S, u) /\ Bytes(S) = u[N]
  BY BytesTotal, Zenon
<1> DEFINE K == {k \in 0..N : u[k] # h[k]}
<1> SUFFICES ASSUME u[N] # h[N] PROVE FALSE
  BY <1>1, Zenon
<1>2. N \in Nat /\ N \in K
  BY GraphAssumption
<1>3. PICK j \in K : \A k \in K : j <= k
  <2>1. K \in SUBSET Nat
    OBVIOUS
  <2> HIDE DEF K
  <2> QED
    BY <1>2, <2>1, LeastNumber, Zenon
<1>4. j \in 1..N /\ j - 1 \in 0..N
  BY <1>1, <1>2, <1>3 DEF Totals
<1>5. u[j - 1] = h[j - 1]
  BY <1>3, <1>4
<1> QED
  BY <1>1, <1>3, <1>4, <1>5, Zenon DEF Totals

\* Sums of sizes are natural numbers.
LEMMA BytesNat == \A S : Bytes(S) \in Nat
<1>1. ASSUME NEW S PROVE Bytes(S) \in Nat
  <2>1. PICK h : Totals(S, h) /\ Bytes(S) = h[N]
    BY BytesTotal, Zenon
  <2> QED
    BY <2>1, GraphAssumption DEF Totals
<1> QED
  BY <1>1, Zenon

\* The virtual root has no size.
LEMMA BytesOfNone ==
  ASSUME NEW S, S \cap Node = {}
  PROVE  Bytes(S) = 0
<1> DEFINE h == [k \in 0..N |-> 0]
<1>1. N \in Nat /\ \A k \in 1..N : k - 1 \notin S /\ k - 1 \in 0..N
  BY GraphAssumption DEF Node
<1>2. Totals(S, h)
  BY <1>1 DEF Totals
<1>3. Bytes(S) = h[N]
  <2> HIDE DEF h
  <2> QED
    BY <1>2, TotalUnique, Zenon
<1> QED
  BY <1>1, <1>3

\* The sum over one object is its size.
LEMMA BytesOfOne ==
  ASSUME NEW x \in Node
  PROVE  Bytes({x}) = size[x]
<1> DEFINE h == [k \in 0..N |-> IF k > x THEN size[x] ELSE 0]
<1>1. N \in Nat /\ x \in 0..(N - 1) /\ size[x] \in Nat
  BY GraphAssumption DEF Node
<1>2. Totals({x}, h)
  BY <1>1 DEF Totals
<1>3. Bytes({x}) = h[N]
  <2> HIDE DEF h
  <2> QED
    BY <1>2, TotalUnique, Zenon
<1> QED
  BY <1>1, <1>3

\* Sums over disjoint sets add up.
LEMMA BytesOfUnion ==
  ASSUME NEW S, NEW T, S \cap T = {}
  PROVE  Bytes(S \cup T) = Bytes(S) + Bytes(T)
<1>1. PICK s : Totals(S, s) /\ Bytes(S) = s[N]
  BY BytesTotal, Zenon
<1>2. PICK t : Totals(T, t) /\ Bytes(T) = t[N]
  BY BytesTotal, Zenon
<1> DEFINE h == [k \in 0..N |-> s[k] + t[k]]
<1>3. N \in Nat /\ \A k \in 1..N : size[k - 1] \in Nat /\ k - 1 \in 0..N
  BY GraphAssumption DEF Node
<1>4. Totals(S \cup T, h)
  <2>1. h \in [0..N -> Nat] /\ h[0] = 0
    BY <1>1, <1>2, <1>3 DEF Totals
  <2>2. ASSUME NEW k \in 1..N
        PROVE  h[k] = h[k - 1] + (IF k - 1 \in S \cup T THEN size[k - 1] ELSE 0)
    <3>1. /\ s[k] = s[k - 1] + (IF k - 1 \in S THEN size[k - 1] ELSE 0)
          /\ t[k] = t[k - 1] + (IF k - 1 \in T THEN size[k - 1] ELSE 0)
          /\ s[k - 1] \in Nat /\ t[k - 1] \in Nat /\ size[k - 1] \in Nat
          /\ h[k] = s[k] + t[k] /\ h[k - 1] = s[k - 1] + t[k - 1]
      <4>1. k \in 0..N /\ k - 1 \in 0..N
        BY <1>3
      <4> QED
        BY <1>1, <1>2, <1>3, <4>1, Zenon DEF Totals
    <3>2. CASE k - 1 \in S
      <4>1. k - 1 \notin T /\ k - 1 \in S \cup T
        BY <3>2, Zenon
      <4> QED
        BY <3>1, <3>2, <4>1
    <3>3. CASE k - 1 \notin S
      <4>1. k - 1 \in S \cup T <=> k - 1 \in T
        BY <3>3, Zenon
      <4> QED
        BY <3>1, <3>3, <4>1
    <3> QED
      BY <3>2, <3>3, Zenon
  <2> HIDE DEF h
  <2> QED
    BY <2>1, <2>2, Zenon DEF Totals
<1>5. Bytes(S \cup T) = h[N]
  <2> HIDE DEF h
  <2> QED
    BY <1>4, TotalUnique, Zenon
<1> QED
  BY <1>1, <1>2, <1>3, <1>5

-----------------------------------------------------------------------------
(* The dominator tree.                                                     *)

\* idm has the immediate dominator of every node but the root.
DonePhase(idm) == \A v \in Live \ {Root} : Immediate(idm[v], v)

Dominated(d) == {v \in Live : v \notin ReachedWithout(d)}

\* Strict dominators have lower numbers.
LEMMA StrictIsLower ==
  ASSUME WalkResult, NEW v \in Live, NEW d \in Strict(v)
  PROVE  d \in Live /\ d \in Anc(v) /\ dfn[d] < dfn[v] /\ dfn[d] \in Nat /\ dfn[v] \in Nat
<1>1. d \in Anc(v) /\ d # v
  BY DominatorIsAncestor, Zenon DEF Strict
<1>2. d \in Live /\ dfn[d] <= dfn[v] /\ dfn[d] # dfn[v]
  BY <1>1, Zenon DEF WalkResult
<1> QED
  BY <1>1, <1>2 DEF WalkResult

\* Only live nodes dominate anything, and they are ancestors of what they dominate.
LEMMA DominatedIsLive ==
  ASSUME WalkResult, NEW d, NEW v \in Dominated(d)
  PROVE  d \in Live /\ d \in Anc(v) /\ v \in Live /\ d \in Vertices
  BY DominatorIsAncestor, Zenon DEF Dominated, WalkResult

\* Whatever d dominates is d itself or is dominated by a child of d.
LEMMA DominatedByChild ==
  ASSUME WalkResult, NEW idm, DonePhase(idm), NEW d, NEW v \in Dominated(d), v # d
  PROVE  \E c \in Live \ {Root} : idm[c] = d /\ v \in Dominated(c)
<1> DEFINE C == {c \in Live : v \in Dominated(c) /\ d \in Strict(c)}
           K == {dfn[c] : c \in C}
<1>1. d \in Live /\ d \in Vertices /\ v \in Live /\ v \in Dominated(v) /\ d \in Strict(v)
  BY DominatedIsLive, NotReachedWithoutItself, Zenon DEF Dominated, Strict
<1>2. \A c \in Live : dfn[c] \in Nat
  BY DEF WalkResult
<1>3. PICK m \in K : \A k \in K : m <= k
  <2>1. K \in SUBSET Nat /\ dfn[v] \in K
    BY <1>1, <1>2, Zenon
  <2> HIDE DEF K
  <2> QED
    BY <2>1, LeastNumber, Zenon
<1>4. PICK c \in C : dfn[c] = m
  BY <1>3, Zenon
<1>5. c \in Live /\ v \in Dominated(c) /\ d \in Strict(c)
  BY <1>4, Zenon
<1>6. c # Root
  BY <1>2, <1>5, StrictIsLower DEF WalkResult
<1>7. idm[c] \in Strict(c) /\ Strict(c) \ {idm[c]} = Strict(idm[c])
  BY <1>5, <1>6, Zenon DEF DonePhase, Immediate
<1>8. idm[c] \in Live /\ dfn[idm[c]] < dfn[c]
  BY <1>5, <1>7, StrictIsLower, Zenon
<1>9. idm[c] = d
  <2> SUFFICES ASSUME idm[c] # d PROVE FALSE
    BY Zenon
  <2>1. d \in Strict(idm[c])
    BY <1>5, <1>7, Zenon
  <2>2. v \notin ReachedWithout(idm[c])
    BY <1>5, <1>7, DominanceTransitive, Zenon DEF Strict, Dominated
  <2>3. dfn[idm[c]] \in K
    BY <1>1, <1>8, <2>1, <2>2, Zenon DEF Dominated
  <2>4. m <= dfn[idm[c]] /\ m = dfn[c] /\ dfn[c] \in Nat /\ dfn[idm[c]] \in Nat
    BY <1>2, <1>3, <1>4, <1>5, <1>8, <2>3, Zenon
  <2> QED
    BY <1>8, <2>4
<1> QED
  BY <1>5, <1>6, <1>9, Zenon

\* Two dominators of a node are ancestors of it, and the higher one dominates
\* the lower.
LEMMA DominatorsAreOrdered ==
  ASSUME WalkResult, NEW c, NEW w, NEW v \in Dominated(c), v \in Dominated(w),
         dfn[c] < dfn[w]
  PROVE  c \in Strict(w)
<1>1. /\ c \in Live /\ c \in Anc(v) /\ c \in Vertices /\ v \in Live
      /\ w \in Live /\ w \in Anc(v) /\ v \notin ReachedWithout(c)
  BY DominatedIsLive, Zenon DEF Dominated
<1>2. dfn[c] \in Int /\ dfn[w] \in Int
  BY <1>1 DEF WalkResult
<1>3. c # w /\ \A y \in Anc(v) : dfn[y] > dfn[w] => y # c
  BY <1>2
<1>4. w \notin ReachedWithout(c)
  BY <1>1, <1>3, ReachedAlongTree, Zenon
<1> QED
  BY <1>1, <1>3, <1>4, Zenon DEF Strict

\* Children of one node dominate different objects, and none the node itself.
LEMMA ChildrenAreDisjoint ==
  ASSUME WalkResult, NEW idm, DonePhase(idm), NEW w \in Live \ {Root}
  PROVE  /\ idm[w] \notin Dominated(w)
         /\ \A c \in Live \ {Root} : c # w /\ idm[c] = idm[w]
              => Dominated(c) \cap Dominated(w) = {}
<1>1. ASSUME NEW c \in Live \ {Root}
      PROVE  /\ idm[c] \in Strict(c) /\ Strict(c) \ {idm[c]} = Strict(idm[c])
             /\ idm[c] \in Live /\ dfn[idm[c]] < dfn[c] /\ dfn[c] \in Nat /\ dfn[idm[c]] \in Nat
  <2>1. idm[c] \in Strict(c) /\ Strict(c) \ {idm[c]} = Strict(idm[c])
    BY Zenon DEF DonePhase, Immediate
  <2> QED
    BY <2>1, StrictIsLower, Zenon
<1>2. ASSUME NEW c \in Live \ {Root}, idm[c] \in Dominated(c)
      PROVE  FALSE
  <2>1. dfn[c] <= dfn[idm[c]]
    BY <1>2, DominatedIsLive, Zenon DEF WalkResult
  <2> QED
    BY <1>1, <2>1
<1>3. ASSUME NEW a \in Live \ {Root}, NEW b \in Live \ {Root}, idm[a] = idm[b], a \in Strict(b)
      PROVE  FALSE
  <2>1. a # idm[b]
    BY <1>1, <1>3
  <2>2. a \in Strict(idm[a])
    BY <1>1, <1>3, <2>1, Zenon
  <2>3. dfn[a] < dfn[idm[a]]
    BY <1>1, <2>2, StrictIsLower, Zenon
  <2> QED
    BY <1>1, <2>3
<1>4. ASSUME NEW c \in Live \ {Root}, c # w, idm[c] = idm[w], NEW v \in Dominated(c),
             v \in Dominated(w)
      PROVE  FALSE
  <2>1. dfn[c] < dfn[w] \/ dfn[w] < dfn[c]
    <3>1. dfn[c] \in Nat /\ dfn[w] \in Nat /\ dfn[c] # dfn[w]
      BY <1>1, <1>4, Zenon DEF WalkResult
    <3> QED
      BY <3>1
  <2> QED
    BY <1>3, <1>4, <2>1, DominatorsAreOrdered, Zenon
<1> QED
  BY <1>2, <1>4, Zenon

=============================================================================

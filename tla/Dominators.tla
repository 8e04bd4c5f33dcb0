----------------------------- MODULE Dominators -----------------------------
(***************************************************************************)
(* Dominator tree and retained sizes of a heap dump's object graph         *)
(* (heapdump/hprofx/dom.go): Lengauer-Tarjan with path compression.  One   *)
(* action per iteration of each loop of Dominators.                        *)
(*                                                                         *)
(* The slices the code indexes by node are functions on Vertices; -1 marks *)
(* "none" as in the code.  The fields of an object are dumped in any       *)
(* order, so the walk may take the unvisited successors in any order.      *)
(* Referrers come in file order, which is the order of the node indices:   *)
(* the next one is the least of those left.                                *)
(***************************************************************************)
EXTENDS Integers, Sequences, FiniteSetsExt

CONSTANTS
  N,            \* g.N(): the number of objects
  Graphs,       \* the object graphs considered: [refs, roots]
  size          \* g.Size: shallow size of each object

Node == 0..(N - 1)
Root == N                      \* the virtual super-root
Vertices == 0..N

ASSUME GraphAssumption ==
  /\ N \in Nat
  /\ Graphs \subseteq [refs : [Node -> SUBSET Node], roots : SUBSET Node]
  /\ size \in [Node -> Nat]

VARIABLES
  g,            \* the graph; never changes
  pc,           \* the loop Dominators is in
  stack,        \* nodes on the stack of the walk, innermost last
  vertex,       \* d.Vertex: nodes in preorder; number k is vertex[k + 1]
  dfn, parent,  \* depth-first numbers and tree
  forest,       \* d.semi, d.label and d.ancestor
  referrers,    \* the referrers of the node being scanned that are left
  bucket,       \* d.bhead and d.bnext: the linked list of each node
  settling,     \* the part of the parent's bucket that is left
  idom,         \* d.Idom
  retained,     \* d.Retained
  unreach,      \* g.Unreach
  i             \* the loop index

walkVars == <<stack, vertex, dfn, parent>>
treeVars == <<forest, referrers, bucket, settling, idom>>
sizeVars == <<retained, unreach>>
vars == <<g, pc, walkVars, treeVars, sizeVars, i>>

Nowhere == [v \in Vertices |-> -1]

Init ==
  /\ g \in Graphs
  /\ pc = "walk"
  /\ stack = <<Root>>
  /\ vertex = <<Root>>
  /\ dfn = [Nowhere EXCEPT ![Root] = 0]
  /\ parent = Nowhere
  /\ forest = [semi |-> [v \in Vertices |-> 0],
               label |-> [v \in Vertices |-> v], ancestor |-> Nowhere]
  /\ referrers = {}
  /\ settling = <<>>
  /\ bucket = [v \in Vertices |-> <<>>]
  /\ idom = Nowhere
  /\ retained = [v \in Vertices |-> 0]
  /\ unreach = 0
  /\ i = 0

succ(v) == IF v = Root THEN g.roots ELSE g.refs[v]

Referrers(w) == {v \in Node : w \in g.refs[v]}

Reachable(v) == dfn[v] >= 0

Numbered(k) == vertex[k + 1]

-----------------------------------------------------------------------------
(* The walk.                                                               *)

Unvisited(v) == {w \in succ(v) : ~Reachable(w)}

\* The node on top of the stack.
Top == stack[Len(stack)]

Visit_BreadthFirst(w) ==
  /\ pc = "walk" /\ stack # <<>>
  /\ w \in Unvisited(Top)
  /\ dfn' = [dfn EXCEPT ![w] = Len(vertex)]
  /\ parent' = [parent EXCEPT ![w] = Top]
  /\ vertex' = Append(vertex, w)
  /\ stack' = <<w>> \o stack
  /\ UNCHANGED <<g, pc, treeVars, sizeVars, i>>

Visit(w) ==
  /\ pc = "walk" /\ stack # <<>>
  /\ w \in Unvisited(Top)
  /\ dfn' = [dfn EXCEPT ![w] = Len(vertex)]
  /\ parent' = [parent EXCEPT ![w] = Top]
  /\ vertex' = Append(vertex, w)
  /\ stack' = Append(stack, w)
  /\ UNCHANGED <<g, pc, treeVars, sizeVars, i>>

Backtrack ==
  /\ pc = "walk" /\ stack # <<>>
  /\ Unvisited(Top) = {}
  /\ stack' = SubSeq(stack, 1, Len(stack) - 1)
  /\ UNCHANGED <<g, pc, vertex, dfn, parent, treeVars, sizeVars, i>>

\* The walk is over: semi is initialised to the depth-first numbers.
Walked ==
  /\ pc = "walk" /\ stack = <<>>
  /\ forest' = [forest EXCEPT !.semi = [v \in Vertices |-> IF Reachable(v) THEN dfn[v] ELSE 0]]
  /\ pc' = "semi"
  /\ i' = Len(vertex) - 1
  /\ referrers' = IF i' >= 1 THEN Referrers(Numbered(i')) ELSE {}
  /\ UNCHANGED <<g, walkVars, bucket, settling, idom, sizeVars>>

-----------------------------------------------------------------------------
(* eval and compress, on the forest f.                                     *)

\* The nodes compress collects: v and its ancestors, down to depth two.  No
\* chain of ancestors is longer than the walk.
CompressPath(f, v) ==
  LET up[k \in 0..Len(vertex)] == IF k = 0 THEN v
                                  ELSE IF up[k - 1] = -1 THEN -1 ELSE f.ancestor[up[k - 1]]
      deep(k) == /\ up[k] # -1 /\ f.ancestor[up[k]] # -1
                 /\ f.ancestor[f.ancestor[up[k]]] # -1
  IN [k \in 1..Min({j \in 0..Len(vertex) : ~deep(j)}) |-> up[k - 1]]

Shorten_KeepsLabel(x, f) ==
  [f EXCEPT !.ancestor[x] = f.ancestor[f.ancestor[x]]]

Shorten(x, f) ==
  LET a == f.ancestor[x]
  IN [f EXCEPT !.label[x] = IF f.semi[f.label[a]] < f.semi[f.label[x]]
                              THEN f.label[a] ELSE @,
               !.ancestor[x] = f.ancestor[a]]

\* The nodes collected are taken from the last to the first.
compress(f, v) ==
  LET path == CompressPath(f, v)
      after[k \in 0..Len(path)] ==
        IF k = 0 THEN f ELSE Shorten(path[Len(path) + 1 - k], after[k - 1])
  IN after[Len(path)]

\* eval returns a node and leaves a compressed forest.
eval(f, v) ==
  IF f.ancestor[v] = -1
    THEN [node |-> v, forest |-> f]
    ELSE LET after == compress(f, v)
         IN [node |-> after.label[v], forest |-> after]

-----------------------------------------------------------------------------
(* Semidominators and preliminary dominators, for i from last to 1.        *)

\* The inner loop over the referrers of w: v is the next one.
Scan ==
  /\ pc = "semi" /\ i >= 1 /\ referrers # {}
  /\ LET w == Numbered(i)
         v == Min(referrers)
     IN \E u \in {eval(forest, v)} :
          /\ forest' = IF ~Reachable(v) THEN forest
                       ELSE [u.forest EXCEPT !.semi[w] =
                               IF u.forest.semi[u.node] < @ THEN u.forest.semi[u.node] ELSE @]
          /\ referrers' = referrers \ {v}
  /\ UNCHANGED <<g, pc, walkVars, bucket, idom, settling, sizeVars, i>>

\* GC roots have the virtual root as a predecessor too.
FromRoot(f, w) ==
  IF w \in g.roots /\ f.semi[Root] < f.semi[w] THEN f.semi[Root] ELSE f.semi[w]

\* w enters the bucket of its semidominator and is linked to its parent, and
\* the bucket of the parent is taken out to be settled.
Link ==
  /\ pc = "semi" /\ i >= 1 /\ referrers = {}
  /\ LET w == Numbered(i)
         p == parent[w]
         semi == FromRoot(forest, w)
         filled == [bucket EXCEPT ![Numbered(semi)] = <<w>> \o @]
     IN /\ forest' = [forest EXCEPT !.semi[w] = semi, !.ancestor[w] = p]
        /\ settling' = filled[p]
        /\ bucket' = [filled EXCEPT ![p] = <<>>]
  /\ pc' = "settle"
  /\ UNCHANGED <<g, walkVars, idom, referrers, sizeVars, i>>

Settle_NotAdvanced ==
  /\ pc = "settle" /\ settling # <<>>
  /\ \E u \in {eval(forest, Head(settling))} :
       /\ forest' = u.forest
       /\ idom' = [idom EXCEPT ![Head(settling)] = u.node]
  /\ UNCHANGED <<g, pc, walkVars, bucket, settling, referrers, sizeVars, i>>

\* The inner loop over that bucket: v is the next node of the list.
Settle ==
  /\ pc = "settle" /\ settling # <<>>
  /\ LET p == parent[Numbered(i)]
         v == Head(settling)
     IN \E u \in {eval(forest, v)} :
          /\ forest' = u.forest
          /\ idom' = [idom EXCEPT ![v] =
                        IF u.forest.semi[u.node] < u.forest.semi[v] THEN u.node ELSE p]
  /\ settling' = Tail(settling)
  /\ UNCHANGED <<g, pc, walkVars, bucket, referrers, sizeVars, i>>

NextNumber ==
  /\ pc = "settle" /\ settling = <<>>
  /\ i' = i - 1
  /\ referrers' = IF i > 1 THEN Referrers(Numbered(i - 1)) ELSE {}
  /\ pc' = "semi"
  /\ UNCHANGED <<g, walkVars, forest, bucket, idom, settling, sizeVars>>

SemidominatorsDone ==
  /\ pc = "semi" /\ i < 1
  /\ pc' = "idom"
  /\ i' = 1
  /\ UNCHANGED <<g, walkVars, treeVars, sizeVars>>

ImmediateDominator_Preliminary ==
  /\ pc = "idom" /\ i < Len(vertex)
  /\ i' = i + 1
  /\ UNCHANGED <<g, pc, walkVars, treeVars, sizeVars>>

ImmediateDominator ==
  /\ pc = "idom" /\ i < Len(vertex)
  /\ LET w == Numbered(i)
     IN idom' = [idom EXCEPT ![w] = IF @ # Numbered(forest.semi[w]) THEN idom[@] ELSE @]
  /\ i' = i + 1
  /\ UNCHANGED <<g, pc, walkVars, forest, referrers, bucket, settling, sizeVars>>

-----------------------------------------------------------------------------
(* Retained sizes.                                                         *)

\* The shallow sizes of the objects in S, added up in a loop over the objects.
Bytes(S) ==
  LET total[k \in 0..N] ==
        IF k = 0 THEN 0 ELSE total[k - 1] + (IF k - 1 \in S THEN size[k - 1] ELSE 0)
  IN total[N]

\* The root is its own dominator; every size starts at the shallow one.
ImmediateDominatorsDone ==
  /\ pc = "idom" /\ i >= Len(vertex)
  /\ idom' = [idom EXCEPT ![Root] = Root]
  /\ retained' = [v \in Vertices |-> IF v # Root /\ Reachable(v) THEN size[v] ELSE 0]
  /\ unreach' = unreach + Bytes({v \in Node : ~Reachable(v)})
  /\ pc' = "retain"
  /\ i' = Len(vertex) - 1
  /\ UNCHANGED <<g, walkVars, forest, referrers, bucket, settling>>

Retain_Shallow ==
  /\ pc = "retain" /\ i >= 1
  /\ LET w == Numbered(i)
         p == idom[w]
     IN retained' = IF p >= 0 /\ p # w
                      THEN [retained EXCEPT ![p] = @ + size[w]]
                      ELSE retained
  /\ i' = i - 1
  /\ UNCHANGED <<g, pc, walkVars, treeVars, unreach>>

Retain ==
  /\ pc = "retain" /\ i >= 1
  /\ LET w == Numbered(i)
         p == idom[w]
     IN retained' = IF p >= 0 /\ p # w
                      THEN [retained EXCEPT ![p] = @ + retained[w]]
                      ELSE retained
  /\ i' = i - 1
  /\ UNCHANGED <<g, pc, walkVars, treeVars, unreach>>

Return ==
  /\ pc = "retain" /\ i < 1
  /\ pc' = "done"
  /\ UNCHANGED <<g, walkVars, treeVars, sizeVars, i>>

Next ==
  \/ \E w \in Node : Visit(w)
  \/ Backtrack
  \/ Walked
  \/ Scan
  \/ Link
  \/ Settle
  \/ NextNumber
  \/ SemidominatorsDone
  \/ ImmediateDominator
  \/ ImmediateDominatorsDone
  \/ Retain
  \/ Return

Spec == Init /\ [][Next]_vars /\ WF_vars(Next)

-----------------------------------------------------------------------------
(* Reference definitions.                                                  *)

\* What the virtual root still reaches when x is taken out of the graph: the
\* nodes of every set that holds the root and is closed under references.
ReachedWithout(x) ==
  LET closed(S) == {Root} \ {x} \subseteq S /\ \A v \in S : succ(v) \ {x} \subseteq S
  IN {v \in Vertices : \A S \in SUBSET Vertices : closed(S) => v \in S}

Live == ReachedWithout(-1)

\* The pairs <<d, v>> such that v becomes unreachable without d.
Dominance ==
  LET live == Live
  IN UNION {{d} \X (live \ ReachedWithout(d)) : d \in Vertices}

StrictDominators(dominance, v) == {d \in Vertices \ {v} : <<d, v>> \in dominance}

\* v and its ancestors in a tree given by the parents: the nodes of every set
\* that holds v and the parents of its members.
Ancestors(tree, v) ==
  LET closed(S) == v \in S /\ \A x \in S : tree[x] >= 0 => tree[x] \in S
  IN {u \in Vertices : \A S \in SUBSET Vertices : closed(S) => u \in S}

\* The live nodes with a path to w through nodes numbered after w only.
HighPredecessors(live, w) ==
  LET into(S) == {v \in live : succ(v) \cap S # {}}
      closed(S) == into({w} \cup {v \in S : dfn[v] > dfn[w]}) \subseteq S
  IN {v \in live : \A S \in SUBSET live : closed(S) => v \in S}

-----------------------------------------------------------------------------
(* Properties.                                                             *)

\* The walk numbers exactly the reachable objects, and leaves no reference
\* from a lower to a higher number outside the tree paths: the property of a
\* depth-first walk that the rest of the algorithm depends on.
WalkIsDepthFirst ==
  pc = "idom" =>
    /\ {v \in Vertices : Reachable(v)} = Live
    /\ \A v \in Range(vertex) : \A w \in succ(v) : dfn[v] < dfn[w] => v \in Ancestors(parent, w)

\* Path compression loses nothing: after the loop, d.semi holds every node's
\* semidominator, the lowest number from which a path runs to it through
\* higher-numbered nodes only.
SemidominatorsCorrect ==
  pc = "idom" =>
    LET live == Live
    IN \A w \in live \ {Root} :
         forest.semi[w] = Min({dfn[v] : v \in HighPredecessors(live, w)})

\* Idom is the immediate dominator: the strict dominator that every other
\* strict dominator dominates; unreachable objects have none.
IdomIsImmediateDominator ==
  pc = "done" =>
    LET dominance == Dominance
        strict(v) == StrictDominators(dominance, v)
    IN \A v \in Node :
         IF <<v, v>> \in dominance
           THEN idom[v] \in strict(v) /\ strict(v) \ {idom[v]} = strict(idom[v])
           ELSE idom[v] = -1

\* Retained size is what dom.go says it is: the bytes that would be freed if
\* the object became unreachable; and garbage is counted once, in Unreach.
RetainedIsFreed ==
  pc = "done" =>
    LET dominance == Dominance
    IN /\ \A d \in Vertices :
            retained[d] = Bytes({v \in Vertices : <<d, v>> \in dominance})
       /\ unreach = Bytes({v \in Vertices : <<Root, v>> \notin dominance})

\* Dominators returns on every graph, cyclic and irreducible ones included.
Terminates == <>(pc = "done")

=============================================================================

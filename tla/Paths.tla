------------------------------- MODULE Paths --------------------------------
(***************************************************************************)
(* The path command of heapdump/hprofx/cmds.go: shortest paths from the GC *)
(* roots (bfsFromRoots) and the lines cmdPaths prints for them.            *)
(***************************************************************************)
EXTENDS Inspect

CONSTANT MaxChain     \* references of a path that are followed; 200 in the code

ASSUME ChainAssumption == MaxChain \in Nat

VARIABLES parent, queue, head   \* of bfsFromRoots

pathVars == <<parent, queue, head>>

PathInit == parent = <<>> /\ queue = <<>> /\ head = 1

Root == N                          \* Dom.Root, the virtual super-root

StartSearch ==
  /\ pc = "graph" /\ cmd = "paths"
  /\ parent' = [v \in Node |-> IF v \in ToSet(roots) THEN Root ELSE -2]
  /\ queue' = roots /\ head' = 1
  /\ pc' = "search"
  /\ UNCHANGED graphData

\* s without the repetitions of earlier elements.
FirstOccurrences(s) ==
  FoldLeft(LAMBDA seen, x : IF Contains(seen, x) THEN seen ELSE Append(seen, x),
           <<>>, s)

\* The unvisited nodes put before the waiting ones: a depth-first order.
Expand_DepthFirst ==
  /\ pc = "search" /\ head <= Len(queue)
  /\ \E v \in {queue[head]} :
     \E new \in {FirstOccurrences(SelectSeq(Refs(v), LAMBDA w : parent[w] = -2))} :
       /\ parent' = [w \in Node |-> IF w \in ToSet(new) THEN v ELSE parent[w]]
       /\ queue' = SubSeq(queue, 1, head) \o new
                     \o SubSeq(queue, head + 1, Len(queue))
  /\ head' = head + 1
  /\ UNCHANGED <<graphData, pc>>

\* One iteration of the loop over the queue.
Expand ==
  /\ pc = "search" /\ head <= Len(queue)
  /\ \E v \in {queue[head]} :
     \E new \in {FirstOccurrences(SelectSeq(Refs(v), LAMBDA w : parent[w] = -2))} :
       /\ parent' = [w \in Node |-> IF w \in ToSet(new) THEN v ELSE parent[w]]
       /\ queue' = queue \o new
  /\ head' = head + 1
  /\ UNCHANGED <<graphData, pc>>

SearchDone ==
  /\ pc = "search" /\ head > Len(queue)
  /\ parent' = [v \in Node |-> IF parent[v] = -2 THEN -1 ELSE parent[v]]
  /\ pc' = "done"
  /\ UNCHANGED <<graphData, queue, head>>

PathNext == StartSearch \/ Expand \/ SearchDone

\* The path printed for a reachable object, itself first: it follows parent to
\* a root, or until it has more than MaxChain objects.
Chain(i) ==
  LET from[n \in 0..(MaxChain + 1), v \in -1..N] ==
        IF n > MaxChain \/ v < 0 \/ v = Root THEN <<>>
        ELSE <<v>> \o from[n + 1, parent[v]]
  IN  from[0, i]

\* The labels of the lines of that path, the last object's first; the line of
\* the first object is marked when it is a root.
Labels(i) ==
  LET chain == Chain(i)
  IN  [k \in DOMAIN chain |->
         CASE k < Len(chain)              -> EdgeLabel(chain[k + 1], chain[k])
           [] chain[k] \in ToSet(roots)   -> <<"GC root">>
           [] OTHER                       -> <<>>]

-----------------------------------------------------------------------------
(* Properties.                                                             *)

\* Nodes within n references of a GC root.
Ball(n) ==
  LET ball[k \in 0..n] ==
        IF k = 0 THEN ToSet(roots)
        ELSE LET near == ball[k - 1]
             IN  near \cup UNION {ToSet(Refs(v)) : v \in near}
  IN  ball[n]

PathsPrinted == cmd = "paths" /\ pc = "done"

\* The path command prints a shortest path: for an object at distance n from
\* the GC roots, n + 1 objects that reference one another, beginning at a root,
\* or the last MaxChain + 1 of them.  Other objects have no parent.
PathsAreShortest ==
  PathsPrinted =>
    \A i \in Node :
      IF i \notin Ball(N) THEN parent[i] = -1
      ELSE LET n == Min({k \in 0..N : i \in Ball(k)})
               chain == Chain(i)
           IN  /\ Len(chain) = Min({n, MaxChain}) + 1
               /\ \A k \in 1..(Len(chain) - 1) :
                    chain[k] \in ToSet(Refs(chain[k + 1]))
               /\ chain[1] = i
               /\ n <= MaxChain => Last(chain) \in ToSet(roots)

\* A line of a path says truly how the object is held: by a field of its holder
\* whose value the JVM wrote as the object's id, by the array element with that
\* index, by a static; and it says so unless the element lies beyond MaxElements.
\* The path begins with a line marked as a GC root unless it was cut.
PathsAreLabelled ==
  PathsPrinted =>
    \A i \in Ball(N) :
      LET chain == Chain(i)
          labels == Labels(i)
          first(seq, x) == SelectInSeq(seq, LAMBDA y : y = x)
      IN  /\ \A k \in 1..(Len(chain) - 1) :
               LET r == Written(chain[k + 1])
                   x == Written(chain[k]).id
                   isX(v) == IsRef(v) /\ v.value = x
               IN  labels[k] =
                     CASE r.kind = "class" -> <<"static">>
                       [] r.kind = "instance" ->
                            <<"field", NamesIn(r)[SelectInSeq(r.values, isX)]>>
                       [] r.kind = "objArray" ->
                            IF first(r.elements, x) > MaxElements THEN <<>>
                            ELSE <<"index", first(r.elements, x) - 1>>
          /\ Len(chain) <= MaxChain => Last(labels) = <<"GC root">>

=============================================================================

---------------------------- MODULE MC_Dominators ----------------------------
(***************************************************************************)
(* TLC instances of Retained.  A sum of shallow sizes names the set of     *)
(* objects it was taken over, but for the one of size 0; and a size may be *)
(* less than 2% of another.                                                *)
(***************************************************************************)
EXTENDS Retained

MCSize == [v \in Node |-> <<1, 100, 0, 200>>[v + 1]]

\* Every graph of three objects, self-references, cycles and garbage included,
\* with none to two GC roots; the other objects are isolated.
SmallGraphs ==
  {[refs |-> [v \in Node |-> IF v < 3 THEN r[v] ELSE {}], roots |-> roots] :
     r \in [0..2 -> SUBSET (0..2)], roots \in {{}, {1}, {0, 2}}}

\* Deeper graphs: up to two references per object, one from the last, and two
\* GC roots.
Sparse ==
  {refs \in [Node -> {S \in SUBSET Node : Cardinality(S) <= 2}] :
     /\ \A v \in Node : v \notin refs[v]
     /\ Cardinality(refs[N - 1]) <= 1}

MCGraphs == SmallGraphs \cup [refs : Sparse, roots : {{0, 1}}]

=============================================================================

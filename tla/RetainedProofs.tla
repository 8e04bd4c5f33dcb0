--------------------------- MODULE RetainedProofs ---------------------------
(***************************************************************************)
(* What `hprofx retained` prints is complete, on every object graph: the   *)
(* chain of dominators of an object, and the listing of the largest ones,  *)
(* of which ListedSoFar says which objects it has covered.                 *)
(***************************************************************************)
EXTENDS LengauerTarjanProofs, Retained, FiniteSetTheorems

-----------------------------------------------------------------------------
(* The chain of dominators.                                                *)

\* The recursion of DomChain, which climbs from v, is well defined.
Climbs(v, n, h) ==
  h = [k \in 0..n |-> IF k = 0 THEN v ELSE IF h[k - 1] < 0 THEN -1 ELSE idom[h[k - 1]]]

\* Such a function exists for every number of steps.
LEMMA ClimbExists ==
  ASSUME NEW v, NEW n \in Nat
  PROVE  \E h : Climbs(v, n, h)
<1> DEFINE K == {k \in Nat : ~\E h : Climbs(v, k, h)}
<1> SUFFICES ASSUME n \in K PROVE FALSE
  BY Zenon
<1>1. PICK m \in K : \A k \in K : m <= k
  <2>1. K \in SUBSET Nat /\ K # {}
    BY Zenon
  <2> HIDE DEF K
  <2> QED
    BY <2>1, LeastNumber, Zenon
<1>2. m # 0
  <2> SUFFICES ASSUME m = 0 PROVE FALSE
    BY Zenon
  <2> DEFINE u == [k \in 0..0 |-> v]
  <2>1. Climbs(v, 0, u)
    BY DEF Climbs
  <2> QED
    BY <1>1, <2>1, Zenon
<1>3. PICK u : Climbs(v, m - 1, u)
  BY <1>1, <1>2
<1> DEFINE last == IF u[m - 1] < 0 THEN -1 ELSE idom[u[m - 1]]
           h == [k \in 0..m |-> IF k < m THEN u[k] ELSE last]
<1>4. \A k \in 0..(m - 1) :
        u[k] = (IF k = 0 THEN v ELSE IF u[k - 1] < 0 THEN -1 ELSE idom[u[k - 1]])
  BY <1>1, <1>2, <1>3, Zenon DEF Climbs
<1>5. \A k \in 0..m :
        h[k] = (IF k = 0 THEN v ELSE IF h[k - 1] < 0 THEN -1 ELSE idom[h[k - 1]])
  <2> SUFFICES ASSUME NEW k \in 0..m
               PROVE  h[k] = (IF k = 0 THEN v
                              ELSE IF h[k - 1] < 0 THEN -1 ELSE idom[h[k - 1]])
    BY Zenon
  <2>1. CASE k = m
    <3>1. h[k] = last /\ h[k - 1] = u[m - 1]
      BY <1>1, <1>2, <2>1
    <3> QED
      BY <1>2, <2>1, <3>1, Zenon
  <2>2. CASE k # m
    <3>1. h[k] = u[k] /\ k \in 0..(m - 1) /\ (k # 0 => h[k - 1] = u[k - 1])
      BY <1>1, <2>2
    <3> QED
      BY <1>4, <3>1, Zenon
  <2> QED
    BY <2>1, <2>2, Zenon
<1>6. Climbs(v, m, h)
  <2> HIDE DEF h
  <2>1. h = [k \in 0..m |-> h[k]]
    BY Zenon DEF h
  <2> QED
    BY <1>5, <2>1, Zenon DEF Climbs
<1> QED
  BY <1>1, <1>6, Zenon

\* The steps of the climb that DomChain lists.
Steps(up, max) ==
  {j \in 1..(N + 1) : j <= max /\ \A l \in 1..j : up[l] >= 0 /\ up[l] # Root}

\* DomChain lists the first steps of the climb.
LEMMA DomChainClimbs ==
  ASSUME NEW v, NEW max
  PROVE  \E up : /\ Climbs(v, N + 1, up)
                 /\ DomChain(v, max) = [k \in 1..Cardinality(Steps(up, max)) |-> up[k]]
<1> DEFINE up == CHOOSE h : Climbs(v, N + 1, h)
<1>1. Climbs(v, N + 1, up)
  <2>1. N + 1 \in Nat
    BY GraphAssumption
  <2> QED
    BY <2>1, ClimbExists, Zenon
<1>2. DomChain(v, max) = [k \in 1..Cardinality(Steps(up, max)) |-> up[k]]
  BY Zenon DEF DomChain, Climbs, Steps
<1> QED
  BY <1>1, <1>2, Zenon

Proper(v) == Strict(v) \ {Root}

\* The immediate dominator is the virtual root, or leaves the other proper
\* dominators.
LEMMA ProperStep ==
  ASSUME WalkResult, DonePhase(idom), NEW v \in Live \ {Root}
  PROVE  IF idom[v] = Root THEN Proper(v) = {}
         ELSE /\ idom[v] \in Live \ {Root} /\ idom[v] \in Proper(v)
              /\ Proper(idom[v]) = Proper(v) \ {idom[v]}
<1>1. idom[v] \in Strict(v) /\ Strict(v) \ {idom[v]} = Strict(idom[v])
  BY Zenon DEF DonePhase, Immediate
<1>2. idom[v] \in Live
  BY <1>1, StrictIsLower, Zenon
<1>3. Strict(Root) = {}
  <2> SUFFICES ASSUME NEW d \in Strict(Root) PROVE FALSE
    BY Zenon
  <2>1. Root \in Live /\ dfn[Root] = 0
    BY Zenon DEF WalkResult
  <2>2. dfn[d] < 0 /\ dfn[d] \in Nat
    BY <2>1, StrictIsLower, Zenon
  <2> QED
    BY <2>2
<1> QED
  BY <1>1, <1>2, <1>3, Zenon DEF Proper

\* There are fewer proper dominators than objects.
LEMMA ProperIsFinite ==
  ASSUME NEW v
  PROVE  /\ IsFiniteSet(Proper(v))
         /\ Cardinality(Proper(v)) \in Nat /\ Cardinality(Proper(v)) <= N
<1>1. Proper(v) \in SUBSET (0..(N - 1)) /\ 0 \in Int /\ N - 1 \in Int
  BY GraphAssumption DEF Proper, Strict, Vertices, Root
<1>2. IsFiniteSet(0..(N - 1)) /\ Cardinality(0..(N - 1)) = N
  BY GraphAssumption, FS_Interval
<1>3. IsFiniteSet(Proper(v)) /\ Cardinality(Proper(v)) <= N
  BY <1>1, <1>2, FS_Subset, Zenon
<1> QED
  BY <1>3, FS_CardinalityType, Zenon

\* The climb visits the proper dominators, each one with one less than the one
\* before it, and then reaches the virtual root.
LEMMA ClimbVisitsDominators ==
  ASSUME WalkResult, DonePhase(idom), NEW v \in Live \ {Root},
         NEW up, Climbs(v, N + 1, up), NEW n, n = Cardinality(Proper(v))
  PROVE  /\ \A k \in 0..n : /\ up[k] \in Live \ {Root}
                            /\ Cardinality(Proper(up[k])) = n - k
                            /\ k >= 1 => up[k] \in Proper(v)
         /\ up[n + 1] = Root
<1> DEFINE Visits(k) == /\ up[k] \in Live \ {Root}
                        /\ Cardinality(Proper(up[k])) = n - k
                        /\ Proper(up[k]) \subseteq Proper(v)
                        /\ k >= 1 => up[k] \in Proper(v)
<1>1. n \in Nat /\ n <= N /\ N \in Nat
  BY ProperIsFinite, GraphAssumption
<1>2. up[0] = v
  <2>1. 0 \in 0..(N + 1)
    BY <1>1
  <2> QED
    BY <2>1, Zenon DEF Climbs
<1>3. ASSUME NEW k \in 0..n, up[k] \in Live
      PROVE  up[k + 1] = idom[up[k]]
  <2>1. k + 1 \in 0..(N + 1) /\ k + 1 # 0 /\ (k + 1) - 1 = k
    BY <1>1
  <2>2. up[k + 1] = IF up[k] < 0 THEN -1 ELSE idom[up[k]]
    BY <2>1, Zenon DEF Climbs
  <2>3. ~(up[k] < 0)
    <3>1. up[k] \in Vertices
      BY <1>3, Zenon DEF WalkResult
    <3> QED
      BY <3>1, GraphAssumption DEF Vertices
  <2> QED
    BY <2>2, <2>3, Zenon
<1>4. \A k \in 0..n : Visits(k)
  <2> DEFINE K == {k \in 0..n : ~Visits(k)}
  <2> SUFFICES ASSUME K # {} PROVE FALSE
    BY Zenon
  <2>1. PICK m \in K : \A k \in K : m <= k
    <3>1. K \in SUBSET Nat
      BY <1>1
    <3> HIDE DEF K
    <3> QED
      BY <3>1, LeastNumber, Zenon
  <2>2. Visits(0)
    <3>1. Cardinality(Proper(up[0])) = n - 0
      BY <1>1, <1>2
    <3>2. ~(0 >= 1)
      OBVIOUS
    <3> QED
      BY <1>2, <3>1, <3>2, Zenon
  <2>3. m \in 1..n /\ m - 1 \in 0..n /\ ~(m <= m - 1) /\ (m - 1) + 1 = m
    <3>1. m # 0
      BY <2>1, <2>2, Zenon
    <3> QED
      BY <1>1, <2>1, <3>1
  <2>4. Visits(m - 1)
    BY <2>1, <2>3, Zenon
  <2> DEFINE w == up[m - 1]
  <2>5. up[m] = idom[w]
    BY <1>3, <2>3, <2>4, Zenon
  <2>6. idom[w] # Root
    <3> SUFFICES ASSUME idom[w] = Root PROVE FALSE
      BY Zenon
    <3>1. Proper(w) = {}
      BY <2>4, ProperStep, Zenon
    <3>2. Cardinality(Proper(w)) = 0
      BY <3>1, FS_EmptySet, Zenon
    <3>3. n - (m - 1) = 0
      BY <2>4, <3>2, Zenon
    <3> QED
      BY <1>1, <2>3, <3>3
  <2>7. /\ up[m] \in Live \ {Root} /\ up[m] \in Proper(w)
        /\ Proper(up[m]) = Proper(w) \ {up[m]}
    BY <2>4, <2>5, <2>6, ProperStep, Zenon
  <2>8. Cardinality(Proper(up[m])) = Cardinality(Proper(w)) - 1
    <3>1. IsFiniteSet(Proper(w))
      BY ProperIsFinite, Zenon
    <3>2. Cardinality(Proper(w) \ {up[m]})
            = IF up[m] \in Proper(w) THEN Cardinality(Proper(w)) - 1 ELSE Cardinality(Proper(w))
      BY <3>1, FS_RemoveElement, Zenon
    <3> QED
      BY <2>7, <3>2, Zenon
  <2>9. Cardinality(Proper(up[m])) = n - m
    <3>1. Cardinality(Proper(w)) = n - (m - 1)
      BY <2>4, Zenon
    <3> QED
      BY <1>1, <2>3, <2>8, <3>1
  <2>10. Visits(m)
    BY <2>4, <2>7, <2>9, Zenon
  <2> QED
    BY <2>1, <2>10, Zenon
<1>5. up[n + 1] = Root
  <2>1. n \in 0..n /\ n - n = 0
    BY <1>1
  <2>2. up[n] \in Live \ {Root} /\ Cardinality(Proper(up[n])) = 0
    BY <1>4, <2>1, Zenon
  <2>3. Proper(up[n]) = {}
    BY <2>2, ProperIsFinite, FS_EmptySet, Zenon
  <2>4. idom[up[n]] = Root
    BY <2>2, <2>3, ProperStep, Zenon
  <2> QED
    BY <1>3, <2>1, <2>2, <2>4, Zenon
<1> QED
  BY <1>4, <1>5, Zenon

\* Every run of Dominators ends with chains of dominators that are complete and
\* in order: DomChain lists the proper dominators of an object, each followed by
\* its own, down to the virtual root or to the length asked for.
THEOREM DomChainsAreDominatorPaths == Spec => []DomChainIsDominatorPath
<1>1. ASSUME WalkInv, LoopInv
      PROVE  DomChainIsDominatorPath
  <2> DEFINE proper(x) == StrictDominators(Dominance, x) \ {Root}
  <2> SUFFICES ASSUME pc = "done", NEW v \in Range(vertex) \ {Root}, NEW max \in 0..N
               PROVE  /\ Len(DomChain(v, max)) = Min({max, Cardinality(proper(v))})
                      /\ \A k \in DOMAIN DomChain(v, max) :
                           /\ DomChain(v, max)[k] \in proper(v)
                           /\ Cardinality(proper(DomChain(v, max)[k]))
                                = Cardinality(proper(v)) - k
    BY Zenon DEF DomChainIsDominatorPath
  <2>1. WalkResult
    BY <1>1, WalkGivesResult, Zenon DEF WalkInv
  <2>2. DonePhase(idom)
    BY <1>1, Zenon DEF LoopInv
  <2>3. \A d, x : <<d, x>> \in Dominance
                   <=> d \in Vertices /\ x \in Live /\ x \notin ReachedWithout(d)
    BY DEF Dominance
  <2>4. \A x \in Live : proper(x) = Proper(x)
    BY <2>3, Zenon DEF StrictDominators, Strict, Proper
  <2>5. v \in Live \ {Root}
    <3>1. v \in Vertices /\ Reachable(v)
      <4>1. PICK k \in DOMAIN vertex : v = vertex[k]
        BY Zenon DEF Range
      <4>2. vertex \in Seq(Vertices) /\ k \in 1..Len(vertex) /\ k - 1 \in 0..(Len(vertex) - 1)
        BY <1>1, <4>1 DEF WalkInv, WalkTypeOK
      <4>3. dfn[vertex[k - 1 + 1]] = k - 1 /\ k - 1 + 1 = k
        BY <1>1, <4>2 DEF WalkInv, Numbering, Numbered
      <4> QED
        BY <4>1, <4>2, <4>3 DEF Reachable
    <3> QED
      BY <1>1, <3>1, Zenon DEF WalkInv
  <2>6. PICK up : /\ Climbs(v, N + 1, up)
                  /\ DomChain(v, max) = [k \in 1..Cardinality(Steps(up, max)) |-> up[k]]
    BY DomChainClimbs, Zenon
  <2> DEFINE n == Cardinality(Proper(v))
             m == IF max <= n THEN max ELSE n
  <2>7. n \in Nat /\ n <= N /\ N \in Nat /\ max \in Nat /\ max <= N /\ m \in Nat /\ m <= n
    BY ProperIsFinite, GraphAssumption
  <2>8. /\ \A k \in 0..n : /\ up[k] \in Live \ {Root}
                           /\ Cardinality(Proper(up[k])) = n - k
                           /\ k >= 1 => up[k] \in Proper(v)
        /\ up[n + 1] = Root
    BY <2>1, <2>2, <2>5, <2>6, ClimbVisitsDominators, ZenonT(30)
  <2> HIDE DEF n
  <2>9. Steps(up, max) = 1..m
    <3>1. \A x \in Live : x >= 0
      <4>1. \A x \in Live : x \in Vertices
        BY <2>1, Zenon DEF WalkResult
      <4> QED
        BY <4>1, GraphAssumption DEF Vertices
    <3>2. \A k \in 1..n : up[k] >= 0 /\ up[k] # Root
      <4>1. \A k \in 1..n : k \in 0..n
        BY <2>7
      <4> QED
        BY <2>8, <3>1, <4>1, Zenon
    <3>3. \A j \in 1..m : j \in 1..(N + 1) /\ j <= max /\ \A l \in 1..j : l \in 1..n
      BY <2>7
    <3>4. \A j \in 1..(N + 1) : j <= max /\ ~(j \in 1..m) => n + 1 \in 1..j
      BY <2>7
    <3> QED
      BY <2>8, <3>2, <3>3, <3>4, Zenon DEF Steps
  <2>10. Cardinality(1..m) = m
    BY <2>7, FS_Interval
  <2>11. DomChain(v, max) = [k \in 1..m |-> up[k]]
    BY <2>6, <2>9, <2>10, Zenon
  <2>12. Len(DomChain(v, max)) = m /\ DOMAIN DomChain(v, max) = 1..m
    <3>1. [k \in 1..m |-> up[k]] \in Seq({up[k] : k \in 1..m})
      BY <2>7
    <3> QED
      BY <2>7, <2>11, <3>1
  <2>13. Min({max, n}) = m
    BY <2>7, MinIsMember DEF Min
  <2>14. n = Cardinality(proper(v))
    BY <2>4, <2>5, Zenon DEF n
  <2>15. ASSUME NEW k \in 1..m
         PROVE  /\ DomChain(v, max)[k] \in proper(v)
                /\ Cardinality(proper(DomChain(v, max)[k])) = n - k
    <3>1. DomChain(v, max)[k] = up[k]
      BY <2>11, Zenon
    <3>2. k \in 0..n /\ k >= 1
      BY <2>7
    <3> QED
      BY <2>4, <2>5, <2>8, <3>1, <3>2, Zenon
  <2> QED
    BY <2>12, <2>13, <2>14, <2>15, Zenon
<1> QED
  BY <1>1, LoopInvariant, PTL

-----------------------------------------------------------------------------
(* The listing.                                                            *)

NoRows == [rows |-> <<>>, seen |-> {}]

\* The recursion of Listed, one object after another, is well defined.
Lists(order, top, n, h) ==
  h = [k \in 0..n |-> IF k = 0 THEN NoRows ELSE ListRow(h[k - 1], order[k], top)]

\* Such a function exists for every number of objects.
LEMMA ListingExists ==
  ASSUME NEW order, NEW top, NEW n \in Nat
  PROVE  \E h : Lists(order, top, n, h)
<1> DEFINE K == {k \in Nat : ~\E h : Lists(order, top, k, h)}
<1> SUFFICES ASSUME n \in K PROVE FALSE
  BY Zenon
<1>1. PICK m \in K : \A k \in K : m <= k
  <2>1. K \in SUBSET Nat /\ K # {}
    BY Zenon
  <2> HIDE DEF K
  <2> QED
    BY <2>1, LeastNumber, Zenon
<1>2. m # 0
  <2> SUFFICES ASSUME m = 0 PROVE FALSE
    BY Zenon
  <2> DEFINE u == [k \in 0..0 |-> NoRows]
  <2>1. Lists(order, top, 0, u)
    BY DEF Lists
  <2> QED
    BY <1>1, <2>1, Zenon
<1>3. PICK u : Lists(order, top, m - 1, u)
  BY <1>1, <1>2
<1> DEFINE last == ListRow(u[m - 1], order[m], top)
           h == [k \in 0..m |-> IF k < m THEN u[k] ELSE last]
<1>4. \A k \in 0..(m - 1) :
        u[k] = (IF k = 0 THEN NoRows ELSE ListRow(u[k - 1], order[k], top))
  BY <1>1, <1>2, <1>3, Zenon DEF Lists
<1>5. \A k \in 0..m :
        h[k] = (IF k = 0 THEN NoRows ELSE ListRow(h[k - 1], order[k], top))
  <2> SUFFICES ASSUME NEW k \in 0..m
               PROVE  h[k] = (IF k = 0 THEN NoRows
                              ELSE ListRow(h[k - 1], order[k], top))
    BY Zenon
  <2>1. CASE k = m
    <3>1. h[k] = last /\ h[k - 1] = u[m - 1]
      BY <1>1, <1>2, <2>1
    <3> QED
      BY <1>2, <2>1, <3>1, Zenon
  <2>2. CASE k # m
    <3>1. h[k] = u[k] /\ k \in 0..(m - 1) /\ (k # 0 => h[k - 1] = u[k - 1])
      BY <1>1, <2>2
    <3> QED
      BY <1>4, <3>1, Zenon
  <2> QED
    BY <2>1, <2>2, Zenon
<1>6. Lists(order, top, m, h)
  <2> HIDE DEF h
  <2>1. h = [k \in 0..m |-> h[k]]
    BY Zenon DEF h
  <2> QED
    BY <1>5, <2>1, Zenon DEF Lists
<1> QED
  BY <1>1, <1>6, Zenon

\* Listed gives the rows of the last step.
LEMMA ListedLists ==
  ASSUME NEW order, NEW top, Len(order) \in Nat
  PROVE  \E h : Lists(order, top, Len(order), h) /\ Listed(order, top) = h[Len(order)].rows
<1> DEFINE h == CHOOSE u : Lists(order, top, Len(order), u)
<1>1. Lists(order, top, Len(order), h)
  BY ListingExists, Zenon
<1>2. Listed(order, top) = h[Len(order)].rows
  BY Zenon DEF Listed, Lists, NoRows
<1> QED
  BY <1>1, <1>2, Zenon

\* The objects that have a row or are named in the chain of one.
Named(rows) == Range(rows) \cup UNION {Range(DomChain(v, 8)) : v \in Range(rows)}

\* The objects before k are accounted for: they are named, or are next links, or
\* came too late.
ListedSoFar(order, top, k, l) ==
  /\ l.rows \in Seq(Node) /\ Len(l.rows) <= top
  /\ \A x \in Range(l.rows) : \E q \in 1..k : x = order[q]
  /\ l.seen \subseteq Named(l.rows)
  /\ \A p \in 1..k :
       \/ order[p] \in Named(l.rows)
       \/ NextLink(order[p])
       \/ Len(l.rows) = top /\ retained[order[p]] <= retained[l.rows[Len(l.rows)]]

Sorted(order) ==
  \A p, q \in DOMAIN order : p <= q => retained[order[p]] >= retained[order[q]]

\* One iteration of the loop of cmdRetained.
LEMMA ListRowAccounts ==
  ASSUME NEW n \in Nat, NEW order \in [1..n -> Node], Sorted(order),
         NEW top \in Nat \ {0}, NEW k \in 0..(n - 1), NEW l,
         ListedSoFar(order, top, k, l)
  PROVE  ListedSoFar(order, top, k + 1, ListRow(l, order[k + 1], top))
<1> DEFINE v == order[k + 1]
           m == ListRow(l, v, top)
<1>1. k + 1 \in 1..n /\ v \in Node /\ \A p : p \in 1..(k + 1) <=> p \in 1..k \/ p = k + 1
  OBVIOUS
<1>2. CASE Len(l.rows) >= top \/ v \in l.seen \/ NextLink(v)
  <2>1. m = l
    BY <1>2, Zenon DEF ListRow
  <2>2. ASSUME Len(l.rows) >= top
        PROVE  Len(l.rows) = top /\ retained[v] <= retained[l.rows[Len(l.rows)]]
    <3>1. Len(l.rows) = top /\ Len(l.rows) \in DOMAIN l.rows
      BY <2>2 DEF ListedSoFar
    <3>2. PICK q \in 1..k : l.rows[Len(l.rows)] = order[q]
      BY <3>1, Zenon DEF ListedSoFar, Range
    <3>3. q \in 1..n /\ q <= k + 1 /\ DOMAIN order = 1..n
      OBVIOUS
    <3>4. retained[l.rows[Len(l.rows)]] >= retained[v]
      BY <1>1, <3>2, <3>3, Zenon DEF Sorted
    <3> QED
      BY <3>1, <3>4
  <2>3. \A p \in 1..(k + 1) :
          \/ order[p] \in Named(l.rows)
          \/ NextLink(order[p])
          \/ Len(l.rows) = top /\ retained[order[p]] <= retained[l.rows[Len(l.rows)]]
    BY <1>1, <1>2, <2>2, Zenon DEF ListedSoFar
  <2>4. ListedSoFar(order, top, k + 1, l)
    BY <1>1, <2>3, Zenon DEF ListedSoFar
  <2> QED
    BY <2>1, <2>4, Zenon
<1>3. CASE ~(Len(l.rows) >= top \/ v \in l.seen \/ NextLink(v))
  <2>1. m = [rows |-> Append(l.rows, v), seen |-> l.seen \cup Range(DomChain(v, 8))]
    BY <1>3, Zenon DEF ListRow
  <2>2. m.rows = Append(l.rows, v) /\ m.seen = l.seen \cup Range(DomChain(v, 8))
    BY <2>1
  <2>3. m.rows \in Seq(Node) /\ Len(m.rows) <= top
    BY <1>1, <1>3, <2>2 DEF ListedSoFar
  <2>4. Range(m.rows) = Range(l.rows) \cup {v}
    <3>1. l.rows \in Seq(Node)
      BY Zenon DEF ListedSoFar
    <3>2. DOMAIN l.rows = 1..Len(l.rows) /\ DOMAIN m.rows = 1..(Len(l.rows) + 1)
      BY <1>1, <2>2, <3>1
    <3>3. \A j \in 1..Len(l.rows) : m.rows[j] = l.rows[j]
      BY <1>1, <2>2, <3>1
    <3>4. m.rows[Len(l.rows) + 1] = v
      BY <1>1, <2>2, <3>1
    <3>5. \A j : j \in 1..(Len(l.rows) + 1) <=> j \in 1..Len(l.rows) \/ j = Len(l.rows) + 1
      BY <3>1
    <3> HIDE DEF m, v
    <3> QED
      BY <3>2, <3>3, <3>4, <3>5, Zenon DEF Range
  <2>5. Named(m.rows) = Named(l.rows) \cup {v} \cup Range(DomChain(v, 8))
    BY <2>4, Zenon DEF Named
  <2>6. \A x \in Range(m.rows) : \E q \in 1..(k + 1) : x = order[q]
    BY <1>1, <2>4, Zenon DEF ListedSoFar
  <2>7. m.seen \subseteq Named(m.rows)
    BY <2>2, <2>5, Zenon DEF ListedSoFar
  <2>8. Len(l.rows) # top
    BY <1>3 DEF ListedSoFar
  <2>9. \A p \in 1..(k + 1) : order[p] \in Named(m.rows) \/ NextLink(order[p])
    BY <1>1, <2>5, <2>8, Zenon DEF ListedSoFar
  <2>10. ListedSoFar(order, top, k + 1, m)
    BY <2>3, <2>6, <2>7, <2>9, Zenon DEF ListedSoFar
  <2> QED
    BY <2>10, Zenon
<1> QED
  BY <1>2, <1>3, Zenon

\* The whole loop.
LEMMA ListedAccounts ==
  ASSUME NEW n \in Nat, NEW order \in [1..n -> Node], Sorted(order), NEW top \in Nat \ {0}
  PROVE  /\ Listed(order, top) \in Seq(Node)
         /\ \A p \in 1..n :
              \/ order[p] \in Named(Listed(order, top))
              \/ NextLink(order[p])
              \/ /\ Len(Listed(order, top)) = top
                 /\ retained[order[p]] <= retained[Listed(order, top)[Len(Listed(order, top))]]
<1>1. Len(order) = n
  OBVIOUS
<1>2. PICK h : Lists(order, top, n, h) /\ Listed(order, top) = h[n].rows
  BY <1>1, ListedLists, Zenon
<1> DEFINE Good(k) == ListedSoFar(order, top, k, h[k])
           K == {k \in 0..n : ~Good(k)}
<1>3. \A k \in 0..n : Good(k)
  <2> SUFFICES ASSUME K # {} PROVE FALSE
    BY Zenon
  <2>1. PICK m \in K : \A k \in K : m <= k
    <3>1. K \in SUBSET Nat
      OBVIOUS
    <3> HIDE DEF K
    <3> QED
      BY <3>1, LeastNumber, Zenon
  <2>2. Good(0)
    <3>1. 0 \in 0..n
      OBVIOUS
    <3>2. h[0] = NoRows
      BY <1>2, <3>1, Zenon DEF Lists
    <3>3. NoRows.rows = <<>> /\ NoRows.seen = {}
      BY DEF NoRows
    <3>4. <<>> \in Seq(Node) /\ Len(<<>>) <= top /\ Range(<<>>) = {} /\ 1..0 = {}
      BY DEF Range
    <3>5. ListedSoFar(order, top, 0, NoRows)
      BY <3>3, <3>4, Zenon DEF ListedSoFar
    <3> QED
      BY <3>2, <3>3, <3>5, Zenon DEF NoRows
  <2>3. m \in 0..n /\ m - 1 \in 0..(n - 1) /\ m - 1 \in 0..n /\ ~(m <= m - 1) /\ (m - 1) + 1 = m
    <3>1. m # 0
      BY <2>1, <2>2, Zenon
    <3> QED
      BY <2>1, <3>1
  <2>4. Good(m - 1)
    BY <2>1, <2>3, Zenon
  <2>5. h[m] = ListRow(h[m - 1], order[m], top)
    <3>1. m # 0
      BY <2>3
    <3> QED
      BY <1>2, <2>3, <3>1, Zenon DEF Lists
  <2>6. ListedSoFar(order, top, (m - 1) + 1, ListRow(h[m - 1], order[(m - 1) + 1], top))
    BY <2>3, <2>4, ListRowAccounts, Zenon
  <2>7. Good(m)
    BY <2>3, <2>5, <2>6, Zenon
  <2> QED
    BY <2>1, <2>7, Zenon
<1>4. n \in 0..n
  OBVIOUS
<1> QED
  BY <1>2, <1>3, <1>4, Zenon DEF ListedSoFar

\* The dominator of v is an object that retains less than 2% more.
Near(v) == idom[v] \in Node /\ 50 * retained[idom[v]] < 51 * retained[v]

\* The recursion of hidden, up the chain of near dominators, is well defined.
HidesIn(named, h) == h = [v \in Node |-> v \notin named /\ (Near(v) => h[idom[v]])]

\* Such a function exists: v is hidden if nothing on its chain is named.
LEMMA HiddenExists ==
  ASSUME NEW named
  PROVE  \E h : HidesIn(named, h)
<1> DEFINE Closed(v, S) == v \in S /\ \A x \in S : Near(x) => idom[x] \in S
           C(v) == {u \in Node : \A S \in SUBSET Node : Closed(v, S) => u \in S}
           h == [v \in Node |-> \A u \in C(v) : u \notin named]
<1>1. ASSUME NEW v \in Node
      PROVE  \A u : u \in C(v) <=> u = v \/ (Near(v) /\ u \in C(idom[v]))
  <2>1. v \in C(v)
    BY Zenon
  <2>2. ASSUME Near(v) PROVE C(idom[v]) \subseteq C(v)
    BY <2>2, Zenon
  <2> DEFINE T == {u \in Node : u = v \/ (Near(v) /\ u \in C(idom[v]))}
  <2>3. Closed(v, T)
    <3> SUFFICES ASSUME NEW x \in T, Near(x) PROVE idom[x] \in T
      BY Zenon
    <3>1. idom[x] \in Node
      BY Zenon DEF Near
    <3>2. CASE x = v
      BY <3>1, <3>2, Zenon
    <3>3. CASE x # v
      <4>1. Near(v) /\ x \in C(idom[v])
        BY <3>3, Zenon
      <4>2. idom[x] \in C(idom[v])
        BY <3>1, <4>1, Zenon
      <4> QED
        BY <3>1, <4>1, <4>2, Zenon
    <3> QED
      BY <3>2, <3>3, Zenon
  <2>4. \A u \in C(v) : u \in T
    BY <2>3, Zenon
  <2> QED
    BY <2>1, <2>2, <2>4, Zenon
<1>2. ASSUME NEW v \in Node
      PROVE  h[v] = (v \notin named /\ (Near(v) => h[idom[v]]))
  <2>1. h[v] <=> \A u \in C(v) : u \notin named
    BY Zenon
  <2>2. Near(v) => (h[idom[v]] <=> \A u \in C(idom[v]) : u \notin named)
    BY Zenon DEF Near
  <2> HIDE DEF C
  <2>3. h[v] \in BOOLEAN
    BY Zenon
  <2> HIDE DEF h
  <2>4. h[v] <=> (v \notin named /\ (Near(v) => h[idom[v]]))
    BY <1>1, <2>1, <2>2, Zenon
  <2> QED
    BY <2>3, <2>4, Zenon
<1>3. h = [v \in Node |-> h[v]]
  BY Zenon
<1> HIDE DEF h
<1>4. HidesIn(named, h)
  BY <1>2, <1>3, Zenon DEF HidesIn
<1> QED
  BY <1>4, Zenon

\* An order of cmdRetained has every object of at least min bytes, and the
\* larger ones first.
LEMMA OrderIsSorted ==
  ASSUME NEW min \in Nat, NEW order \in Orders(min), \A v \in Node : retained[v] \in Nat
  PROVE  /\ \E n \in Nat : order \in [1..n -> Node]
         /\ Sorted(order)
         /\ Range(order) = {v \in Node : retained[v] >= min}
<1> DEFINE S == {v \in Node : retained[v] >= min}
           n == Cardinality(S)
<1>1. IsFiniteSet(S) /\ n \in Nat
  <2>1. S \in SUBSET (0..(N - 1)) /\ 0 \in Int /\ N - 1 \in Int
    BY GraphAssumption DEF Node
  <2>2. IsFiniteSet(0..(N - 1))
    BY <2>1, FS_Interval, Zenon
  <2>3. IsFiniteSet(S)
    BY <2>1, <2>2, FS_Subset, Zenon
  <2> QED
    BY <2>3, FS_CardinalityType, Zenon
<1>2. /\ order \in Injection(1..n, S) /\ order \in [1..n -> S]
      /\ \A k \in 1..(Len(order) - 1) : retained[order[k]] >= retained[order[k + 1]]
  BY Zenon DEF Orders, Injection
<1>3. Range(order) = S
  <2>1. Cardinality(1..n) = n
    BY <1>1, FS_Interval
  <2>2. order \in Surjection(1..n, S)
    <3>1. Cardinality(1..n) = Cardinality(S)
      BY <2>1
    <3>2. \A f \in Injection(1..n, S) :
            Cardinality(1..n) = Cardinality(S) => f \in Surjection(1..n, S)
      <4> HIDE DEF n
      <4> QED
        BY <1>1, FS_Injection, Zenon
    <3> QED
      BY <1>2, <3>1, <3>2, Zenon
  <2>3. /\ DOMAIN order = 1..n /\ \A p \in 1..n : order[p] \in S
        /\ \A x \in S : \E p \in 1..n : order[p] = x
    BY <1>2, <2>2, Zenon DEF Surjection
  <2> HIDE DEF n, S
  <2> QED
    BY <2>3, Zenon DEF Range
<1> HIDE DEF n
<1>4. order \in [1..n -> Node] /\ Len(order) = n /\ DOMAIN order = 1..n
  BY <1>1, <1>2
<1>5. ASSUME NEW p \in 1..n, NEW q \in 1..n, p <= q
      PROVE  retained[order[p]] >= retained[order[q]]
  <2> DEFINE K == {k \in p..n : ~(retained[order[p]] >= retained[order[k]])}
  <2> SUFFICES ASSUME K # {} PROVE FALSE
    <3>1. q \in p..n
      BY <1>1, <1>5
    <3> QED
      BY <3>1, Zenon
  <2>1. PICK m \in K : \A k \in K : m <= k
    <3>1. K \in SUBSET Nat
      BY <1>1
    <3> HIDE DEF K
    <3> QED
      BY <3>1, LeastNumber, Zenon
  <2>2. \A k \in 1..n : retained[order[k]] \in Nat
    BY <1>4, Zenon
  <2>3. m \in p..n /\ m # p /\ m \in 1..n
    BY <1>1, <2>1, <2>2
  <2>4. m - 1 \in p..n /\ m - 1 \in 1..n /\ ~(m <= m - 1) /\ m - 1 \in 1..(Len(order) - 1)
        /\ (m - 1) + 1 = m
    BY <1>1, <1>4, <2>3
  <2>5. retained[order[p]] >= retained[order[m - 1]]
    BY <2>1, <2>4, Zenon
  <2>6. retained[order[m - 1]] >= retained[order[m]]
    BY <1>2, <2>4, Zenon
  <2>7. ~(retained[order[p]] >= retained[order[m]])
    BY <2>1, Zenon
  <2> QED
    BY <2>2, <2>3, <2>4, <2>5, <2>6, <2>7
<1> QED
  BY <1>1, <1>3, <1>4, <1>5, Zenon DEF Sorted

\* What the listing relies on: an object with a dominator other than the virtual
\* root retains no more than it, and the dominator has a lower number.
SizesOrdered ==
  /\ \A v \in Node : retained[v] \in Nat
  /\ \A v \in Node : idom[v] >= 0 /\ idom[v] # Root =>
       /\ idom[v] \in Node /\ retained[v] <= retained[idom[v]]
       /\ dfn[v] \in Nat /\ dfn[idom[v]] \in Nat /\ dfn[idom[v]] < dfn[v]

\* It holds of the result of Dominators.
LEMMA ResultSizesOrdered ==
  ASSUME WalkResult, LoopInv, SizesInv, pc = "done"
  PROVE  SizesOrdered
<1>1. DonePhase(idom) /\ IdomType(idom) /\ RetainPhase(idom, retained, 0)
  BY DEF LoopInv, SizesInv
<1>2. Node \subseteq Vertices /\ Root \notin Node /\ \A v \in Vertices : v # Root => v \in Node
  BY GraphAssumption DEF Vertices, Node, Root
<1>3. \A v \in Node : retained[v] \in Nat
  BY <1>1, <1>2, Zenon DEF RetainPhase
<1>4. ASSUME NEW v \in Node, idom[v] >= 0, idom[v] # Root
      PROVE  /\ idom[v] \in Node /\ retained[v] <= retained[idom[v]]
             /\ dfn[v] \in Nat /\ dfn[idom[v]] \in Nat /\ dfn[idom[v]] < dfn[v]
  <2>1. v \in Live \ {Root}
    <3>1. idom[v] # -1 /\ v \in Vertices /\ v # Root
      BY <1>2, <1>4
    <3>2. ~(dfn[v] < 0) /\ dfn[v] \in Int
      BY <1>1, <3>1, Zenon DEF IdomType, WalkResult
    <3>3. dfn[v] >= 0
      BY <3>2
    <3> QED
      BY <3>1, <3>3, Zenon DEF WalkResult
  <2>2. idom[v] \in Strict(v)
    BY <1>1, <2>1, Zenon DEF DonePhase, Immediate
  <2>3. idom[v] \in Live /\ dfn[idom[v]] < dfn[v] /\ dfn[idom[v]] \in Nat /\ dfn[v] \in Nat
    BY <2>1, <2>2, StrictIsLower, Zenon
  <2>4. idom[v] \in Vertices /\ v \in Vertices /\ idom[v] \in Node
    BY <1>2, <1>4, <2>1, <2>3, Zenon DEF WalkResult
  <2>5. Dominated(v) \subseteq Dominated(idom[v])
    <3> SUFFICES ASSUME NEW x \in Dominated(v) PROVE x \in Dominated(idom[v])
      BY Zenon
    <3>1. v \notin ReachedWithout(idom[v]) /\ x \in Live /\ x \notin ReachedWithout(v)
      BY <2>2, Zenon DEF Strict, Dominated
    <3>2. x \notin ReachedWithout(idom[v])
      BY <2>1, <3>1, DominanceTransitive, Zenon
    <3> QED
      BY <3>1, <3>2, Zenon DEF Dominated
  <2>6. \A d \in Live : retained[d] = Bytes(Dominated(d))
    <3> SUFFICES ASSUME NEW d \in Live PROVE retained[d] = Bytes(Dominated(d))
      BY Zenon
    <3>1. d \in Vertices /\ 0 \in Nat /\ 0 <= dfn[d]
      BY DEF WalkResult
    <3>2. Folded(idom, d, 0) = Dominated(d)
      BY <1>1, <3>1, FoldedIsDominated, Zenon
    <3> QED
      BY <1>1, <3>1, <3>2, Zenon DEF RetainPhase
  <2> DEFINE more == Dominated(idom[v]) \ Dominated(v)
  <2>7. Dominated(idom[v]) = Dominated(v) \cup more /\ Dominated(v) \cap more = {}
    BY <2>5, Zenon
  <2>8. /\ Bytes(Dominated(idom[v])) = Bytes(Dominated(v)) + Bytes(more)
        /\ Bytes(more) \in Nat /\ Bytes(Dominated(v)) \in Nat
    BY <2>7, BytesOfUnion, BytesNat, Zenon
  <2>9. retained[v] = Bytes(Dominated(v)) /\ retained[idom[v]] = Bytes(Dominated(idom[v]))
    BY <2>1, <2>3, <2>6, Zenon
  <2>10. retained[v] <= retained[idom[v]]
    <3> HIDE DEF more
    <3> QED
      BY <2>8, <2>9
  <2> QED
    BY <2>3, <2>4, <2>10, Zenon
<1> QED
  BY <1>3, <1>4, Zenon DEF SizesOrdered

CameTooLate(order, top, h) ==
  \A v \in Range(order) : h[v] =>
    /\ Len(Listed(order, top)) = top
    /\ retained[v] <= retained[Listed(order, top)[Len(Listed(order, top))]]

\* A hidden object came too late: its chain of near dominators ends in an object
\* that did, and that is no smaller.
LEMMA HiddenCameTooLate ==
  ASSUME SizesOrdered, NEW min \in Nat, NEW top \in Nat \ {0}, NEW order \in Orders(min),
         NEW h, HidesIn(Named(Listed(order, top)), h)
  PROVE  CameTooLate(order, top, h)
<1> DEFINE rows == Listed(order, top)
           S == {x \in Node : retained[x] >= min}
           Late(x) == Len(rows) = top /\ retained[x] <= retained[rows[Len(rows)]]
           Bad == {x \in S : h[x] /\ ~Late(x)}
<1>1. PICK n \in Nat : order \in [1..n -> Node]
  BY OrderIsSorted, Zenon DEF SizesOrdered
<1>2. Sorted(order) /\ Range(order) = S
  BY OrderIsSorted, Zenon DEF SizesOrdered
<1>3. \A p \in 1..n : order[p] \in Named(rows) \/ NextLink(order[p]) \/ Late(order[p])
  BY <1>1, <1>2, ListedAccounts, Zenon
<1>4. \A x \in S : \E p \in 1..n : x = order[p]
  BY <1>1, <1>2, Zenon DEF Range
<1>5. \A x \in S : h[x] => x \notin Named(rows) /\ (Near(x) => h[idom[x]])
  BY Zenon DEF HidesIn
<1>6. ASSUME NEW x \in Bad
      PROVE  idom[x] \in Bad /\ dfn[x] \in Nat /\ dfn[idom[x]] \in Nat /\ dfn[idom[x]] < dfn[x]
  <2>1. NextLink(x) /\ x \in Node /\ retained[x] >= min
    BY <1>3, <1>4, <1>5, <1>6, Zenon
  <2>2. /\ idom[x] \in Node /\ retained[x] <= retained[idom[x]]
        /\ dfn[x] \in Nat /\ dfn[idom[x]] \in Nat /\ dfn[idom[x]] < dfn[x]
        /\ retained[x] \in Nat /\ retained[idom[x]] \in Nat
        /\ 50 * (retained[idom[x]] - retained[x]) < retained[x]
    BY <2>1, Zenon DEF NextLink, SizesOrdered
  <2>3. 50 * retained[idom[x]] < 51 * retained[x] /\ retained[idom[x]] >= min
    BY <2>1, <2>2
  <2>4. h[idom[x]] /\ idom[x] \in S
    BY <1>5, <1>6, <2>2, <2>3, Zenon DEF Near
  <2>5. ~Late(idom[x])
    <3> SUFFICES ASSUME Late(idom[x]) PROVE FALSE
      BY Zenon
    <3>1. rows[Len(rows)] \in Node
      <4>1. rows \in Seq(Node)
        BY <1>1, <1>2, ListedAccounts, Zenon
      <4> HIDE DEF rows
      <4> QED
        BY <4>1
    <3>2. retained[rows[Len(rows)]] \in Nat
      BY <3>1, Zenon DEF SizesOrdered
    <3>3. retained[x] <= retained[rows[Len(rows)]]
      <4> HIDE DEF rows
      <4> QED
        BY <2>2, <3>2
    <3> QED
      BY <1>6, <3>3, Zenon
  <2> QED
    BY <2>2, <2>4, <2>5, Zenon
<1>7. Bad = {}
  <2> SUFFICES ASSUME Bad # {} PROVE FALSE
    BY Zenon
  <2> DEFINE K == {dfn[x] : x \in Bad}
  <2> HIDE DEF Bad
  <2>1. PICK m \in K : \A k \in K : m <= k
    <3>1. K \in SUBSET Nat /\ K # {}
      BY <1>6, Zenon
    <3> HIDE DEF K
    <3> QED
      BY <3>1, LeastNumber, Zenon
  <2>2. PICK x \in Bad : m = dfn[x]
    BY <2>1, Zenon
  <2>3. dfn[x] <= dfn[idom[x]] /\ dfn[x] \in Nat /\ dfn[idom[x]] \in Nat /\ dfn[idom[x]] < dfn[x]
    BY <1>6, <2>1, <2>2, Zenon
  <2> QED
    BY <2>3
<1> QED
  BY <1>2, <1>7, Zenon DEF CameTooLate

\* After every run of Dominators the listing of cmdRetained hides nothing large.
THEOREM LargestObjectsAreListed == Spec => []LargestAreListed
<1>1. ASSUME WalkInv, LoopInv, SizesInv
      PROVE  LargestAreListed
  <2> DEFINE hidden(order, top) == CHOOSE h : HidesIn(Named(Listed(order, top)), h)
  <2> SUFFICES ASSUME pc = "done"
               PROVE  \A min \in {0, 100}, top \in {1, N} : \A order \in Orders(min) :
                        CameTooLate(order, top, hidden(order, top))
    BY Zenon DEF LargestAreListed, CameTooLate, HidesIn, Near, Named
  <2>1. WalkResult
    BY <1>1, WalkGivesResult, Zenon DEF WalkInv
  <2>2. SizesOrdered
    BY <1>1, <2>1, ResultSizesOrdered, Zenon
  <2>3. ASSUME NEW min \in Nat, NEW top \in Nat \ {0}, NEW order \in Orders(min)
        PROVE  CameTooLate(order, top, hidden(order, top))
    <3>1. PICK h : h = hidden(order, top) /\ HidesIn(Named(Listed(order, top)), h)
      BY HiddenExists, Zenon
    <3> HIDE DEF hidden
    <3>2. CameTooLate(order, top, h)
      BY <2>2, <3>1, HiddenCameTooLate, Zenon
    <3> QED
      BY <3>1, <3>2, Zenon
  <2>4. ASSUME NEW min \in Nat, NEW order \in Orders(min), N = 0
        PROVE  CameTooLate(order, N, hidden(order, N))
    <3>1. Range(order) = {x \in Node : retained[x] >= min}
      BY <2>2, OrderIsSorted, Zenon DEF SizesOrdered
    <3>2. Node = {}
      BY <2>4 DEF Node
    <3> QED
      BY <3>1, <3>2, Zenon DEF CameTooLate
  <2> HIDE DEF hidden
  <2>5. ASSUME NEW min \in Nat, NEW order \in Orders(min)
        PROVE  CameTooLate(order, 1, hidden(order, 1)) /\ CameTooLate(order, N, hidden(order, N))
    <3>1. 1 \in Nat \ {0} /\ (N # 0 => N \in Nat \ {0})
      BY GraphAssumption
    <3>2. \A top \in Nat \ {0} : CameTooLate(order, top, hidden(order, top))
      BY <2>3, Zenon
    <3> QED
      BY <2>4, <3>1, <3>2, Zenon
  <2>6. \A min \in {0, 100} : min \in Nat
    OBVIOUS
  <2>7. \A min \in {0, 100} : \A order \in Orders(min) :
          CameTooLate(order, 1, hidden(order, 1)) /\ CameTooLate(order, N, hidden(order, N))
    BY <2>5, <2>6, Zenon
  <2> QED
    <3> SUFFICES ASSUME NEW min \in {0, 100}, NEW top \in {1, N}, NEW order \in Orders(min)
                 PROVE  CameTooLate(order, top, hidden(order, top))
      BY Zenon
    <3>1. CASE top = 1
      BY <2>7, <3>1
    <3>2. CASE top = N
      BY <2>7, <3>2
    <3> QED
      BY <3>1, <3>2, Zenon
<1> QED
  BY <1>1, SizesInvariant, PTL

=============================================================================

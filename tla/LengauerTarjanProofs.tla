------------------------ MODULE LengauerTarjanProofs ------------------------
(***************************************************************************)
(* Dominators (dom.go) computes the semidominators, the immediate          *)
(* dominators and the retained sizes of every object graph.  LoopInv says, *)
(* phase by phase, how far it has got, and SizesInv how far the sizes are  *)
(* folded up the dominator tree.                                           *)
(***************************************************************************)
EXTENDS ForestProofs

WalkPhase(f, bkt, left, idm) ==
  /\ idm = Nowhere
  /\ f = [semi |-> [v \in Vertices |-> 0], label |-> [v \in Vertices |-> v], ancestor |-> Nowhere]
  /\ bkt = [v \in Vertices |-> <<>>] /\ left = <<>>

SemiPhase(f, refs, bkt, left, idm, j) ==
  /\ j \in 0..(Len(vertex) - 1)
  /\ ForestOK(f, j + 1)
  /\ SemisOK(f, j + 1, Numbered(j))
  /\ j >= 1 => refs \subseteq Referrers(Numbered(j)) /\ ScanOK(f, Numbered(j), refs)
  /\ BucketsOK(bkt, j + 1) /\ left = <<>> /\ Accounted(bkt, left, idm, j + 1)

SettlePhase(f, bkt, left, idm, j) ==
  /\ j \in 1..(Len(vertex) - 1)
  /\ ForestOK(f, j)
  /\ SemisOK(f, j, -1)
  /\ BucketsOK(bkt, j) /\ SettlingOK(left, j) /\ Accounted(bkt, left, idm, j)

IdomPhase(f, idm, j) ==
  /\ j \in 1..Len(vertex)
  /\ \A v \in Live \ {Root} :
       /\ SemiIs(v, f.semi[v])
       /\ IF dfn[v] < j THEN Immediate(idm[v], v) ELSE Preliminary(v, idm[v])

LoopInv ==
  /\ IdomType(idom)
  /\ pc \in {"walk", "semi", "settle", "idom", "retain", "done"}
  /\ pc = "walk" => WalkPhase(forest, bucket, settling, idom)
  /\ pc = "semi" => SemiPhase(forest, referrers, bucket, settling, idom, i)
  /\ pc = "settle" => SettlePhase(forest, bucket, settling, idom, i)
  /\ pc = "idom" => IdomPhase(forest, idom, i)
  /\ pc \in {"retain", "done"} => DonePhase(idom)

-----------------------------------------------------------------------------
(* The invariant holds.                                                    *)

\* The graph and the tree do not change after the walk, and neither do the
\* notions that depend on them only.
LEMMA SamePhases ==
  ASSUME UNCHANGED <<g, dfn, parent, vertex>>
  PROVE  /\ \A idm : IdomType(idm)' <=> IdomType(idm)
         /\ \A f, refs, bkt, left, idm, j :
              SemiPhase(f, refs, bkt, left, idm, j)' <=> SemiPhase(f, refs, bkt, left, idm, j)
         /\ \A f, bkt, left, idm, j :
              SettlePhase(f, bkt, left, idm, j)' <=> SettlePhase(f, bkt, left, idm, j)
         /\ \A f, idm, j : IdomPhase(f, idm, j)' <=> IdomPhase(f, idm, j)
         /\ \A idm : DonePhase(idm)' <=> DonePhase(idm)
<1>1. Live' = Live /\ \A d : ReachedWithout(d)' = ReachedWithout(d)
  BY Zenon DEF Live, ReachedWithout, succ
<1>2. \A v : Anc(v)' = Anc(v)
  BY Zenon DEF Anc
<1>3. \A w : High(w)' = High(w)
  BY <1>1 DEF High, HighPredecessors, succ
<1>4. \A w, m : SemiIs(w, m)' <=> SemiIs(w, m)
  BY <1>3, Zenon DEF SemiIs
<1>5. \A v : succ(v)' = succ(v) /\ Numbered(v)' = Numbered(v) /\ Referrers(v)' = Referrers(v)
  BY Zenon DEF succ, Numbered, Referrers
<1>6. \A f, v : Between(f, v)' = Between(f, v)
  BY <1>2, Zenon DEF Between
<1>7. \A f, k : ForestOK(f, k)' <=> ForestOK(f, k)
  BY <1>1, <1>2, <1>6 DEF ForestOK
<1>8. \A f, k, w : SemisOK(f, k, w)' <=> SemisOK(f, k, w)
  BY <1>1, <1>4, Zenon DEF SemisOK
<1>9. \A f, w, left : ScanOK(f, w, left)' <=> ScanOK(f, w, left)
  BY <1>1, <1>2, <1>3, <1>5 DEF ScanOK
<1>10. \A v, b, k : Waiting(v, b, k)' <=> Waiting(v, b, k)
  BY <1>1, <1>2, <1>4, ZenonT(30) DEF Waiting
<1>11. \A bkt, k : BucketsOK(bkt, k)' <=> BucketsOK(bkt, k)
  BY <1>10, Zenon DEF BucketsOK
<1>12. \A left, j : SettlingOK(left, j)' <=> SettlingOK(left, j)
  BY <1>1, <1>2, <1>4, <1>5, Zenon DEF SettlingOK
<1>13. \A v, d : Preliminary(v, d)' <=> Preliminary(v, d)
  BY <1>1, <1>2, <1>3, <1>4, SMTT(30) DEF Preliminary
<1>14. \A bkt, left, idm, k : Accounted(bkt, left, idm, k)' <=> Accounted(bkt, left, idm, k)
  BY <1>1, <1>13, Zenon DEF Accounted
<1>15. \A v : Strict(v)' = Strict(v)
  BY <1>1, Zenon DEF Strict
<1>16. \A d, v : Immediate(d, v)' <=> Immediate(d, v)
  BY <1>15, Zenon DEF Immediate
<1>17. \A idm : IdomType(idm)' <=> IdomType(idm)
  BY Zenon DEF IdomType
<1>18. \A f, refs, bkt, left, idm, j :
         SemiPhase(f, refs, bkt, left, idm, j)' <=> SemiPhase(f, refs, bkt, left, idm, j)
  BY <1>5, <1>7, <1>8, <1>9, <1>11, <1>14, SMTT(30) DEF SemiPhase
<1>19. \A f, bkt, left, idm, j :
         SettlePhase(f, bkt, left, idm, j)' <=> SettlePhase(f, bkt, left, idm, j)
  BY <1>7, <1>8, <1>11, <1>12, <1>14, ZenonT(30) DEF SettlePhase
<1>20. \A f, idm, j : IdomPhase(f, idm, j)' <=> IdomPhase(f, idm, j)
  BY <1>1, <1>4, <1>13, <1>16, ZenonT(30) DEF IdomPhase
<1>21. \A idm : DonePhase(idm)' <=> DonePhase(idm)
  BY <1>1, <1>16, Zenon DEF DonePhase
<1> QED
  BY <1>17, <1>18, <1>19, <1>20, <1>21, ZenonT(30)

\* The next referrer scanned is one of those left.
LEMMA MinIsMember ==
  ASSUME NEW S \in SUBSET Node, S # {}
  PROVE  Min(S) \in S
<1>1. S \in SUBSET Nat
  BY GraphAssumption DEF Node
<1>2. \E m \in S : \A k \in S : m <= k
  BY <1>1, LeastNumber, Zenon
<1> QED
  BY <1>2, Zenon DEF Min

\* Nothing is linked at the start.
LEMMA InitLoopInv ==
  ASSUME Init
  PROVE  LoopInv
<1>1. WalkPhase(forest, bucket, settling, idom) /\ pc = "walk"
  BY Zenon DEF Init, WalkPhase
<1>2. IdomType(idom)
  BY Zenon DEF Init, IdomType, Nowhere
<1> QED
  BY <1>1, <1>2, Zenon DEF LoopInv

\* The walk leaves the slices of the loops alone.
LEMMA WalkStepLoopInv ==
  ASSUME LoopInv, (\E w \in Node : Visit(w)) \/ Backtrack
  PROVE  LoopInv'
<1>1. pc = "walk" /\ pc' = "walk" /\ UNCHANGED <<forest, bucket, settling, idom>>
  BY Zenon DEF Visit, Backtrack, treeVars
<1>2. WalkPhase(forest, bucket, settling, idom)
  BY <1>1, Zenon DEF LoopInv
<1>3. WalkPhase(forest, bucket, settling, idom)'
  BY <1>1, <1>2, Zenon DEF WalkPhase
<1>4. idom' = Nowhere
  BY <1>1, <1>2, Zenon DEF WalkPhase
<1>5. IdomType(idom)'
  BY <1>4, Zenon DEF IdomType, Nowhere
<1> QED
  BY <1>1, <1>3, <1>5, Zenon DEF LoopInv

\* Before the first node is scanned nothing is linked.
LEMMA WalkedLoopInv ==
  ASSUME WalkResult, WalkNumbers, LoopInv, Walked
  PROVE  LoopInv'
<1>1. /\ pc = "walk" /\ pc' = "semi" /\ i' = Len(vertex) - 1
      /\ forest' = [forest EXCEPT !.semi = [v \in Vertices |-> IF Reachable(v) THEN dfn[v] ELSE 0]]
      /\ referrers' = (IF i' >= 1 THEN Referrers(Numbered(i')) ELSE {})
      /\ UNCHANGED <<g, dfn, parent, vertex, bucket, settling, idom>>
  BY Zenon DEF Walked, walkVars
<1>2. WalkPhase(forest, bucket, settling, idom) /\ IdomType(idom)
  BY <1>1, Zenon DEF LoopInv
<1>3. PICK f, j : f = forest' /\ j = i'
  BY Zenon
<1>4. /\ f = [semi |-> [v \in Vertices |-> IF Reachable(v) THEN dfn[v] ELSE 0],
              label |-> [v \in Vertices |-> v], ancestor |-> Nowhere]
  BY <1>1, <1>2, <1>3, Zenon DEF WalkPhase
<1>5. /\ j \in Nat /\ j \in 0..(Len(vertex) - 1) /\ j + 1 = Len(vertex)
      /\ Live = {v \in Vertices : dfn[v] >= 0} /\ dfn \in [Vertices -> Int]
      /\ \A v \in Live : dfn[v] \in Nat /\ dfn[v] < j + 1
      /\ Numbered(j) \in Live
  <2>1. Len(vertex) \in Nat \ {0} /\ j = Len(vertex) - 1
    BY <1>1, <1>3, Zenon DEF WalkNumbers
  <2>2. j \in Nat /\ j \in 0..(Len(vertex) - 1) /\ j + 1 = Len(vertex)
    BY <2>1
  <2>3. Live = {v \in Vertices : dfn[v] >= 0} /\ dfn \in [Vertices -> Int]
    BY Zenon DEF WalkResult
  <2>4. Numbered(j) \in Live /\ \A v \in Live : dfn[v] \in 0..(Len(vertex) - 1)
    BY <2>2, Zenon DEF WalkNumbers
  <2>5. \A k \in 0..(Len(vertex) - 1) : k \in Nat /\ k < j + 1
    BY <2>1
  <2> QED
    BY <2>2, <2>3, <2>4, <2>5, Zenon
<1>6. /\ f.semi \in [Vertices -> Nat] /\ \A v \in Live : f.semi[v] = dfn[v]
      /\ f.label \in [Vertices -> Vertices] /\ \A v \in Vertices : f.label[v] = v
      /\ f.ancestor \in [Vertices -> Vertices \cup {-1}] /\ \A v \in Vertices : f.ancestor[v] = -1
  BY <1>4, <1>5, Zenon DEF Reachable, Nowhere
<1>7. ForestOK(f, j + 1)
  <2>1. f \in ForestType
    BY <1>4, <1>6, Zenon DEF ForestType
  <2>2. \A v \in Live : ~(dfn[v] >= j + 1)
    BY <1>5
  <2> QED
    BY <1>6, <2>1, <2>2, Zenon DEF ForestOK
<1>8. SemisOK(f, j + 1, Numbered(j))
  BY <1>5, <1>6 DEF SemisOK
<1>9. ASSUME j >= 1
      PROVE  referrers' \subseteq Referrers(Numbered(j)) /\ ScanOK(f, Numbered(j), referrers')
  <2>1. referrers' = Referrers(Numbered(j))
    BY <1>1, <1>3, <1>9, Zenon
  <2>2. ASSUME NEW z \in Live \ {Root}, Numbered(j) \in succ(z)
        PROVE  z \in Referrers(Numbered(j))
    BY <1>5, <2>2, GraphAssumption, SMTT(30) DEF Referrers, succ, Root, Vertices, Node
  <2> QED
    BY <1>5, <1>6, <2>1, <2>2, SMTT(30) DEF ScanOK
<1>10. bucket' = [v \in Vertices |-> <<>>] /\ settling' = <<>>
  BY <1>1, <1>2, Zenon DEF WalkPhase
<1>11. BucketsOK(bucket', j + 1) /\ Accounted(bucket', settling', idom', j + 1)
  <2>1. \A b \in Vertices : bucket'[b] = <<>> /\ Range(bucket'[b]) = {}
    BY <1>10, RangeOfEmpty, Zenon
  <2>2. bucket' \in [Vertices -> Seq(Vertices)]
    BY <1>10
  <2>3. \A v \in Live : ~(dfn[v] >= j + 1)
    BY <1>5
  <2> QED
    BY <2>1, <2>2, <2>3, Zenon DEF BucketsOK, Accounted
<1>12. SemiPhase(forest', referrers', bucket', settling', idom', i')
  BY <1>3, <1>5, <1>7, <1>8, <1>9, <1>10, <1>11, ZenonT(30) DEF SemiPhase
<1>13. IdomType(idom')
  BY <1>1, <1>2, Zenon
<1> QED
  BY <1>1, <1>12, <1>13, SamePhases, Zenon DEF LoopInv

\* Scan: see ScanReferrer; a referrer that is garbage changes nothing.
LEMMA ScanLoopInv ==
  ASSUME WalkResult, WalkNumbers, LoopInv, Scan
  PROVE  LoopInv'
<1>1. PICK w, v, u :
        /\ w = Numbered(i) /\ v = Min(referrers) /\ u = eval(forest, v)
        /\ pc = "semi" /\ i >= 1 /\ referrers # {} /\ pc' = "semi"
        /\ forest' = (IF ~Reachable(v) THEN forest
                      ELSE [u.forest EXCEPT !.semi[w] =
                              IF u.forest.semi[u.node] < u.forest.semi[w]
                                THEN u.forest.semi[u.node] ELSE u.forest.semi[w]])
        /\ referrers' = referrers \ {v}
        /\ UNCHANGED <<g, dfn, parent, vertex, bucket, settling, idom, i>>
  BY Zenon DEF Scan, walkVars
<1>2. /\ i \in 1..(Len(vertex) - 1) /\ ForestOK(forest, i + 1) /\ SemisOK(forest, i + 1, w)
      /\ referrers \subseteq Referrers(w) /\ ScanOK(forest, w, referrers)
      /\ BucketsOK(bucket, i + 1) /\ settling = <<>> /\ Accounted(bucket, settling, idom, i + 1)
      /\ IdomType(idom) /\ i \in 0..(Len(vertex) - 1)
  <2>1. SemiPhase(forest, referrers, bucket, settling, idom, i) /\ IdomType(idom)
    BY <1>1, Zenon DEF LoopInv
  <2>2. i \in 0..(Len(vertex) - 1) /\ Len(vertex) \in Nat
    BY <2>1, Zenon DEF SemiPhase, WalkNumbers
  <2> QED
    BY <1>1, <2>1, <2>2 DEF SemiPhase
<1>3. v \in referrers /\ v \in Node /\ w \in succ(v) /\ v \in Vertices
  <2>1. referrers \in SUBSET Node
    BY <1>2, Zenon DEF Referrers
  <2>2. v \in referrers
    BY <1>1, <2>1, MinIsMember, Zenon
  <2>3. v \in Node /\ w \in g.refs[v]
    BY <1>2, <2>2, Zenon DEF Referrers
  <2>4. v # Root /\ v \in Vertices
    BY <2>3, GraphAssumption DEF Root, Node, Vertices
  <2> QED
    BY <2>2, <2>3, <2>4, Zenon DEF succ
<1>4. /\ ForestOK(forest', i + 1) /\ SemisOK(forest', i + 1, w)
      /\ ScanOK(forest', w, referrers \ {v})
  <2>1. CASE v \in Live
    <3>1. PICK m : m = IF u.forest.semi[u.node] < u.forest.semi[w]
                         THEN u.forest.semi[u.node] ELSE u.forest.semi[w]
      BY Zenon
    <3>2. forest' = [u.forest EXCEPT !.semi[w] = m]
      <4>1. Reachable(v)
        BY <2>1, ZenonT(30) DEF WalkResult, Reachable
      <4> QED
        BY <1>1, <3>1, <4>1, Zenon
    <3>3. /\ ForestOK([u.forest EXCEPT !.semi[w] = m], i + 1)
          /\ SemisOK([u.forest EXCEPT !.semi[w] = m], i + 1, w)
          /\ ScanOK([u.forest EXCEPT !.semi[w] = m], w, referrers \ {v})
      <4>1. PICK h, n : h = u.forest /\ n = u.node
        BY Zenon
      <4>2. h = eval(forest, v).forest /\ n = eval(forest, v).node
        BY <1>1, <4>1, Zenon
      <4>3. m = IF h.semi[n] < h.semi[w] THEN h.semi[n] ELSE h.semi[w]
        BY <3>1, <4>1, Zenon
      <4>4. /\ ForestOK([h EXCEPT !.semi[w] = m], i + 1)
            /\ SemisOK([h EXCEPT !.semi[w] = m], i + 1, w)
            /\ ScanOK([h EXCEPT !.semi[w] = m], w, referrers \ {v})
        BY <1>1, <1>2, <1>3, <2>1, <4>2, <4>3, ScanReferrer, ZenonT(30)
      <4> QED
        BY <4>1, <4>4, Zenon
    <3> QED
      BY <3>2, <3>3, Zenon
  <2>2. CASE v \notin Live
    <3>1. forest' = forest
      BY <1>1, <1>3, <2>2, Zenon DEF WalkResult, Reachable
    <3>2. ScanOK(forest, w, referrers \ {v})
      BY <1>2, <2>2, Zenon DEF ScanOK
    <3> QED
      BY <1>2, <3>1, <3>2, Zenon
  <2> QED
    BY <2>1, <2>2, Zenon
<1>5. SemiPhase(forest', referrers', bucket', settling', idom', i')
  <2>1. referrers' \subseteq Referrers(w)
    BY <1>1, <1>2, Zenon
  <2>2. SemiPhase(forest', referrers', bucket, settling, idom, i)
    BY <1>1, <1>2, <1>4, <2>1, Zenon DEF SemiPhase
  <2> QED
    BY <1>1, <2>2, Zenon
<1>6. IdomType(idom')
  BY <1>1, <1>2, ZenonT(30)
<1> QED
  BY <1>1, <1>5, <1>6, SamePhases, Zenon DEF LoopInv

\* Link: the scan of w is complete, so its semi is its semidominator.
LEMMA LinkLoopInv ==
  ASSUME WalkResult, WalkNumbers, LoopInv, Link
  PROVE  LoopInv'
<1>1. PICK w, p, m, filled :
        /\ w = Numbered(i) /\ p = parent[w] /\ m = FromRoot(forest, w)
        /\ filled = [bucket EXCEPT ![Numbered(m)] = <<w>> \o @]
        /\ pc = "semi" /\ i >= 1 /\ referrers = {} /\ pc' = "settle"
        /\ forest' = [forest EXCEPT !.semi[w] = m, !.ancestor[w] = p]
        /\ settling' = filled[p] /\ bucket' = [filled EXCEPT ![p] = <<>>]
        /\ UNCHANGED <<g, dfn, parent, vertex, idom, i>>
  BY Zenon DEF Link, walkVars
<1>2. /\ i \in 1..(Len(vertex) - 1) /\ ForestOK(forest, i + 1) /\ SemisOK(forest, i + 1, w)
      /\ ScanOK(forest, w, {}) /\ BucketsOK(bucket, i + 1)
      /\ Accounted(bucket, <<>>, idom, i + 1) /\ IdomType(idom)
  <2>1. SemiPhase(forest, referrers, bucket, settling, idom, i) /\ IdomType(idom)
    BY <1>1, Zenon DEF LoopInv
  <2>2. i \in 0..(Len(vertex) - 1) /\ Len(vertex) \in Nat
    BY <2>1, Zenon DEF SemiPhase, WalkNumbers
  <2> QED
    BY <1>1, <2>1, <2>2 DEF SemiPhase
<1>3. m \in Nat /\ SemiIs(w, m)
  BY <1>1, <1>2, LinkSemi, Zenon
<1>4. ForestOK(forest', i) /\ SemisOK(forest', i, -1)
  <2>1. /\ ForestOK([forest EXCEPT !.semi[w] = m, !.ancestor[w] = parent[w]], i)
        /\ SemisOK([forest EXCEPT !.semi[w] = m, !.ancestor[w] = parent[w]], i, -1)
    BY <1>1, <1>2, <1>3, LinkForest, Zenon
  <2> QED
    BY <1>1, <2>1, Zenon
<1>5. BucketsOK(bucket', i) /\ SettlingOK(settling', i) /\ Accounted(bucket', settling', idom, i)
  <2>1. /\ BucketsOK([filled EXCEPT ![parent[w]] = <<>>], i)
        /\ SettlingOK(filled[parent[w]], i)
        /\ Accounted([filled EXCEPT ![parent[w]] = <<>>], filled[parent[w]], idom, i)
    BY <1>1, <1>2, <1>3, LinkBuckets, Zenon
  <2> QED
    BY <1>1, <2>1, Zenon
<1>6. SettlePhase(forest', bucket', settling', idom', i')
  <2>1. SettlePhase(forest', bucket', settling', idom, i)
    BY <1>2, <1>4, <1>5, Zenon DEF SettlePhase
  <2> QED
    BY <1>1, <2>1, Zenon
<1>7. IdomType(idom')
  BY <1>1, <1>2, Zenon
<1> QED
  BY <1>1, <1>6, <1>7, SamePhases, SMTT(30) DEF LoopInv

\* Settle: the next node of the bucket gets its preliminary dominator.
LEMMA SettleLoopInv ==
  ASSUME WalkResult, WalkNumbers, LoopInv, Settle
  PROVE  LoopInv'
<1>1. PICK p, v, u, d :
        /\ p = parent[Numbered(i)] /\ v = Head(settling) /\ u = eval(forest, v)
        /\ d = (IF u.forest.semi[u.node] < u.forest.semi[v] THEN u.node ELSE p)
        /\ pc = "settle" /\ settling # <<>> /\ pc' = "settle"
        /\ forest' = u.forest /\ idom' = [idom EXCEPT ![v] = d]
        /\ settling' = Tail(settling)
        /\ UNCHANGED <<g, dfn, parent, vertex, bucket, i>>
  BY Zenon DEF Settle, walkVars
<1>2. /\ i \in 1..(Len(vertex) - 1) /\ ForestOK(forest, i) /\ SemisOK(forest, i, -1)
      /\ BucketsOK(bucket, i) /\ SettlingOK(settling, i)
      /\ Accounted(bucket, settling, idom, i) /\ IdomType(idom)
  BY <1>1, Zenon DEF LoopInv, SettlePhase
<1>3. /\ settling \in Seq(Vertices) /\ v \in Range(settling) /\ Tail(settling) \in Seq(Vertices)
      /\ Range(settling) = {v} \cup Range(Tail(settling))
  <2>1. settling \in Seq(Vertices)
    BY <1>2, Zenon DEF SettlingOK
  <2> QED
    BY <1>1, <2>1, RangeOfHeadTail, Zenon
<1>4. v \in Live /\ Numbered(i) \in Anc(v) /\ SemiIs(v, dfn[p])
  BY <1>1, <1>2, <1>3, Zenon DEF SettlingOK
<1>5. ForestOK(u.forest, i) /\ SemisOK(u.forest, i, -1) /\ d \in Vertices /\ Preliminary(v, d)
  BY <1>1, <1>2, <1>4, SettleNode, ZenonT(30)
<1>6. v \in Vertices /\ ~(dfn[v] < 0)
  BY <1>4 DEF WalkResult
<1>7. /\ idom' \in [Vertices -> Vertices \cup {-1}] /\ idom'[v] = d
      /\ \A x \in Vertices \ {v} : idom'[x] = idom[x]
  <2>1. idom \in [Vertices -> Vertices \cup {-1}] /\ d \in Vertices \cup {-1}
    BY <1>2, <1>5, Zenon DEF IdomType
  <2> QED
    BY <1>1, <1>6, <2>1, Zenon
<1>8. IdomType(idom')
  BY <1>2, <1>6, <1>7, Zenon DEF IdomType
<1>9. SettlingOK(settling', i)
  BY <1>1, <1>2, <1>3, Zenon DEF SettlingOK
<1>10. Accounted(bucket, settling', idom', i)
  <2> SUFFICES ASSUME NEW x \in Live \ {Root}, dfn[x] >= i
               PROVE  \/ \E b \in Vertices : x \in Range(bucket[b])
                      \/ x \in Range(settling')
                      \/ Preliminary(x, idom'[x])
    BY Zenon DEF Accounted
  <2>1. CASE x = v
    BY <1>5, <1>7, <2>1, Zenon
  <2>2. CASE x # v
    <3>1. \/ \E b \in Vertices : x \in Range(bucket[b])
          \/ x \in Range(settling)
          \/ Preliminary(x, idom[x])
      BY <1>2, Zenon DEF Accounted
    <3>2. x \in Vertices \ {v}
      BY <2>2, Zenon DEF WalkResult
    <3>3. idom'[x] = idom[x] /\ (x \in Range(settling) => x \in Range(settling'))
      BY <1>1, <1>3, <1>7, <2>2, <3>2, ZenonT(30)
    <3> QED
      BY <3>1, <3>3, Zenon
  <2> QED
    BY <2>1, <2>2, Zenon
<1>11. SettlePhase(forest', bucket', settling', idom', i')
  <2>1. SettlePhase(forest', bucket, settling', idom', i)
    BY <1>1, <1>2, <1>5, <1>9, <1>10, Zenon DEF SettlePhase
  <2> QED
    BY <1>1, <2>1, Zenon
<1> QED
  BY <1>1, <1>8, <1>11, SamePhases, Zenon DEF LoopInv

\* NextNumber: nothing is left to settle, and the next node is yet unlinked.
LEMMA NextNumberLoopInv ==
  ASSUME WalkResult, WalkNumbers, LoopInv, NextNumber
  PROVE  LoopInv'
<1>1. /\ pc = "settle" /\ settling = <<>> /\ pc' = "semi" /\ i' = i - 1
      /\ referrers' = (IF i > 1 THEN Referrers(Numbered(i - 1)) ELSE {})
      /\ UNCHANGED <<g, dfn, parent, vertex, forest, bucket, idom, settling>>
  BY Zenon DEF NextNumber, walkVars
<1>2. /\ i \in 1..(Len(vertex) - 1) /\ ForestOK(forest, i) /\ SemisOK(forest, i, -1)
      /\ BucketsOK(bucket, i) /\ Accounted(bucket, settling, idom, i) /\ IdomType(idom)
  BY <1>1, Zenon DEF LoopInv, SettlePhase
<1>3. PICK j : j = i - 1
  BY Zenon
<1>4. /\ j \in 0..(Len(vertex) - 1) /\ j + 1 = i /\ (j >= 1 <=> i > 1)
      /\ Numbered(j) \in Live /\ dfn[Numbered(j)] = j /\ j \in Nat
      /\ -1 \notin Live
  <2>1. j \in 0..(Len(vertex) - 1) /\ j + 1 = i /\ (j >= 1 <=> i > 1) /\ j \in Nat
    BY <1>2, <1>3 DEF WalkNumbers
  <2>2. Numbered(j) \in Live /\ dfn[Numbered(j)] = j
    BY <2>1, Zenon DEF WalkNumbers
  <2>3. -1 \notin Live
    BY GraphAssumption DEF WalkResult, Vertices
  <2> QED
    BY <2>1, <2>2, <2>3, Zenon
<1>5. SemisOK(forest, j + 1, Numbered(j))
  BY <1>2, <1>4, Zenon DEF SemisOK
<1>6. ASSUME j >= 1
      PROVE  referrers' \subseteq Referrers(Numbered(j)) /\ ScanOK(forest, Numbered(j), referrers')
  <2>1. referrers' = Referrers(Numbered(j))
    BY <1>1, <1>3, <1>4, <1>6, ZenonT(30)
  <2>2. forest.semi[Numbered(j)] = dfn[Numbered(j)]
    BY <1>2, <1>4, SMTT(30) DEF SemisOK
  <2>3. ASSUME NEW z \in Live \ {Root}, Numbered(j) \in succ(z)
        PROVE  z \in Referrers(Numbered(j))
    BY <2>3, GraphAssumption, SMTT(30) DEF Referrers, succ, Root, Vertices, Node, WalkResult
  <2> QED
    BY <1>4, <2>1, <2>2, <2>3, SMTT(30) DEF ScanOK
<1>7. SemiPhase(forest, referrers', bucket, settling, idom, j)
  BY <1>1, <1>2, <1>4, <1>5, <1>6, Zenon DEF SemiPhase
<1>8. SemiPhase(forest', referrers', bucket', settling', idom', i')
  BY <1>1, <1>3, <1>7, Zenon
<1>9. IdomType(idom')
  BY <1>1, <1>2, Zenon
<1> QED
  BY <1>1, <1>8, <1>9, SamePhases, Zenon DEF LoopInv

\* When all nodes are linked no bucket has anything left in it.
LEMMA SemidominatorsDoneLoopInv ==
  ASSUME WalkResult, WalkNumbers, LoopInv, SemidominatorsDone
  PROVE  LoopInv'
<1>1. /\ pc = "semi" /\ i < 1 /\ pc' = "idom" /\ i' = 1
      /\ UNCHANGED <<g, dfn, parent, vertex, forest, idom>>
  BY Zenon DEF SemidominatorsDone, walkVars, treeVars
<1>2. /\ i \in 0..(Len(vertex) - 1) /\ SemisOK(forest, i + 1, Numbered(i))
      /\ BucketsOK(bucket, i + 1) /\ settling = <<>>
      /\ Accounted(bucket, settling, idom, i + 1) /\ IdomType(idom)
  BY <1>1, Zenon DEF LoopInv, SemiPhase
<1>3. i = 0 /\ i + 1 = 1 /\ Numbered(0) = Root /\ 1 \in 1..Len(vertex)
  BY <1>1, <1>2, SMTT(30) DEF WalkNumbers, WalkResult
<1>4. \A v \in Live \ {Root} : dfn[v] >= 1 /\ ~(dfn[v] < 1)
  BY DEF WalkResult
<1>5. ASSUME NEW v \in Live \ {Root}
      PROVE  SemiIs(v, forest.semi[v]) /\ Preliminary(v, idom[v])
  <2>1. SemiIs(v, forest.semi[v])
    BY <1>2, <1>3, <1>4, Zenon DEF SemisOK
  <2>2. ASSUME NEW b \in Vertices, v \in Range(bucket[b]) PROVE FALSE
    <3>1. /\ b \in Anc(v) /\ b # v
          /\ \A c \in Anc(v) : parent[c] = b => dfn[c] < 1
      BY <1>2, <1>3, <2>2, Zenon DEF BucketsOK, Waiting
    <3>2. PICK c \in Anc(v) : parent[c] = b /\ c \in Live \ {Root}
      BY <3>1, ChildToward, Zenon
    <3> QED
      BY <1>4, <3>1, <3>2, Zenon
  <2> QED
    BY <1>2, <1>3, <1>4, <2>1, <2>2, RangeOfEmpty, ZenonT(30) DEF Accounted
<1>6. IdomPhase(forest, idom, 1)
  BY <1>3, <1>4, <1>5, Zenon DEF IdomPhase
<1>7. IdomPhase(forest', idom', i') /\ IdomType(idom')
  BY <1>1, <1>2, <1>6, Zenon
<1> QED
  BY <1>1, <1>7, SamePhases, Zenon DEF LoopInv

\* ImmediateDominator: the nodes with lower numbers are final.
LEMMA ImmediateDominatorLoopInv ==
  ASSUME WalkResult, WalkNumbers, LoopInv, ImmediateDominator
  PROVE  LoopInv'
<1>1. PICK w, d :
        /\ w = Numbered(i) /\ pc = "idom" /\ i < Len(vertex) /\ pc' = "idom" /\ i' = i + 1
        /\ d = (IF idom[w] # Numbered(forest.semi[w]) THEN idom[idom[w]] ELSE idom[w])
        /\ idom' = [idom EXCEPT ![w] = d]
        /\ UNCHANGED <<g, dfn, parent, vertex, forest>>
  BY Zenon DEF ImmediateDominator, walkVars
<1>2. /\ i \in 1..Len(vertex) /\ IdomType(idom)
      /\ \A v \in Live \ {Root} :
           /\ SemiIs(v, forest.semi[v])
           /\ IF dfn[v] < i THEN Immediate(idom[v], v) ELSE Preliminary(v, idom[v])
  BY <1>1, Zenon DEF LoopInv, IdomPhase
<1>3. /\ w \in Live \ {Root} /\ dfn[w] = i /\ i \in Nat /\ i + 1 \in 1..Len(vertex)
      /\ w \in Vertices /\ ~(dfn[w] < 0) /\ dfn[w] < i + 1
      /\ \A v \in Live : dfn[v] \in Int /\ v \in Vertices
  BY <1>1, <1>2, SMTT(30) DEF WalkNumbers, WalkResult
<1>4. Immediate(d, w)
  <2>1. SemiIs(w, forest.semi[w]) /\ Preliminary(w, idom[w])
    BY <1>2, <1>3
  <2>2. \A v \in Live \ {Root} : dfn[v] < dfn[w] => Immediate(idom[v], v)
    BY <1>2, <1>3, Zenon
  <2> QED
    BY <1>1, <1>3, <2>1, <2>2, FinishNode, Zenon
<1>5. d \in Vertices
  BY <1>4, Zenon DEF Immediate, Strict
<1>6. /\ idom' \in [Vertices -> Vertices \cup {-1}] /\ idom'[w] = d
      /\ \A x \in Vertices \ {w} : idom'[x] = idom[x]
  <2>1. idom \in [Vertices -> Vertices \cup {-1}] /\ d \in Vertices \cup {-1}
    BY <1>2, <1>5, Zenon DEF IdomType
  <2> QED
    BY <1>1, <1>3, <2>1, Zenon
<1>7. IdomType(idom')
  BY <1>2, <1>3, <1>6, Zenon DEF IdomType
<1>8. ASSUME NEW v \in Live \ {Root}
      PROVE  IF dfn[v] < i + 1 THEN Immediate(idom'[v], v) ELSE Preliminary(v, idom'[v])
  <2>1. CASE v = w
    BY <1>3, <1>4, <1>6, <2>1, ZenonT(30)
  <2>2. CASE v # w
    <3>1. idom'[v] = idom[v] /\ (dfn[v] < i + 1 <=> dfn[v] < i)
      BY <1>3, <1>6, <2>2, SMTT(30) DEF WalkResult
    <3> QED
      BY <1>2, <3>1, ZenonT(30)
  <2> QED
    BY <2>1, <2>2, Zenon
<1>9. IdomPhase(forest', idom', i')
  <2>1. IdomPhase(forest, idom', i + 1)
    BY <1>2, <1>3, <1>8, Zenon DEF IdomPhase
  <2> QED
    BY <1>1, <2>1, Zenon
<1> QED
  BY <1>1, <1>7, <1>9, SamePhases, Zenon DEF LoopInv

\* The loops over the sizes leave the dominators alone.
LEMMA LastStepsLoopInv ==
  ASSUME WalkResult, WalkNumbers, LoopInv, ImmediateDominatorsDone \/ Retain \/ Return
  PROVE  LoopInv'
<1>1. CASE ImmediateDominatorsDone
  <2>1. /\ pc = "idom" /\ i >= Len(vertex) /\ pc' = "retain" /\ idom' = [idom EXCEPT ![Root] = Root]
        /\ UNCHANGED <<g, dfn, parent, vertex>>
    BY <1>1, Zenon DEF ImmediateDominatorsDone, walkVars
  <2>2. i \in 1..Len(vertex) /\ IdomType(idom) /\ \A v \in Live \ {Root} :
          IF dfn[v] < i THEN Immediate(idom[v], v) ELSE Preliminary(v, idom[v])
    BY <2>1, Zenon DEF LoopInv, IdomPhase
  <2>3. Root \in Vertices /\ ~(dfn[Root] < 0) /\ \A v \in Live : dfn[v] < i /\ v \in Vertices
    BY <2>1, <2>2 DEF WalkNumbers, WalkResult
  <2>4. /\ idom' \in [Vertices -> Vertices \cup {-1}]
        /\ \A x \in Vertices \ {Root} : idom'[x] = idom[x]
    BY <2>1, <2>2, <2>3, Zenon DEF IdomType
  <2>5. DonePhase(idom')
    BY <2>2, <2>3, <2>4, Zenon DEF DonePhase
  <2>6. IdomType(idom')
    BY <2>2, <2>3, <2>4, Zenon DEF IdomType
  <2> QED
    BY <2>1, <2>5, <2>6, SamePhases, Zenon DEF LoopInv
<1>2. CASE Retain \/ Return
  <2>1. /\ pc = "retain" /\ pc' \in {"retain", "done"} /\ UNCHANGED <<g, dfn, parent, vertex, idom>>
    BY <1>2, Zenon DEF Retain, Return, walkVars, treeVars
  <2>2. DonePhase(idom) /\ IdomType(idom)
    BY <2>1, Zenon DEF LoopInv
  <2>3. DonePhase(idom') /\ IdomType(idom')
    BY <2>1, <2>2, Zenon
  <2> QED
    BY <2>1, <2>3, SamePhases, Zenon DEF LoopInv
<1> QED
  BY <1>1, <1>2, Zenon

\* Every step keeps the invariant of the loops.
LEMMA NextLoopInv ==
  ASSUME WalkInv, LoopInv, [Next]_vars
  PROVE  LoopInv'
<1>1. ASSUME stack = <<>>
      PROVE  WalkResult /\ WalkNumbers
  BY <1>1, WalkGivesResult, WalkGivesNumbers, Zenon
<1>2. pc # "walk" => stack = <<>>
  BY Zenon DEF WalkInv
<1>3. CASE (\E w \in Node : Visit(w)) \/ Backtrack
  BY <1>3, WalkStepLoopInv, Zenon
<1>4. CASE Walked
  <2>1. stack = <<>>
    BY <1>4, ZenonT(30) DEF Walked
  <2> QED
    BY <1>1, <1>4, <2>1, WalkedLoopInv, ZenonT(30)
<1>5. CASE Scan
  <2>1. stack = <<>>
    BY <1>2, <1>5, ZenonT(30) DEF Scan
  <2> QED
    BY <1>1, <1>5, <2>1, ScanLoopInv, ZenonT(30)
<1>6. CASE Link
  <2>1. stack = <<>>
    BY <1>2, <1>6, ZenonT(30) DEF Link
  <2> QED
    BY <1>1, <1>6, <2>1, LinkLoopInv, ZenonT(30)
<1>7. CASE Settle
  <2>1. stack = <<>>
    BY <1>2, <1>7, ZenonT(30) DEF Settle
  <2> QED
    BY <1>1, <1>7, <2>1, SettleLoopInv, ZenonT(30)
<1>8. CASE NextNumber
  <2>1. stack = <<>>
    BY <1>2, <1>8, ZenonT(30) DEF NextNumber
  <2> QED
    BY <1>1, <1>8, <2>1, NextNumberLoopInv, ZenonT(30)
<1>9. CASE SemidominatorsDone
  <2>1. stack = <<>>
    BY <1>2, <1>9, ZenonT(30) DEF SemidominatorsDone
  <2> QED
    BY <1>1, <1>9, <2>1, SemidominatorsDoneLoopInv, ZenonT(30)
<1>10. CASE ImmediateDominator
  <2>1. stack = <<>>
    BY <1>2, <1>10, Zenon DEF ImmediateDominator
  <2> QED
    BY <1>1, <1>10, <2>1, ImmediateDominatorLoopInv, ZenonT(30)
<1>11. CASE ImmediateDominatorsDone \/ Retain \/ Return
  <2>1. stack = <<>>
    BY <1>2, <1>11, Zenon DEF ImmediateDominatorsDone, Retain, Return
  <2> QED
    BY <1>1, <1>11, <2>1, LastStepsLoopInv, ZenonT(30)
<1>12. CASE UNCHANGED vars
  <2>1. /\ UNCHANGED <<g, dfn, parent, vertex>>
        /\ UNCHANGED <<pc, forest, referrers, bucket, settling, idom, i>>
    BY <1>12, Zenon DEF vars, walkVars, treeVars
  <2>2. WalkPhase(forest, bucket, settling, idom)' <=> WalkPhase(forest', bucket', settling', idom')
    BY Zenon DEF WalkPhase
  <2> QED
    BY <2>1, <2>2, SamePhases, Zenon DEF LoopInv
<1> QED
  BY <1>3, <1>4, <1>5, <1>6, <1>7, <1>8, <1>9, <1>10, <1>11, <1>12, ZenonT(30) DEF Next

\* The two invariants hold in every reachable state.
LEMMA LoopInvariant == Spec => [](WalkInv /\ LoopInv)
<1>1. Init => WalkInv /\ LoopInv
  BY InitWalkInv, InitLoopInv, Zenon
<1>2. WalkInv /\ LoopInv /\ [Next]_vars => (WalkInv /\ LoopInv)'
  BY NextWalkInv, NextLoopInv, Zenon
<1> QED
  BY <1>1, <1>2, PTL DEF Spec

\* Every run of Dominators, on every object graph, leaves in d.semi the number
\* of each object's semidominator: path compression loses nothing.
THEOREM SemidominatorsAreCorrect == Spec => []SemidominatorsCorrect
<1>1. ASSUME WalkInv, LoopInv
      PROVE  SemidominatorsCorrect
  <2> SUFFICES ASSUME pc = "idom", NEW w \in Live \ {Root}
               PROVE  forest.semi[w] = Min({dfn[v] : v \in HighPredecessors(Live, w)})
    BY Zenon DEF SemidominatorsCorrect
  <2>1. WalkResult
    BY <1>1, WalkGivesResult, Zenon DEF WalkInv
  <2>2. SemiIs(w, forest.semi[w])
    BY <1>1, Zenon DEF LoopInv, IdomPhase
  <2> DEFINE S == {dfn[v] : v \in High(w)}
             m == forest.semi[w]
  <2>3. S \subseteq Int
    BY <2>1, HighIsLive DEF WalkResult
  <2>4. m \in S /\ \A k \in S : m <= k
    BY <2>2, Zenon DEF SemiIs
  <2>5. \A k \in S : (\A l \in S : k <= l) => k = m
    <3> HIDE DEF S, m
    <3> QED
      BY <2>3, <2>4
  <2>6. Min(S) = m
    <3> HIDE DEF S, m
    <3> QED
      BY <2>4, <2>5, ZenonT(30) DEF Min
  <2> QED
    BY <2>6, Zenon DEF High
<1> QED
  BY <1>1, LoopInvariant, PTL

\* Every run of Dominators, on every object graph, leaves in Idom the immediate
\* dominator of each reachable object and -1 for garbage.
THEOREM IdomsAreImmediateDominators == Spec => []IdomIsImmediateDominator
<1>1. ASSUME WalkInv, LoopInv
      PROVE  IdomIsImmediateDominator
  <2> SUFFICES ASSUME pc = "done", NEW v \in Node
               PROVE  IF <<v, v>> \in Dominance
                        THEN /\ idom[v] \in StrictDominators(Dominance, v)
                             /\ StrictDominators(Dominance, v) \ {idom[v]}
                                  = StrictDominators(Dominance, idom[v])
                        ELSE idom[v] = -1
    BY Zenon DEF IdomIsImmediateDominator
  <2>1. WalkResult
    BY <1>1, WalkGivesResult, Zenon DEF WalkInv
  <2>2. DonePhase(idom) /\ IdomType(idom)
    BY <1>1, Zenon DEF LoopInv
  <2>3. \A d, x : <<d, x>> \in Dominance
                   <=> d \in Vertices /\ x \in Live /\ x \notin ReachedWithout(d)
    BY DEF Dominance
  <2>4. \A x \in Live : StrictDominators(Dominance, x) = Strict(x)
    BY <2>3, Zenon DEF StrictDominators, Strict
  <2>5. v \in Vertices /\ v # Root
    BY GraphAssumption DEF Vertices, Node, Root
  <2>6. <<v, v>> \in Dominance <=> v \in Live
    BY <2>1, <2>3, <2>5, NotReachedWithoutItself, Zenon
  <2>7. CASE v \in Live
    <3>1. Immediate(idom[v], v)
      BY <2>2, <2>5, <2>7, Zenon DEF DonePhase
    <3>2. idom[v] \in Strict(v) /\ Strict(v) \ {idom[v]} = Strict(idom[v])
      BY <3>1, Zenon DEF Immediate
    <3>3. idom[v] \in Live
      BY <2>1, <2>7, <3>2, DominatorIsAncestor, ZenonT(30) DEF Strict, WalkResult
    <3> QED
      BY <2>4, <2>6, <2>7, <3>2, <3>3, ZenonT(30)
  <2>8. CASE v \notin Live
    <3>1. dfn[v] < 0
      BY <2>1, <2>5, <2>8, SMTT(30) DEF WalkResult
    <3> QED
      BY <2>2, <2>5, <2>6, <2>8, <3>1, ZenonT(30) DEF IdomType
  <2> QED
    BY <2>7, <2>8, Zenon
<1> QED
  BY <1>1, LoopInvariant, PTL

-----------------------------------------------------------------------------
(* Retained sizes.                                                         *)

\* The objects whose sizes d has when the numbers above j are folded in: d and
\* what the children of d with such numbers dominate.
Folded(idm, d, j) ==
  {d} \cup UNION {Dominated(c) : c \in {x \in Live \ {Root} : idm[x] = d /\ dfn[x] > j}}

RetainPhase(idm, ret, j) ==
  /\ j \in 0..(Len(vertex) - 1)
  /\ ret \in [Vertices -> Nat]
  /\ \A d \in Vertices : ret[d] = IF d \in Live THEN Bytes(Folded(idm, d, j)) ELSE 0

SizesInv ==
  /\ pc \in {"walk", "semi", "settle", "idom"} => unreach = 0
  /\ pc \in {"retain", "done"} => unreach = Bytes(Node \ Live)
  /\ pc = "retain" => RetainPhase(idom, retained, i)
  /\ pc = "done" => RetainPhase(idom, retained, 0)

\* Once the children of d are folded in, d has the sizes of what it dominates.
LEMMA FoldedIsDominated ==
  ASSUME WalkResult, NEW idm, DonePhase(idm), NEW d \in Live, NEW j \in Nat, j <= dfn[d]
  PROVE  Folded(idm, d, j) = Dominated(d)
<1>1. ASSUME NEW c \in Live \ {Root}, idm[c] = d
      PROVE  dfn[c] > j /\ Dominated(c) \subseteq Dominated(d)
  <2>1. d \in Strict(c)
    BY <1>1, Zenon DEF DonePhase, Immediate
  <2>2. dfn[d] < dfn[c] /\ dfn[d] \in Nat /\ dfn[c] \in Nat
    BY <2>1, StrictIsLower, Zenon
  <2>3. Dominated(c) \subseteq Dominated(d)
    BY <2>1, DominanceTransitive, Zenon DEF Dominated, Strict
  <2> QED
    BY <2>2, <2>3
<1>2. d \in Dominated(d)
  BY NotReachedWithoutItself, Zenon DEF Dominated
<1>3. ASSUME NEW v \in Dominated(d), v # d
      PROVE  v \in Folded(idm, d, j)
  <2>1. PICK c \in Live \ {Root} : idm[c] = d /\ v \in Dominated(c)
    BY <1>3, DominatedByChild, Zenon
  <2> QED
    BY <1>1, <2>1, Zenon DEF Folded
<1>4. d \in Folded(idm, d, j)
  BY Zenon DEF Folded
<1>5. Folded(idm, d, j) \subseteq Dominated(d)
  BY <1>1, <1>2, Zenon DEF Folded
<1> QED
  BY <1>3, <1>4, <1>5, Zenon

\* Folding number j into its dominator adds what it dominates there, and
\* changes nothing elsewhere.
LEMMA FoldNumber ==
  ASSUME WalkResult, NEW idm, DonePhase(idm), NEW w \in Live \ {Root}
  PROVE  /\ Folded(idm, idm[w], dfn[w] - 1) = Folded(idm, idm[w], dfn[w]) \cup Dominated(w)
         /\ Folded(idm, idm[w], dfn[w]) \cap Dominated(w) = {}
         /\ \A d : d # idm[w] => Folded(idm, d, dfn[w] - 1) = Folded(idm, d, dfn[w])
<1>1. \A x \in Live : dfn[x] \in Int /\ (dfn[x] = dfn[w] => x = w)
  BY DEF WalkResult
<1>2. \A x \in Live : dfn[x] > dfn[w] - 1 <=> dfn[x] > dfn[w] \/ x = w
  BY <1>1
<1>3. ~(dfn[w] > dfn[w])
  BY <1>1
<1>4. ASSUME NEW v \in Folded(idm, idm[w], dfn[w]), v \in Dominated(w)
      PROVE  FALSE
  <2>1. v # idm[w]
    BY <1>4, ChildrenAreDisjoint, Zenon
  <2>2. PICK c \in Live \ {Root} : idm[c] = idm[w] /\ dfn[c] > dfn[w] /\ v \in Dominated(c)
    BY <1>4, <2>1, Zenon DEF Folded
  <2> QED
    BY <1>3, <1>4, <2>2, ChildrenAreDisjoint, Zenon
<1>5. \A d : d # idm[w] => Folded(idm, d, dfn[w] - 1) = Folded(idm, d, dfn[w])
  BY <1>2, Zenon DEF Folded
<1>6. Folded(idm, idm[w], dfn[w] - 1) = Folded(idm, idm[w], dfn[w]) \cup Dominated(w)
  BY <1>2, Zenon DEF Folded
<1> QED
  BY <1>4, <1>5, <1>6, Zenon

\* The sizes folded in depend on the graph and the numbers only.
LEMMA SameRetainPhase ==
  ASSUME UNCHANGED <<g, dfn, vertex>>
  PROVE  /\ Live' = Live
         /\ \A idm, ret, j : RetainPhase(idm, ret, j)' <=> RetainPhase(idm, ret, j)
<1>1. Live' = Live /\ \A d : ReachedWithout(d)' = ReachedWithout(d)
  BY Zenon DEF Live, ReachedWithout, succ
<1>2. \A d : Dominated(d)' = Dominated(d)
  BY <1>1, Zenon DEF Dominated
<1>3. \A idm, d, j : Folded(idm, d, j)' = Folded(idm, d, j)
  BY <1>1, <1>2, Zenon DEF Folded
<1> QED
  BY <1>1, <1>3, Zenon DEF RetainPhase

\* Before anything is folded in, an object has its own size.
LEMMA StartRetainPhase ==
  ASSUME WalkResult, WalkNumbers, NEW idm,
         NEW ret, ret = [v \in Vertices |-> IF v # Root /\ Reachable(v) THEN size[v] ELSE 0]
  PROVE  RetainPhase(idm, ret, Len(vertex) - 1)
<1>1. Len(vertex) - 1 \in 0..(Len(vertex) - 1)
  BY DEF WalkNumbers
<1>2. /\ \A v \in Vertices : Reachable(v) <=> v \in Live
      /\ \A v \in Vertices \ {Root} : v \in Node /\ size[v] \in Nat
      /\ Root \notin Node
  <2>1. \A v \in Vertices : Reachable(v) <=> v \in Live
    BY Zenon DEF WalkResult, Reachable
  <2> QED
    BY <2>1, GraphAssumption DEF Vertices, Node, Root
<1>3. \A c \in Live : ~(dfn[c] > Len(vertex) - 1)
  BY DEF WalkNumbers
<1>4. ret \in [Vertices -> Nat]
  BY <1>2
<1>5. ASSUME NEW d \in Vertices
      PROVE  ret[d] = IF d \in Live THEN Bytes(Folded(idm, d, Len(vertex) - 1)) ELSE 0
  <2>1. Folded(idm, d, Len(vertex) - 1) = {d}
    BY <1>3, Zenon DEF Folded
  <2>2. CASE d = Root
    <3>1. Bytes({d}) = 0
      BY <1>2, <2>2, BytesOfNone, Zenon
    <3> QED
      BY <2>1, <2>2, <3>1, Zenon
  <2>3. CASE d # Root
    <3>1. Bytes({d}) = size[d]
      BY <1>2, <2>3, BytesOfOne, Zenon
    <3> QED
      BY <1>2, <2>1, <2>3, <3>1, Zenon
  <2> QED
    BY <2>2, <2>3, Zenon
<1> QED
  BY <1>1, <1>4, <1>5, Zenon DEF RetainPhase

\* One iteration of the loop that folds each object into its dominator.
LEMMA RetainStep ==
  ASSUME WalkResult, WalkNumbers, NEW idm, DonePhase(idm), NEW ret, NEW j, j >= 1,
         RetainPhase(idm, ret, j)
  PROVE  LET w == Numbered(j)
             p == idm[w]
         IN  /\ p >= 0 /\ p # w
             /\ RetainPhase(idm, [ret EXCEPT ![p] = @ + ret[w]], j - 1)
<1> DEFINE w == Numbered(j)
           p == idm[w]
           next == [ret EXCEPT ![p] = @ + ret[w]]
<1>1. /\ j \in 0..(Len(vertex) - 1) /\ ret \in [Vertices -> Nat]
      /\ \A d \in Vertices : ret[d] = IF d \in Live THEN Bytes(Folded(idm, d, j)) ELSE 0
  BY Zenon DEF RetainPhase
<1>2. j \in Nat /\ j - 1 \in 0..(Len(vertex) - 1) /\ j # 0
  BY <1>1 DEF WalkNumbers
<1>3. w \in Live /\ dfn[w] = j
  BY <1>1, Zenon DEF WalkNumbers
<1>4. w \in Live \ {Root} /\ w \in Vertices
  BY <1>2, <1>3, Zenon DEF WalkResult
<1>5. p \in Strict(w)
  BY <1>4, Zenon DEF DonePhase, Immediate
<1>6. p \in Live /\ p \in Vertices /\ p # w
  BY <1>4, <1>5, StrictIsLower, Zenon DEF Strict
<1>7. p >= 0
  BY <1>6, GraphAssumption DEF Vertices
<1> HIDE DEF w, p
<1>8. Folded(idm, w, j) = Dominated(w)
  <2>1. j <= dfn[w]
    BY <1>2, <1>3
  <2> QED
    BY <1>2, <1>3, <2>1, FoldedIsDominated, Zenon
<1>9. /\ Folded(idm, p, j - 1) = Folded(idm, p, j) \cup Dominated(w)
      /\ Folded(idm, p, j) \cap Dominated(w) = {}
      /\ \A d : d # p => Folded(idm, d, j - 1) = Folded(idm, d, j)
  BY <1>3, <1>4, FoldNumber, Zenon DEF p
<1>10. Bytes(Folded(idm, p, j - 1)) = ret[p] + ret[w]
  <2>1. ret[p] = Bytes(Folded(idm, p, j)) /\ ret[w] = Bytes(Dominated(w))
    BY <1>1, <1>4, <1>6, <1>8, Zenon
  <2>2. Bytes(Folded(idm, p, j) \cup Dominated(w)) = Bytes(Folded(idm, p, j)) + Bytes(Dominated(w))
    BY <1>9, BytesOfUnion, Zenon
  <2> QED
    BY <1>9, <2>1, <2>2, Zenon
<1>11. /\ next \in [Vertices -> Nat] /\ next[p] = ret[p] + ret[w]
       /\ \A d \in Vertices : d # p => next[d] = ret[d]
  <2>1. ret[p] + ret[w] \in Nat
    BY <1>1, <1>4, <1>6
  <2> QED
    BY <1>1, <1>6, <2>1, Zenon
<1> HIDE DEF next
<1>12. \A d \in Vertices : next[d] = IF d \in Live THEN Bytes(Folded(idm, d, j - 1)) ELSE 0
  BY <1>1, <1>6, <1>9, <1>10, <1>11, Zenon
<1>13. RetainPhase(idm, next, j - 1)
  BY <1>2, <1>11, <1>12, Zenon DEF RetainPhase
<1> QED
  BY <1>6, <1>7, <1>13, Zenon DEF w, p, next

\* Every step keeps the invariant of the sizes.
LEMMA NextSizesInv ==
  ASSUME WalkInv, LoopInv, LoopInv', SizesInv, [Next]_vars
  PROVE  SizesInv'
<1>1. ASSUME pc # "walk"
      PROVE  WalkResult /\ WalkNumbers
  BY <1>1, WalkGivesResult, WalkGivesNumbers, Zenon DEF WalkInv
<1>2. CASE \/ \E w \in Node : Visit(w)
           \/ Backtrack \/ Walked \/ Scan \/ Link \/ Settle \/ NextNumber
           \/ SemidominatorsDone \/ ImmediateDominator
  <2>1. /\ UNCHANGED unreach
        /\ pc \in {"walk", "semi", "settle", "idom"} /\ pc' \in {"walk", "semi", "settle", "idom"}
    BY <1>2, ZenonT(30) DEF Visit, Backtrack, Walked, Scan, Link, Settle, NextNumber,
         SemidominatorsDone, ImmediateDominator, sizeVars
  <2> QED
    BY <2>1 DEF SizesInv
<1>3. CASE ImmediateDominatorsDone
  <2>1. /\ pc = "idom" /\ pc' = "retain" /\ i' = Len(vertex) - 1
        /\ retained' = [v \in Vertices |-> IF v # Root /\ Reachable(v) THEN size[v] ELSE 0]
        /\ unreach' = unreach + Bytes({v \in Node : ~Reachable(v)})
        /\ UNCHANGED <<g, dfn, vertex>>
    BY <1>3, Zenon DEF ImmediateDominatorsDone, walkVars
  <2>2. WalkResult /\ WalkNumbers
    BY <1>1, <2>1
  <2>3. RetainPhase(idom', retained', i')
    BY <2>1, <2>2, StartRetainPhase, Zenon
  <2>4. {v \in Node : ~Reachable(v)} = Node \ Live
    <3>1. \A v \in Node : v \in Vertices
      BY GraphAssumption DEF Node, Vertices
    <3> QED
      BY <2>2, <3>1, Zenon DEF WalkResult, Reachable
  <2>5. unreach' = Bytes(Node \ Live)
    <3>1. unreach = 0
      BY <2>1, Zenon DEF SizesInv
    <3>2. unreach' = 0 + Bytes(Node \ Live) /\ Bytes(Node \ Live) \in Nat
      BY <2>1, <2>4, <3>1, BytesNat, Zenon
    <3> QED
      BY <3>2
  <2>6. Bytes(Node \ Live)' = Bytes(Node \ Live)
    BY <2>1, SameRetainPhase, Zenon DEF Bytes
  <2> QED
    BY <2>1, <2>3, <2>5, <2>6, SameRetainPhase DEF SizesInv
<1>4. CASE Retain \/ Return
  <2>1. /\ pc = "retain" /\ pc' \in {"retain", "done"}
        /\ UNCHANGED <<unreach, idom>> /\ UNCHANGED <<g, dfn, vertex>>
    BY <1>4, Zenon DEF Retain, Return, walkVars, treeVars, sizeVars
  <2>2. WalkResult /\ WalkNumbers /\ DonePhase(idom) /\ RetainPhase(idom, retained, i)
    BY <1>1, <2>1 DEF LoopInv, SizesInv
  <2>3. Bytes(Node \ Live)' = Bytes(Node \ Live)
    BY <2>1, SameRetainPhase, Zenon DEF Bytes
  <2>4. CASE Retain
    <3>1. /\ i >= 1 /\ i' = i - 1 /\ pc' = "retain"
          /\ retained' = IF idom[Numbered(i)] >= 0 /\ idom[Numbered(i)] # Numbered(i)
                           THEN [retained EXCEPT ![idom[Numbered(i)]] = @ + retained[Numbered(i)]]
                           ELSE retained
      BY <2>4, Zenon DEF Retain
    <3>2. RetainPhase(idom, retained', i')
      BY <2>2, <3>1, RetainStep, Zenon
    <3> QED
      BY <2>1, <2>3, <3>1, <3>2, SameRetainPhase DEF SizesInv
  <2>5. CASE Return
    <3>1. i < 1 /\ pc' = "done" /\ UNCHANGED retained
      BY <2>5, Zenon DEF Return, sizeVars
    <3>2. i = 0
      BY <2>2, <3>1 DEF RetainPhase, WalkNumbers
    <3> QED
      BY <2>1, <2>2, <2>3, <3>1, <3>2, SameRetainPhase DEF SizesInv
  <2> QED
    BY <1>4, <2>4, <2>5, Zenon
<1>5. CASE UNCHANGED vars
  <2>1. UNCHANGED <<pc, unreach, idom, retained, i>> /\ UNCHANGED <<g, dfn, vertex>>
    BY <1>5, Zenon DEF vars, walkVars, treeVars, sizeVars
  <2>2. Bytes(Node \ Live)' = Bytes(Node \ Live)
    BY <2>1, SameRetainPhase, Zenon DEF Bytes
  <2> QED
    BY <2>1, <2>2, SameRetainPhase, Zenon DEF SizesInv
<1> QED
  BY <1>2, <1>3, <1>4, <1>5, ZenonT(30) DEF Next

\* The invariants hold in every run.
LEMMA SizesInvariant == Spec => [](WalkInv /\ LoopInv /\ SizesInv)
<1>1. Init => SizesInv
  BY DEF Init, SizesInv
<1>2. WalkInv /\ LoopInv /\ LoopInv' /\ SizesInv /\ [Next]_vars => SizesInv'
  BY NextSizesInv, Zenon
<1> QED
  BY <1>1, <1>2, LoopInvariant, PTL DEF Spec

\* Every run of Dominators, on every object graph, leaves in Retained the bytes
\* that would be freed if the object became unreachable, and in Unreach those
\* of garbage.
THEOREM RetainedSizesAreFreed == Spec => []RetainedIsFreed
<1>1. ASSUME WalkInv, LoopInv, SizesInv
      PROVE  RetainedIsFreed
  <2> SUFFICES ASSUME pc = "done"
               PROVE  /\ \A d \in Vertices :
                           retained[d] = Bytes({v \in Vertices : <<d, v>> \in Dominance})
                      /\ unreach = Bytes({v \in Vertices : <<Root, v>> \notin Dominance})
    BY Zenon DEF RetainedIsFreed
  <2>1. WalkResult
    BY <1>1, WalkGivesResult, Zenon DEF WalkInv
  <2>2. /\ DonePhase(idom) /\ RetainPhase(idom, retained, 0)
        /\ unreach = Bytes(Node \ Live)
    BY <1>1 DEF LoopInv, SizesInv
  <2>3. \A d, x : <<d, x>> \in Dominance
                   <=> d \in Vertices /\ x \in Live /\ x \notin ReachedWithout(d)
    BY DEF Dominance
  <2>4. \A d \in Vertices : {v \in Vertices : <<d, v>> \in Dominance} = Dominated(d)
    BY <2>1, <2>3, Zenon DEF Dominated, WalkResult
  <2>5. ASSUME NEW d \in Vertices
        PROVE  retained[d] = Bytes(Dominated(d))
    <3>1. CASE d \in Live
      <4>1. 0 \in Nat /\ 0 <= dfn[d]
        BY <2>1, <3>1 DEF WalkResult
      <4>2. Folded(idom, d, 0) = Dominated(d)
        BY <2>1, <2>2, <3>1, <4>1, FoldedIsDominated, Zenon
      <4> QED
        BY <2>2, <3>1, <4>2, Zenon DEF RetainPhase
    <3>2. CASE d \notin Live
      <4>1. Dominated(d) = {}
        BY <2>1, <3>2, DominatedIsLive, Zenon
      <4>2. Bytes(Dominated(d)) = 0
        BY <4>1, BytesOfNone, Zenon
      <4> QED
        BY <2>2, <3>2, <4>2, Zenon DEF RetainPhase
    <3> QED
      BY <3>1, <3>2, Zenon
  <2>6. {v \in Vertices : <<Root, v>> \notin Dominance} = Node \ Live
    <3>1. \A v \in Live : <<Root, v>> \in Dominance
      <4>1. ReachedWithout(Root) = {}
        <5>1. Root \in Vertices /\ {} \in SUBSET Vertices
          BY <2>1, Zenon DEF WalkResult
        <5> QED
          BY <5>1, ReachedWithin, Zenon
      <4> QED
        BY <2>1, <2>3, <4>1, Zenon DEF WalkResult
    <3>2. Vertices = Node \cup {Root} /\ Root \in Live
      BY <2>1, GraphAssumption DEF Vertices, Node, Root, WalkResult
    <3> QED
      BY <2>3, <3>1, <3>2, Zenon
  <2> QED
    BY <2>2, <2>4, <2>5, <2>6, Zenon
<1> QED
  BY <1>1, SizesInvariant, PTL

=============================================================================

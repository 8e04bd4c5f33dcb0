---------------------------- MODULE ForestProofs ----------------------------
(***************************************************************************)
(* The steps of the loop over the numbers, last to first (dom.go): what    *)
(* path compression and linking do to the forest of linked nodes, and what *)
(* scanning the referrers, filling and emptying the buckets and the last   *)
(* pass establish about one node.                                          *)
(***************************************************************************)
EXTENDS DominatorsProofs

-----------------------------------------------------------------------------
(* The invariant of the loops.                                             *)

\* k is the lowest number linked: the nodes numbered from k on are in the
\* forest that path compression shortens.
ForestType ==
  [semi : [Vertices -> Nat], label : [Vertices -> Vertices],
   ancestor : [Vertices -> Vertices \cup {-1}]]

Between(f, v) == {x \in Anc(v) : dfn[x] > dfn[f.ancestor[v]]}

\* ancestor jumps up the tree over linked nodes only, and label has the least
\* semi of the nodes jumped over.
ForestOK(f, k) ==
  /\ f \in ForestType
  /\ \A v \in Vertices : ~(v \in Live /\ dfn[v] >= k) => f.ancestor[v] = -1 /\ f.label[v] = v
  /\ \A v \in Live : dfn[v] >= k =>
       /\ f.ancestor[v] \in Anc(v) /\ f.ancestor[v] # v
       /\ f.label[v] \in Between(f, v)
       /\ \A x \in Between(f, v) : dfn[x] >= k /\ f.semi[f.label[v]] <= f.semi[x]

\* Linked nodes have their semidominators, the others their own numbers; w is
\* the node being scanned, if any.
SemisOK(f, k, w) ==
  \A v \in Live \ {w} :
    IF dfn[v] >= k THEN SemiIs(v, f.semi[v]) ELSE f.semi[v] = dfn[v]

\* The least number found for w so far: a path leads from it, and it takes
\* the referrers scanned, and what is above w on their tree paths, into account.
ScanOK(f, w, left) ==
  /\ f.semi[w] <= dfn[w]
  /\ f.semi[w] = dfn[w] \/ \E x \in High(w) : dfn[x] = f.semi[w]
  /\ \A z \in Live \ {Root} : w \in succ(z) /\ z \notin left =>
       /\ f.semi[w] <= dfn[z]
       /\ \A u \in Anc(z) : dfn[u] > dfn[w] => f.semi[w] <= f.semi[u]

\* v waits in the bucket of its semidominator b until the child of b above v is
\* linked.
Waiting(v, b, k) ==
  /\ v \in Live /\ dfn[v] >= k /\ b \in Anc(v) /\ b # v /\ SemiIs(v, dfn[b])
  /\ \A c \in Anc(v) : parent[c] = b => dfn[c] < k

BucketsOK(bkt, k) ==
  /\ bkt \in [Vertices -> Seq(Vertices)]
  /\ \A b \in Vertices : \A v \in Range(bkt[b]) : Waiting(v, b, k)

\* The nodes being settled while p, the parent of number j, has its bucket
\* emptied.
SettlingOK(left, j) ==
  /\ left \in Seq(Vertices)
  /\ \A v \in Range(left) :
       v \in Live /\ Numbered(j) \in Anc(v) /\ SemiIs(v, dfn[parent[Numbered(j)]])

\* What the first loop leaves in Idom for v: the semidominator b if it is
\* dominating, else a node between that has the same dominators as v.
Preliminary(v, d) ==
  \E b \in Anc(v) :
    /\ b # v /\ SemiIs(v, dfn[b])
    /\ \/ /\ d = b
          /\ \A y \in Anc(v) : dfn[y] > dfn[b] => \A x \in High(y) : dfn[b] <= dfn[x]
       \/ /\ d \in Anc(v) /\ dfn[d] > dfn[b]
          /\ \E s \in Live :
               /\ SemiIs(d, dfn[s]) /\ dfn[s] < dfn[b]
               /\ \A y \in Anc(v) : dfn[y] > dfn[b] => \A x \in High(y) : dfn[s] <= dfn[x]

\* No linked node is forgotten.
Accounted(bkt, left, idm, k) ==
  \A v \in Live \ {Root} : dfn[v] >= k =>
    \/ \E b \in Vertices : v \in Range(bkt[b])
    \/ v \in Range(left)
    \/ Preliminary(v, idm[v])

IdomType(idm) ==
  /\ idm \in [Vertices -> Vertices \cup {-1}]
  /\ \A v \in Vertices : dfn[v] < 0 => idm[v] = -1

-----------------------------------------------------------------------------
(* Path compression.                                                       *)

\* The numbers are those of the positions in vertex.
WalkNumbers ==
  /\ vertex \in Seq(Vertices) /\ Len(vertex) \in Nat \ {0}
  /\ \A v \in Live : dfn[v] \in 0..(Len(vertex) - 1) /\ Numbered(dfn[v]) = v
  /\ \A k \in 0..(Len(vertex) - 1) : Numbered(k) \in Live /\ dfn[Numbered(k)] = k

\* Numbers and positions agree once the walk is over.
LEMMA WalkGivesNumbers ==
  ASSUME WalkInv, WalkResult
  PROVE  WalkNumbers
<1>1. vertex \in Seq(Vertices) /\ Len(vertex) \in Nat /\ N \in Nat
  BY GraphAssumption DEF WalkInv, WalkTypeOK
<1>2. ASSUME NEW v \in Live
      PROVE  dfn[v] \in 0..(Len(vertex) - 1) /\ Numbered(dfn[v]) = v
  <2>1. v \in Vertices /\ dfn[v] >= 0 /\ dfn[v] \in Int
    BY Zenon DEF WalkResult
  <2> QED
    BY <1>1, <2>1 DEF WalkInv, Numbering, Reachable
<1>3. ASSUME NEW k \in 0..(Len(vertex) - 1)
      PROVE  Numbered(k) \in Live /\ dfn[Numbered(k)] = k /\ Numbered(k) \in Vertices
  <2>1. Numbered(k) \in Vertices
    BY <1>1 DEF Numbered
  <2>2. dfn[Numbered(k)] = k
    BY Zenon DEF WalkInv, Numbering
  <2> QED
    BY <2>1, <2>2 DEF WalkResult
<1>4. Len(vertex) >= 1
  <2>1. Root \in Live
    BY Zenon DEF WalkResult
  <2> QED
    BY <1>1, <1>2, <2>1
<1> QED
  BY <1>1, <1>2, <1>3, <1>4 DEF WalkNumbers

\* Shortening one jump: the two stretches together are the new one.
LEMMA ShortenForest ==
  ASSUME WalkResult, NEW k \in Nat, NEW f, ForestOK(f, k), NEW x \in Vertices,
         f.ancestor[x] # -1, f.ancestor[f.ancestor[x]] # -1
  PROVE  /\ ForestOK(Shorten(x, f), k)
         /\ Shorten(x, f).semi = f.semi
         /\ Shorten(x, f).ancestor = [f.ancestor EXCEPT ![x] = f.ancestor[f.ancestor[x]]]
<1>0. PICK a, b, la, lx, l, h :
        /\ a = f.ancestor[x] /\ b = f.ancestor[a] /\ la = f.label[a] /\ lx = f.label[x]
        /\ l = (IF f.semi[la] < f.semi[lx] THEN la ELSE lx)
        /\ h = Shorten(x, f)
  BY Zenon
<1>1. /\ f \in ForestType /\ f.semi \in [Vertices -> Nat] /\ f.label \in [Vertices -> Vertices]
      /\ f.ancestor \in [Vertices -> Vertices \cup {-1}]
  BY Zenon DEF ForestOK, ForestType
<1>2. /\ h.semi = f.semi
      /\ h.label = [f.label EXCEPT ![x] = l]
      /\ h.ancestor = [f.ancestor EXCEPT ![x] = b]
  BY <1>0, <1>1, Zenon DEF Shorten, ForestType
<1>3. a \in Vertices /\ b \in Vertices /\ la \in Vertices /\ lx \in Vertices /\ l \in Vertices
  BY <1>0, <1>1, Zenon
<1>4. h \in ForestType
  BY <1>0, <1>1, <1>3, Zenon DEF Shorten, ForestType
<1>5. x \in Live /\ dfn[x] >= k /\ a \in Live /\ dfn[a] >= k
  BY <1>0, <1>3, Zenon DEF ForestOK
<1>6. /\ a \in Anc(x) /\ a # x /\ b \in Anc(a) /\ b # a
      /\ lx \in Between(f, x) /\ la \in Between(f, a)
      /\ \A y \in Between(f, x) : dfn[y] >= k /\ f.semi[lx] <= f.semi[y]
      /\ \A y \in Between(f, a) : dfn[y] >= k /\ f.semi[la] <= f.semi[y]
  BY <1>0, <1>5, Zenon DEF ForestOK
<1>7. b \in Live /\ \A y \in Live : dfn[y] \in Int /\ y \in Vertices
  BY <1>5, <1>6, Zenon DEF WalkResult
<1>8. dfn[b] < dfn[a] /\ dfn[a] < dfn[x]
  BY <1>5, <1>6, <1>7 DEF WalkResult
<1>9. Anc(a) \subseteq Anc(x)
  BY <1>5, <1>6, <1>7, AncestorTransitive, Zenon DEF Anc
<1>10. h.ancestor[x] = b /\ h.label[x] = l
  BY <1>1, <1>2, Zenon
<1>11. Between(h, x) = Between(f, x) \cup Between(f, a)
  <2>1. \A y \in Anc(x) : y \in Live
    BY <1>5, Zenon DEF WalkResult
  <2>2. ASSUME NEW y \in Anc(x), dfn[y] > dfn[b], ~(dfn[y] > dfn[a])
        PROVE  y \in Anc(a)
    BY <1>5, <1>6, <1>7, <1>8, <2>1, <2>2, SMTT(30) DEF WalkResult
  <2>3. /\ Between(h, x) = {y \in Anc(x) : dfn[y] > dfn[b]}
        /\ Between(f, x) = {y \in Anc(x) : dfn[y] > dfn[a]}
        /\ Between(f, a) = {y \in Anc(a) : dfn[y] > dfn[b]}
    BY <1>0, <1>10, Zenon DEF Between
  <2> QED
    BY <1>5, <1>7, <1>8, <1>9, <2>1, <2>2, <2>3
<1>12. l \in Between(h, x) /\ \A y \in Between(h, x) : dfn[y] >= k /\ f.semi[l] <= f.semi[y]
  <2>1. \A y \in Between(h, x) : y \in Vertices
    BY <1>5, <1>7, Zenon DEF Between, WalkResult
  <2>2. \A y \in Vertices : f.semi[y] \in Int
    BY <1>1
  <2>3. CASE f.semi[la] < f.semi[lx]
    <3>1. l = la
      BY <1>0, <2>3, Zenon
    <3>2. ASSUME NEW y \in Between(h, x)
          PROVE  dfn[y] >= k /\ f.semi[la] <= f.semi[y]
      BY <1>3, <1>6, <1>11, <2>1, <2>2, <2>3
    <3> QED
      BY <1>6, <1>11, <3>1, <3>2, Zenon
  <2>4. CASE ~(f.semi[la] < f.semi[lx])
    <3>1. l = lx
      BY <1>0, <2>4, Zenon
    <3>2. ASSUME NEW y \in Between(h, x)
          PROVE  dfn[y] >= k /\ f.semi[lx] <= f.semi[y]
      BY <1>3, <1>6, <1>11, <2>1, <2>2, <2>4, SMTT(30)
    <3> QED
      BY <1>6, <1>11, <3>1, <3>2, Zenon
  <2> QED
    BY <2>3, <2>4, Zenon
<1>13. ASSUME NEW v \in Live, dfn[v] >= k
       PROVE  /\ h.ancestor[v] \in Anc(v) /\ h.ancestor[v] # v
              /\ h.label[v] \in Between(h, v)
              /\ \A y \in Between(h, v) : dfn[y] >= k /\ h.semi[h.label[v]] <= h.semi[y]
  <2>1. CASE v = x
    <3>1. b # x
      BY <1>5, <1>7, <1>8
    <3>2. h.ancestor[x] \in Anc(x) /\ h.ancestor[x] # x
      BY <1>6, <1>9, <1>10, <3>1, Zenon
    <3> QED
      BY <1>2, <1>10, <1>12, <2>1, <3>2, Zenon
  <2>2. CASE v # x
    <3>1. v \in Vertices /\ h.ancestor[v] = f.ancestor[v] /\ h.label[v] = f.label[v]
      BY <1>1, <1>2, <1>7, <2>2, Zenon
    <3>2. Between(h, v) = Between(f, v)
      BY <3>1, Zenon DEF Between
    <3>3. /\ f.ancestor[v] \in Anc(v) /\ f.ancestor[v] # v
          /\ f.label[v] \in Between(f, v)
          /\ \A y \in Between(f, v) : dfn[y] >= k /\ f.semi[f.label[v]] <= f.semi[y]
      BY <1>13, Zenon DEF ForestOK
    <3> QED
      BY <1>2, <3>1, <3>2, <3>3, Zenon
  <2> QED
    BY <2>1, <2>2, Zenon
<1>14. ASSUME NEW v \in Vertices, ~(v \in Live /\ dfn[v] >= k)
       PROVE  h.ancestor[v] = -1 /\ h.label[v] = v
  <2>1. v # x
    BY <1>5, <1>14, Zenon
  <2>2. h.ancestor[v] = f.ancestor[v] /\ h.label[v] = f.label[v]
    BY <1>1, <1>2, <2>1, Zenon
  <2> QED
    BY <1>14, <2>2, Zenon DEF ForestOK
<1>15. ForestOK(h, k)
  BY <1>4, <1>13, <1>14, Zenon DEF ForestOK
<1> QED
  BY <1>0, <1>2, <1>15, Zenon

\* The recursion that climbs the forest is well defined.
ChainOf(f, v, n, up) ==
  up = [k \in 0..n |-> IF k = 0 THEN v
                       ELSE IF up[k - 1] = -1 THEN -1 ELSE f.ancestor[up[k - 1]]]

\* Such a function exists for every number of steps.
LEMMA ChainExists ==
  ASSUME NEW f, NEW v, NEW n \in Nat
  PROVE  \E up : ChainOf(f, v, n, up)
<1> DEFINE K == {k \in Nat : ~\E up : ChainOf(f, v, k, up)}
<1> SUFFICES ASSUME n \in K PROVE FALSE
  BY Zenon
<1>1. PICK m \in K : \A k \in K : m <= k
  <2>1. K \in SUBSET Nat /\ K # {}
    BY Zenon
  <2> HIDE DEF K
  <2> QED
    BY <2>1, LeastNumber, Zenon
<1>2. m # 0
  <2> SUFFICES ASSUME m = 0 PROVE FALSE
    BY Zenon
  <2> DEFINE u == [k \in 0..0 |-> v]
  <2>1. ChainOf(f, v, 0, u)
    BY DEF ChainOf
  <2> QED
    BY <1>1, <2>1, Zenon
<1>3. PICK u : ChainOf(f, v, m - 1, u)
  BY <1>1, <1>2
<1> DEFINE last == IF u[m - 1] = -1 THEN -1 ELSE f.ancestor[u[m - 1]]
           h == [k \in 0..m |-> IF k < m THEN u[k] ELSE last]
<1>4. \A k \in 0..(m - 1) :
        u[k] = (IF k = 0 THEN v ELSE IF u[k - 1] = -1 THEN -1 ELSE f.ancestor[u[k - 1]])
  BY <1>1, <1>2, <1>3, Zenon DEF ChainOf
<1>5. \A k \in 0..m :
        h[k] = (IF k = 0 THEN v ELSE IF h[k - 1] = -1 THEN -1 ELSE f.ancestor[h[k - 1]])
  <2> SUFFICES ASSUME NEW k \in 0..m
               PROVE  h[k] = (IF k = 0 THEN v
                              ELSE IF h[k - 1] = -1 THEN -1 ELSE f.ancestor[h[k - 1]])
    BY Zenon
  <2>1. CASE k = m
    <3>1. h[k] = last /\ h[k - 1] = u[m - 1]
      BY <1>1, <1>2, <2>1
    <3> QED
      BY <1>2, <2>1, <3>1, Zenon
  <2>2. CASE k # m
    <3>1. h[k] = u[k] /\ k \in 0..(m - 1) /\ (k # 0 => h[k - 1] = u[k - 1])
      BY <1>1, <2>2
    <3> QED
      BY <1>4, <3>1, Zenon
  <2> QED
    BY <2>1, <2>2, Zenon
<1>6. ChainOf(f, v, m, h)
  <2> SUFFICES h = [k \in 0..m |-> IF k = 0 THEN v ELSE
                      IF h[k - 1] = -1 THEN -1 ELSE f.ancestor[h[k - 1]]]
    BY Zenon DEF ChainOf
  <2> HIDE DEF h
  <2>1. h = [k \in 0..m |-> h[k]]
    BY Zenon DEF h
  <2> QED
    BY <1>5, <2>1, Zenon
<1> QED
  BY <1>1, <1>6, Zenon

\* An integer that decreases in each step decreases by the number of steps.
LEMMA Descending ==
  ASSUME NEW n \in Nat, NEW h \in [0..n -> Int], \A j \in 1..n : h[j] < h[j - 1],
         NEW a \in 0..n, NEW b \in 0..n, a <= b
  PROVE  h[b] <= h[a] - (b - a)
<1> DEFINE K == {j \in a..n : ~(h[j] <= h[a] - (j - a))}
<1> SUFFICES ASSUME b \in K PROVE FALSE
  OBVIOUS
<1>1. PICK j \in K : \A c \in K : j <= c
  <2>1. K \in SUBSET Nat /\ b \in K
    <3>1. a..n \subseteq Nat
      OBVIOUS
    <3> QED
      BY <3>1, Zenon
  <2> HIDE DEF K
  <2> QED
    BY <2>1, LeastNumber, Zenon
<1>2. j # a
  BY <1>1
<1>3. j - 1 \in a..n /\ j - 1 \notin K /\ j \in 1..n
  BY <1>1, <1>2
<1>4. h[j - 1] <= h[a] - (j - 1 - a) /\ h[j] < h[j - 1] /\ h[j - 1] \in Int /\ h[j] \in Int
      /\ h[a] \in Int
  BY <1>3
<1>5. ~(h[j] <= h[a] - (j - a)) /\ j \in Int /\ a \in Int
  BY <1>1
<1> QED
  BY <1>4, <1>5, SMTT(30)

\* The nodes that compress collects for a linked node v: the n linked nodes
\* from v on that are two jumps or more from the top of their tree.
PathIs(f, v, k, n, up) ==
  /\ n \in Nat /\ CompressPath(f, v) = [j \in 1..n |-> up[j - 1]]
  /\ up[0] = v
  /\ \A j \in 0..n : up[j] \in Live /\ dfn[up[j]] >= k
  /\ \A j \in 1..n : f.ancestor[up[j - 1]] = up[j]
  /\ f.ancestor[up[n]] \in Vertices /\ f.ancestor[f.ancestor[up[n]]] = -1
  /\ \A a, b \in 0..n : a < b => dfn[up[b]] < dfn[up[a]]

\* Min is the least member.
LEMMA LeastIsMin ==
  ASSUME NEW S \in SUBSET Nat, NEW m \in S, \A k \in S : m <= k
  PROVE  Min(S) = m
<1>1. PICK c : c = Min(S)
  BY Zenon
<1>2. c \in S /\ \A k \in S : c <= k
  BY <1>1, Zenon DEF Min
<1> QED
  BY <1>1, <1>2

\* compress collects the nodes of a tree path, all linked.
LEMMA PathExists ==
  ASSUME WalkResult, WalkNumbers, NEW k \in Nat, k >= 1, NEW f, ForestOK(f, k),
         NEW v \in Live, dfn[v] >= k
  PROVE  \E n, up : PathIs(f, v, k, n, up)
<1> DEFINE M == Len(vertex)
           up == CHOOSE u : ChainOf(f, v, M, u)
           deep(j) == /\ up[j] # -1 /\ f.ancestor[up[j]] # -1
                      /\ f.ancestor[f.ancestor[up[j]]] # -1
           K == {j \in 0..M : ~deep(j)}
<1>1. M \in Nat /\ \A y \in Live : dfn[y] \in Int /\ y \in Vertices
  BY Zenon DEF WalkResult, WalkNumbers
<1>2. ChainOf(f, v, M, up)
  BY <1>1, ChainExists, Zenon
<1>3. CompressPath(f, v) = [j \in 1..Min(K) |-> up[j - 1]]
  BY Zenon DEF CompressPath, ChainOf
<1>18. \A y \in Live : dfn[y] <= M
  BY <1>1, SMTT(30) DEF WalkNumbers
<1> HIDE DEF M
<1>4. /\ up[0] = v
      /\ \A j \in 1..M : up[j] = IF up[j - 1] = -1 THEN -1 ELSE f.ancestor[up[j - 1]]
  <2> HIDE DEF up
  <2> QED
    BY <1>1, <1>2, SMTT(30) DEF ChainOf
<1> HIDE DEF up
<1>5. f.ancestor \in [Vertices -> Vertices \cup {-1}]
  BY Zenon DEF ForestOK, ForestType
<1>15. \A j \in 0..M : up[j] \in Vertices \cup {-1}
  <2> DEFINE B == {j \in 0..M : up[j] \notin Vertices \cup {-1}}
  <2> SUFFICES ASSUME B # {} PROVE FALSE
    BY Zenon
  <2>1. PICK j \in B : \A c \in B : j <= c
    <3>1. B \in SUBSET Nat
      OBVIOUS
    <3> HIDE DEF B
    <3> QED
      BY <3>1, LeastNumber, Zenon
  <2>2. j \in 1..M /\ j - 1 \in 0..M
    BY <1>1, <1>4, <2>1
  <2>3. up[j - 1] \in Vertices \cup {-1}
    BY <2>1, <2>2
  <2> QED
    BY <1>4, <1>5, <2>1, <2>2, <2>3, Zenon
<1>7. PICK n \in K \cup {M + 1} : \A j \in K \cup {M + 1} : n <= j
  <2>1. K \cup {M + 1} \in SUBSET Nat
    BY <1>1
  <2> HIDE DEF K
  <2> QED
    BY <2>1, LeastNumber, Zenon
<1>6. n \in 0..(M + 1) /\ \A j \in 0..M : j < n => deep(j)
  BY <1>1, <1>7
<1>8. \A j \in 1..M : j <= n =>
        up[j] = f.ancestor[up[j - 1]] /\ f.ancestor[up[j]] # -1 /\ up[j] # -1
  BY <1>1, <1>4, <1>6
<1>9. ASSUME NEW j \in 0..M, j <= n
      PROVE  up[j] \in Live /\ dfn[up[j]] >= k /\ f.ancestor[up[j]] \in Anc(up[j])
             /\ f.ancestor[up[j]] # up[j]
  <2>1. CASE j = 0
    BY <1>4, <2>1, Zenon DEF ForestOK
  <2>2. CASE j # 0
    <3>1. up[j] = f.ancestor[up[j - 1]] /\ f.ancestor[up[j]] # -1 /\ up[j] # -1 /\ up[j - 1] # -1
      BY <1>1, <1>4, <1>8, <1>9, <2>2
    <3>2. up[j] \in Vertices
      BY <1>15, <3>1, Zenon
    <3> QED
      BY <3>1, <3>2, Zenon DEF ForestOK
  <2> QED
    BY <2>1, <2>2, Zenon
<1>10. \A j \in 1..M : j <= n => dfn[up[j]] < dfn[up[j - 1]]
  <2> SUFFICES ASSUME NEW j \in 1..M, j <= n
               PROVE  dfn[up[j]] < dfn[up[j - 1]]
    BY Zenon
  <2>1. /\ up[j - 1] \in Live /\ f.ancestor[up[j - 1]] \in Anc(up[j - 1])
        /\ f.ancestor[up[j - 1]] # up[j - 1] /\ up[j] = f.ancestor[up[j - 1]]
        /\ up[j] \in Live
    BY <1>1, <1>8, <1>9
  <2> QED
    BY <1>1, <2>1 DEF WalkResult
<1>11. ASSUME NEW m \in 0..M, m <= n, NEW a \in 0..m, NEW b \in 0..m, a <= b
       PROVE  dfn[up[b]] <= dfn[up[a]] - (b - a)
  <2> DEFINE h == [j \in 0..m |-> dfn[up[j]]]
  <2>1. h \in [0..m -> Int]
    BY <1>1, <1>9, <1>11
  <2>2. \A j \in 1..m : h[j] < h[j - 1]
    BY <1>1, <1>10, <1>11
  <2>3. h[b] <= h[a] - (b - a)
    <3>1. m \in Nat
      BY <1>1
    <3> HIDE DEF h
    <3> QED
      BY <1>11, <2>1, <2>2, <3>1, Descending, Zenon
  <2> QED
    BY <1>11, <2>3, Zenon
<1>12. n <= M
  <2> SUFFICES ASSUME ~(n <= M) PROVE FALSE
    BY Zenon
  <2>1. dfn[up[M]] <= dfn[up[0]] - (M - 0)
    BY <1>1, <1>6, <1>11
  <2>2. dfn[v] <= M /\ dfn[v] \in Int
    BY <1>1, <1>18, Zenon
  <2>3. up[M] \in Live /\ dfn[up[M]] >= k
    BY <1>1, <1>6, <1>9, SMTT(30)
  <2> QED
    BY <1>1, <1>4, <2>1, <2>2, <2>3
<1>13. f.ancestor[up[n]] \in Vertices /\ f.ancestor[f.ancestor[up[n]]] = -1
  <2>1. up[n] \in Vertices /\ f.ancestor[up[n]] \in Live
    BY <1>1, <1>9, <1>12, SMTT(30) DEF WalkResult
  <2>2. ~deep(n)
    BY <1>1, <1>7, <1>12, SMTT(30)
  <2> QED
    BY <1>1, <2>1, <2>2, SMTT(30) DEF Vertices
<1>14. \A a, b \in 0..n : a < b => dfn[up[b]] < dfn[up[a]]
  <2> SUFFICES ASSUME NEW a \in 0..n, NEW b \in 0..n, a < b
               PROVE  dfn[up[b]] < dfn[up[a]]
    BY Zenon
  <2>1. dfn[up[b]] <= dfn[up[a]] - (b - a)
    BY <1>6, <1>11, <1>12, SMTT(30)
  <2>2. dfn[up[a]] \in Int /\ dfn[up[b]] \in Int
    BY <1>1, <1>6, <1>9, <1>12
  <2> QED
    BY <1>6, <2>1, <2>2
<1>17. Min(K) = n
  <2>1. K \in SUBSET Nat /\ n \in K
    BY <1>1, <1>7, <1>12, SMTT(30)
  <2> HIDE DEF K
  <2> QED
    BY <1>7, <2>1, LeastIsMin, Zenon
<1>16. PathIs(f, v, k, n, up)
  BY <1>1, <1>3, <1>4, <1>6, <1>17, <1>8, <1>9, <1>12, <1>13, <1>14, SMTT(30) DEF PathIs
<1> QED
  BY <1>16, Zenon

\* The recursion that shortens the jumps collected is well defined.
AfterOf(f, path, n, h) ==
  h = [k \in 0..n |-> IF k = 0 THEN f ELSE Shorten(path[Len(path) + 1 - k], h[k - 1])]

\* Such a function exists for every number of nodes shortened.
LEMMA AfterExists ==
  ASSUME NEW f, NEW path, NEW n \in Nat
  PROVE  \E h : AfterOf(f, path, n, h)
<1> DEFINE K == {k \in Nat : ~\E h : AfterOf(f, path, k, h)}
           step(x, k) == Shorten(path[Len(path) + 1 - k], x)
<1> SUFFICES ASSUME n \in K PROVE FALSE
  BY Zenon
<1>1. PICK m \in K : \A k \in K : m <= k
  <2>1. K \in SUBSET Nat /\ K # {}
    BY Zenon
  <2> HIDE DEF K
  <2> QED
    BY <2>1, LeastNumber, Zenon
<1>2. m # 0
  <2> SUFFICES ASSUME m = 0 PROVE FALSE
    BY Zenon
  <2> DEFINE u == [k \in 0..0 |-> f]
  <2>1. AfterOf(f, path, 0, u)
    BY DEF AfterOf
  <2> QED
    BY <1>1, <2>1, Zenon
<1>3. PICK u : AfterOf(f, path, m - 1, u)
  BY <1>1, <1>2
<1> DEFINE h == [k \in 0..m |-> IF k < m THEN u[k] ELSE step(u[m - 1], m)]
<1> HIDE DEF step
<1>4. \A k \in 0..(m - 1) : u[k] = (IF k = 0 THEN f ELSE step(u[k - 1], k))
  BY <1>1, <1>2, <1>3, Zenon DEF AfterOf, step
<1>5. \A k \in 0..m : h[k] = (IF k = 0 THEN f ELSE step(h[k - 1], k))
  <2> SUFFICES ASSUME NEW k \in 0..m
               PROVE  h[k] = (IF k = 0 THEN f ELSE step(h[k - 1], k))
    BY Zenon
  <2>1. CASE k = m
    <3>1. h[k] = step(u[m - 1], m) /\ h[k - 1] = u[m - 1]
      BY <1>1, <1>2, <2>1
    <3> QED
      BY <1>2, <2>1, <3>1, Zenon
  <2>2. CASE k # m
    <3>1. h[k] = u[k] /\ k \in 0..(m - 1) /\ (k # 0 => h[k - 1] = u[k - 1])
      BY <1>1, <2>2
    <3> QED
      BY <1>4, <3>1, Zenon
  <2> QED
    BY <2>1, <2>2, Zenon
<1>6. AfterOf(f, path, m, h)
  <2> SUFFICES h = [k \in 0..m |-> IF k = 0 THEN f ELSE step(h[k - 1], k)]
    BY Zenon DEF AfterOf, step
  <2> HIDE DEF h
  <2>1. h = [k \in 0..m |-> h[k]]
    BY Zenon DEF h
  <2> QED
    BY <1>5, <2>1, Zenon
<1> QED
  BY <1>1, <1>6, Zenon

\* compress leaves every jump and label right, and v one jump below the top of
\* its tree, which is not linked.
LEMMA CompressForest ==
  ASSUME WalkResult, WalkNumbers, NEW k \in Nat, k >= 1, NEW f, ForestOK(f, k),
         NEW v \in Live, dfn[v] >= k
  PROVE  /\ ForestOK(compress(f, v), k) /\ compress(f, v).semi = f.semi
         /\ compress(f, v).ancestor[v] \in Vertices
         /\ ~(compress(f, v).ancestor[v] \in Live /\ dfn[compress(f, v).ancestor[v]] >= k)
<1>1. PICK n, up : PathIs(f, v, k, n, up)
  BY PathExists, Zenon
<1>2. PICK path : path = CompressPath(f, v)
  BY Zenon
<1>3. n \in Nat /\ Len(path) = n /\ \A j \in 1..n : path[n + 1 - j] = up[n - j]
  <2>1. n \in Nat /\ path = [j \in 1..n |-> up[j - 1]]
    BY <1>1, <1>2, GraphAssumption, Zenon DEF PathIs
  <2>2. Len(path) = n
    BY <2>1
  <2>3. \A j \in 1..n : n + 1 - j \in 1..n /\ n + 1 - j - 1 = n - j
    BY <2>1
  <2> QED
    BY <2>1, <2>2, <2>3
<1> DEFINE after == CHOOSE h : AfterOf(f, path, n, h)
           r == f.ancestor[up[n]]
<1>4. AfterOf(f, path, n, after)
  BY <1>3, AfterExists, Zenon
<1>5. compress(f, v) = after[n]
  BY <1>2, <1>3, ZenonT(30) DEF compress, AfterOf
<1> HIDE DEF after
<1>6. after[0] = f /\ \A j \in 1..n : after[j] = Shorten(up[n - j], after[j - 1])
  <2>1. \A j \in 0..n : after[j] = IF j = 0 THEN f
                                   ELSE Shorten(path[Len(path) + 1 - j], after[j - 1])
    <3>1. after = [j \in 0..n |-> IF j = 0 THEN f
                                 ELSE Shorten(path[Len(path) + 1 - j], after[j - 1])]
      BY <1>4, Zenon DEF AfterOf
    <3> QED
      BY <3>1, Zenon
  <2>2. 0 \in 0..n /\ \A j \in 1..n : j \in 0..n /\ j # 0
    BY <1>3
  <2> QED
    BY <1>3, <2>1, <2>2, Zenon
<1>7. r \in Vertices /\ ~(r \in Live /\ dfn[r] >= k)
  <2>1. r \in Vertices /\ f.ancestor[r] = -1
    BY <1>1, Zenon DEF PathIs
  <2>2. ASSUME r \in Live, dfn[r] >= k PROVE f.ancestor[r] \in Vertices
    BY <2>2 DEF ForestOK, WalkResult
  <2>3. -1 \notin Vertices
    BY GraphAssumption DEF Vertices
  <2> QED
    BY <2>1, <2>2, <2>3, Zenon
<1> DEFINE Claim(j) == /\ ForestOK(after[j], k) /\ after[j].semi = f.semi
                       /\ after[j].ancestor[up[n - j]] = r
                       /\ \A c \in 0..n : c < n - j => after[j].ancestor[up[c]] = f.ancestor[up[c]]
<1>8. Claim(0)
  BY <1>3, <1>6
<1>9. ASSUME NEW j \in 1..n, Claim(j - 1)
      PROVE  Claim(j)
  <2>1. PICK h, x, a : h = after[j - 1] /\ x = up[n - j] /\ a = up[n - j + 1]
    BY Zenon
  <2>2. /\ n - j \in 0..n /\ n - j + 1 \in 1..n /\ n - (j - 1) = n - j + 1
        /\ n - j < n - (j - 1)
    BY <1>3
  <2>3. f.ancestor[x] = a /\ x \in Live /\ a \in Live /\ dfn[x] >= k
    <3>1. /\ f.ancestor[up[n - j + 1 - 1]] = up[n - j + 1]
          /\ n - j + 1 - 1 = n - j /\ n - j + 1 \in 0..n
      BY <1>1, <1>3, <2>2 DEF PathIs
    <3> QED
      BY <1>1, <2>1, <2>2, <3>1, Zenon DEF PathIs
  <2>4. /\ ForestOK(h, k) /\ h.semi = f.semi /\ h.ancestor[a] = r /\ h.ancestor[x] = a
        /\ \A c \in 0..n : c < n - (j - 1) => h.ancestor[up[c]] = f.ancestor[up[c]]
    BY <1>9, <2>1, <2>2, <2>3, ZenonT(30)
  <2>5. x \in Vertices /\ a \in Vertices /\ a # -1 /\ r # -1
    BY <1>7, <2>3, GraphAssumption, SMTT(30) DEF WalkResult, Vertices
  <2>6. /\ ForestOK(Shorten(x, h), k) /\ Shorten(x, h).semi = h.semi
        /\ Shorten(x, h).ancestor = [h.ancestor EXCEPT ![x] = h.ancestor[h.ancestor[x]]]
    BY <2>4, <2>5, ShortenForest
  <2>7. after[j] = Shorten(x, h)
    BY <1>6, <2>1, Zenon
  <2>8. h.ancestor \in [Vertices -> Vertices \cup {-1}]
    BY <2>4, Zenon DEF ForestOK, ForestType
  <2>9. after[j].ancestor[x] = r
    BY <2>4, <2>5, <2>6, <2>7, <2>8, ZenonT(30)
  <2>10. ASSUME NEW c \in 0..n, c < n - j
         PROVE  after[j].ancestor[up[c]] = f.ancestor[up[c]]
    <3>1. up[c] # x /\ up[c] \in Vertices /\ c < n - (j - 1)
      <4>1. dfn[up[n - j]] < dfn[up[c]] /\ up[c] \in Live
        BY <1>1, <2>2, <2>10, Zenon DEF PathIs
      <4>2. dfn[up[c]] \in Int /\ up[c] \in Vertices
        BY <4>1, Zenon DEF WalkResult
      <4> QED
        BY <1>3, <2>1, <2>10, <4>1, <4>2, SMTT(30)
    <3>2. after[j].ancestor[up[c]] = h.ancestor[up[c]]
      BY <2>6, <2>7, <2>8, <3>1, Zenon
    <3> QED
      BY <2>4, <3>1, <3>2, Zenon
  <2> QED
    BY <2>1, <2>4, <2>6, <2>7, <2>9, <2>10, Zenon
<1>10. Claim(n)
  <2> DEFINE K == {j \in 0..n : ~Claim(j)}
  <2> HIDE DEF Claim
  <2> SUFFICES ASSUME n \in K PROVE FALSE
    BY <1>3
  <2>1. PICK j \in K : \A c \in K : j <= c
    <3>1. K \in SUBSET Nat
      BY <1>3
    <3> HIDE DEF K
    <3> QED
      BY <3>1, LeastNumber, Zenon
  <2>2. j \in 1..n /\ j - 1 \in 0..n /\ j - 1 \notin K
    BY <1>3, <1>8, <2>1, SMTT(30)
  <2> QED
    BY <1>9, <2>1, <2>2, Zenon
<1>11. n - n = 0 /\ up[0] = v
  BY <1>1, <1>3, SMTT(30) DEF PathIs
<1> QED
  BY <1>5, <1>7, <1>10, <1>11, Zenon

\* eval returns the node itself if it is not linked, else the linked ancestor
\* with the least semi; its compression changes neither.
LEMMA EvalForest ==
  ASSUME WalkResult, WalkNumbers, NEW k \in Nat, k >= 1, NEW f, ForestOK(f, k), NEW v \in Live
  PROVE  /\ ForestOK(eval(f, v).forest, k) /\ eval(f, v).forest.semi = f.semi
         /\ dfn[v] < k => eval(f, v).node = v
         /\ dfn[v] >= k =>
              /\ eval(f, v).node \in Anc(v) /\ dfn[eval(f, v).node] >= k
              /\ \A x \in Anc(v) : dfn[x] >= k => f.semi[eval(f, v).node] <= f.semi[x]
<1>1. v \in Vertices /\ dfn[v] \in Int
  BY Zenon DEF WalkResult
<1>2. CASE dfn[v] < k
  <2>1. f.ancestor[v] = -1
    BY <1>1, <1>2 DEF ForestOK
  <2>2. eval(f, v) = [node |-> v, forest |-> f]
    BY <2>1, Zenon DEF eval
  <2> QED
    BY <1>1, <1>2, <2>2
<1>3. CASE dfn[v] >= k
  <2>1. PICK c : c = compress(f, v)
    BY Zenon
  <2>2. /\ ForestOK(c, k) /\ c.semi = f.semi /\ c.ancestor[v] \in Vertices
        /\ ~(c.ancestor[v] \in Live /\ dfn[c.ancestor[v]] >= k)
    BY <1>3, <2>1, CompressForest, Zenon
  <2>3. f.ancestor[v] # -1
    BY <1>3, GraphAssumption, SMTT(30) DEF ForestOK, WalkResult, Vertices
  <2>4. eval(f, v) = [node |-> c.label[v], forest |-> c]
    BY <2>1, <2>3, Zenon DEF eval
  <2>5. /\ c.label[v] \in Between(c, v)
        /\ \A x \in Between(c, v) : dfn[x] >= k /\ c.semi[c.label[v]] <= c.semi[x]
        /\ c.ancestor[v] \in Anc(v)
    BY <1>3, <2>2, Zenon DEF ForestOK
  <2>6. c.ancestor[v] \in Live /\ dfn[c.ancestor[v]] < k
    BY <2>2, <2>5 DEF WalkResult
  <2>7. ASSUME NEW x \in Anc(v), dfn[x] >= k
        PROVE  x \in Between(c, v)
    <3>1. dfn[x] \in Int /\ dfn[c.ancestor[v]] \in Int
      BY <2>6, Zenon DEF WalkResult
    <3> QED
      BY <2>6, <2>7, <3>1 DEF Between
  <2>8. c.label[v] \in Anc(v)
    BY <2>5, Zenon DEF Between
  <2>9. eval(f, v).node = c.label[v] /\ eval(f, v).forest = c
    BY <2>4
  <2>10. \A x \in Anc(v) : dfn[x] >= k => f.semi[c.label[v]] <= f.semi[x]
    BY <2>2, <2>5, <2>7, Zenon
  <2>11. ~(dfn[v] < k)
    BY <1>1, <1>3
  <2> QED
    BY <2>2, <2>5, <2>8, <2>9, <2>10, <2>11, Zenon
<1> QED
  BY <1>1, <1>2, <1>3

-----------------------------------------------------------------------------
(* Scanning the referrers of a node.                                       *)

\* The parent of w is a high predecessor of w.
LEMMA ParentIsHigh ==
  ASSUME WalkResult, NEW w \in Live \ {Root}
  PROVE  parent[w] \in High(w) /\ parent[w] \in Anc(w)
<1>1. /\ parent[w] \in Live /\ w \in succ(parent[w]) /\ parent[w] # -1
      /\ w \in Vertices /\ parent \in Tree
  BY Zenon DEF WalkResult
<1>2. parent[w] \in High(w)
  BY <1>1, HighClosed, Zenon
<1>3. parent[w] \in Anc(w)
  BY <1>1, AncestorOfParent, GraphAssumption, Zenon DEF Anc, WalkResult, Vertices
<1> QED
  BY <1>2, <1>3, Zenon

\* The semidominator is a proper ancestor.
LEMMA SemidominatorIsAncestor ==
  ASSUME WalkResult, WalkNumbers, NEW w \in Live \ {Root}, NEW m, SemiIs(w, m)
  PROVE  /\ m \in 0..(Len(vertex) - 1) /\ m < dfn[w] /\ dfn[Numbered(m)] = m
         /\ Numbered(m) \in Anc(w) /\ Numbered(m) # w
<1>1. PICK x \in High(w) : dfn[x] = m
  BY Zenon DEF SemiIs
<1>2. x \in Live /\ dfn[x] \in Int /\ dfn[w] \in Int
  BY HighIsLive, Zenon DEF WalkResult
<1>3. m <= dfn[parent[w]] /\ dfn[parent[w]] < dfn[w] /\ dfn[parent[w]] \in Int
  BY ParentIsHigh, Zenon DEF SemiIs, WalkResult
<1>4. m < dfn[w]
  BY <1>1, <1>2, <1>3
<1>5. x \in Anc(w)
  BY <1>1, <1>4, LowerHighIsAncestor, Zenon
<1>6. Numbered(m) = x /\ m \in 0..(Len(vertex) - 1)
  BY <1>1, <1>2, Zenon DEF WalkNumbers
<1> QED
  BY <1>1, <1>2, <1>4, <1>5, <1>6

\* The child of b on the way down to v.
LEMMA ChildToward ==
  ASSUME WalkResult, NEW v \in Live, NEW b \in Anc(v), b # v
  PROVE  \E c \in Anc(v) : parent[c] = b /\ c \in Live \ {Root}
<1> DEFINE K == {dfn[y] : y \in {t \in Anc(v) : dfn[t] > dfn[b]}}
<1>1. /\ b \in Live /\ v \in Anc(v) /\ dfn[b] < dfn[v]
      /\ \A y \in Live : dfn[y] \in Nat /\ y \in Vertices
      /\ \A y \in Anc(v) : y \in Live
  BY AncestorSelf DEF Anc, WalkResult
<1>2. PICK m \in K : \A j \in K : m <= j
  <2>1. K \in SUBSET Nat /\ dfn[v] \in K
    BY <1>1, Zenon
  <2> HIDE DEF K
  <2> QED
    BY <2>1, LeastNumber, Zenon
<1>3. PICK c \in Anc(v) : dfn[c] > dfn[b] /\ dfn[c] = m
  BY <1>2, Zenon
<1>4. c \in Live /\ c # Root /\ c # b
  BY <1>1, <1>3 DEF WalkResult
<1>5. parent[c] \in Live /\ dfn[parent[c]] < dfn[c]
  BY <1>4, Zenon DEF WalkResult
<1>6. b \in Anc(c)
  BY <1>1, <1>3, <1>4 DEF WalkResult
<1>7. b \in Anc(parent[c])
  BY <1>1, <1>4, <1>6, AncestorSplit, Zenon DEF Anc, WalkResult
<1>8. parent[c] \in Anc(v)
  <2>1. parent[c] \in Anc(c)
    BY <1>4, ParentIsHigh, Zenon
  <2> QED
    BY <1>1, <1>3, <2>1, AncestorTransitive, Zenon DEF Anc
<1>9. ~(dfn[parent[c]] > dfn[b])
  <2> SUFFICES ASSUME dfn[parent[c]] > dfn[b] PROVE FALSE
    BY Zenon
  <2>1. dfn[parent[c]] \in K
    BY <1>8, Zenon
  <2>2. dfn[parent[c]] \in Nat /\ dfn[c] \in Nat
    BY <1>1, <1>4, <1>5, Zenon
  <2> HIDE DEF K
  <2> QED
    BY <1>2, <1>3, <1>5, <2>1, <2>2, SMTT(30)
<1>10. parent[c] = b
  BY <1>1, <1>5, <1>7, <1>9 DEF WalkResult
<1> QED
  BY <1>3, <1>4, <1>10, Zenon

\* The semi of a node that is not linked is no label's.
LEMMA SetSemi ==
  ASSUME WalkResult, NEW k \in Nat, NEW f, ForestOK(f, k), NEW w \in Live, dfn[w] < k, NEW m \in Nat
  PROVE  /\ ForestOK([f EXCEPT !.semi[w] = m], k)
         /\ [f EXCEPT !.semi[w] = m].semi[w] = m
         /\ \A x \in Vertices \ {w} : [f EXCEPT !.semi[w] = m].semi[x] = f.semi[x]
<1>1. PICK h : h = [f EXCEPT !.semi[w] = m]
  BY Zenon
<1>2. f \in ForestType /\ f.semi \in [Vertices -> Nat] /\ w \in Vertices /\ dfn[w] \in Int
  BY Zenon DEF ForestOK, ForestType, WalkResult
<1>3. /\ h \in ForestType /\ h.label = f.label /\ h.ancestor = f.ancestor
      /\ h.semi = [f.semi EXCEPT ![w] = m]
  BY <1>1, <1>2, Zenon DEF ForestType
<1>4. h.semi[w] = m /\ \A x \in Vertices \ {w} : h.semi[x] = f.semi[x]
  BY <1>2, <1>3, Zenon
<1>5. \A v : Between(h, v) = Between(f, v)
  BY <1>3, Zenon DEF Between
<1>6. ASSUME NEW v \in Live, dfn[v] >= k, NEW x \in Between(f, v)
      PROVE  h.semi[h.label[v]] <= h.semi[x]
  <2>1. /\ f.label[v] \in Between(f, v) /\ dfn[f.label[v]] >= k /\ dfn[x] >= k
        /\ f.semi[f.label[v]] <= f.semi[x]
    BY <1>6, Zenon DEF ForestOK
  <2>2. x \in Vertices \ {w} /\ f.label[v] \in Vertices \ {w}
    BY <1>2, <2>1 DEF Between, WalkResult
  <2> QED
    BY <1>3, <1>4, <2>1, <2>2, Zenon
<1>7. \A v \in Vertices : ~(v \in Live /\ dfn[v] >= k) => h.ancestor[v] = -1 /\ h.label[v] = v
  BY <1>3, Zenon DEF ForestOK
<1>8. ASSUME NEW v \in Live, dfn[v] >= k
      PROVE  /\ h.ancestor[v] \in Anc(v) /\ h.ancestor[v] # v
             /\ h.label[v] \in Between(h, v)
             /\ \A x \in Between(h, v) : dfn[x] >= k /\ h.semi[h.label[v]] <= h.semi[x]
  <2>1. /\ f.ancestor[v] \in Anc(v) /\ f.ancestor[v] # v /\ f.label[v] \in Between(f, v)
        /\ \A x \in Between(f, v) : dfn[x] >= k
    BY <1>8, Zenon DEF ForestOK
  <2> QED
    BY <1>3, <1>5, <1>6, <1>8, <2>1, Zenon
<1>9. ForestOK(h, k)
  BY <1>3, <1>7, <1>8, Zenon DEF ForestOK
<1> QED
  BY <1>1, <1>4, <1>9, Zenon

\* One iteration of the loop over the referrers of w: the evaluated referrer v is
\* taken into account.
LEMMA ScanReferrer ==
  ASSUME WalkResult, WalkNumbers, NEW j \in 1..(Len(vertex) - 1), NEW f, NEW w, w = Numbered(j),
         ForestOK(f, j + 1), SemisOK(f, j + 1, w), NEW left, ScanOK(f, w, left),
         NEW v \in Live, w \in succ(v), NEW h, h = eval(f, v).forest, NEW n, n = eval(f, v).node,
         NEW m, m = (IF h.semi[n] < h.semi[w] THEN h.semi[n] ELSE h.semi[w])
  PROVE  /\ ForestOK([h EXCEPT !.semi[w] = m], j + 1)
         /\ SemisOK([h EXCEPT !.semi[w] = m], j + 1, w)
         /\ ScanOK([h EXCEPT !.semi[w] = m], w, left \ {v})
<1>1. /\ j \in Nat /\ j + 1 \in Nat /\ j + 1 >= 1 /\ w \in Live /\ dfn[w] = j
      /\ \A y \in Live : dfn[y] \in Int /\ y \in Vertices
  <2>1. Len(vertex) \in Nat
    BY Zenon DEF WalkNumbers
  <2>2. j \in Nat /\ j + 1 \in Nat /\ j + 1 >= 1 /\ j \in 0..(Len(vertex) - 1)
    BY <2>1
  <2>3. w \in Live /\ dfn[w] = j
    BY <2>2, Zenon DEF WalkNumbers
  <2>4. \A y \in Live : dfn[y] \in Int /\ y \in Vertices
    BY Zenon DEF WalkResult
  <2> QED
    BY <2>2, <2>3, <2>4, Zenon
<1>2. /\ ForestOK(h, j + 1) /\ h.semi = f.semi
      /\ dfn[v] < j + 1 => n = v
      /\ dfn[v] >= j + 1 => /\ n \in Anc(v) /\ dfn[n] >= j + 1
                            /\ \A x \in Anc(v) : dfn[x] >= j + 1 => f.semi[n] <= f.semi[x]
  BY <1>1, EvalForest, ZenonT(30)
<1>3. f.semi \in [Vertices -> Nat]
  BY Zenon DEF ForestOK, ForestType
<1>4. n \in Live /\ n \in Vertices /\ f.semi[n] \in Nat /\ f.semi[w] \in Nat
  <2>1. dfn[v] < j + 1 \/ dfn[v] >= j + 1
    BY <1>1
  <2>2. \A x \in Anc(v) : x \in Live
    BY Zenon DEF WalkResult
  <2>3. n \in Live
    BY <1>2, <2>1, <2>2, Zenon
  <2> QED
    BY <1>1, <1>3, <2>3, Zenon
<1>5. m \in Nat /\ m <= f.semi[w] /\ m <= f.semi[n] /\ (m = f.semi[w] \/ m = f.semi[n])
  BY <1>2, <1>4
<1>6. PICK e : e = [h EXCEPT !.semi[w] = m]
  BY ZenonT(30)
<1>7. ForestOK(e, j + 1) /\ e.semi[w] = m /\ \A x \in Vertices \ {w} : e.semi[x] = f.semi[x]
  BY <1>1, <1>2, <1>5, <1>6, SetSemi, SMTT(30)
<1>8. SemisOK(e, j + 1, w)
  BY <1>1, <1>7, Zenon DEF SemisOK
<1>9. f.semi[w] <= dfn[w] /\ (f.semi[w] = dfn[w] \/ \E x \in High(w) : dfn[x] = f.semi[w])
  BY Zenon DEF ScanOK
<1>10. m <= dfn[w]
  <2>1. /\ m \in Nat /\ m <= f.semi[w] /\ f.semi[w] \in Nat /\ f.semi[w] <= dfn[w]
        /\ dfn[w] \in Int
    BY <1>1, <1>4, <1>5, <1>9, Zenon
  <2> QED
    BY <2>1, SMTT(30)
<1>11. ASSUME dfn[v] < j + 1, v # w
       PROVE  n = v /\ f.semi[n] = dfn[v] /\ v \in High(w)
  BY <1>1, <1>2, <1>11, HighClosed, SMTT(30) DEF SemisOK
<1>12. ASSUME dfn[v] >= j + 1
       PROVE  \E x \in High(w) : dfn[x] = f.semi[n]
  <2>1. n \in Anc(v) /\ dfn[n] >= j + 1 /\ n # w /\ dfn[n] > dfn[w]
    BY <1>1, <1>2, <1>4, <1>12, SMTT(30)
  <2>2. SemiIs(n, f.semi[n])
    BY <1>4, <2>1, Zenon DEF SemisOK
  <2>3. High(n) \subseteq High(w)
    BY <1>1, <2>1, HighThroughReferrer, Zenon
  <2> QED
    BY <2>2, <2>3, ZenonT(30) DEF SemiIs
<1>13. m = dfn[w] \/ \E x \in High(w) : dfn[x] = m
  <2>1. CASE m = f.semi[w]
    BY <1>9, <2>1, ZenonT(30)
  <2>2. CASE m = f.semi[n] /\ m # f.semi[w]
    <3>1. v # w \/ ~(dfn[v] < j + 1)
      BY <1>2, <2>2, ZenonT(30)
    <3> QED
      BY <1>1, <1>11, <1>12, <2>2, <3>1, SMTT(30)
  <2> QED
    BY <1>5, <2>1, <2>2, Zenon
<1>14. ASSUME NEW z \in Live \ {Root}, w \in succ(z), z \notin left \ {v}
       PROVE  m <= dfn[z] /\ \A u \in Anc(z) : dfn[u] > dfn[w] => m <= e.semi[u]
  <2>1. ASSUME NEW u \in Anc(z), dfn[u] > dfn[w]
        PROVE  u \in Vertices \ {w} /\ e.semi[u] = f.semi[u] /\ f.semi[u] \in Nat /\ dfn[u] >= j + 1
               /\ dfn[u] <= dfn[z] /\ dfn[u] \in Int
    <3>1. u \in Live /\ u # w /\ dfn[u] <= dfn[z]
      <4>1. u \in Live /\ dfn[u] <= dfn[z]
        BY <2>1, Zenon DEF WalkResult
      <4>2. u # w
        <5>1. dfn[u] > dfn[w] /\ dfn[w] \in Int
          BY <1>1, <2>1, Zenon
        <5> QED
          BY <5>1, SMTT(30)
      <4> QED
        BY <4>1, <4>2, Zenon
    <3>2. u \in Vertices \ {w} /\ e.semi[u] = f.semi[u] /\ f.semi[u] \in Nat /\ dfn[u] \in Int
      BY <1>1, <1>3, <1>7, <3>1, Zenon
    <3>3. dfn[u] > j /\ j \in Nat
      BY <1>1, <2>1, Zenon
    <3>4. dfn[u] >= j + 1
      BY <3>2, <3>3, SMTT(30)
    <3> QED
      BY <3>1, <3>2, <3>4, Zenon
  <2>2. CASE z # v
    <3>1. f.semi[w] <= dfn[z] /\ \A u \in Anc(z) : dfn[u] > dfn[w] => f.semi[w] <= f.semi[u]
      BY <1>14, <2>2, Zenon DEF ScanOK
    <3>2. m \in Nat /\ m <= f.semi[w] /\ f.semi[w] \in Nat /\ dfn[z] \in Int
      BY <1>1, <1>4, <1>5, Zenon
    <3>3. m <= dfn[z]
      BY <3>1, <3>2
    <3>4. ASSUME NEW u \in Anc(z), dfn[u] > dfn[w] PROVE m <= e.semi[u]
      <4>1. f.semi[w] <= f.semi[u] /\ e.semi[u] = f.semi[u] /\ f.semi[u] \in Nat
        BY <2>1, <3>1, <3>4, Zenon
      <4> QED
        BY <3>2, <4>1
    <3> QED
      BY <3>3, <3>4, Zenon
  <2>3. CASE z = v /\ dfn[v] < j + 1
    <3>1. m <= dfn[z]
      BY <1>1, <1>5, <1>10, <1>11, <2>3, Zenon
    <3>2. ASSUME NEW u \in Anc(z), dfn[u] > dfn[w] PROVE FALSE
      <4>1. /\ dfn[u] >= j + 1 /\ dfn[u] <= dfn[z] /\ dfn[u] \in Int
            /\ dfn[z] \in Int /\ dfn[z] < j + 1 /\ j \in Nat
        BY <1>1, <2>1, <2>3, <3>2, Zenon
      <4> QED
        BY <4>1, SMTT(30)
    <3> QED
      BY <3>1, <3>2, Zenon
  <2>4. CASE z = v /\ dfn[v] >= j + 1
    <3>1. m <= dfn[z]
      <4>1. m \in Nat /\ m <= j /\ j \in Nat /\ dfn[z] \in Int /\ dfn[z] >= j + 1
        BY <1>1, <1>5, <1>10, <2>4, Zenon
      <4> QED
        BY <4>1, SMTT(30)
    <3>2. ASSUME NEW u \in Anc(z), dfn[u] > dfn[w] PROVE m <= e.semi[u]
      <4>1. f.semi[n] <= f.semi[u]
        BY <1>2, <2>1, <2>4, <3>2, Zenon
      <4>2. /\ m \in Nat /\ m <= f.semi[n] /\ f.semi[n] \in Nat
            /\ f.semi[u] \in Nat /\ e.semi[u] = f.semi[u]
        BY <1>4, <1>5, <2>1, <3>2, Zenon
      <4> QED
        BY <4>1, <4>2, SMTT(30)
    <3> QED
      BY <3>1, <3>2, ZenonT(30)
  <2>5. dfn[v] < j + 1 \/ dfn[v] >= j + 1
    BY <1>1
  <2> QED
    BY <2>2, <2>3, <2>4, <2>5, Zenon
<1>15. ScanOK(e, w, left \ {v})
  BY <1>7, <1>10, <1>13, <1>14, Zenon DEF ScanOK
<1> QED
  BY <1>6, <1>7, <1>8, <1>15, ZenonT(30)

-----------------------------------------------------------------------------
(* Linking a node, and filling and emptying the buckets.                   *)

\* Once all referrers are scanned, and the virtual root is taken into account,
\* the number found is that of the semidominator.
LEMMA LinkSemi ==
  ASSUME WalkResult, WalkNumbers, NEW j \in 1..(Len(vertex) - 1), NEW f, NEW w, w = Numbered(j),
         ForestOK(f, j + 1), SemisOK(f, j + 1, w), ScanOK(f, w, {})
  PROVE  FromRoot(f, w) \in Nat /\ SemiIs(w, FromRoot(f, w))
<1>1. PICK m : m = FromRoot(f, w)
  BY Zenon
<1>2. /\ j \in Nat /\ w \in Live /\ dfn[w] = j /\ Root \in Live /\ dfn[Root] = 0 /\ w # Root
      /\ \A y \in Live : dfn[y] \in Int /\ dfn[y] >= 0 /\ y \in Vertices
  BY SMTT(30) DEF WalkNumbers, WalkResult
<1>3. f.semi \in [Vertices -> Nat]
  BY Zenon DEF ForestOK, ForestType
<1>4. f.semi[Root] = 0
  BY <1>2, SMTT(30) DEF SemisOK
<1>5. m \in Nat /\ m <= f.semi[w] /\ (w \in g.roots => m = 0) /\ (w \notin g.roots => m = f.semi[w])
  BY <1>1, <1>2, <1>3, <1>4 DEF FromRoot
<1>6. succ(Root) = g.roots
  BY Zenon DEF succ
<1>7. f.semi[w] <= dfn[w] /\ (f.semi[w] = dfn[w] \/ \E x \in High(w) : dfn[x] = f.semi[w])
  BY Zenon DEF ScanOK
<1>8. \E x \in High(w) : dfn[x] = m
  <2>1. CASE w \in g.roots
    <3>1. Root \in High(w)
      BY <1>2, <1>6, <2>1, HighClosed, Zenon
    <3> QED
      BY <1>2, <1>5, <2>1, <3>1, Zenon
  <2>2. CASE w \notin g.roots
    <3>1. parent[w] \in Live /\ w \in succ(parent[w]) /\ dfn[parent[w]] < dfn[w]
      BY <1>2, Zenon DEF WalkResult
    <3>2. parent[w] # Root
      BY <1>6, <2>2, <3>1, Zenon
    <3>3. f.semi[w] <= dfn[parent[w]]
      BY <3>1, <3>2, Zenon DEF ScanOK
    <3>4. f.semi[w] # dfn[w]
      BY <1>2, <1>3, <3>1, <3>3
    <3> QED
      BY <1>5, <1>7, <2>2, <3>4, Zenon
  <2> QED
    BY <2>1, <2>2, Zenon
<1>9. ASSUME NEW z \in Live, w \in succ(z)
      PROVE  /\ m <= dfn[z]
             /\ \A u \in Anc(z) : dfn[u] > dfn[w] => \A x \in High(u) : m <= dfn[x]
  <2>1. CASE z = Root
    <3>1. m = 0
      BY <1>5, <1>6, <1>9, <2>1, Zenon
    <3>2. \A u : \A x \in High(u) : x \in Live
      BY HighIsLive, Zenon
    <3> QED
      BY <1>2, <3>1, <3>2, Zenon
  <2>2. CASE z # Root
    <3>1. f.semi[w] <= dfn[z] /\ \A u \in Anc(z) : dfn[u] > dfn[w] => f.semi[w] <= f.semi[u]
      BY <1>9, <2>2, Zenon DEF ScanOK
    <3>2. m <= dfn[z]
      BY <1>2, <1>3, <1>5, <3>1, ZenonT(30)
    <3>3. ASSUME NEW u \in Anc(z), dfn[u] > dfn[w], NEW x \in High(u)
          PROVE  m <= dfn[x]
      <4>1. u \in Live /\ u # w /\ dfn[u] >= j + 1 /\ x \in Live
        BY <1>2, <3>3, HighIsLive DEF WalkResult
      <4>2. SemiIs(u, f.semi[u])
        BY <4>1, Zenon DEF SemisOK
      <4>3. f.semi[u] <= dfn[x] /\ f.semi[w] <= f.semi[u] /\ f.semi[u] \in Nat /\ f.semi[w] \in Nat
        BY <1>2, <1>3, <3>1, <3>3, <4>1, <4>2, Zenon DEF SemiIs
      <4> QED
        BY <1>2, <1>5, <4>1, <4>3, SMTT(30)
    <3> QED
      BY <3>2, <3>3, Zenon
  <2> QED
    BY <2>1, <2>2, Zenon
<1>10. \A x \in High(w) : m <= dfn[x]
  <2>1. m \in Int
    BY <1>5
  <2> QED
    BY <1>2, <1>9, <2>1, SemiLowerBound, Zenon
<1> QED
  BY <1>1, <1>5, <1>8, <1>10, Zenon DEF SemiIs

\* Linking w to its parent puts it in the forest.
LEMMA LinkForest ==
  ASSUME WalkResult, WalkNumbers, NEW j \in 1..(Len(vertex) - 1), NEW f, NEW w, w = Numbered(j),
         ForestOK(f, j + 1), SemisOK(f, j + 1, w), NEW m \in Nat, SemiIs(w, m)
  PROVE  /\ ForestOK([f EXCEPT !.semi[w] = m, !.ancestor[w] = parent[w]], j)
         /\ SemisOK([f EXCEPT !.semi[w] = m, !.ancestor[w] = parent[w]], j, -1)
<1>1. /\ j \in Nat /\ j + 1 \in Nat /\ w \in Live /\ dfn[w] = j /\ w # Root
      /\ \A y \in Live : dfn[y] \in Int /\ y \in Vertices
  BY SMTT(30) DEF WalkNumbers, WalkResult
<1>2. PICK h, e, p : /\ h = [f EXCEPT !.semi[w] = m] /\ p = parent[w]
                     /\ e = [f EXCEPT !.semi[w] = m, !.ancestor[w] = p]
  BY Zenon
<1>3. ForestOK(h, j + 1) /\ h.semi[w] = m /\ \A x \in Vertices \ {w} : h.semi[x] = f.semi[x]
  BY <1>1, <1>2, SetSemi, SMTT(30)
<1>4. p \in Live /\ p \in Anc(w) /\ p # w /\ dfn[p] < dfn[w] /\ p # -1
  BY <1>1, <1>2, ParentIsHigh DEF WalkResult
<1>5. f \in ForestType /\ h \in ForestType
  BY <1>3, Zenon DEF ForestOK
<1>6. /\ e \in ForestType /\ e.semi = h.semi /\ e.label = h.label
      /\ e.ancestor = [h.ancestor EXCEPT ![w] = p]
  BY <1>1, <1>2, <1>4, <1>5, Zenon DEF ForestType
<1>7. e.ancestor[w] = p /\ \A x \in Vertices \ {w} : e.ancestor[x] = h.ancestor[x]
  BY <1>1, <1>5, <1>6, ZenonT(30) DEF ForestType
<1>8. e.label[w] = w
  BY <1>1, <1>3, <1>6 DEF ForestOK
<1>9. Between(e, w) = {w}
  <2>1. Between(e, w) = {x \in Anc(w) : dfn[x] > dfn[p]}
    BY <1>7, Zenon DEF Between
  <2>2. w \in Anc(w)
    BY <1>1, AncestorSelf, Zenon DEF Anc
  <2>3. ASSUME NEW x \in Anc(w), x # w
        PROVE  ~(dfn[x] > dfn[p])
    <3>1. x \in Anc(p)
      BY <1>1, <1>2, <2>3, AncestorSplit, ZenonT(30) DEF Anc, WalkResult
    <3> QED
      BY <1>1, <1>4, <3>1 DEF WalkResult
  <2> QED
    BY <1>4, <2>1, <2>2, <2>3, Zenon
<1>10. ASSUME NEW v \in Live, dfn[v] >= j, v # w
       PROVE  v \in Vertices /\ dfn[v] >= j + 1
  BY <1>1, <1>10 DEF WalkResult
<1>11. ASSUME NEW v \in Live, dfn[v] >= j
       PROVE  /\ e.ancestor[v] \in Anc(v) /\ e.ancestor[v] # v
              /\ e.label[v] \in Between(e, v)
              /\ \A x \in Between(e, v) : dfn[x] >= j /\ e.semi[e.label[v]] <= e.semi[x]
  <2>1. CASE v = w
    <3>1. e.semi[w] \in Nat
      BY <1>1, <1>5, <1>6, Zenon DEF ForestType
    <3> QED
      BY <1>1, <1>4, <1>7, <1>8, <1>9, <2>1, <3>1, SMTT(30)
  <2>2. CASE v # w
    <3>1. v \in Vertices \ {w} /\ dfn[v] >= j + 1
      BY <1>10, <1>11, <2>2, Zenon
    <3>2. /\ h.ancestor[v] \in Anc(v) /\ h.ancestor[v] # v
          /\ h.label[v] \in Between(h, v)
          /\ \A x \in Between(h, v) : dfn[x] >= j + 1 /\ h.semi[h.label[v]] <= h.semi[x]
      BY <1>3, <3>1, Zenon DEF ForestOK
    <3>3. Between(e, v) = Between(h, v) /\ e.ancestor[v] = h.ancestor[v]
      BY <1>7, <3>1, ZenonT(30) DEF Between
    <3>4. \A x \in Between(h, v) : dfn[x] >= j + 1 => dfn[x] >= j
      BY <1>1 DEF Between, WalkResult
    <3> QED
      BY <1>6, <3>2, <3>3, <3>4, Zenon
  <2> QED
    BY <2>1, <2>2, ZenonT(30)
<1>12. ASSUME NEW v \in Vertices, ~(v \in Live /\ dfn[v] >= j)
       PROVE  e.ancestor[v] = -1 /\ e.label[v] = v
  <2>1. v \in Vertices \ {w} /\ ~(v \in Live /\ dfn[v] >= j + 1)
    BY <1>1, <1>12
  <2>2. h.ancestor[v] = -1 /\ h.label[v] = v
    BY <1>3, <2>1, Zenon DEF ForestOK
  <2> QED
    BY <1>6, <1>7, <2>1, <2>2, ZenonT(30)
<1>13. ForestOK(e, j)
  BY <1>6, <1>11, <1>12, Zenon DEF ForestOK
<1>14. SemisOK(e, j, -1)
  <2> SUFFICES ASSUME NEW v \in Live
               PROVE  IF dfn[v] >= j THEN SemiIs(v, e.semi[v]) ELSE e.semi[v] = dfn[v]
    BY Zenon DEF SemisOK
  <2>1. CASE v = w
    BY <1>1, <1>3, <1>6, <2>1, SMTT(30)
  <2>2. CASE v # w
    <3>1. e.semi[v] = f.semi[v] /\ (dfn[v] >= j <=> dfn[v] >= j + 1)
      BY <1>1, <1>3, <1>6, <1>10, <2>2, SMTT(30)
    <3> QED
      BY <2>2, <3>1, Zenon DEF SemisOK
  <2> QED
    BY <2>1, <2>2, Zenon
<1> QED
  BY <1>2, <1>13, <1>14, Zenon

\* What putting w in front of a bucket adds to its members.
LEMMA RangeOfCons ==
  ASSUME NEW S, NEW s \in Seq(S), NEW w \in S
  PROVE  <<w>> \o s \in Seq(S) /\ Range(<<w>> \o s) = {w} \cup Range(s)
<1>1. /\ <<w>> \o s \in Seq(S) /\ Len(<<w>> \o s) = Len(s) + 1 /\ Len(s) \in Nat
      /\ \A k \in 1..(Len(s) + 1) : (<<w>> \o s)[k] = IF k = 1 THEN w ELSE s[k - 1]
  OBVIOUS
<1>2. PICK t : t = <<w>> \o s
  BY Zenon
<1>3. /\ DOMAIN t = 1..(Len(s) + 1) /\ DOMAIN s = 1..Len(s)
      /\ \A k \in 1..(Len(s) + 1) : t[k] = IF k = 1 THEN w ELSE s[k - 1]
  BY <1>1, <1>2
<1>4. ASSUME NEW x \in Range(t)
      PROVE  x \in {w} \cup Range(s)
  <2>1. PICK k \in 1..(Len(s) + 1) : x = t[k]
    BY <1>3, Zenon DEF Range
  <2>2. CASE k = 1
    BY <1>3, <2>1, <2>2, Zenon
  <2>3. CASE k # 1
    <3>1. k - 1 \in 1..Len(s) /\ x = s[k - 1]
      BY <1>1, <1>3, <2>1, <2>3
    <3> QED
      BY <1>3, <3>1, Zenon DEF Range
  <2> QED
    BY <2>2, <2>3, Zenon
<1>5. w \in Range(t)
  <2>1. 1 \in 1..(Len(s) + 1) /\ t[1] = w
    BY <1>1, <1>3
  <2> QED
    BY <1>3, <2>1, Zenon DEF Range
<1>6. ASSUME NEW x \in Range(s)
      PROVE  x \in Range(t)
  <2>1. PICK k \in 1..Len(s) : x = s[k]
    BY <1>3, Zenon DEF Range
  <2>2. k + 1 \in 1..(Len(s) + 1) /\ t[k + 1] = x
    <3>1. k + 1 \in 1..(Len(s) + 1) /\ k + 1 # 1 /\ k + 1 - 1 = k
      BY <1>1
    <3> QED
      BY <1>3, <2>1, <3>1
  <2> QED
    BY <1>3, <2>2, Zenon DEF Range
<1> QED
  BY <1>1, <1>2, <1>4, <1>5, <1>6, Zenon

\* An empty bucket has no members.
LEMMA RangeOfEmpty == Range(<<>>) = {}
  BY DEF Range

\* The members of a bucket are its first one and those of the rest.
LEMMA RangeOfHeadTail ==
  ASSUME NEW S, NEW s \in Seq(S), s # <<>>
  PROVE  /\ Head(s) \in Range(s) /\ Head(s) \in S /\ Tail(s) \in Seq(S)
         /\ Range(s) = {Head(s)} \cup Range(Tail(s))
<1>1. Head(s) \in S /\ Tail(s) \in Seq(S) /\ s = <<Head(s)>> \o Tail(s)
  OBVIOUS
<1>2. Range(<<Head(s)>> \o Tail(s)) = {Head(s)} \cup Range(Tail(s))
  BY <1>1, RangeOfCons, Zenon
<1> QED
  BY <1>1, <1>2, Zenon

\* Linking w moves on the nodes that wait for it: those of the bucket of its
\* parent are settled, those of the other buckets wait for a lower number.
LEMMA LinkBuckets ==
  ASSUME WalkResult, WalkNumbers, NEW j \in 1..(Len(vertex) - 1), NEW w, w = Numbered(j),
         NEW m, SemiIs(w, m), NEW idm, NEW bkt, BucketsOK(bkt, j + 1),
         Accounted(bkt, <<>>, idm, j + 1),
         NEW filled, filled = [bkt EXCEPT ![Numbered(m)] = <<w>> \o @]
  PROVE  /\ BucketsOK([filled EXCEPT ![parent[w]] = <<>>], j)
         /\ SettlingOK(filled[parent[w]], j)
         /\ Accounted([filled EXCEPT ![parent[w]] = <<>>], filled[parent[w]], idm, j)
<1>1. /\ j \in Nat /\ w \in Live \ {Root} /\ dfn[w] = j
      /\ \A y \in Live : dfn[y] \in Int /\ y \in Vertices
  BY DEF WalkNumbers, WalkResult
<1>2. PICK b, p, e : b = Numbered(m) /\ p = parent[w] /\ e = [filled EXCEPT ![p] = <<>>]
  BY Zenon
<1>3. m < dfn[w] /\ dfn[b] = m /\ b \in Anc(w) /\ b # w /\ b \in Live
  BY <1>1, <1>2, SemidominatorIsAncestor, Zenon DEF WalkResult
<1>4. p \in Live /\ dfn[p] < dfn[w] /\ p \in Anc(w)
  BY <1>1, <1>2, ParentIsHigh, Zenon DEF WalkResult
<1>5. /\ bkt \in [Vertices -> Seq(Vertices)]
      /\ \A c \in Vertices : \A v \in Range(bkt[c]) : Waiting(v, c, j + 1)
  BY Zenon DEF BucketsOK
<1>6. /\ filled \in [Vertices -> Seq(Vertices)]
      /\ Range(filled[b]) = {w} \cup Range(bkt[b])
      /\ \A c \in Vertices \ {b} : filled[c] = bkt[c]
  <2>1. b \in Vertices /\ bkt[b] \in Seq(Vertices) /\ w \in Vertices
    BY <1>1, <1>3, <1>5, Zenon
  <2>2. <<w>> \o bkt[b] \in Seq(Vertices) /\ Range(<<w>> \o bkt[b]) = {w} \cup Range(bkt[b])
    BY <2>1, RangeOfCons, Zenon
  <2>3. filled = [bkt EXCEPT ![b] = <<w>> \o bkt[b]]
    BY <1>2, Zenon
  <2>4. /\ filled \in [Vertices -> Seq(Vertices)] /\ filled[b] = <<w>> \o bkt[b]
        /\ \A c \in Vertices \ {b} : filled[c] = bkt[c]
    BY <1>5, <2>1, <2>2, <2>3, Zenon
  <2> QED
    BY <2>2, <2>4, Zenon
<1>7. /\ e \in [Vertices -> Seq(Vertices)] /\ e[p] = <<>>
      /\ \A c \in Vertices \ {p} : e[c] = filled[c]
  <2>1. p \in Vertices /\ <<>> \in Seq(Vertices) /\ filled \in [Vertices -> Seq(Vertices)]
    BY <1>1, <1>4, <1>6
  <2>2. e = [filled EXCEPT ![p] = <<>>]
    BY <1>2, Zenon
  <2> QED
    BY <2>1, <2>2, Zenon
<1>8. ASSUME NEW c \in Vertices, NEW v \in Range(filled[c])
      PROVE  /\ v \in Live /\ dfn[v] >= j /\ c \in Anc(v) /\ c # v /\ SemiIs(v, dfn[c])
             /\ \A x \in Anc(v) : parent[x] = c => dfn[x] <= j
  <2>1. CASE v \in Range(bkt[c])
    <3>1. /\ v \in Live /\ dfn[v] >= j + 1 /\ c \in Anc(v) /\ c # v /\ SemiIs(v, dfn[c])
          /\ \A x \in Anc(v) : parent[x] = c => dfn[x] < j + 1
      BY <1>5, <2>1, Zenon DEF Waiting
    <3>2. \A x \in Anc(v) : dfn[x] \in Int
      BY <1>1, <3>1, ZenonT(30) DEF WalkResult
    <3> QED
      BY <1>1, <3>1, <3>2
  <2>2. CASE v = w /\ c = b
    BY <1>1, <1>3, <2>2, SMTT(30) DEF WalkResult
  <2> QED
    BY <1>6, <1>8, <2>1, <2>2, ZenonT(30)
<1>9. ASSUME NEW c \in Vertices, NEW v \in Range(e[c])
      PROVE  Waiting(v, c, j)
  <2>1. c # p /\ v \in Range(filled[c])
    <3>1. c # p
      BY <1>7, <1>9, RangeOfEmpty, ZenonT(30)
    <3> QED
      BY <1>7, <1>9, <3>1, Zenon
  <2>2. ASSUME NEW x \in Anc(v), parent[x] = c
        PROVE  dfn[x] < j
    <3>1. x \in Live /\ dfn[x] <= j /\ x # w
      BY <1>2, <1>8, <2>1, <2>2, Zenon DEF WalkResult
    <3> QED
      BY <1>1, <3>1 DEF WalkResult
  <2> QED
    BY <1>8, <2>1, <2>2, Zenon DEF Waiting
<1>10. BucketsOK(e, j)
  BY <1>7, <1>9, Zenon DEF BucketsOK
<1>11. ASSUME NEW v \in Range(filled[p])
       PROVE  v \in Live /\ w \in Anc(v) /\ SemiIs(v, dfn[p])
  <2>1. /\ v \in Live /\ dfn[v] >= j /\ p \in Anc(v) /\ p # v /\ SemiIs(v, dfn[p])
        /\ \A x \in Anc(v) : parent[x] = p => dfn[x] <= j
    BY <1>1, <1>4, <1>8, Zenon
  <2>2. PICK x \in Anc(v) : parent[x] = p /\ x \in Live \ {Root}
    BY <2>1, ChildToward, Zenon
  <2>3. dfn[x] <= dfn[w] /\ dfn[w] <= dfn[v]
    BY <1>1, <2>1, <2>2, Zenon
  <2>4. x \in Anc(w)
    BY <1>1, <2>1, <2>3, ZenonT(30) DEF WalkResult
  <2>5. x = w
    <3> SUFFICES ASSUME x # w PROVE FALSE
      BY Zenon
    <3>1. x \in Anc(p)
      BY <1>1, <1>2, <2>4, AncestorSplit, Zenon DEF Anc, WalkResult
    <3>2. dfn[x] <= dfn[p] /\ dfn[p] < dfn[x]
      BY <1>4, <2>2, <3>1, Zenon DEF WalkResult
    <3> QED
      BY <1>1, <1>4, <2>2, <3>2, SMTT(30)
  <2> QED
    BY <2>1, <2>5, Zenon
<1>12. SettlingOK(filled[p], j)
  <2>1. filled[p] \in Seq(Vertices)
    BY <1>1, <1>4, <1>6, Zenon
  <2> QED
    BY <1>2, <1>11, <2>1, Zenon DEF SettlingOK
<1>13. ASSUME NEW v \in Live \ {Root}, dfn[v] >= j
       PROVE  \/ \E c \in Vertices : v \in Range(e[c])
              \/ v \in Range(filled[p])
              \/ Preliminary(v, idm[v])
  <2>1. ASSUME NEW c \in Vertices, v \in Range(filled[c])
        PROVE  v \in Range(filled[p]) \/ \E d \in Vertices : v \in Range(e[d])
    BY <1>7, <2>1, Zenon
  <2>2. CASE v = w
    <3>1. b \in Vertices /\ v \in Range(filled[b])
      BY <1>1, <1>3, <1>6, <2>2, Zenon
    <3> QED
      BY <2>1, <3>1, Zenon
  <2>3. CASE v # w
    <3>1. dfn[v] >= j + 1
      BY <1>1, <1>13, <2>3 DEF WalkResult
    <3>2. (\E c \in Vertices : v \in Range(bkt[c])) \/ Preliminary(v, idm[v])
      BY <3>1, RangeOfEmpty, Zenon DEF Accounted
    <3>3. ASSUME NEW c \in Vertices, v \in Range(bkt[c])
          PROVE  v \in Range(filled[c])
      BY <1>6, <3>3, Zenon
    <3> QED
      BY <2>1, <3>2, <3>3, ZenonT(30)
  <2> QED
    BY <2>2, <2>3, Zenon
<1>14. Accounted(e, filled[p], idm, j)
  BY <1>13, Zenon DEF Accounted
<1> QED
  BY <1>2, <1>10, <1>12, <1>14, ZenonT(30)

-----------------------------------------------------------------------------
(* Settling a node, and the last pass.                                     *)

\* A node has one semidominator.
LEMMA SemiUnique ==
  ASSUME WalkResult, NEW v, NEW a, NEW b, SemiIs(v, a), SemiIs(v, b)
  PROVE  a = b /\ a \in Nat
<1>1. PICK x \in High(v), y \in High(v) : dfn[x] = a /\ dfn[y] = b
  BY Zenon DEF SemiIs
<1>2. a <= b /\ b <= a
  BY <1>1, Zenon DEF SemiIs
<1>3. dfn[x] \in Nat /\ dfn[y] \in Nat
  BY HighIsLive DEF WalkResult
<1> QED
  BY <1>1, <1>2, <1>3

\* For a node v of the parent's bucket, eval looks at exactly the nodes between
\* the parent and v.
LEMMA SettleNode ==
  ASSUME WalkResult, WalkNumbers, NEW j \in 1..(Len(vertex) - 1), NEW p, p = parent[Numbered(j)],
         NEW f, ForestOK(f, j), SemisOK(f, j, -1),
         NEW v \in Live, Numbered(j) \in Anc(v), SemiIs(v, dfn[p]),
         NEW h, h = eval(f, v).forest, NEW n, n = eval(f, v).node,
         NEW d, d = (IF h.semi[n] < h.semi[v] THEN n ELSE p)
  PROVE  /\ ForestOK(h, j) /\ SemisOK(h, j, -1)
         /\ d \in Vertices /\ Preliminary(v, d)
<1>1. PICK w : w = Numbered(j)
  BY ZenonT(30)
<1>2. /\ j \in Nat /\ j >= 1 /\ w \in Live \ {Root} /\ dfn[w] = j
      /\ \A y \in Live : dfn[y] \in Int /\ dfn[y] >= 0 /\ y \in Vertices
  BY <1>1, SMTT(30) DEF WalkNumbers, WalkResult
<1>3. w \in Anc(v) /\ dfn[w] <= dfn[v] /\ \A y \in Anc(v) : y \in Live
  BY <1>1, Zenon DEF WalkResult
<1>4. p \in Live /\ dfn[p] < dfn[w] /\ p \in Anc(w)
  BY <1>1, <1>2, ParentIsHigh, Zenon DEF WalkResult
<1>5. p \in Anc(v) /\ p # v
  <2>1. p \in Anc(v)
    BY <1>2, <1>3, <1>4, AncestorTransitive, Zenon DEF Anc
  <2> QED
    BY <1>2, <1>3, <1>4, <2>1, SMTT(30)
<1>6. /\ ForestOK(h, j) /\ h.semi = f.semi
      /\ n \in Anc(v) /\ dfn[n] >= j
      /\ \A x \in Anc(v) : dfn[x] >= j => f.semi[n] <= f.semi[x]
  BY <1>2, <1>3, EvalForest, Zenon
<1>7. SemisOK(h, j, -1)
  BY <1>6, ZenonT(30) DEF SemisOK
<1>8. \A y \in Live : dfn[y] >= j => SemiIs(y, f.semi[y])
  BY <1>2, GraphAssumption DEF SemisOK, Vertices
<1>9. f.semi \in [Vertices -> Nat]
  BY Zenon DEF ForestOK, ForestType
<1>10. f.semi[v] = dfn[p]
  BY <1>2, <1>3, <1>8, SemiUnique, ZenonT(30)
<1>11. ASSUME NEW y \in Anc(v), dfn[y] > dfn[p]
       PROVE  dfn[y] >= j
  <2> SUFFICES ASSUME ~(dfn[y] >= j) PROVE FALSE
    BY ZenonT(30)
  <2>1. y \in Live /\ dfn[y] <= dfn[w] /\ y # w
    BY <1>2, <1>3
  <2>2. y \in Anc(w)
    BY <1>2, <1>3, <2>1, Zenon DEF WalkResult
  <2>3. y \in Anc(p)
    BY <1>1, <1>2, <2>1, <2>2, AncestorSplit, ZenonT(30) DEF Anc, WalkResult
  <2>4. dfn[y] <= dfn[p]
    BY <1>4, <2>3, ZenonT(30) DEF WalkResult
  <2> QED
    BY <1>2, <1>4, <1>11, <2>1, <2>4, SMTT(30)
<1>12. ASSUME NEW y \in Anc(v), dfn[y] > dfn[p], NEW x \in High(y)
       PROVE  /\ f.semi[n] <= dfn[x] /\ f.semi[n] \in Nat /\ dfn[x] \in Int
  <2>1. y \in Live /\ dfn[y] >= j /\ n \in Vertices /\ x \in Live
    BY <1>2, <1>3, <1>6, <1>11, <1>12, HighIsLive, Zenon
  <2>2. f.semi[y] <= dfn[x] /\ f.semi[n] <= f.semi[y]
    BY <1>6, <1>8, <2>1, ZenonT(30) DEF SemiIs
  <2> QED
    BY <1>2, <1>9, <2>1, <2>2, SMTT(30)
<1>13. n \in Live /\ dfn[n] > dfn[p] /\ SemiIs(n, f.semi[n])
  BY <1>2, <1>3, <1>4, <1>6, <1>8, SMTT(30)
<1>14. CASE f.semi[n] < dfn[p]
  <2>1. d = n
    BY <1>6, <1>10, <1>14, Zenon
  <2>2. PICK s \in High(n) : dfn[s] = f.semi[n]
    BY <1>13, Zenon DEF SemiIs
  <2>3. s \in Live
    BY HighIsLive, Zenon
  <2>4. /\ d \in Anc(v) /\ dfn[d] > dfn[p] /\ SemiIs(d, dfn[s]) /\ dfn[s] < dfn[p]
        /\ \A y \in Anc(v) : dfn[y] > dfn[p] => \A x \in High(y) : dfn[s] <= dfn[x]
    BY <1>6, <1>12, <1>13, <1>14, <2>1, <2>2, ZenonT(30)
  <2>5. Preliminary(v, d)
    BY <1>5, <2>3, <2>4, Zenon DEF Preliminary
  <2> QED
    BY <1>2, <1>6, <1>7, <1>13, <2>1, <2>5, ZenonT(30)
<1>15. CASE ~(f.semi[n] < dfn[p])
  <2>1. d = p
    BY <1>6, <1>10, <1>15, ZenonT(30)
  <2>2. \A y \in Anc(v) : dfn[y] > dfn[p] => \A x \in High(y) : dfn[p] <= dfn[x]
    BY <1>2, <1>4, <1>12, <1>15, SMTT(30)
  <2>3. Preliminary(v, d)
    BY <1>5, <2>1, <2>2, Zenon DEF Preliminary
  <2> QED
    BY <1>2, <1>4, <1>6, <1>7, <2>1, <2>3, ZenonT(30)
<1> QED
  BY <1>14, <1>15, Zenon

\* What the last pass makes of the preliminary result, once the nodes with
\* lower numbers have their immediate dominators.
LEMMA FinishNode ==
  ASSUME WalkResult, WalkNumbers, NEW f, NEW w \in Live \ {Root}, SemiIs(w, f.semi[w]),
         NEW idm, Preliminary(w, idm[w]),
         \A v \in Live \ {Root} : dfn[v] < dfn[w] => Immediate(idm[v], v)
  PROVE  Immediate(IF idm[w] # Numbered(f.semi[w]) THEN idm[idm[w]] ELSE idm[w], w)
<1>1. PICK b \in Anc(w) :
        /\ b # w /\ SemiIs(w, dfn[b])
        /\ \/ /\ idm[w] = b
              /\ \A y \in Anc(w) : dfn[y] > dfn[b] => \A x \in High(y) : dfn[b] <= dfn[x]
           \/ /\ idm[w] \in Anc(w) /\ dfn[idm[w]] > dfn[b]
              /\ \E s \in Live :
                   /\ SemiIs(idm[w], dfn[s]) /\ dfn[s] < dfn[b]
                   /\ \A y \in Anc(w) : dfn[y] > dfn[b] => \A x \in High(y) : dfn[s] <= dfn[x]
  BY ZenonT(30) DEF Preliminary
<1>2. f.semi[w] = dfn[b]
  BY <1>1, SemiUnique, SMTT(30)
<1>3. b \in Live /\ \A y \in Live : dfn[y] \in Int /\ dfn[y] >= 0
  BY Zenon DEF WalkResult
<1>4. Numbered(f.semi[w]) = b
  BY <1>2, <1>3, Zenon DEF WalkNumbers
<1>5. CASE /\ idm[w] = b
           /\ \A y \in Anc(w) : dfn[y] > dfn[b] => \A x \in High(y) : dfn[b] <= dfn[x]
  <2>1. Immediate(b, w)
    BY <1>1, <1>5, SemidominatorIsImmediate, Zenon
  <2> QED
    BY <1>4, <1>5, <2>1, Zenon
<1>6. ASSUME idm[w] \in Anc(w), dfn[idm[w]] > dfn[b], NEW s \in Live,
             SemiIs(idm[w], dfn[s]), dfn[s] < dfn[b],
             \A y \in Anc(w) : dfn[y] > dfn[b] => \A x \in High(y) : dfn[s] <= dfn[x]
      PROVE  Immediate(IF idm[w] # Numbered(f.semi[w]) THEN idm[idm[w]] ELSE idm[w], w)
  <2>1. PICK d : d = idm[w]
    BY ZenonT(30)
  <2>2. Strict(w) = Strict(d)
    BY <1>1, <1>6, <2>1, SameStrictDominators, SMTT(30)
  <2>3. d # w
    BY <1>1, <1>3, <1>6, <2>1, SemiUnique, SMTT(30)
  <2>4. d \in Live \ {Root} /\ dfn[d] < dfn[w] /\ d # b
    <3>1. d \in Live /\ dfn[d] <= dfn[w]
      BY <1>6, <2>1, Zenon DEF WalkResult
    <3>2. dfn[d] # dfn[w]
      BY <2>3, <3>1, Zenon DEF WalkResult
    <3> QED
      BY <1>3, <1>6, <2>1, <3>1, <3>2, SMTT(30) DEF WalkResult
  <2>5. Immediate(idm[d], d)
    BY <2>4, Zenon
  <2>6. Immediate(idm[d], w)
    BY <2>2, <2>5, Zenon DEF Immediate
  <2> QED
    BY <1>4, <2>1, <2>4, <2>6, Zenon
<1> QED
  BY <1>1, <1>5, <1>6, Zenon

=============================================================================

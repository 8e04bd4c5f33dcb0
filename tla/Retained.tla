------------------------------ MODULE Retained ------------------------------
(***************************************************************************)
(* What `hprofx retained` prints once Dominators has returned: the largest *)
(* retained sizes, each with its chain of dominators (DomChain of          *)
(* heapdump/hprofx/dom.go and cmdRetained).                                *)
(***************************************************************************)
EXTENDS Dominators

DomChain_WithRoot(v, max) ==
  LET up[k \in 0..(N + 1)] == IF k = 0 THEN v
                              ELSE IF up[k - 1] < 0 THEN -1 ELSE idom[up[k - 1]]
  IN [k \in 1..Cardinality({j \in 1..(N + 1) : j <= max /\ up[j - 1] # Root}) |-> up[k]]

\* DomChain, read by cmdRetained once Dominators has returned.
DomChain(v, max) ==
  LET up[k \in 0..(N + 1)] == IF k = 0 THEN v
                              ELSE IF up[k - 1] < 0 THEN -1 ELSE idom[up[k - 1]]
      proper(k) == \A j \in 1..k : up[j] >= 0 /\ up[j] # Root
  IN [k \in 1..Cardinality({j \in 1..(N + 1) : j <= max /\ proper(j)}) |-> up[k]]

\* The virtual root taken for an object that holds nearly the same bytes.
NextLink_AnyDominator(v) ==
  idom[v] >= 0 /\ 50 * (retained[idom[v]] - retained[v]) < retained[v]

\* cmdRetained suppresses an object whose dominator retains less than 2% more.
NextLink(v) ==
  /\ idom[v] >= 0 /\ idom[v] # Root
  /\ 50 * (retained[idom[v]] - retained[v]) < retained[v]

\* The objects of at least min bytes, the largest first; sort.Slice may leave
\* equal ones in any order.
Orders(min) ==
  LET tops == {v \in Node : retained[v] >= min}
  IN  {s \in Injection(1..Cardinality(tops), tops) :
         \A k \in 1..(Len(s) - 1) : retained[s[k]] >= retained[s[k + 1]]}

\* One iteration of its loop: a row for v unless there are enough rows, or v is
\* in the chain of one, or v is the next link of a chain.
ListRow(l, v, top) ==
  IF Len(l.rows) >= top \/ v \in l.seen \/ NextLink(v) THEN l
  ELSE [rows |-> Append(l.rows, v), seen |-> l.seen \cup Range(DomChain(v, 8))]

\* The rows that cmdRetained prints for the objects in that order.
Listed(order, top) ==
  LET after[k \in 0..Len(order)] ==
        IF k = 0 THEN [rows |-> <<>>, seen |-> {}]
        ELSE ListRow(after[k - 1], order[k], top)
  IN  after[Len(order)].rows

-----------------------------------------------------------------------------
(* Properties.                                                             *)

\* DomChain lists the strict dominators below the virtual root, each one
\* followed by its own, cut off at max.
DomChainIsDominatorPath ==
  pc = "done" =>
    LET dominance == Dominance
        proper(v) == StrictDominators(dominance, v) \ {Root}
    IN \A v \in Range(vertex) \ {Root}, max \in 0..N :
         LET chain == DomChain(v, max)
         IN /\ Len(chain) = Min({max, Cardinality(proper(v))})
            /\ \A k \in DOMAIN chain :
                 /\ chain[k] \in proper(v)
                 /\ Cardinality(proper(chain[k])) = Cardinality(proper(v)) - k

\* cmdRetained hides nothing large: an object of at least min bytes has a row,
\* or is named as a dominator in one, or its dominator retains nearly the same
\* and is not hidden either; or the rows are used up by objects that are no
\* smaller.  This holds however the sort arranges equal sizes.
LargestAreListed ==
  pc = "done" =>
    \A min \in {0, 100}, top \in {1, N} : \A order \in Orders(min) :
      LET rows == Listed(order, top)
          named == Range(rows) \cup UNION {Range(DomChain(v, 8)) : v \in Range(rows)}
          near(v) == idom[v] \in Node /\ 50 * retained[idom[v]] < 51 * retained[v]
          hidden[v \in Node] == v \notin named /\ (near(v) => hidden[idom[v]])
      IN  \A v \in Range(order) :
            hidden[v] => Len(rows) = top /\ retained[v] <= retained[rows[Len(rows)]]

=============================================================================

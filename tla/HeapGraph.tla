----------------------------- MODULE HeapGraph ------------------------------
(***************************************************************************)
(* From a heap dump to its object graph (heapdump/hprofx: LoadMeta and     *)
(* buildLayouts of hprof.go, BuildGraph of graph.go).  The file is read    *)
(* three times, one action per record: for its classes and GC roots, for   *)
(* its objects, for its references.  A name is a text without structure;   *)
(* stack traces are read over.                                             *)
(***************************************************************************)
EXTENDS Hprof

CONSTANTS
  Commands,     \* the commands considered for each of Dumps
  SizeBits      \* width of Graph.Size; 32 in the code

ASSUME SizeAssumption == SizeBits \in Nat \ {0}

VARIABLES
  cmd,          \* the command; never changes
  pc,           \* the pass that is running
  pos, end,     \* d.pos and the end of the heap segment it is in
  strings,      \* Meta.Strings
  classes,      \* Meta.Classes
  rootIDs,      \* Meta.RootIDs
  unbuilt,      \* classes the loop of buildLayouts has not come to
  objects,      \* IDs, ClassOf, Size, Kind and Offset, in file order
  sortedIdx,    \* node indices in the order of their ids
  src, dst,     \* the references found so far
  forward, reverse,  \* FStart and FAdj, RStart and RAdj
  roots         \* Graph.Roots

inputVars == <<file, heap, cmd>>
edgeVars == <<src, dst>>
indexVars == <<sortedIdx, forward, reverse, roots>>
graphData == <<inputVars, pos, end, strings, classes, rootIDs, unbuilt, objects,
               edgeVars, indexVars>>
graphVars == <<graphData, pc>>

N == Len(objects)
Node == 0..(N - 1)
Nodes == [k \in 1..N |-> k - 1]

NoAdjacency == [start |-> <<>>, adj |-> <<>>]

GraphInit ==
  /\ \E k \in DOMAIN Dumps :
       /\ file = FileOf(Dumps[k]) /\ heap = HeapOf(Dumps[k])
       /\ cmd \in Commands[k]
  /\ pc = "open" /\ pos = 0 /\ end = 0
  /\ strings = <<>> /\ classes = <<>> /\ rootIDs = <<>> /\ unbuilt = {}
  /\ objects = <<>> /\ sortedIdx = <<>>
  /\ src = <<>> /\ dst = <<>>
  /\ forward = NoAdjacency /\ reverse = NoAdjacency
  /\ roots = <<>>

openDump ==
  /\ pc = "open"
  /\ pc' = IF Supported THEN "meta" ELSE "fatal"
  /\ pos' = FirstRecord
  /\ UNCHANGED <<inputVars, end, strings, classes, rootIDs, unbuilt, objects,
                 edgeVars, indexVars>>

\* The loops over the records of the file and of a heap segment.
TopRecord(pass) == pc = pass /\ end <= pos /\ pos < total

SubRecord(pass) == pc = pass /\ pos < end

AtEnd(pass) == pc = pass /\ end <= pos /\ pos = total

Seek(next) ==
  /\ pos' = next
  /\ pc' = IF next > total THEN "panic" ELSE pc

SegmentOr(next) ==
  LET p == pos + 9
  IN  IF IsSegment(U1(pos)) THEN Seek(p) /\ end' = p + U4(pos + 5)
      ELSE Seek(next) /\ UNCHANGED end

-----------------------------------------------------------------------------
(* Classes.                                                                *)

With(f, x, value) ==
  [y \in DOMAIN f \cup {x} |-> IF y = x THEN value ELSE f[y]]

NewClass == [name |-> "", super |-> 0, fields |-> <<>>, layout |-> <<>>,
             laidOut |-> FALSE]

Known(cs, c) == IF c \in DOMAIN cs THEN cs[c] ELSE NewClass

\* A fresh entry at every pass, as before classes were updated in place.
readClassDump_Replaces(cs, c) ==
  With(cs, c.id, [NewClass EXCEPT !.super = c.super, !.fields = c.fields])

\* The part of readClassDump that updates the class: a layout that was built stays.
readClassDump(cs, c) ==
  LET ci == Known(cs, c.id)
  IN  With(cs, c.id,
           [ci EXCEPT !.super = c.super,
                      !.fields = IF ci.laidOut THEN ci.fields ELSE c.fields])

\* One record of LoadMeta that is not in a heap segment.
LoadRecord ==
  /\ TopRecord("meta")
  /\ LET tag == U1(pos)
         p == pos + 9
         length == U4(pos + 5)
         class == U8(p + 4)
     IN  /\ strings' = IF tag = 1 THEN With(strings, U8(p), Read(p + 8, length - 8))
                       ELSE strings
         /\ classes' = IF tag = 2
                       THEN With(classes, class,
                                 [Known(classes, class) EXCEPT !.name =
                                    IF U8(p + 16) \in DOMAIN strings
                                    THEN strings[U8(p + 16)] ELSE ""])
                       ELSE classes
         /\ SegmentOr(AfterTop(tag, p, length))
  /\ UNCHANGED <<inputVars, rootIDs, unbuilt, objects, edgeVars, indexVars>>

\* One sub-record of LoadMeta.
LoadSubRecord ==
  /\ SubRecord("meta")
  /\ LET tag == U1(pos)
         p == pos + 1
     IN  /\ rootIDs' = IF tag = 8 \/ (IsRoot(tag) /\ RootID(tag, p) # 0)
                       THEN Append(rootIDs, RootID(tag, p)) ELSE rootIDs
         /\ classes' = IF tag = 32
                       THEN readClassDump(classes, ClassDump(p, strings))
                       ELSE classes
         /\ Seek(CASE IsRoot(tag) -> skipRoot(tag, p)
                   [] tag = 32    -> ClassDump(p, strings).next
                   [] OTHER       -> skipObjectBody(tag, p))
  /\ UNCHANGED <<inputVars, end, strings, unbuilt, objects, edgeVars, indexVars>>

LoadDone ==
  /\ AtEnd("meta")
  /\ pc' = "layouts" /\ unbuilt' = DOMAIN classes
  /\ UNCHANGED <<inputVars, pos, end, strings, classes, rootIDs, objects,
                 edgeVars, indexVars>>

\* build(cid) of buildLayouts: lays out cid and the superclasses that have no
\* layout yet, the fields of a class before those of its superclass.  Java has
\* no cyclic inheritance, so the code's guard against it is never met.
build(cs, cid) ==
  LET super(c) == IF cs[c].super \in DOMAIN cs THEN cs[c].super ELSE 0
      layout[c \in DOMAIN cs \cup {0}] ==
        CASE c = 0         -> <<>>
          [] cs[c].laidOut -> cs[c].layout
          [] OTHER         -> cs[c].fields \o layout[super(c)]
      todo[c \in DOMAIN cs \cup {0}] ==
        IF c = 0 \/ cs[c].laidOut THEN {} ELSE {c} \cup todo[super(c)]
  IN  [c \in DOMAIN cs |->
         IF c \in todo[cid]
         THEN [cs[c] EXCEPT !.layout = layout[c], !.laidOut = TRUE]
         ELSE cs[c]]

\* One iteration of the loop of buildLayouts, which is over a map and so comes
\* to the classes in any order.  It runs after the first pass and again after
\* the second.
BuildLayout(cid) ==
  /\ pc \in {"layouts", "layoutsAgain"}
  /\ cid \in unbuilt
  /\ classes' = build(classes, cid)
  /\ unbuilt' = unbuilt \ {cid}
  /\ UNCHANGED <<inputVars, pc, pos, end, strings, rootIDs, objects, edgeVars,
                 indexVars>>

LayoutsDone ==
  /\ pc = "layouts" /\ unbuilt = {}
  /\ pc' = "objects" /\ pos' = FirstRecord /\ end' = 0
  /\ UNCHANGED <<inputVars, strings, classes, rootIDs, unbuilt, objects,
                 edgeVars, indexVars>>

-----------------------------------------------------------------------------
(* Objects and their index.                                                *)

\* The two later passes skip everything outside the heap segments.
SkipRecord(pass) ==
  /\ TopRecord(pass)
  /\ SegmentOr(pos + 9 + U4(pos + 5))
  /\ UNCHANGED <<inputVars, strings, classes, rootIDs, unbuilt, objects,
                 edgeVars, indexVars>>

\* The conversion int32(x).
Int32(x) ==
  LET half == 2^(SizeBits - 1) IN ((x + half) % (2 * half)) - half

Object(kind, p, class, size) ==
  [kind |-> kind, id |-> U8(p), class |-> class, size |-> Int32(size), offset |-> p]

\* The object that pass A adds, and the place after its record.
Enumerated(tag, p) ==
  CASE tag = 32 -> [object |-> Object("class", p, U8(p), 0),
                    next |-> ClassDump(p, strings).next]
    [] tag = 33 -> LET n == U4(p + 20)
                   IN  [object |-> Object("instance", p, U8(p + 12), 16 + n),
                        next |-> p + 24 + n]
    [] tag = 34 -> LET n == U4(p + 12)
                   IN  [object |-> Object("objArray", p, U8(p + 16), 16 + n * 8),
                        next |-> p + 24 + n * 8]
    [] tag = 35 -> LET bytes == U4(p + 12) * typeSize[U1(p + 16)]
                   IN  [object |-> Object("primArray", p, U1(p + 16), 16 + bytes),
                        next |-> p + 17 + bytes]

\* One sub-record of pass A.
Enumerate ==
  /\ SubRecord("objects")
  /\ LET tag == U1(pos)
         p == pos + 1
     IN  /\ objects' = IF IsRoot(tag) THEN objects
                       ELSE Append(objects, Enumerated(tag, p).object)
         /\ classes' = IF tag = 32
                       THEN readClassDump(classes, ClassDump(p, strings))
                       ELSE classes
         /\ Seek(IF IsRoot(tag) THEN skipRoot(tag, p) ELSE Enumerated(tag, p).next)
  /\ UNCHANGED <<inputVars, end, strings, rootIDs, unbuilt, edgeVars, indexVars>>

EnumerateDone ==
  /\ AtEnd("objects")
  /\ pc' = "layoutsAgain" /\ unbuilt' = DOMAIN classes
  /\ UNCHANGED <<inputVars, pos, end, strings, classes, rootIDs, objects,
                 edgeVars, indexVars>>

IDOf(i) == objects[i + 1].id

needEdges == cmd \in {"holders", "retained", "paths", "amqp", "report"}

\* Builds sortedIdx; without edges this is all BuildGraph does.
Index ==
  /\ pc = "layoutsAgain" /\ unbuilt = {}
  /\ sortedIdx' = SortSeq(Nodes, LAMBDA a, b : IDOf(a) < IDOf(b))
  /\ pc' = IF needEdges THEN "edges" ELSE "graph"
  /\ pos' = FirstRecord /\ end' = 0
  /\ UNCHANGED <<inputVars, strings, classes, rootIDs, unbuilt, objects,
                 edgeVars, forward, reverse, roots>>

\* sort.Search: the first place whose id is not smaller, found by halving the
\* range lo..hi.
Search(x) ==
  LET at[lo \in 1..(N + 1), hi \in 1..(N + 1)] ==
        LET h == (lo + hi) \div 2
        IN  CASE lo >= hi                 -> lo
              [] IDOf(sortedIdx[h]) < x   -> at[h + 1, hi]
              [] OTHER                    -> at[lo, h]
  IN  at[1, N + 1]

\* The place taken without looking whether the id there is the one wanted.
Exact_Nearest(i, x) == IF i <= N THEN sortedIdx[i] ELSE -1

Exact(i, x) == IF i <= N /\ IDOf(sortedIdx[i]) = x THEN sortedIdx[i] ELSE -1

Lookup(x) == Exact(Search(x), x)

-----------------------------------------------------------------------------
(* References.                                                             *)

\* A layout laid over a body of the given size: the fields that fit, with
\* their offsets in the body.
Overlay(layout, size) ==
  LET off[k \in 1..(Len(layout) + 1)] ==
        IF k = 1 THEN 0 ELSE off[k - 1] + typeSize[layout[k - 1].type]
      fitting == SelectSeq([k \in DOMAIN layout |-> k], LAMBDA k : off[k + 1] <= size)
  IN  Mapped(fitting, LAMBDA k : [name |-> layout[k].name, type |-> layout[k].type,
                                  off |-> off[k]])

FieldRefs(p) ==
  LET refs == SelectSeq(Overlay(Known(classes, U8(p + 12)).layout, U4(p + 20)),
                        LAMBDA f : f.type = 2)
  IN  Mapped(refs, LAMBDA f : U8(p + 24 + f.off))

\* The ids pass B reads from a sub-record, and the place after it.
Referenced(tag, p) ==
  CASE tag = 32 -> [ids |-> ClassDump(p, strings).statics,
                    next |-> ClassDump(p, strings).next]
    [] tag = 33 -> [ids |-> FieldRefs(p), next |-> p + 24 + U4(p + 20)]
    [] tag = 34 -> LET count == U4(p + 12)
                   IN  [ids |-> [k \in 1..count |-> U8(p + 24 + (k - 1) * 8)],
                        next |-> p + 24 + count * 8]
    [] tag = 35 -> [ids |-> <<>>,
                    next |-> p + 17 + U4(p + 12) * typeSize[U1(p + 16)]]

\* emit for every id read: null and ids of no object in the dump are dropped.
Emitted(ids) ==
  SelectSeq(Mapped(ids, LAMBDA x : IF x = 0 THEN -1 ELSE Lookup(x)),
            LAMBDA j : j >= 0)

\* One sub-record of pass B.
ReadReferences ==
  /\ SubRecord("edges")
  /\ LET tag == U1(pos)
         p == pos + 1
     IN  IF IsRoot(tag)
         THEN Seek(skipRoot(tag, p)) /\ UNCHANGED <<edgeVars, classes>>
         ELSE /\ \E read \in {Referenced(tag, p)} : \E to \in {Emitted(read.ids)} :
                   /\ dst' = dst \o to
                   /\ src' = src \o [k \in DOMAIN to |-> Lookup(U8(p))]
                   /\ Seek(read.next)
              /\ classes' = IF tag = 32
                            THEN readClassDump(classes, ClassDump(p, strings))
                            ELSE classes
  /\ UNCHANGED <<inputVars, end, strings, rootIDs, unbuilt, objects, indexVars>>

\* The place of the next entry not advanced.
buildCSR_NoFill(from, to) ==
  LET start == [i \in 0..N |-> Cardinality({k \in DOMAIN from : from[k] < i})]
      slot(k) == start[from[k]] + 1
  IN  [start |-> start,
       adj |-> [p \in DOMAIN to |->
                  LET ks == {k \in DOMAIN from : slot(k) = p}
                  IN  IF ks = {} THEN 0 ELSE to[Max(ks)]]]

\* Counting sort of the references by from.  The k-th one goes after those with
\* a smaller from (start) and the earlier ones with the same from (fill).
buildCSR(from, to) ==
  LET count(i) == Cardinality({k \in DOMAIN from : from[k] = i})
      start[i \in 0..N] == IF i = 0 THEN 0 ELSE start[i - 1] + count(i - 1)
      fill(k) == Cardinality({j \in 1..(k - 1) : from[j] = from[k]})
      slot == [k \in DOMAIN from |-> start[from[k]] + fill(k) + 1]
  IN  [start |-> start,
       adj |-> [p \in DOMAIN to |->
                  to[CHOOSE k \in DOMAIN from : slot[k] = p]]]

Slice(csr, i) == SubSeq(csr.adj, csr.start[i] + 1, csr.start[i + 1])

Refs(i) == Slice(forward, i)

Referrers(i) == Slice(reverse, i)

\* The nodes of the root records, without repetition, in ascending order.
FoundRoots ==
  LET found == ToSet(Emitted(rootIDs))
  IN  SelectSeq(Nodes, LAMBDA i : i \in found)

\* The end of BuildGraph.
BuildAdjacency ==
  /\ AtEnd("edges")
  /\ forward' = buildCSR(src, dst)
  /\ reverse' = buildCSR(dst, src)
  /\ roots' = FoundRoots
  /\ pc' = "graph"
  /\ UNCHANGED <<inputVars, pos, end, strings, classes, rootIDs, unbuilt,
                 objects, sortedIdx, edgeVars>>

GraphNext ==
  \/ openDump \/ LoadRecord \/ LoadSubRecord \/ LoadDone
  \/ \E cid \in unbuilt : BuildLayout(cid)
  \/ LayoutsDone
  \/ SkipRecord("objects") \/ Enumerate \/ EnumerateDone \/ Index
  \/ SkipRecord("edges") \/ ReadReferences \/ BuildAdjacency

-----------------------------------------------------------------------------
(* Properties.  The reference definitions look at the records the JVM      *)
(* wrote, never at the file.                                               *)

\* The three passes, which read the same records by code of their own, stay in
\* step with the file: each always stands at the beginning of a record.  And a
\* file that was cut short in the middle of a record never gives a graph.
PassesInStep ==
  /\ pc \in {"meta", "objects", "edges"} => pos \in heap.topStarts \cup heap.subStarts
  /\ pc \notin {"open", "meta", "fatal", "panic"} => total \in heap.topStarts

Written(i) == heap.objects[i + 1]

IDs == DOMAIN heap.byID

NodeOf(x) == heap.byID[x]

IsRef(v) == v.type = 2

\* The references the JVM wrote into an object, in order.
WrittenRefs(r) ==
  LET refs(values) == Mapped(SelectSeq(values, IsRef), LAMBDA v : v.value)
  IN  CASE r.kind = "class"    -> refs(r.statics)
        [] r.kind = "instance" -> refs(r.values)
        [] r.kind = "objArray" -> r.elements
        [] OTHER               -> <<>>

Built == pc = "graph" /\ needEdges

\* In a graph that is built, Lookup finds every object of the dump under its id,
\* and nothing under an id that only occurs as a reference or a root.
LookupIsExact ==
  (pc = "graph") =>
    \A x \in IDs \cup UNION {ToSet(WrittenRefs(r)) : r \in ToSet(heap.objects)}
             \cup ToSet(rootIDs) :
      Lookup(x) = IF x \in IDs THEN NodeOf(x) ELSE -1

\* The references of a node in the graph are those the JVM wrote into the
\* object, in their order and number, without nulls and dangling ids: no pass
\* over the file disturbs the class layouts that the last one relies on.  Roots
\* holds each object some GC root record names exactly once, ascending.
GraphIsThatWritten ==
  Built =>
    /\ \A i \in Node :
         Refs(i) = Mapped(SelectSeq(WrittenRefs(Written(i)), LAMBDA x : x \in IDs),
                          NodeOf)
    /\ ToSet(roots) = {NodeOf(x) : x \in heap.roots \cap IDs}
    /\ \A k \in 1..(Len(roots) - 1) : roots[k] < roots[k + 1]

\* The referrers of a node are the nodes that reference it, once for every
\* reference and in file order, which the dominator computation relies on.
ReferrersAreTranspose ==
  Built =>
    \A j \in Node :
      Referrers(j) =
        FlattenSeq([k \in 1..N |->
          Mapped(SelectSeq(WrittenRefs(Written(k - 1)),
                           LAMBDA x : x = Written(j).id),
                 LAMBDA x : k - 1)])

\* What the bytes of an object say its shallow size is.
ShallowSize(r) ==
  CASE r.kind = "class"     -> 0
    [] r.kind = "instance"  -> 16 + Len(Bytes(Mapped(r.values, Typed)))
    [] r.kind = "objArray"  -> 16 + 8 * Len(r.elements)
    [] r.kind = "primArray" -> 16 + r.length * typeSize[r.type]

\* Graph.Size is the shallow size in bytes, as its comment says.
SizeIsShallowSize ==
  \A k \in DOMAIN objects : objects[k].size = ShallowSize(Written(k - 1))
=============================================================================

------------------------------- MODULE Hprof --------------------------------
(***************************************************************************)
(* A heap dump as bytes, and the parts of the reader that find their way   *)
(* in it (heapdump/hprofx/hprof.go).  The JVM writes cells, a width and a  *)
(* value each; a read that does not meet a cell of its width yields        *)
(* Garbage.  Positions count from 0, as in the code.                       *)
(***************************************************************************)
EXTENDS Integers, FiniteSetsExt, SequencesExt

CONSTANT Dumps      \* the files considered: a sequence of dumps

VARIABLES
  file,      \* the bytes of the dump that is read
  heap       \* what the JVM wrote into it, for the properties only

Mapped(s, Op(_)) == [k \in DOMAIN s |-> Op(s[k])]

typeSize ==
  [t \in 0..11 |-> CASE t \in {2, 7, 11} -> 8
                     [] t \in {6, 10}    -> 4
                     [] t \in {5, 9}     -> 2
                     [] t \in {4, 8}     -> 1
                     [] OTHER            -> 0]

-----------------------------------------------------------------------------
(* What the JVM writes.  A dump is a record [idSize, time, records, cut]:  *)
(* the last cut bytes of the file are missing.                             *)

ID(x) == <<8, x>>

Typed(v) == <<typeSize[v.type], v.value>>

Filled(cell) == [k \in 1..cell[1] |-> IF k = 1 THEN cell ELSE <<>>]

\* Cells as bytes: at its first byte the cell, at its other bytes nothing.
Bytes(cells) == FlattenSeq(Mapped(cells, Filled))

\* What follows the object id in a GC root record of each tag.
AfterRoot ==
  [tag \in {1, 2, 3, 4, 5, 6, 7, 8, 255} |->
     CASE tag = 1           -> <<ID(0)>>
       [] tag \in {2, 3, 8} -> <<<<4, 0>>, <<4, 0>>>>
       [] tag \in {4, 6}    -> <<<<4, 0>>>>
       [] OTHER             -> <<>>]

SubCells(r) ==
  CASE r.kind = "root"      -> <<<<1, r.tag>>, ID(r.id)>> \o AfterRoot[r.tag]
    [] r.kind = "heapInfo"  -> <<<<1, 254>>, <<4, 0>>, ID(0)>>
    [] r.kind = "class"     ->
         <<<<1, 32>>, ID(r.id), <<4, 0>>, ID(r.super), ID(0), ID(0), ID(0),
           ID(0), ID(0), <<4, 0>>, <<2, Len(r.pool)>>>>
         \o FlattenSeq(Mapped(r.pool, LAMBDA v : <<<<2, 0>>, <<1, v.type>>, Typed(v)>>))
         \o <<<<2, Len(r.statics)>>>>
         \o FlattenSeq(Mapped(r.statics, LAMBDA v : <<ID(0), <<1, v.type>>, Typed(v)>>))
         \o <<<<2, Len(r.fields)>>>>
         \o FlattenSeq(Mapped(r.fields, LAMBDA f : <<ID(f.name), <<1, f.type>>>>))
    [] r.kind = "instance"  ->
         <<<<1, 33>>, ID(r.id), <<4, 0>>, ID(r.class),
           <<4, Len(Bytes(Mapped(r.values, Typed)))>>>> \o Mapped(r.values, Typed)
    [] r.kind = "objArray"  ->
         <<<<1, 34>>, ID(r.id), <<4, 0>>, <<4, Len(r.elements)>>, ID(0)>>
         \o Mapped(r.elements, ID)
    [] r.kind = "primArray" ->
         <<<<1, 35>>, ID(r.id), <<4, 0>>, <<4, r.length>>, <<1, r.type>>,
           <<r.length * typeSize[r.type], r.content>>>>

SubBytes(r) == Bytes(SubCells(r))

TopBytes(r) ==
  LET top(tag, body) == Bytes(<<<<1, tag>>, <<4, 0>>, <<4, Len(body)>>>>) \o body
      id == ID(0)
  IN  CASE r.kind = "string"  -> top(1, Bytes(<<ID(r.id), <<4, r.text>>>>))
        [] r.kind = "load"    -> top(2, Bytes(<<<<4, 0>>, ID(r.id), <<4, 0>>, ID(r.name)>>))
        [] r.kind = "frame"   -> top(4, Bytes(<<id, id, id, id, <<4, 0>>, <<4, 0>>>>))
        [] r.kind = "trace"   -> top(5, Bytes(<<<<4, 0>>, <<4, 0>>, <<4, 2>>, id, id>>))
        [] r.kind = "other"   -> top(44, Bytes(<<<<4, 0>>>>))
        [] r.kind = "segment" -> top(28, FlattenSeq(Mapped(r.records, SubBytes)))

Header(d) == Bytes(<<<<19, "JAVA PROFILE 1.0.2">>, <<4, d.idSize>>, ID(d.time)>>)

FileOf(d) ==
  LET bytes == Header(d) \o FlattenSeq(Mapped(d.records, TopBytes))
  IN  SubSeq(bytes, 1, Len(bytes) - d.cut)

-----------------------------------------------------------------------------
(* The same dump as its records tell it: where they begin, the objects in  *)
(* file order (node i is the (i+1)-th), the nodes by their ids, and the    *)
(* names of classes and of the fields of their instances, a class's own    *)
(* fields first.                                                           *)

IsObject(r) == r.kind \in {"class", "instance", "objArray", "primArray"}

OfKind(rs, kind) == {r \in ToSet(rs) : r.kind = kind}

TopStarts(rs) ==
  LET at[n \in 0..Len(rs)] ==
        IF n = 0 THEN 31 ELSE at[n - 1] + Len(TopBytes(rs[n]))
  IN  at

SubStarts(rs, n) ==
  LET at[m \in 0..Len(rs[n].records)] ==
        IF m = 0 THEN TopStarts(rs)[n - 1] + 9
        ELSE at[m - 1] + Len(SubBytes(rs[n].records[m]))
  IN  IF rs[n].kind = "segment" THEN Range(at) ELSE {}

HeapRecords(rs) ==
  FlattenSeq(Mapped(rs, LAMBDA r : IF r.kind = "segment" THEN r.records ELSE <<>>))

Texts(rs) ==
  LET strings == OfKind(rs, "string")
  IN  [x \in {r.id : r \in strings} |-> (CHOOSE r \in strings : r.id = x).text]

FieldNames(rs, texts) ==
  LET classes == OfKind(HeapRecords(rs), "class")
      record(c) == CHOOSE r \in classes : r.id = c
      names[c \in {r.id : r \in classes} \cup {0}] ==
        IF c = 0 THEN <<>>
        ELSE Mapped(record(c).fields, LAMBDA f : texts[f.name])
               \o names[record(c).super]
  IN  [c \in {r.id : r \in classes} |-> names[c]]

ClassNames(rs, texts) ==
  LET loads == OfKind(rs, "load")
  IN  [c \in {r.id : r \in loads} |-> texts[(CHOOSE r \in loads : r.id = c).name]]

ByID(objects) ==
  [x \in {r.id : r \in ToSet(objects)} |->
     SelectInSeq(objects, LAMBDA r : r.id = x) - 1]

HeapOf(d) ==
  LET rs == d.records
      objects == SelectSeq(HeapRecords(rs), IsObject)
  IN  [time       |-> d.time,
       topStarts  |-> Range(TopStarts(rs)),
       subStarts  |-> UNION {SubStarts(rs, n) : n \in DOMAIN rs},
       roots      |-> {r.id : r \in OfKind(HeapRecords(rs), "root")},
       objects    |-> objects,
       byID       |-> ByID(objects),
       fieldNames |-> FieldNames(rs, Texts(rs)),
       classNames |-> ClassNames(rs, Texts(rs))]

-----------------------------------------------------------------------------
(* The reader.                                                             *)

total == Len(file)

Garbage == 1

Read(p, width) ==
  IF p + width <= total /\ file[p + 1] # <<>> /\ file[p + 1][1] = width
  THEN file[p + 1][2] ELSE Garbage

U1(p) == Read(p, 1)
U2(p) == Read(p, 2)
U4(p) == Read(p, 4)
U8(p) == Read(p, 8)

\* A read past the end of the file, and a sub-record that has no case, panic.
Panic == total + 1

\* openDump: the header is read, and the first record follows it.
Supported == Read(0, 19) = "JAVA PROFILE 1.0.2" /\ U4(19) = 8
Timestamp == U8(23)
FirstRecord == 31

IsSegment(tag) == tag \in {12, 28}

\* The place after a record of LoadMeta that is not a heap segment.
AfterTop(tag, p, length) ==
  CASE tag = 1 -> p + 8 + (length - 8)
    [] tag = 2 -> p + 4 + 8 + 4 + 8
    [] tag = 4 -> p + 4 * 8 + 4 + 4
    [] tag = 5 -> p + 4 + 4 + 4 + U4(p + 8) * 8
    [] OTHER   -> p + length

IsRoot(tag) == tag \in 1..8 \cup {254, 255}

skipRoot_OneSerial(tag, p) ==
  p + (CASE tag \in {5, 7, 255} -> 8
         [] tag = 1             -> 8 + 8
         [] OTHER               -> 8 + 4)

\* The place after a GC root record, and the object id it returns.
skipRoot(tag, p) ==
  p + (CASE tag \in {5, 7, 255} -> 8
         [] tag = 1             -> 8 + 8
         [] tag \in {2, 3, 8}   -> 8 + 4 + 4
         [] tag \in {4, 6, 254} -> 8 + 4)

RootID(tag, p) == IF tag = 254 THEN 0 ELSE U8(p)

skipObjectBody(tag, p) ==
  CASE tag = 33 -> p + 8 + 4 + 8 + 4 + U4(p + 20)
    [] tag = 34 -> p + 8 + 4 + 4 + 8 + U4(p + 12) * 8
    [] tag = 35 -> p + 8 + 4 + 4 + 1 + U4(p + 12) * typeSize[U1(p + 16)]
    [] OTHER    -> Panic

\* Where n entries of a class dump begin: a head, a type, perhaps a value.
Entries(p, n, head, valued) ==
  LET at[k \in 1..(n + 1)] ==
        IF k = 1 THEN p
        ELSE at[k - 1] + head + 1
               + (IF valued THEN typeSize[U1(at[k - 1] + head)] ELSE 0)
  IN  at

\* readClassDump, the part that reads; it uses the names read so far.
ClassDump(p, names) ==
  LET pool    == Entries(p + 66, U2(p + 64), 2, TRUE)
      s       == Last(pool)
      statics == Entries(s + 2, U2(s), 8, TRUE)
      f       == Last(statics)
      fields  == Entries(f + 2, U2(f), 8, FALSE)
      refs    == SelectSeq(Front(statics),
                   LAMBDA q : U1(q + 8) = 2 /\ U8(q + 9) # 0)
      name(q) == IF U8(q) \in DOMAIN names THEN names[U8(q)] ELSE ""
  IN  [id      |-> U8(p),
       super   |-> U8(p + 12),
       statics |-> Mapped(refs, LAMBDA q : U8(q + 9)),
       fields  |-> Mapped(Front(fields),
                     LAMBDA q : [name |-> name(q), type |-> U1(q + 8)]),
       next    |-> Last(fields)]

=============================================================================

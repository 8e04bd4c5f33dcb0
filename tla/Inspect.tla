------------------------------ MODULE Inspect -------------------------------
(***************************************************************************)
(* Reading objects back out of the dump (heapdump/hprofx/inspect.go): the  *)
(* graph keeps the offset of every object, and everything else about it is *)
(* read from the file again, at fixed distances from that offset.          *)
(*                                                                         *)
(* The contents of a primitive array are a text in some encoding; how a    *)
(* value is laid out for printing is left out.                             *)
(***************************************************************************)
EXTENDS HeapGraph

CONSTANT MaxElements    \* array elements EdgeLabel looks at; 2^20 in the code

ASSUME ElementsAssumption == MaxElements \in Nat

Kind(i) == objects[i + 1].kind

ClassOf(i) == objects[i + 1].class

Offset(i) == objects[i + 1].offset

className(i) == Known(classes, ClassOf(i)).name

\* The instance fields of a node: the layout of its class over its body.
Fields(i) ==
  IF Kind(i) # "instance" THEN <<>>
  ELSE Mapped(Overlay(Known(classes, U8(Offset(i) + 12)).layout, U4(Offset(i) + 20)),
         LAMBDA f : [name |-> f.name, type |-> f.type,
                     raw |-> Read(Offset(i) + 24 + f.off, typeSize[f.type])])

Absent == [ok |-> FALSE]

FirstOf(named) ==
  IF named = <<>> THEN Absent
  ELSE [ok |-> TRUE, type |-> named[1].type, raw |-> named[1].raw]

\* The first field of that name: a class's own before an inherited one.
Field(i, name) ==
  IF i < 0 THEN Absent ELSE FirstOf(SelectSeq(Fields(i), LAMBDA f : f.name = name))

\* The node a field refers to, -1 if there is none.
Target(f) == IF f.ok THEN Lookup(f.raw) ELSE -1

ArrayLen(i) ==
  IF Kind(i) \in {"objArray", "primArray"} THEN U4(Offset(i) + 12) ELSE 0

\* The class id before the elements forgotten.
ArrayElems_NoClass(i, max) ==
  IF Kind(i) # "objArray" THEN <<>>
  ELSE [k \in 1..Min({ArrayLen(i), max}) |-> U8(Offset(i) + 16 + (k - 1) * 8)]

ArrayElems(i, max) ==
  IF Kind(i) # "objArray" THEN <<>>
  ELSE [k \in 1..Min({ArrayLen(i), max}) |-> U8(Offset(i) + 24 + (k - 1) * 8)]

\* Type and contents of a primitive array; the texts considered are shorter
\* than the limits the callers give.
PrimBytes(i) ==
  IF i < 0 \/ Kind(i) # "primArray" THEN Absent
  ELSE [ok |-> TRUE, type |-> U1(Offset(i) + 16),
        content |-> Read(Offset(i) + 17,
                         U4(Offset(i) + 12) * typeSize[U1(Offset(i) + 16)])]

\* A char[] is big-endian UTF-16, a byte[] with coder 1 little-endian UTF-16;
\* any other byte[] is taken for UTF-8, which it is when the text is ASCII.
Decoded(b, coder) ==
  LET encoding == CASE b.type = 5 -> "utf16be"
                    [] coder = 1  -> "utf16le"
                    [] OTHER      -> "ascii"
  IN  IF ~b.ok THEN Absent
      ELSE [ok |-> TRUE,
            text |-> IF b.content.encoding = encoding THEN b.content.text ELSE "garbled"]

\* The value of the last field of that name, 0 if there is none.
LastRaw(fields, name) ==
  FoldLeft(LAMBDA raw, f : IF f.name = name THEN f.raw ELSE raw, 0, fields)

StringIn(fields) ==
  Decoded(PrimBytes(Lookup(LastRaw(fields, "value"))), LastRaw(fields, "coder"))

StringOf(i) ==
  IF i < 0 \/ Kind(i) # "instance" \/ className(i) # "java.lang.String" THEN Absent
  ELSE StringIn(Fields(i))

TextOr(text, string) == IF string.ok THEN string.text ELSE text

\* Only the class itself and its superclass looked at.
isEnum_Direct(cid) ==
  \E c \in {cid, Known(classes, cid).super} : Known(classes, c).name = "java.lang.Enum"

\* At most 16 classes of the hierarchy are looked at.
isEnum(cid) ==
  LET from[hops \in 0..16, c \in DOMAIN classes \cup {0}] ==
        IF hops = 16 \/ c \notin DOMAIN classes THEN FALSE
        ELSE classes[c].name = "java.lang.Enum"
             \/ from[hops + 1, Known(classes, c).super]
  IN  from[0, cid]

\* What is shown for a reference, as far as it is compared with anything: a
\* string in quotes, an enum constant by its name.
RenderRef(x) ==
  LET i == Lookup(x)
  IN  CASE x = 0          -> "null"
        [] i < 0          -> "not in dump"
        [] StringOf(i).ok -> "quoted"
        [] Kind(i) = "instance" /\ isEnum(ClassOf(i)) ->
             TextOr("object", StringOf(Target(Field(i, "name"))))
        [] OTHER          -> "object"

\* The first field named, whether or not it holds the object.
EdgeLabel_Unchecked(above, below) ==
  CASE Kind(above) = "instance" /\ Fields(above) # <<>> -> <<"field", Fields(above)[1].name>>
    [] Kind(above) = "class" -> <<"static">>
    [] OTHER                 -> <<>>

\* Names the reference from above to below by the first field, or the first of
\* MaxElements array elements, that holds it.
EdgeLabel(above, below) ==
  LET fields == SelectSeq(Fields(above),
                  LAMBDA f : f.type = 2 /\ f.raw = IDOf(below))
      places == SelectInSeq(ArrayElems(above, MaxElements),
                  LAMBDA x : x = IDOf(below))
  IN  CASE Kind(above) = "instance" /\ fields # <<>> -> <<"field", fields[1].name>>
        [] Kind(above) = "objArray" /\ places # 0    -> <<"index", places - 1>>
        [] Kind(above) = "class"                     -> <<"static">>
        [] OTHER                                     -> <<>>

-----------------------------------------------------------------------------
(* Properties.                                                             *)

\* The names of the fields of the instance record r.
NamesIn(r) == heap.fieldNames[r.class]

\* An object read back at its offset is the object the JVM wrote there: its
\* fields with their names, types and values, the elements of an array, the
\* text of a string that is ASCII or UTF-16.
InspectReadsBack ==
  (pc = "graph") =>
    \A i \in Node :
      LET r == Written(i)
      IN  /\ r.kind = "instance" =>
               Fields(i) = [k \in DOMAIN r.values |->
                              [name |-> NamesIn(r)[k],
                               type |-> r.values[k].type, raw |-> r.values[k].value]]
          /\ r.kind = "objArray" =>
               /\ ArrayLen(i) = Len(r.elements)
               /\ ArrayElems(i, MaxElements) =
                    SubSeq(r.elements, 1, Min({MaxElements, Len(r.elements)}))
          /\ r.kind = "primArray" =>
               /\ ArrayLen(i) = r.length
               /\ r.length > 0 => PrimBytes(i).content = r.content
          /\ r.kind = "instance" /\ className(i) = "java.lang.String" =>
               LET array == Written(NodeOf(r.values[1].value))
               IN  array.content.encoding # "latin1" =>
                     StringOf(i) = [ok |-> TRUE, text |-> array.content.text]

=============================================================================

----------------------------- MODULE MC_Hprofx ------------------------------
(***************************************************************************)
(* Dumps for TLC.  Ids are not in file order; 99 is the id of no object.   *)
(***************************************************************************)
EXTENDS Hprofx

Ref(x) == [type |-> 2, value |-> x]
Char(n) == [type |-> 5, value |-> n]
Byte(n) == [type |-> 8, value |-> n]
Number(n) == [type |-> 10, value |-> n]
Long(n) == [type |-> 11, value |-> n]

\* Ids of the names that occur in the dumps.
NameList ==
  <<"next", "key", "item", "com.example.Node", "com.example.List",
    "value", "coder", "java.lang.String", "_exchange", "_routingKey",
    "com.rabbitmq.client.Envelope", "timestamp",
    "com.rabbitmq.client.AMQP$BasicProperties", "fastTime", "java.util.Date",
    "note", "consumerTag", "envelope", "props", "body", "com.example.Delivery",
    "previous", "com.example.Retried", "queues", "prefetchCount",
    "acknowledgeMode", "queue", "org.springframework.amqp.BlockingQueueConsumer",
    "name", "java.lang.Enum", "AcknowledgeMode", "AcknowledgeMode$1", "count",
    "java.util.Counted">>
NameID(text) == 500 + SelectInSeq(NameList, LAMBDA n : n = text)

String(text) == [kind |-> "string", id |-> NameID(text), text |-> text]
Load(id, name) == [kind |-> "load", id |-> id, name |-> NameID(name)]
Other(kind) == [kind |-> kind]
Segment(rs) == [kind |-> "segment", records |-> rs]

GCRoot(tag, id) == [kind |-> "root", tag |-> tag, id |-> id]
ClassWith(id, super, pool, statics, fields) ==
  [kind |-> "class", id |-> id, super |-> super, pool |-> pool, statics |-> statics,
   fields |-> Mapped(fields, LAMBDA f : [name |-> NameID(f[1]), type |-> f[2]])]
Class(id, super, fields) == ClassWith(id, super, <<>>, <<>>, fields)
Instance(id, class, values) ==
  [kind |-> "instance", id |-> id, class |-> class, values |-> values]
ObjArray(id, elements) == [kind |-> "objArray", id |-> id, elements |-> elements]
PrimArray(id, type, length, content) ==
  [kind |-> "primArray", id |-> id, type |-> type, length |-> length,
   content |-> content]

Now == 28000000      \* the time of the dumps, in minutes

Dump(records) == [idSize |-> 8, time |-> Now, records |-> records, cut |-> 0]

\* The n-th choice from a sequence, when the choices before it take up radix.
Pick(s, k, radix) == s[((k \div radix) % Len(s)) + 1]

-----------------------------------------------------------------------------
(* Graphs: class 20 extends class 10, 30 is an array, 40 an instance of 20, *)
(* 50 an instance of 10 and 15 a char[].                                    *)

Own == <<<<Ref(0), Number(30)>>, <<Ref(30), Number(30)>>, <<Char(40)>>>>
Inherited == <<<<Ref(40)>>, <<Ref(20)>>, <<Number(30), Ref(50)>>, <<Byte(3), Ref(99)>>>>
Elements == <<<<>>, <<40, 40, 30>>, <<0, 99, 50>>, <<50, 15, 40>>>>
RootLists ==
  <<<<GCRoot(1, 30), GCRoot(2, 99), GCRoot(3, 30)>>,
    <<GCRoot(8, 40), GCRoot(4, 40), GCRoot(7, 0), GCRoot(6, 20)>>,
    <<Other("heapInfo"), GCRoot(255, 50), GCRoot(5, 10)>>>>

Named(names, values) == [k \in DOMAIN values |-> <<names[k], values[k].type>>]

GraphDump(k) ==
  LET own == Pick(Own, k, 1)
      inherited == Pick(Inherited, k, 3)
      gcRoots == Pick(RootLists, k, 12)
      elements == Pick(Elements, k, 36)
      statics == Pick(<<<<>>, <<Number(40), Ref(0), Ref(30)>>>>, k, 144)
      c10 == ClassWith(10, 0, <<>>, statics, Named(<<"next", "key">>, inherited))
      c20 == ClassWith(20, 10, <<Number(1), Ref(30)>>, <<Ref(10)>>,
                       Named(<<"item", "key">>, own))
      i40 == Instance(40, 20, own \o inherited)
      i50 == Instance(50, 10, inherited)
      a30 == ObjArray(30, elements)
      p15 == PrimArray(15, 5, 2, [text |-> "ab", encoding |-> "utf16be", stamp |-> 0])
      names == <<String("next"), String("key"), String("item"),
                 String("com.example.Node"), String("com.example.List"),
                 Load(20, "com.example.List"), Load(10, "com.example.Node")>>
  IN  Dump(IF k % 2 = 0
           THEN names \o <<Other("frame"), Other("trace"),
                           Segment(gcRoots \o <<a30, c20, i40>>), Other("other"),
                           Segment(<<p15, c10, i50>>), Other("other")>>
           ELSE names \o <<Segment(<<c10, c20, p15>> \o gcRoots \o <<i50, i40, a30>>),
                           Other("trace")>>)

\* Files that are cut short, at a record and in the middle of one, and a file
\* with another size of ids.
BadDump(n) ==
  IF n = 7 THEN [GraphDump(11) EXCEPT !.idSize = 4]
  ELSE [GraphDump(10) EXCEPT !.cut = 13 * n]

-----------------------------------------------------------------------------
(* AMQP clients: the String of node x keeps its text in array x + 1.       *)

Str(x, type, encoding, text) ==
  <<PrimArray(x + 1, type, 2, [text |-> text, encoding |-> encoding, stamp |-> 0]),
    Instance(x, 100, <<Ref(x + 1), Byte(IF encoding = "utf16le" THEN 1 ELSE 0)>>)>>

Body(x, stamp) ==
  PrimArray(x, 8, 3, [text |-> "{}", encoding |-> "ascii", stamp |-> stamp])

StringClass == Class(100, 0, <<<<"value", 2>>, <<"coder", 8>>>>)
EnvelopeClass == Class(101, 0, <<<<"_exchange", 2>>, <<"_routingKey", 2>>>>)

SomeTexts == Str(310, 8, "ascii", "ex") \o Str(320, 5, "utf16be", "rk")
           \o Str(330, 8, "utf16le", "t1")

Envelopes == <<Instance(301, 101, <<Ref(310), Ref(320)>>),
               Instance(302, 101, <<Ref(320), Ref(310)>>)>>

\* Deliveries of two classes.  The first of class 104 may lack its body or its
\* properties, the one of class 105 may hold two envelopes.
DeliveryDump(k) ==
  LET body == Pick(<<Ref(401), Ref(0), Ref(99)>>, k, 1)
      envelope == Pick(<<Ref(301), Ref(302)>>, k, 3)
      props == Pick(<<Ref(411), Ref(0)>>, k, 6)
      sent == Pick(<<Now - 1, Now + 1, Now - 200, Now>>, k, 12)
      previous == Pick(<<Ref(302), Ref(0)>>, k, 1)
  IN  Dump(Mapped(<<"value", "coder", "java.lang.String", "_exchange",
                    "_routingKey", "com.rabbitmq.client.Envelope", "timestamp",
                    "com.rabbitmq.client.AMQP$BasicProperties", "fastTime",
                    "java.util.Date", "note", "consumerTag", "envelope", "props",
                    "body", "com.example.Delivery", "previous",
                    "com.example.Retried">>, String)
           \o <<Load(100, "java.lang.String"),
                Load(101, "com.rabbitmq.client.Envelope"),
                Load(102, "com.rabbitmq.client.AMQP$BasicProperties"),
                Load(103, "java.util.Date"), Load(104, "com.example.Delivery"),
                Load(105, "com.example.Retried"),
                Segment(<<StringClass, EnvelopeClass,
                          Class(102, 0, <<<<"timestamp", 2>>>>),
                          Class(103, 0, <<<<"fastTime", 11>>>>),
                          Class(104, 0, <<<<"note", 2>>, <<"consumerTag", 2>>, <<"envelope", 2>>,
                                          <<"props", 2>>, <<"body", 2>>>>),
                          ClassWith(105, 104, <<>>, <<Ref(301)>>, <<<<"previous", 2>>>>)>>
                        \o SomeTexts \o Envelopes
                        \o <<Body(401, Now - 7), Body(402, Now - 1),
                             Instance(411, 102, <<Ref(412)>>),
                             Instance(412, 103, <<Long(sent)>>),
                             Instance(413, 102, <<Ref(IF k % 4 = 0 THEN 0 ELSE 414)>>),
                             Instance(414, 103, <<Long(Now - 6)>>),
                             Instance(421, 104, <<Ref(310), Ref(330), envelope, props, body>>),
                             Instance(422, 104, <<Ref(0), Ref(0), Ref(301), Ref(413), Ref(402)>>),
                             Instance(423, 105, <<previous, Ref(320), Ref(0), Ref(301),
                                                  Ref(0), Ref(402)>>),
                             ObjArray(430, <<301, 421>>), GCRoot(5, 430)>>)>>)

\* Two consumers and a delivery; enum constant 441 is NONE, 442 is NONE with a
\* class of its own, 443 is AUTO.
ConsumerDump(k) ==
  LET ack == Pick(<<Ref(441), Ref(442), Ref(443), Ref(0)>>, k, 1)
      other == Pick(<<Ref(443), Ref(442)>>, k, 4)
      body == Pick(<<Ref(401), Ref(401), Ref(401), Ref(0)>>, k, 2)
  IN  Dump(Mapped(<<"value", "coder", "java.lang.String", "_exchange",
                    "_routingKey", "com.rabbitmq.client.Envelope", "envelope",
                    "body", "com.example.Delivery", "queues", "prefetchCount",
                    "acknowledgeMode", "queue",
                    "org.springframework.amqp.BlockingQueueConsumer", "name",
                    "java.lang.Enum", "AcknowledgeMode", "AcknowledgeMode$1",
                    "count", "java.util.Counted">>, String)
           \o <<Load(100, "java.lang.String"),
                Load(101, "com.rabbitmq.client.Envelope"),
                Load(104, "com.example.Delivery"),
                Load(106, "org.springframework.amqp.BlockingQueueConsumer"),
                Load(107, "java.lang.Enum"), Load(108, "AcknowledgeMode"),
                Load(109, "AcknowledgeMode$1"), Load(110, "java.util.Counted"),
                Segment(<<StringClass, EnvelopeClass,
                          Class(104, 0, <<<<"envelope", 2>>, <<"body", 2>>>>),
                          Class(106, 0, <<<<"queues", 2>>, <<"prefetchCount", 10>>,
                                          <<"acknowledgeMode", 2>>, <<"queue", 2>>>>),
                          Class(107, 0, <<<<"name", 2>>>>), Class(108, 107, <<>>),
                          Class(109, 108, <<>>),
                          Class(110, 0, <<<<"count", 2>>, <<"value", 10>>>>)>>
                        \o SomeTexts \o Envelopes \o Str(340, 8, "ascii", "NONE")
                        \o <<Body(401, k),
                             Instance(421, 104, <<Ref(301), body>>),
                             Instance(441, 108, <<Ref(340)>>),
                             Instance(442, 109, <<Ref(340)>>),
                             Instance(443, 108, <<Ref(310)>>),
                             ObjArray(450, <<310, 0, 330>>),
                             Instance(451, 110, <<Ref(451), Number(5)>>),
                             Instance(461, 106, <<Ref(450), Number(250), ack, Ref(451)>>),
                             Instance(462, 106, <<Ref(450), Number(250), other, Ref(0)>>)>>)>>)

MCDumps ==
  [k \in 1..351 |->
     CASE k <= 288       -> GraphDump(k - 1)
       [] k \in 289..295 -> BadDump(k - 288)
       [] k \in 296..343 -> DeliveryDump(k - 296)
       [] k >= 344       -> ConsumerDump(k - 344)]

MCCommands ==
  [k \in 1..351 |->
     CASE k <= 288          -> IF k % 6 = 0 THEN {"paths", "inspect"} ELSE {"paths"}
       [] k \in 289..295    -> {"inspect"}
       [] OTHER             -> {"amqp"}]

\* Arrays up to the largest size SizeBits can hold and beyond.
SizeDumps ==
  [k \in 1..40 |->
     Dump(<<Segment(<<PrimArray(15, 8, 93 + k, [text |-> "", encoding |-> "ascii",
                                                stamp |-> 0]),
                      ObjArray(30, [n \in 1..(k % 4) |-> 15]), GCRoot(5, 30)>>)>>)]

SizeCommands == [k \in 1..40 |-> {"inspect"}]

=============================================================================

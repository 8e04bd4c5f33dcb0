-------------------------------- MODULE Amqp --------------------------------
(***************************************************************************)
(* The amqp command (heapdump/hprofx/cmd_amqp.go): the deliveries buffered *)
(* in the client, their ages and the consumers' settings.  Which field of  *)
(* a holder carries what is worked out once per class, from the first      *)
(* holder the loop meets, and then used for every holder of the class.     *)
(*                                                                         *)
(* Times are in minutes.  Tables, labels, percentiles and samples are left *)
(* out.  The number that the -age regex captures in a body is the stamp of *)
(* its contents, 0 when it captures none.                                  *)
(***************************************************************************)
EXTENDS Inspect

CONSTANT AgeRegex     \* is -age given?

ASSUME RegexAssumption == AgeRegex \in BOOLEAN

VARIABLES
  todo,         \* envelopes and their referrers still to visit, in order
  seen,         \* holders visited
  shapes,       \* the shape of each class met
  deliveries    \* found so far

amqpVars == <<todo, seen, shapes, deliveries>>

AmqpInit == todo = <<>> /\ seen = {} /\ shapes = <<>> /\ deliveries = <<>>

envelopeClass == "com.rabbitmq.client.Envelope"

\* Names that contain "BasicProperties", contain "tag", or end in
\* "BlockingQueueConsumer".
PropsNames == {"com.rabbitmq.client.AMQP$BasicProperties"}
TagNames == {"consumerTag"}
ConsumerNames == {"org.springframework.amqp.BlockingQueueConsumer"}

IsEnvelope(i) == Kind(i) = "instance" /\ className(i) = envelopeClass

StartAMQP ==
  /\ pc = "graph" /\ cmd = "amqp"
  /\ todo' = FlattenSeq(Mapped(SelectSeq(Nodes, IsEnvelope),
               LAMBDA env : Mapped(Referrers(env), LAMBDA h : <<env, h>>)))
  /\ pc' = "deliveries"
  /\ UNCHANGED <<graphData, seen, shapes, deliveries>>

NoShape == [tag |-> "", envelope |-> "", props |-> "", body |-> ""]

\* What a field with name that refers to node t adds to a shape.
WithTarget(s, name, t) ==
  CASE t < 0 -> s
    [] Kind(t) = "primArray" /\ ClassOf(t) = 8 ->
         [s EXCEPT !.body = IF @ = "" THEN name ELSE @]
    [] className(t) = envelopeClass -> [s EXCEPT !.envelope = name]
    [] className(t) \in PropsNames  -> [s EXCEPT !.props = name]
    [] className(t) = "java.lang.String" ->
         [s EXCEPT !.tag = IF @ = "" \/ name \in TagNames THEN name ELSE @]
    [] OTHER -> s

WithField(s, f) ==
  IF f.type # 2 \/ f.raw = 0 THEN s ELSE WithTarget(s, f.name, Lookup(f.raw))

\* The cached shape of the class, or the one this holder shows.
deliveryShapeOf(h) ==
  IF ClassOf(h) \in DOMAIN shapes THEN shapes[ClassOf(h)]
  ELSE FoldLeft(WithField, NoShape, Fields(h))

IsDelivery(shape) == shape.body # "" /\ shape.envelope # ""

RawOr0(f) == IF f.ok THEN f.raw ELSE 0

propsTimestamp(i) == RawOr0(Field(Target(Field(i, "timestamp")), "fastTime"))

WithBody(d, b) ==
  IF b < 0 THEN d ELSE [d EXCEPT !.bodyNode = b, !.bodyLen = ArrayLen(b)]

readDelivery(h, env, s) ==
  LET part(d, f) ==
        CASE f.name = s.body  -> WithBody(d, Lookup(f.raw))
          [] f.name = s.tag   -> [d EXCEPT !.tag = TextOr(@, StringOf(Lookup(f.raw)))]
          [] f.name = s.props -> [d EXCEPT !.stamp = propsTimestamp(Lookup(f.raw))]
          [] OTHER            -> d
      route(d, f) ==
        CASE f.name \in {"_exchange", "exchange"} ->
               [d EXCEPT !.exchange = TextOr(@, StringOf(Lookup(f.raw)))]
          [] f.name \in {"_routingKey", "routingKey"} ->
               [d EXCEPT !.routing = TextOr(@, StringOf(Lookup(f.raw)))]
          [] OTHER -> d
      empty == [node |-> h, tag |-> "", exchange |-> "", routing |-> "",
                bodyNode |-> -1, bodyLen |-> 0, stamp |-> 0]
      tagged(d) == IF d.tag = "" THEN [d EXCEPT !.tag = "<none>"] ELSE d
  IN  tagged(FoldLeft(route, FoldLeft(part, empty, Fields(h)), Fields(env)))

\* Holders of several envelopes visited once for each.
Fresh_Again(h) == Kind(h) = "instance"

Fresh(h) == h \notin seen /\ Kind(h) = "instance"

\* One iteration of the loop over the referrers of the envelopes.
VisitHolder ==
  /\ pc = "deliveries" /\ todo # <<>>
  /\ \E env \in {todo[1][1]}, h \in {todo[1][2]} :
       IF ~Fresh(h) THEN UNCHANGED <<seen, shapes, deliveries>>
       ELSE \E shape \in {deliveryShapeOf(h)} :
              /\ seen' = seen \cup {h}
              /\ shapes' = With(shapes, ClassOf(h), shape)
              /\ deliveries' = IF IsDelivery(shape)
                               THEN Append(deliveries, readDelivery(h, env, shape))
                               ELSE deliveries
  /\ todo' = Tail(todo)
  /\ UNCHANGED graphVars

AmqpDone ==
  /\ pc = "deliveries" /\ todo = <<>>
  /\ pc' = "done"
  /\ UNCHANGED <<graphData, amqpVars>>

AmqpNext == StartAMQP \/ VisitHolder \/ AmqpDone

-----------------------------------------------------------------------------
(* The report on the deliveries found.                                     *)

\* Captured numbers are times if they lie after September 2001: 10^12 ms.
Plausible == 16666666

Stamps ==
  LET set == SelectSeq(Mapped(deliveries, LAMBDA d : d.stamp), LAMBDA s : s > 0)
      captured(d) == IF d.bodyNode < 0 THEN 0 ELSE PrimBytes(d.bodyNode).content.stamp
  IN  IF set # <<>> \/ ~AgeRegex THEN set
      ELSE SelectSeq(Mapped(deliveries, captured), LAMBDA s : s > Plausible)

\* Stamps that postdate the dump kept.
Ages_Future == SortSeq(Mapped(Stamps, LAMBDA s : Timestamp - s), <)

\* The ages at the time of the dump, youngest first; stamps that postdate it
\* are dropped.
Ages == SortSeq(SelectSeq(Mapped(Stamps, LAMBDA s : Timestamp - s), LAMBDA a : a >= 0), <)

\* The upper ends of the age buckets; the last bucket is open.
Buckets == <<1, 5, 15, 30, 60, 120, 180>>

InBucket(a, k) ==
  /\ a > (IF k = 1 THEN 0 ELSE Buckets[k - 1])
  /\ k <= Len(Buckets) => a <= Buckets[k]

AgeCounts ==
  [k \in 1..(Len(Buckets) + 1) |-> Len(SelectSeq(Ages, LAMBDA a : InBucket(a, k)))]

\* The report says that the backlog had stopped growing.
IntakeHalted == Ages # <<>> /\ Ages[1] > 5

ConsumerRow(i) ==
  LET cell(r, f) ==
        CASE f.name = "queues" ->
               [r EXCEPT !.queues =
                  IF Lookup(f.raw) < 0 THEN <<>>
                  ELSE Mapped(SelectSeq(ArrayElems(Lookup(f.raw), 16),
                                        LAMBDA x : StringOf(Lookup(x)).ok),
                              LAMBDA x : StringOf(Lookup(x)).text)]
          [] f.name = "prefetchCount"   -> [r EXCEPT !.prefetch = f.raw]
          [] f.name = "acknowledgeMode" -> [r EXCEPT !.ack = RenderRef(f.raw)]
          [] f.name = "queue"           -> 
               [r EXCEPT !.buffered =
                  RawOr0(Field(Target(Field(Lookup(f.raw), "count")), "value"))]
          [] OTHER                      -> r
  IN  FoldLeft(cell, [queues |-> <<>>, ack |-> "", prefetch |-> 0, buffered |-> 0],
               Fields(i))

ConsumerRows ==
  Mapped(SelectSeq(Nodes,
           LAMBDA i : Kind(i) = "instance" /\ className(i) \in ConsumerNames),
         ConsumerRow)

\* The consumers with the same queues, ack mode and prefetch make up one line.
Key(r) == [queues |-> r.queues, ack |-> r.ack, prefetch |-> r.prefetch]

ConsumerLines ==
  LET count(lines, r) ==
        LET k == Key(r)
            v == IF k \in DOMAIN lines THEN lines[k] ELSE [n |-> 0, buffered |-> 0]
        IN  With(lines, k, [n |-> v.n + 1, buffered |-> v.buffered + r.buffered])
  IN  FoldLeft(count, <<>>, ConsumerRows)

\* Without deliveries the command returns before it looks at the consumers.
NoAckWarning ==
  deliveries # <<>> /\ \E k \in DOMAIN ConsumerLines : k.ack = "NONE"

-----------------------------------------------------------------------------
(* Properties.  The reference definitions look at the records written.     *)

Found(v) == IsRef(v) /\ v.value \in IDs

RecordOf(x) == Written(NodeOf(x))

NameOf(r) == IF r.kind = "instance" THEN heap.classNames[r.class] ELSE ""

\* The places of an instance that refer to objects with property Is.
Places(r, Is(_)) ==
  {k \in DOMAIN r.values : Found(r.values[k]) /\ Is(RecordOf(r.values[k].value))}

EnvelopeRecord(r) == NameOf(r) = envelopeClass
BodyRecord(r) == r.kind = "primArray" /\ r.type = 8
PropsRecord(r) == NameOf(r) \in PropsNames
StringRecord(r) == NameOf(r) = "java.lang.String"

\* The record field name of r refers to, and the text a String holds.
Has(r, name) ==
  LET k == SelectInSeq(NamesIn(r), LAMBDA n : n = name)
  IN  k # 0 /\ Found(r.values[k])
Value(r, name) ==
  r.values[SelectInSeq(NamesIn(r), LAMBDA n : n = name)].value
At(r, name) == RecordOf(Value(r, name))
Text(r) == At(r, "value").content.text
TextAt(v, text) == IF Found(v) THEN Text(RecordOf(v.value)) ELSE text

\* Instances that hold an envelope, the envelope they are met through, and the
\* holder of each class that is met first.
Holders == {h \in Node : /\ Written(h).kind = "instance"
                         /\ Places(Written(h), EnvelopeRecord) # {}}

EnvelopeOf(h) ==
  Min({NodeOf(Written(h).values[k].value) : k \in Places(Written(h), EnvelopeRecord)})

FirstHolder(c) ==
  CHOOSE h \in Holders :
    /\ Written(h).class = c
    /\ \A g \in Holders :
         Written(g).class = c =>
           EnvelopeOf(h) < EnvelopeOf(g) \/ (EnvelopeOf(h) = EnvelopeOf(g) /\ h <= g)

HasBody(h) == Places(Written(h), BodyRecord) # {}

Reported == cmd = "amqp" /\ pc = "done"

\* Every reported delivery is an instance that holds an envelope, reported once,
\* with the exchange and routing key of its envelope and the body and tag that
\* the fields of its class carry.  Which fields those are is seen from the first
\* holder of the class, and a class whose first holder has no body is left out.
DeliveriesAreHolders ==
  Reported =>
    /\ IsInjective(Mapped(deliveries, LAMBDA d : d.node))
    /\ {d.node : d \in ToSet(deliveries)} =
         {h \in Holders : HasBody(FirstHolder(Written(h).class))}
    /\ \A d \in ToSet(deliveries) :
         LET r == Written(d.node)
             env == Written(EnvelopeOf(d.node))
             first == Written(FirstHolder(r.class))
             body == r.values[Min(Places(first, BodyRecord))]
             texts == Places(first, StringRecord)
             tags == {k \in texts : NamesIn(r)[k] \in TagNames}
             tag == IF tags # {} THEN Max(tags) ELSE Min(texts)
         IN  /\ d.bodyNode = IF Found(body) THEN NodeOf(body.value) ELSE -1
             /\ d.bodyLen = IF Found(body) THEN RecordOf(body.value).length ELSE 0
             /\ d.tag = IF texts = {} THEN "<none>" ELSE TextAt(r.values[tag], "<none>")
             /\ d.exchange = Text(At(env, "_exchange"))
             /\ d.routing = Text(At(env, "_routingKey"))

\* What the comment at the top of cmd_amqp.go says: an object that holds an
\* envelope is a delivery, here if it holds a body as well.
EveryHolderIsDelivery ==
  Reported =>
    \A h \in Holders : HasBody(h) => \E d \in ToSet(deliveries) : d.node = h

\* When the message was sent, if the first holder of its class has properties.
SentAt(d) ==
  LET r == Written(d.node)
      places == Places(Written(FirstHolder(r.class)), PropsRecord)
      props == r.values[Max(places)]
  IN  IF places = {} \/ ~Found(props) \/ ~Has(RecordOf(props.value), "timestamp") THEN 0
      ELSE Value(At(RecordOf(props.value), "timestamp"), "fastTime")

StampInBody(d) ==
  LET stamp == Written(d.bodyNode).content.stamp
  IN  IF d.bodyNode < 0 \/ stamp <= Plausible THEN 0 ELSE stamp

\* Each message with a known age is counted in the one bucket that its age falls
\* in, a message as old as the dump in none; plausible stamps in bodies count when no
\* message has one in its properties, and stamps that postdate the dump never
\* do.  The backlog is said to have stopped growing exactly if there are known
\* ages and all of them are above five minutes.
BacklogAges ==
  Reported =>
    LET sent == Mapped(deliveries, SentAt)
        stamped == \E k \in DOMAIN sent : sent[k] > 0
        at == IF stamped \/ ~AgeRegex THEN sent ELSE Mapped(deliveries, StampInBody)
        now == heap.time
        known == {k \in DOMAIN at : 0 < at[k] /\ at[k] <= now}
        place(k) == Cardinality({e \in ToSet(Buckets) : e < now - at[k]}) + 1
    IN  /\ \A b \in DOMAIN AgeCounts :
             AgeCounts[b] = Cardinality({k \in known : at[k] # now /\ place(k) = b})
        /\ IntakeHalted <=> known # {} /\ \A k \in known : now - at[k] > 5

Consumers == {r \in ToSet(heap.objects) : NameOf(r) \in ConsumerNames}

\* A report on deliveries warns of no-ack consumers exactly if the acknowledge
\* mode of some consumer is the enum constant NONE, and its lines account for
\* every consumer and for every message Spring has buffered.
NoAckIsFlagged ==
  Reported /\ deliveries # <<>> =>
    /\ NoAckWarning <=>
         \E r \in Consumers : /\ Has(r, "acknowledgeMode")
                              /\ Text(At(At(r, "acknowledgeMode"), "name")) = "NONE"
    /\ MapThenSumSet(LAMBDA k : ConsumerLines[k].n, DOMAIN ConsumerLines)
         = Cardinality(Consumers)
    /\ MapThenSumSet(LAMBDA k : ConsumerLines[k].buffered, DOMAIN ConsumerLines)
         = MapThenSumSet(LAMBDA c : IF ~Has(c, "queue") THEN 0
                                    ELSE Value(At(At(c, "queue"), "count"), "value"),
                         Consumers)

=============================================================================

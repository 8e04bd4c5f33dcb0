-------------------------- MODULE CaseStoreProofs --------------------------
(***************************************************************************)
(* The durable Case store, for every set of Events, Case IDs and clock     *)
(* readings, from every first file that OpenCaseStore accepts.             *)
(*                                                                         *)
(* CaseFileLoadable is not inductive alone: that a creation adds no second *)
(* open Case for a fingerprint follows from the index in memory, so the    *)
(* index must be known to be the file's (MemoryIsRebuildable), and that in *)
(* turn needs a loadable file, in which an open Case is the only one with  *)
(* its fingerprint.  The two hold together, with the types, as             *)
(* CaseStoreInv; what the store promises about its history, and that it    *)
(* implements the process-local store, follows from it.                    *)
(***************************************************************************)
EXTENDS CaseStore, WellFoundedInduction, TLAPS

-----------------------------------------------------------------------------
(* Sequences.                                                              *)

\* The elements of a sequence, one by one.
LEMMA SequenceElements ==
  ASSUME NEW S, NEW s \in Seq(S)
  PROVE  Len(s) \in Nat /\ DOMAIN s = 1 .. Len(s) /\ \A k \in DOMAIN s : s[k] \in S
  OBVIOUS

\* What Append adds, and what it keeps.
LEMMA AppendElements ==
  ASSUME NEW S, NEW s \in Seq(S), NEW e \in S
  PROVE  /\ Append(s, e) \in Seq(S)
         /\ Len(Append(s, e)) = Len(s) + 1
         /\ \A k \in 1 .. Len(s) : Append(s, e)[k] = s[k]
         /\ Append(s, e)[Len(s) + 1] = e
  OBVIOUS

\* Two sequences of the same length with the same elements are equal.
LEMMA SequenceEquality ==
  ASSUME NEW S, NEW s \in Seq(S), NEW t \in Seq(S), Len(s) = Len(t),
         \A k \in 1 .. Len(s) : s[k] = t[k]
  PROVE  s = t
  OBVIOUS

-----------------------------------------------------------------------------
(* Normalisation.                                                          *)

\* TrimSpace and ToLower are idempotent, in any order.
LEMMA TrimmedWord ==
  ASSUME NEW word \in Word
  PROVE  /\ TrimSpace(word) \in Word /\ ToLower(word) \in Word
         /\ TrimSpace(TrimSpace(word)) = TrimSpace(word)
         /\ ToLower(TrimSpace(ToLower(TrimSpace(word)))) = ToLower(TrimSpace(word))
         /\ TrimSpace(ToLower(TrimSpace(word))) = ToLower(TrimSpace(word))
  BY Zenon DEF Word, TrimSpace, ToLower

\* What Normalize does to each field.
LEMMA NormalizeFields ==
  ASSUME NEW e \in Event
  PROVE  /\ Normalize(e) \in Event
         /\ Normalize(e).id = TrimSpace(e.id)
         /\ Normalize(e).type = ToLower(TrimSpace(e.type))
         /\ Normalize(e).source = TrimSpace(e.source)
         /\ Normalize(e).occurredAt = e.occurredAt
         /\ Normalize(e).observedAt = e.observedAt
         /\ Normalize(e).environment = TrimSpace(e.environment)
         /\ Normalize(e).scope = [field \in ScopeField |-> TrimSpace(e.scope[field])]
         /\ Normalize(e).severity = ToLower(TrimSpace(e.severity))
         /\ Normalize(e).dedupeKey = TrimSpace(e.dedupeKey)
         /\ Normalize(e).attributes = e.attributes
<1>1. [field \in ScopeField |-> TrimSpace(e.scope[field])] \in [ScopeField -> Word]
  BY TrimmedWord, Zenon DEF Event
<1> QED
  BY <1>1, TrimmedWord, Zenon DEF Normalize, Event

\* A normalised Event is its own normal form.
LEMMA NormalizeIdempotent ==
  ASSUME NEW e \in Event
  PROVE  Normalize(Normalize(e)) = Normalize(e)
<1> SUFFICES ASSUME NEW n, n = Normalize(e) PROVE Normalize(n) = n
  BY Zenon
<1>1. n \in Event
  BY NormalizeFields, Zenon
<1>2. PICK m \in Event : m = Normalize(n)
  BY <1>1, NormalizeFields, Zenon
<1>3. m.scope = n.scope
  <2>1. n.scope = [field \in ScopeField |-> TrimSpace(e.scope[field])]
    BY NormalizeFields, Zenon
  <2>2. m.scope = [field \in ScopeField |-> TrimSpace(n.scope[field])]
    BY <1>1, <1>2, NormalizeFields, Zenon
  <2>3. \A field \in ScopeField :
          TrimSpace(TrimSpace(e.scope[field])) = TrimSpace(e.scope[field])
    BY TrimmedWord, Zenon DEF Event
  <2> QED
    BY <2>1, <2>2, <2>3
<1>4. \A word \in {e.id, e.type, e.source, e.environment, e.severity, e.dedupeKey} :
        word \in Word
  BY Zenon DEF Event
<1>5. m.id = n.id /\ m.source = n.source /\ m.environment = n.environment
        /\ m.dedupeKey = n.dedupeKey
  <2>1. /\ n.id = TrimSpace(e.id) /\ n.source = TrimSpace(e.source)
        /\ n.environment = TrimSpace(e.environment) /\ n.dedupeKey = TrimSpace(e.dedupeKey)
    BY NormalizeFields, Zenon
  <2>2. /\ m.id = TrimSpace(n.id) /\ m.source = TrimSpace(n.source)
        /\ m.environment = TrimSpace(n.environment) /\ m.dedupeKey = TrimSpace(n.dedupeKey)
    BY <1>1, <1>2, NormalizeFields, Zenon
  <2> QED
    BY <1>4, <2>1, <2>2, TrimmedWord
<1>6. m.type = n.type /\ m.severity = n.severity
  <2>1. n.type = ToLower(TrimSpace(e.type)) /\ n.severity = ToLower(TrimSpace(e.severity))
    BY NormalizeFields, Zenon
  <2>2. m.type = ToLower(TrimSpace(n.type)) /\ m.severity = ToLower(TrimSpace(n.severity))
    BY <1>1, <1>2, NormalizeFields, Zenon
  <2> QED
    BY <1>4, <2>1, <2>2, TrimmedWord, Zenon
<1>7. m.occurredAt = n.occurredAt /\ m.observedAt = n.observedAt
        /\ m.attributes = n.attributes
  BY <1>1, <1>2, NormalizeFields, Zenon
<1>8. m = n
  BY <1>1, <1>3, <1>5, <1>6, <1>7 DEF Event
<1> QED
  BY <1>2, <1>8, Zenon

\* What the store is given: only ObservedAt differs from the normalised Event.
LEMMA PreparedFacts ==
  ASSUME NEW event \in Event, NEW now \in Nat
  PROVE  /\ Prepared(event, now) \in Event
         /\ \E t \in Nat : Prepared(event, now) = [Normalize(event) EXCEPT !.observedAt = t]
  BY NormalizeFields, ZenonT(30) DEF Prepared, Event

\* ObservedAt changes neither the fingerprint, nor validity, nor sameEvent.
LEMMA ObservedAtIrrelevant ==
  ASSUME NEW n \in Event, Normalize(n) = n, NEW t \in Nat, NEW e,
         e = [n EXCEPT !.observedAt = t]
  PROVE  /\ e \in Event /\ Normalize(e) = e
         /\ Fingerprint(e) = Fingerprint(n)
         /\ Validate(e) <=> Validate(n)
         /\ e.occurredAt = n.occurredAt
         /\ \A x : sameEvent(x, e) <=> sameEvent(x, n)
         /\ sameEvent(e, n)
<1>1. e \in Event
  BY Zenon DEF Event
<1>2. PICK m \in Event : m = Normalize(e)
  BY <1>1, NormalizeFields, Zenon
<1>3. /\ e.id = n.id /\ e.type = n.type /\ e.source = n.source
      /\ e.occurredAt = n.occurredAt /\ e.environment = n.environment
      /\ e.scope = n.scope /\ e.severity = n.severity
      /\ e.dedupeKey = n.dedupeKey /\ e.attributes = n.attributes
  BY Zenon DEF Event
<1>4. m = e
  <2>1. /\ m.id = TrimSpace(e.id) /\ m.type = ToLower(TrimSpace(e.type))
        /\ m.source = TrimSpace(e.source) /\ m.occurredAt = e.occurredAt
        /\ m.observedAt = e.observedAt /\ m.environment = TrimSpace(e.environment)
        /\ m.scope = [field \in ScopeField |-> TrimSpace(e.scope[field])]
        /\ m.severity = ToLower(TrimSpace(e.severity))
        /\ m.dedupeKey = TrimSpace(e.dedupeKey) /\ m.attributes = e.attributes
    BY <1>1, <1>2, NormalizeFields, Zenon
  <2>2. /\ n.id = TrimSpace(n.id) /\ n.type = ToLower(TrimSpace(n.type))
        /\ n.source = TrimSpace(n.source) /\ n.environment = TrimSpace(n.environment)
        /\ n.scope = [field \in ScopeField |-> TrimSpace(n.scope[field])]
        /\ n.severity = ToLower(TrimSpace(n.severity))
        /\ n.dedupeKey = TrimSpace(n.dedupeKey)
    BY NormalizeFields
  <2>3. /\ m.id = e.id /\ m.type = e.type /\ m.source = e.source
        /\ m.environment = e.environment /\ m.scope = e.scope
        /\ m.severity = e.severity /\ m.dedupeKey = e.dedupeKey
    BY <1>3, <2>1, <2>2
  <2> QED
    BY <1>1, <2>1, <2>3, Zenon DEF Event
<1>5. Normalize(e) = e
  BY <1>2, <1>4, Zenon
<1>6. Fingerprint(e) = Fingerprint(n)
  BY <1>3, <1>5, Zenon DEF Fingerprint
<1>7. Validate(e) <=> Validate(n)
  BY <1>3, Zenon DEF Validate
<1>8. ASSUME NEW x PROVE sameEvent(x, e) <=> sameEvent(x, n)
  BY <1>3, <1>5, ZenonT(30) DEF sameEvent
<1>9. sameEvent(e, n)
  BY <1>3, <1>5, Zenon DEF sameEvent
<1> QED
  BY <1>1, <1>3, <1>5, <1>6, <1>7, <1>8, <1>9, Zenon

\* The Event the store is given for a client's Event.
LEMMA GivenEvent ==
  ASSUME NEW event \in Input, NEW now \in Times, NEW e, e = Prepared(event, now)
  PROVE  /\ e \in Event /\ Normalize(e) = e /\ now \in Nat \ {0}
         /\ Fingerprint(e) = Fingerprint(event) /\ Fingerprint(e) \in Fingerprints
         /\ Normalize(event) \in Event
         /\ Validate(Normalize(event)) <=> Validate(e)
         /\ \A x : sameEvent(x, e) <=> sameEvent(x, Normalize(event))
         /\ sameEvent(e, Normalize(event))
<1>1. event \in Event /\ now \in Nat \ {0}
  BY CasefileAssumption, Zenon
<1>2. PICK n \in Event : n = Normalize(event)
  BY <1>1, NormalizeFields, Zenon
<1>3. Normalize(n) = n
  BY <1>1, <1>2, NormalizeIdempotent, Zenon
<1>4. PICK t \in Nat : e = [n EXCEPT !.observedAt = t]
  BY <1>1, <1>2, PreparedFacts, Zenon
<1>5. /\ e \in Event /\ Normalize(e) = e
      /\ Fingerprint(e) = Fingerprint(n)
      /\ Validate(e) <=> Validate(n)
      /\ \A x : sameEvent(x, e) <=> sameEvent(x, n)
      /\ sameEvent(e, n)
  BY <1>3, <1>4, ObservedAtIrrelevant, Zenon
<1>6. Fingerprint(n) = Fingerprint(event)
  BY <1>2, <1>3, Zenon DEF Fingerprint
<1>7. Fingerprint(event) \in Fingerprints
  BY Zenon DEF Fingerprints
<1> QED
  BY <1>1, <1>2, <1>5, <1>6, <1>7, Zenon

-----------------------------------------------------------------------------
(* The Cases the store writes.                                             *)

\* A Case created for a valid Event passes validateStoredCase.
LEMMA CreatedCase ==
  ASSUME NEW e \in Event, Normalize(e) = e, Validate(e),
         Fingerprint(e) \in Fingerprints, NEW now \in Nat \ {0},
         NEW new, new = Created(e, now)
  PROVE  /\ new \in StoredCase /\ validateStoredCase(new)
         /\ Open(new.incident) /\ new.incident.fingerprint = Fingerprint(e)
         /\ new.incident.events = <<e>>
<1>1. PICK i : i = New(e)
  BY Zenon
<1>2. /\ i.fingerprint = Fingerprint(e) /\ i.type = e.type
      /\ i.status = "pending_investigation" /\ i.environment = e.environment
      /\ i.scope = e.scope /\ i.firstOccurredAt = e.occurredAt
      /\ i.lastOccurredAt = e.occurredAt /\ i.events = <<e>>
  BY <1>1, Zenon DEF New
<1>3. i \in StoredIncident
  BY <1>1 DEF New, StoredIncident, Status, Event
<1>4. new = [revision |-> 1, createdAt |-> now, updatedAt |-> now, incident |-> i]
  BY <1>1, Zenon DEF Created
<1>5. new \in StoredCase /\ new.incident = i
  BY <1>3, <1>4 DEF StoredCase
<1>6. DOMAIN i.events = {1} /\ i.events[1] = e /\ i.events # <<>>
  BY <1>2
<1>8. SameScope(e, i)
  BY <1>2, Zenon DEF SameScope
<1>9. e.occurredAt \in Nat
  BY Zenon DEF Event
<1>10. validateStoredCase(new)
  <2>1. new.revision # 0 /\ new.createdAt # 0 /\ new.updatedAt # 0
          /\ new.updatedAt >= new.createdAt
    BY <1>4
  <2>2. i.status \in Status
    BY <1>2, Zenon DEF Status
  <2>3. \A k \in DOMAIN i.events :
          /\ Validate(i.events[k])
          /\ Fingerprint(i.events[k]) = i.fingerprint
          /\ SameScope(i.events[k], i)
    BY <1>2, <1>6, <1>8, Zenon
  <2>4. /\ \E k \in DOMAIN i.events : i.firstOccurredAt = i.events[k].occurredAt
        /\ \A k \in DOMAIN i.events : i.firstOccurredAt <= i.events[k].occurredAt
        /\ \E k \in DOMAIN i.events : i.lastOccurredAt = i.events[k].occurredAt
        /\ \A k \in DOMAIN i.events : i.lastOccurredAt >= i.events[k].occurredAt
    BY <1>2, <1>6, <1>9
  <2> QED
    BY <1>5, <1>6, <2>1, <2>2, <2>3, <2>4 DEF validateStoredCase
<1>11. Open(i)
  BY <1>2, Zenon DEF Open
<1> QED
  BY <1>2, <1>5, <1>10, <1>11, Zenon

\* A Case to which Apply adds an Event passes validateStoredCase if it did so
\* before: the new Event has its fingerprint and scope, and the window is the
\* window of all its Events.
LEMMA UpdatedCase ==
  ASSUME NEW case \in StoredCase, validateStoredCase(case),
         NEW e \in Event, Normalize(e) = e, NEW now \in Nat \ {0},
         ApplyError(case.incident, e) = "none",
         NEW new, new = Updated(case, e, now)
  PROVE  /\ new \in StoredCase /\ validateStoredCase(new)
         /\ new.incident.status = case.incident.status
         /\ new.incident.fingerprint = case.incident.fingerprint
         /\ new.incident.events = Append(case.incident.events, e)
         /\ new.revision = case.revision + 1
         /\ new.createdAt = case.createdAt
         /\ new.updatedAt >= case.updatedAt
         /\ new.incident.firstOccurredAt <= case.incident.firstOccurredAt
         /\ new.incident.lastOccurredAt >= case.incident.lastOccurredAt
<1>1. PICK i \in StoredIncident : i = case.incident
  BY Zenon DEF StoredCase
<1>2. Validate(e) /\ Fingerprint(e) = i.fingerprint /\ SameScope(e, i)
  BY <1>1, Zenon DEF ApplyError
<1>3. PICK j : j = Applied(i, e)
  BY Zenon
<1>4. i.events \in Seq(Event) /\ i.firstOccurredAt \in Nat /\ i.lastOccurredAt \in Nat
        /\ e.occurredAt \in Nat /\ e.severity \in Word
  BY Zenon DEF StoredIncident, Event
<1>5. /\ Append(i.events, e) \in Seq(Event)
      /\ Len(Append(i.events, e)) = Len(i.events) + 1
      /\ \A k \in 1 .. Len(i.events) : Append(i.events, e)[k] = i.events[k]
      /\ Append(i.events, e)[Len(i.events) + 1] = e
  BY <1>4, AppendElements
<1>6. /\ j.fingerprint = i.fingerprint /\ j.type = i.type /\ j.status = i.status
      /\ j.environment = i.environment /\ j.scope = i.scope
      /\ j.firstOccurredAt = IF e.occurredAt < i.firstOccurredAt
                               THEN e.occurredAt ELSE i.firstOccurredAt
      /\ j.lastOccurredAt = IF e.occurredAt > i.lastOccurredAt
                              THEN e.occurredAt ELSE i.lastOccurredAt
      /\ j.events = Append(i.events, e)
      /\ j \in StoredIncident
  BY <1>3, <1>4, <1>5, Zenon DEF Applied, StoredIncident
<1>7. /\ case.revision \in Nat /\ case.createdAt \in Nat /\ case.updatedAt \in Nat
      /\ case.updatedAt # 0 /\ case.createdAt # 0 /\ case.updatedAt >= case.createdAt
  BY Zenon DEF StoredCase, validateStoredCase
<1>8. /\ new.revision = case.revision + 1 /\ new.createdAt = case.createdAt
      /\ new.updatedAt = IF now < case.updatedAt THEN case.updatedAt ELSE now
      /\ new.incident = j
      /\ new \in StoredCase
  <2>1. PICK u \in Nat : u = IF now < case.updatedAt THEN case.updatedAt ELSE now
    BY <1>7, Zenon
  <2>2. new = [case EXCEPT !.revision = @ + 1, !.updatedAt = u, !.incident = j]
    BY <1>1, <1>3, <2>1, Zenon DEF Updated
  <2>3. case = [revision |-> case.revision, createdAt |-> case.createdAt,
                updatedAt |-> case.updatedAt, incident |-> case.incident]
    BY Zenon DEF StoredCase
  <2>4. new = [revision |-> case.revision + 1, createdAt |-> case.createdAt,
               updatedAt |-> u, incident |-> j]
    BY <2>2, <2>3, Zenon
  <2>5. case.revision + 1 \in Nat
    BY <1>7
  <2>6. new \in StoredCase
    BY <1>6, <1>7, <2>1, <2>4, <2>5, SMTT(30) DEF StoredCase
  <2> QED
    BY <2>1, <2>4, <2>6
<1>9. /\ i.events # <<>> /\ i.status \in Status
      /\ \A k \in DOMAIN i.events :
           Validate(i.events[k]) /\ Fingerprint(i.events[k]) = i.fingerprint
             /\ SameScope(i.events[k], i)
      /\ \E k \in DOMAIN i.events : i.firstOccurredAt = i.events[k].occurredAt
      /\ \A k \in DOMAIN i.events : i.firstOccurredAt <= i.events[k].occurredAt
      /\ \E k \in DOMAIN i.events : i.lastOccurredAt = i.events[k].occurredAt
      /\ \A k \in DOMAIN i.events : i.lastOccurredAt >= i.events[k].occurredAt
  BY <1>1, Zenon DEF validateStoredCase
<1>10. /\ DOMAIN i.events = 1 .. Len(i.events) /\ Len(i.events) \in Nat
       /\ DOMAIN j.events = 1 .. Len(i.events) + 1
       /\ \A k \in 1 .. Len(i.events) : j.events[k] = i.events[k]
       /\ j.events[Len(i.events) + 1] = e
  BY <1>4, <1>5, <1>6, SequenceElements, Zenon
<1>11. \A k \in DOMAIN j.events :
         Validate(j.events[k]) /\ Fingerprint(j.events[k]) = j.fingerprint
           /\ SameScope(j.events[k], j)
  <2>1. \A k \in DOMAIN j.events :
          Validate(j.events[k]) /\ Fingerprint(j.events[k]) = i.fingerprint
            /\ SameScope(j.events[k], i)
    <3> SUFFICES ASSUME NEW k \in DOMAIN j.events
                 PROVE  Validate(j.events[k]) /\ Fingerprint(j.events[k]) = i.fingerprint
                          /\ SameScope(j.events[k], i)
      BY Zenon
    <3>1. CASE k = Len(i.events) + 1
      BY <1>2, <1>10, <3>1, Zenon
    <3>2. CASE k \in 1 .. Len(i.events)
      <4>1. j.events[k] = i.events[k] /\ k \in DOMAIN i.events
        BY <1>10, <3>2, Zenon
      <4> QED
        BY <1>9, <4>1, Zenon
    <3> QED
      BY <1>10, <3>1, <3>2
  <2> QED
    BY <1>6, <2>1, Zenon DEF SameScope
<1>12. /\ \E k \in DOMAIN j.events : j.firstOccurredAt = j.events[k].occurredAt
       /\ \E k \in DOMAIN j.events : j.lastOccurredAt = j.events[k].occurredAt
  <2>1. \A k \in DOMAIN i.events : k \in DOMAIN j.events /\ j.events[k] = i.events[k]
    BY <1>10
  <2>2. Len(i.events) + 1 \in DOMAIN j.events
    BY <1>10
  <2>3. \E k \in DOMAIN j.events : e.occurredAt = j.events[k].occurredAt
    BY <1>10, <2>2, Zenon
  <2>4. /\ \E k \in DOMAIN j.events : i.firstOccurredAt = j.events[k].occurredAt
        /\ \E k \in DOMAIN j.events : i.lastOccurredAt = j.events[k].occurredAt
    BY <1>9, <2>1, Zenon
  <2>5. /\ j.firstOccurredAt = e.occurredAt \/ j.firstOccurredAt = i.firstOccurredAt
        /\ j.lastOccurredAt = e.occurredAt \/ j.lastOccurredAt = i.lastOccurredAt
    BY <1>6, Zenon
  <2> QED
    BY <2>3, <2>4, <2>5, Zenon
<1>13. \A k \in DOMAIN j.events : j.events[k].occurredAt \in Nat
  <2>1. j.events \in Seq(Event)
    BY <1>5, <1>6, Zenon
  <2>2. \A k \in DOMAIN j.events : j.events[k] \in Event
    BY <2>1, SequenceElements, Zenon
  <2> QED
    BY <2>2, Zenon DEF Event
<1>14. \A k \in DOMAIN j.events : /\ j.firstOccurredAt <= j.events[k].occurredAt
                                  /\ j.lastOccurredAt >= j.events[k].occurredAt
  <2> SUFFICES ASSUME NEW k \in DOMAIN j.events
               PROVE  /\ j.firstOccurredAt <= j.events[k].occurredAt
                      /\ j.lastOccurredAt >= j.events[k].occurredAt
    BY Zenon
  <2>1. CASE k = Len(i.events) + 1
    BY <1>4, <1>6, <1>10, <2>1
  <2>2. CASE k \in 1 .. Len(i.events)
    <3>1. /\ i.firstOccurredAt <= j.events[k].occurredAt
          /\ i.lastOccurredAt >= j.events[k].occurredAt
      BY <1>9, <1>10, <2>2, SMTT(30)
    <3>2. PICK t \in Nat : t = j.events[k].occurredAt
      BY <1>13, Zenon
    <3>3. i.firstOccurredAt <= t /\ i.lastOccurredAt >= t
      BY <3>1, <3>2, Zenon
    <3>4. j.firstOccurredAt <= i.firstOccurredAt /\ j.lastOccurredAt >= i.lastOccurredAt
            /\ j.firstOccurredAt \in Nat /\ j.lastOccurredAt \in Nat
      BY <1>4, <1>6
    <3>5. j.firstOccurredAt <= t /\ j.lastOccurredAt >= t
      BY <1>4, <3>3, <3>4, SMTT(30)
    <3> QED
      BY <3>2, <3>5, Zenon
  <2> QED
    BY <1>10, <2>1, <2>2
<1>15. validateStoredCase(new)
  <2>1. new.revision # 0 /\ new.createdAt # 0 /\ new.updatedAt # 0
          /\ new.updatedAt >= new.createdAt
    BY <1>7, <1>8
  <2>2. j.events # <<>> /\ j.status \in Status
    BY <1>6, <1>9, <1>10
  <2> QED
    BY <1>8, <1>11, <1>12, <1>14, <2>1, <2>2 DEF validateStoredCase
<1> QED
  BY <1>1, <1>4, <1>6, <1>7, <1>8, <1>15, SMTT(30)

\* Apply finds the first of the Events that match, if there is one.
LEMMA FirstMatchExists ==
  ASSUME NEW i \in StoredIncident, NEW e, Matches(i, e) # {}
  PROVE  FirstMatch(i, e) \in DOMAIN i.events
<1>1. i.events \in Seq(Event)
  BY Zenon DEF StoredIncident
<1>2. Matches(i, e) \subseteq DOMAIN i.events /\ DOMAIN i.events \subseteq Nat
  BY <1>1, SequenceElements DEF Matches
<1>3. Matches(i, e) \subseteq Nat
  BY <1>2, Zenon
<1>4. PICK k \in Matches(i, e) : \A j \in Matches(i, e) : ~(<<j, k>> \in OpToRel(<, Nat))
  BY <1>3, WFMin, NatLessThanWellFounded, Zenon
<1>5. \A j \in Matches(i, e) : k <= j
  <2> SUFFICES ASSUME NEW j \in Matches(i, e), ~(k <= j) PROVE FALSE
    BY Zenon
  <2>1. j \in Nat /\ k \in Nat /\ j < k
    BY <1>3
  <2>2. <<j, k>> \in {ss \in Nat \X Nat : ss[1] < ss[2]}
    BY <2>1, Zenon
  <2>3. OpToRel(<, Nat) = {ss \in Nat \X Nat : ss[1] < ss[2]}
    BY Zenon DEF OpToRel
  <2> QED
    BY <1>4, <2>2, <2>3, Zenon
<1>6. FirstMatch(i, e) \in Matches(i, e)
  BY <1>5, Zenon DEF FirstMatch
<1> QED
  BY <1>2, <1>6, Zenon

-----------------------------------------------------------------------------
(* The file and the index.                                                 *)

Files == [CaseID -> StoredCase \cup {None}]

\* The file next holds new under c, and is otherwise as file.
Differs(file, next, c, new) ==
  next \in Files /\ next[c] = new /\ \A d \in CaseID \ {c} : next[d] = file[d]

\* The index of a loadable file names the open Case of a fingerprint.
LEMMA IndexFacts ==
  ASSUME NEW file \in Files, Loadable(file), NEW f \in Fingerprints
  PROVE  /\ OpenCases(file, f) \subseteq CaseID
         /\ OpenCases(file, f) = {} <=> IndexOf(file)[f] = None
         /\ \A c \in OpenCases(file, f) : IndexOf(file)[f] = c
<1>1. \A g : OpenCases(file, g) \subseteq CaseID
  BY Zenon DEF OpenCases
<1>2. \A g \in Fingerprints :
        IndexOf(file)[g] = IF OpenCases(file, g) = {}
                             THEN None
                             ELSE CHOOSE c \in OpenCases(file, g) : TRUE
  BY Zenon DEF IndexOf
<1>3. \A g \in Fingerprints :
        /\ OpenCases(file, g) = {} => IndexOf(file)[g] = None
        /\ OpenCases(file, g) # {} => IndexOf(file)[g] \in OpenCases(file, g)
  BY <1>2, Zenon
<1>4. \A g \in Fingerprints : IndexOf(file)[g] \in CaseID \cup {None}
  BY <1>1, <1>3, Zenon
<1>5. IndexOf(file) = [g \in Fingerprints |-> IndexOf(file)[g]]
  BY DEF IndexOf
<1>6. \A c, d \in OpenCases(file, f) : c = d
  BY Zenon DEF OpenCases, Loadable
<1>7. None \notin CaseID
  BY CaseStoreAssumption, Zenon
<1> QED
  BY <1>1, <1>3, <1>4, <1>5, <1>6, <1>7, Zenon

\* The index has the type of s.openByPrint.
LEMMA IndexTyped ==
  ASSUME NEW file \in Files
  PROVE  IndexOf(file) \in [Fingerprints -> CaseID \cup {None}]
<1>1. \A g : OpenCases(file, g) \subseteq CaseID
  BY Zenon DEF OpenCases
<1>2. \A g \in Fingerprints : OpenCases(file, g) # {} =>
        (CHOOSE c \in OpenCases(file, g) : TRUE) \in OpenCases(file, g)
  BY Zenon
<1> QED
  BY <1>1, <1>2, Zenon DEF IndexOf

\* Replacing a Case by a valid one of the same status and fingerprint keeps the
\* file loadable and the index as it is.
LEMMA ReplaceCase ==
  ASSUME NEW file \in Files, Loadable(file), NEW c \in CaseID, file[c] # None,
         NEW new \in StoredCase, validateStoredCase(new),
         new.incident.status = file[c].incident.status,
         new.incident.fingerprint = file[c].incident.fingerprint,
         NEW next, Differs(file, next, c, new)
  PROVE  Loadable(next) /\ IndexOf(next) = IndexOf(file)
<1>1. next \in Files /\ next[c] = new /\ \A d \in CaseID \ {c} : next[d] = file[d]
  BY Zenon DEF Differs
<1>2. new # None
  BY CaseStoreAssumption, Zenon
<1>3. \A d \in CaseID : /\ next[d] # None <=> file[d] # None
                        /\ Open(next[d].incident) <=> Open(file[d].incident)
                        /\ next[d].incident.fingerprint = file[d].incident.fingerprint
  BY <1>1, <1>2, Zenon DEF Open
<1>4. \A d \in CaseID : next[d] # None => validateStoredCase(next[d])
  BY <1>1, Zenon DEF Loadable
<1>5. Loadable(next)
  BY <1>3, <1>4 DEF Loadable
<1>6. \A f : OpenCases(next, f) = OpenCases(file, f)
  BY <1>3, Zenon DEF OpenCases
<1>7. IndexOf(next) = IndexOf(file)
  <2>1. \A f \in Fingerprints : IndexOf(next)[f] = IndexOf(file)[f]
    <3> SUFFICES ASSUME NEW f \in Fingerprints PROVE IndexOf(next)[f] = IndexOf(file)[f]
      BY Zenon
    <3>1. CASE OpenCases(file, f) = {}
      BY <1>1, <1>5, <1>6, <3>1, IndexFacts, Zenon
    <3>2. CASE OpenCases(file, f) # {}
      <4>1. PICK d : d \in OpenCases(file, f) /\ d \in OpenCases(next, f)
        BY <1>6, <3>2, Zenon
      <4> QED
        BY <1>1, <1>5, <4>1, IndexFacts, Zenon
    <3> QED
      BY <3>1, <3>2, Zenon
  <2>2. /\ IndexOf(next) = [f \in Fingerprints |-> IndexOf(next)[f]]
        /\ IndexOf(file) = [f \in Fingerprints |-> IndexOf(file)[f]]
    BY DEF IndexOf
  <2> QED
    BY <2>1, <2>2, Zenon
<1> QED
  BY <1>5, <1>7, Zenon

\* Adding an open Case for a fingerprint that has none keeps the file loadable
\* and adds the Case to the index.
LEMMA AddCase ==
  ASSUME NEW file \in Files, Loadable(file), NEW c \in CaseID, file[c] = None,
         NEW new \in StoredCase, validateStoredCase(new), Open(new.incident),
         NEW f \in Fingerprints, new.incident.fingerprint = f, OpenCases(file, f) = {},
         NEW next, Differs(file, next, c, new)
  PROVE  Loadable(next) /\ IndexOf(next) = [IndexOf(file) EXCEPT ![f] = c]
<1>1. next \in Files /\ next[c] = new /\ \A d \in CaseID \ {c} : next[d] = file[d]
  BY Zenon DEF Differs
<1>2. new # None
  BY CaseStoreAssumption, Zenon
<1>4. \A d \in CaseID : next[d] # None => validateStoredCase(next[d])
  BY <1>1, Zenon DEF Loadable
<1>5. \A g \in Fingerprints : OpenCases(next, g) = IF g = f THEN {c} ELSE OpenCases(file, g)
  <2> SUFFICES ASSUME NEW g \in Fingerprints
               PROVE  OpenCases(next, g) = IF g = f THEN {c} ELSE OpenCases(file, g)
    BY Zenon
  <2>1. c \in OpenCases(next, g) <=> g = f
    BY <1>2, <1>1, Zenon DEF OpenCases
  <2>2. \A d \in CaseID \ {c} : d \in OpenCases(next, g) <=> d \in OpenCases(file, g)
    BY <1>1, Zenon DEF OpenCases
  <2>3. c \notin OpenCases(file, g)
    BY Zenon DEF OpenCases
  <2>4. OpenCases(next, g) \subseteq CaseID /\ OpenCases(file, g) \subseteq CaseID
    BY Zenon DEF OpenCases
  <2>5. CASE g = f
    <3>1. \A d : d \in OpenCases(next, g) <=> d = c
      BY <2>1, <2>2, <2>4, <2>5, Zenon
    <3> QED
      BY <2>5, <3>1, Zenon
  <2>6. CASE g # f
    <3>1. \A d : d \in OpenCases(next, g) <=> d \in OpenCases(file, g)
      BY <2>1, <2>2, <2>3, <2>4, <2>6, Zenon
    <3> QED
      BY <2>6, <3>1, Zenon
  <2> QED
    BY <2>5, <2>6, Zenon
<1>6. Loadable(next)
  <2> SUFFICES ASSUME NEW a \in CaseID, NEW b \in CaseID,
                      next[a] # None, Open(next[a].incident),
                      next[b] # None, Open(next[b].incident),
                      next[a].incident.fingerprint = next[b].incident.fingerprint
               PROVE  a = b
    BY <1>4, Zenon DEF Loadable
  <2>1. CASE a # c /\ b # c
    BY <1>1, <2>1, Zenon DEF Loadable
  <2>2. CASE a = c /\ b # c
    BY <1>1, <2>2, Zenon DEF OpenCases
  <2>3. CASE a # c /\ b = c
    BY <1>1, <2>3, Zenon DEF OpenCases
  <2> QED
    BY <2>1, <2>2, <2>3, Zenon
<1>7. IndexOf(next) = [IndexOf(file) EXCEPT ![f] = c]
  <2>1. \A g \in Fingerprints \ {f} : IndexOf(next)[g] = IndexOf(file)[g]
    <3> SUFFICES ASSUME NEW g \in Fingerprints, g # f PROVE IndexOf(next)[g] = IndexOf(file)[g]
      BY Zenon
    <3>1. OpenCases(next, g) = OpenCases(file, g)
      BY <1>5, Zenon
    <3>2. CASE OpenCases(file, g) = {}
      BY <1>1, <1>6, <3>1, <3>2, IndexFacts
    <3>3. CASE OpenCases(file, g) # {}
      <4>1. PICK d : d \in OpenCases(file, g) /\ d \in OpenCases(next, g)
        BY <3>1, <3>3, Zenon
      <4> QED
        BY <1>1, <1>6, <4>1, IndexFacts, Zenon
    <3> QED
      BY <3>2, <3>3, Zenon
  <2>2. IndexOf(next)[f] = c
    BY <1>1, <1>5, <1>6, IndexFacts, Zenon
  <2>3. /\ IndexOf(next) = [g \in Fingerprints |-> IndexOf(next)[g]]
        /\ IndexOf(file) = [g \in Fingerprints |-> IndexOf(file)[g]]
    BY DEF IndexOf
  <2> QED
    BY <2>1, <2>2, <2>3, Zenon
<1> QED
  BY <1>6, <1>7, Zenon

-----------------------------------------------------------------------------
(* The inductive invariant.                                                *)

CaseStoreInv == CaseStoreTypeOK /\ CaseFileLoadable /\ MemoryIsRebuildable

\* The Case that the index names for an Event that joins one.
LEMMA JoinedCase ==
  ASSUME CaseStoreInv, caseUp, NEW event \in Input, Joins(event), NEW c, c = Indexed(event)
  PROVE  /\ c \in CaseID /\ caseFile[c] # None /\ caseFile[c] \in StoredCase
         /\ Open(caseFile[c].incident) /\ validateStoredCase(caseFile[c])
<1>1. caseFile \in Files /\ Loadable(caseFile)
  BY Zenon DEF CaseStoreInv, CaseStoreTypeOK, CaseFileLoadable, Files
<1>2. Fingerprint(event) \in Fingerprints
  BY Zenon DEF Fingerprints
<1>3. c = IndexOf(caseFile)[Fingerprint(event)] /\ c # None
  BY Zenon DEF CaseStoreInv, MemoryIsRebuildable, Joins, Indexed
<1>4. OpenCases(caseFile, Fingerprint(event)) # {}
  BY <1>1, <1>2, <1>3, IndexFacts, Zenon
<1>5. c \in OpenCases(caseFile, Fingerprint(event))
  BY <1>1, <1>2, <1>3, <1>4, IndexFacts, Zenon
<1>6. c \in CaseID /\ caseFile[c] # None /\ Open(caseFile[c].incident)
  BY <1>5, Zenon DEF OpenCases
<1> QED
  BY <1>1, <1>6, Zenon DEF Files, Loadable

\* The file is replaced by next, which holds new under c, if the write succeeds.
FileWritten(c, new, next, ok) ==
  /\ next = [caseFile EXCEPT ![c] = new] /\ Loadable(next)
  /\ SaveCases(next, IndexOf(next), ok)

Acceptance(event, c, ok) == IF ok THEN Accept(event, c) ELSE UNCHANGED accepted

\* The condition under which the store updates the Case c with e.
UpdateGuard(event, now, c, e) ==
  /\ c = Indexed(event) /\ e = Prepared(event, now)
  /\ caseFile[c] # None /\ caseFile[c] \in StoredCase /\ Open(caseFile[c].incident)
  /\ ApplyError(caseFile[c].incident, e) = "none"
  /\ ~Replays(caseFile[c].incident, e)
  /\ Validate(Normalize(event)) /\ Joins(event)

\* How the Case new differs from the one under c.
UpdatedFields(c, e, now, new) ==
  /\ new = Updated(caseFile[c], e, now)
  /\ new.incident.status = caseFile[c].incident.status
  /\ new.incident.fingerprint = caseFile[c].incident.fingerprint
  /\ new.incident.events = Append(caseFile[c].incident.events, e)
  /\ new.revision = caseFile[c].revision + 1
  /\ new.createdAt = caseFile[c].createdAt
  /\ new.updatedAt >= caseFile[c].updatedAt
  /\ new.incident.firstOccurredAt <= caseFile[c].incident.firstOccurredAt
  /\ new.incident.lastOccurredAt >= caseFile[c].incident.lastOccurredAt

\* Memory is the file's and the process runs on.
MemoryCurrent ==
  byID = caseFile /\ openByPrint = IndexOf(caseFile) /\ caseUp /\ UNCHANGED caseUp

\* What an update writes.
UpdateWrites(event, now, ok, c, e, new, next) ==
  /\ UpdateGuard(event, now, c, e) /\ UpdatedFields(c, e, now, new)
  /\ FileWritten(c, new, next, ok) /\ IndexOf(next) = IndexOf(caseFile)
  /\ Acceptance(event, c, ok) /\ MemoryCurrent

\* An update writes a loadable file with the same index.
LEMMA UpdateFacts ==
  ASSUME CaseStoreInv, NEW event \in Input, NEW now \in Times, NEW ok \in BOOLEAN,
         Update(event, now, ok)
  PROVE  \E c \in CaseID, e \in Event, new \in StoredCase, next \in Files :
           UpdateWrites(event, now, ok, c, e, new, next)
<1> PICK c : c = Indexed(event)
  BY Zenon
<1> PICK e : e = Prepared(event, now)
  BY Zenon
<1> PICK new : new = Updated(caseFile[c], e, now)
  BY Zenon
<1> PICK next : next = [caseFile EXCEPT ![c] = new]
  BY Zenon
<1>1. caseUp /\ Validate(Normalize(event)) /\ Joins(event)
  BY Zenon DEF Update, Submitted
<1>2. byID = caseFile /\ openByPrint = IndexOf(caseFile)
  BY <1>1, Zenon DEF CaseStoreInv, MemoryIsRebuildable
<1>3. /\ ApplyError(caseFile[c].incident, e) = "none"
      /\ ~Replays(caseFile[c].incident, e)
      /\ SaveCases(next, openByPrint, ok)
      /\ IF ok THEN Accept(event, c) ELSE UNCHANGED accepted
      /\ UNCHANGED caseUp
  BY <1>2, Zenon DEF Update
<1>4. /\ c \in CaseID /\ caseFile[c] # None /\ caseFile[c] \in StoredCase
      /\ Open(caseFile[c].incident) /\ validateStoredCase(caseFile[c])
  BY <1>1, JoinedCase, Zenon
<1>5. e \in Event /\ Normalize(e) = e /\ now \in Nat \ {0}
  BY GivenEvent, SMTT(30)
<1>6. /\ new \in StoredCase /\ validateStoredCase(new)
      /\ new.incident.status = caseFile[c].incident.status
      /\ new.incident.fingerprint = caseFile[c].incident.fingerprint
      /\ new.incident.events = Append(caseFile[c].incident.events, e)
      /\ new.revision = caseFile[c].revision + 1
      /\ new.createdAt = caseFile[c].createdAt
      /\ new.updatedAt >= caseFile[c].updatedAt
      /\ new.incident.firstOccurredAt <= caseFile[c].incident.firstOccurredAt
      /\ new.incident.lastOccurredAt >= caseFile[c].incident.lastOccurredAt
  <2>1. PICK old \in StoredCase : old = caseFile[c]
    BY <1>4, Zenon
  <2>2. /\ validateStoredCase(old) /\ ApplyError(old.incident, e) = "none"
        /\ new = Updated(old, e, now)
    BY <1>3, <1>4, <2>1, SMTT(30)
  <2>3. /\ new \in StoredCase /\ validateStoredCase(new)
        /\ new.incident.status = old.incident.status
        /\ new.incident.fingerprint = old.incident.fingerprint
        /\ new.incident.events = Append(old.incident.events, e)
        /\ new.revision = old.revision + 1
        /\ new.createdAt = old.createdAt
        /\ new.updatedAt >= old.updatedAt
        /\ new.incident.firstOccurredAt <= old.incident.firstOccurredAt
        /\ new.incident.lastOccurredAt >= old.incident.lastOccurredAt
    BY <1>5, <2>2, UpdatedCase
  <2> QED
    BY <2>1, <2>3, Zenon
<1>7. caseFile \in Files /\ Loadable(caseFile)
  BY Zenon DEF CaseStoreInv, CaseStoreTypeOK, CaseFileLoadable, Files
<1>8. next \in Files /\ Loadable(next) /\ IndexOf(next) = IndexOf(caseFile)
  <2>1. PICK file \in Files : file = caseFile
    BY <1>7, Zenon
  <2>2. /\ Loadable(file) /\ file[c] # None
        /\ new.incident.status = file[c].incident.status
        /\ new.incident.fingerprint = file[c].incident.fingerprint
    <3>1. Loadable(file)
      BY <1>7, <2>1, Zenon
    <3>2. file[c] # None
      BY <1>4, <2>1, Zenon
    <3>3. new.incident.status = file[c].incident.status
      BY <1>6, <2>1, Zenon
    <3>4. new.incident.fingerprint = file[c].incident.fingerprint
      BY <1>6, <2>1, Zenon
    <3> QED
      BY <3>1, <3>2, <3>3, <3>4, Zenon
  <2>3. c \in CaseID /\ new \in StoredCase /\ validateStoredCase(new)
    BY <1>4, <1>6, Zenon
  <2>4. next \in Files /\ Differs(file, next, c, new)
    BY <2>1, <2>3, Zenon DEF Files, Differs
  <2>5. Loadable(next) /\ IndexOf(next) = IndexOf(file)
    BY <2>2, <2>3, <2>4, ReplaceCase
  <2> QED
    BY <2>1, <2>4, <2>5, Zenon
<1>9. UpdateWrites(event, now, ok, c, e, new, next)
  <2>1. UpdateGuard(event, now, c, e)
    BY <1>1, <1>3, <1>4, SMTT(30) DEF UpdateGuard
  <2>2. UpdatedFields(c, e, now, new)
    BY <1>6, Zenon DEF UpdatedFields
  <2>3. FileWritten(c, new, next, ok)
    BY <1>2, <1>3, <1>8, Zenon DEF FileWritten
  <2>4. Acceptance(event, c, ok) /\ MemoryCurrent
    BY <1>1, <1>2, <1>3, SMTT(30) DEF Acceptance, MemoryCurrent
  <2> QED
    BY <1>8, <2>1, <2>2, <2>3, <2>4, SMTT(30) DEF UpdateWrites
<1> QED
  BY <1>4, <1>5, <1>6, <1>8, <1>9, Zenon

\* What a creation writes.
CreateWrites(event, c, now, ok, e, new, next) ==
  /\ e = Prepared(event, now) /\ new = Created(e, now) /\ new.incident.events = <<e>>
  /\ caseFile[c] = None /\ Validate(Normalize(event)) /\ ~Joins(event)
  /\ FileWritten(c, new, next, ok)
  /\ IndexOf(next) = [IndexOf(caseFile) EXCEPT ![Fingerprint(e)] = c]
  /\ Acceptance(event, c, ok) /\ MemoryCurrent

\* A creation writes a loadable file, with the Case in its index.
LEMMA CreateFacts ==
  ASSUME CaseStoreInv, NEW event \in Input, NEW c \in CaseID, NEW now \in Times,
         NEW ok \in BOOLEAN, Create(event, c, now, ok)
  PROVE  \E e \in Event, new \in StoredCase, next \in Files :
           CreateWrites(event, c, now, ok, e, new, next)
<1> PICK e : e = Prepared(event, now)
  BY Zenon
<1> PICK new : new = Created(e, now)
  BY Zenon
<1> PICK next : next = [caseFile EXCEPT ![c] = new]
  BY Zenon
<1> PICK index : index = [IndexOf(caseFile) EXCEPT ![Fingerprint(e)] = c]
  BY Zenon
<1>1. caseUp /\ Validate(Normalize(event)) /\ ~Joins(event)
  BY Zenon DEF Create, Submitted
<1>2. byID = caseFile /\ openByPrint = IndexOf(caseFile)
  BY <1>1, Zenon DEF CaseStoreInv, MemoryIsRebuildable
<1>3. /\ caseFile[c] = None
      /\ SaveCases(next, index, ok)
      /\ IF ok THEN Accept(event, c) ELSE UNCHANGED accepted
      /\ UNCHANGED caseUp
  BY <1>2, Zenon DEF Create
<1>4. /\ e \in Event /\ Normalize(e) = e /\ now \in Nat \ {0} /\ Validate(e)
      /\ Fingerprint(e) = Fingerprint(event) /\ Fingerprint(e) \in Fingerprints
  BY <1>1, GivenEvent, SMTT(30)
<1>5. /\ new \in StoredCase /\ validateStoredCase(new)
      /\ Open(new.incident) /\ new.incident.fingerprint = Fingerprint(e)
      /\ new.incident.events = <<e>>
  BY <1>4, CreatedCase, Zenon
<1>6. caseFile \in Files /\ Loadable(caseFile)
  BY Zenon DEF CaseStoreInv, CaseStoreTypeOK, CaseFileLoadable, Files
<1>7. OpenCases(caseFile, Fingerprint(e)) = {}
  <2> SUFFICES ASSUME NEW d \in OpenCases(caseFile, Fingerprint(e)) PROVE FALSE
    BY Zenon
  <2>1. Indexed(event) = d
    BY <1>2, <1>4, <1>6, IndexFacts, Zenon DEF Indexed
  <2>2. d \in CaseID /\ Open(caseFile[d].incident)
    BY Zenon DEF OpenCases
  <2> QED
    BY <1>1, <1>2, <2>1, <2>2, CaseStoreAssumption, Zenon DEF Joins
<1>8. /\ next \in Files /\ Loadable(next) /\ IndexOf(next) = index
  <2>1. PICK file \in Files : file = caseFile
    BY <1>6, Zenon
  <2>2. PICK f \in Fingerprints : f = Fingerprint(e)
    BY <1>4, Zenon
  <2>3. Loadable(file) /\ file[c] = None /\ OpenCases(file, f) = {}
    BY <1>3, <1>6, <1>7, <2>1, <2>2, SMTT(30)
  <2>4. /\ new \in StoredCase /\ validateStoredCase(new)
        /\ Open(new.incident) /\ new.incident.fingerprint = f
    BY <1>5, <2>2, Zenon
  <2>5. next \in Files /\ Differs(file, next, c, new)
    BY <2>1, <2>4, Zenon DEF Files, Differs
  <2>6. Loadable(next) /\ IndexOf(next) = [IndexOf(file) EXCEPT ![f] = c]
    BY <2>3, <2>4, <2>5, AddCase, SMTT(30)
  <2> QED
    BY <2>1, <2>2, <2>5, <2>6, Zenon
<1>9. CreateWrites(event, c, now, ok, e, new, next)
  <2>1. FileWritten(c, new, next, ok)
    BY <1>3, <1>8, Zenon DEF FileWritten
  <2>2. Acceptance(event, c, ok) /\ MemoryCurrent
    BY <1>1, <1>2, <1>3, Zenon DEF Acceptance, MemoryCurrent
  <2>3. IndexOf(next) = [IndexOf(caseFile) EXCEPT ![Fingerprint(e)] = c]
    BY <1>8, Zenon
  <2> QED
    BY <1>1, <1>3, <1>5, <2>1, <2>2, <2>3, Zenon DEF CreateWrites
<1> QED
  BY <1>4, <1>5, <1>8, <1>9, Zenon

\* What the file holds under c after a write to c.
LEMMA WrittenHere ==
  ASSUME CaseStoreInv, NEW c \in CaseID, NEW new \in StoredCase, NEW next,
         NEW ok \in BOOLEAN, FileWritten(c, new, next, ok), ok
  PROVE  caseFile'[c] = new /\ caseFile'[c] # None
<1>1. caseFile \in Files
  BY Zenon DEF CaseStoreInv, CaseStoreTypeOK, Files
<1>2. caseFile' = next /\ next[c] = new
  BY <1>1, Zenon DEF FileWritten, SaveCases, Files
<1>3. new # None
  BY CaseStoreAssumption, Zenon
<1> QED
  BY <1>2, <1>3, Zenon

\* What it holds elsewhere, or after a write that failed.
LEMMA WrittenElsewhere ==
  ASSUME CaseStoreInv, NEW c \in CaseID, NEW d \in CaseID, NEW new, NEW next,
         NEW ok \in BOOLEAN, FileWritten(c, new, next, ok), ~ok \/ d # c
  PROVE  caseFile'[d] = caseFile[d]
<1>1. caseFile \in Files
  BY Zenon DEF CaseStoreInv, CaseStoreTypeOK, Files
<1>2. CASE ~ok
  BY <1>2, Zenon DEF FileWritten, SaveCases
<1>3. CASE ok /\ d # c
  <2>1. caseFile' = next /\ next[d] = caseFile[d]
    BY <1>1, <1>3, Zenon DEF FileWritten, SaveCases, Files
  <2> QED
    BY <2>1, Zenon
<1> QED
  BY <1>2, <1>3, Zenon

\* Saving a loadable file with its index keeps memory and file in agreement.
LEMMA SaveCasesInv ==
  ASSUME CaseStoreInv, caseUp, UNCHANGED caseUp, NEW ok \in BOOLEAN,
         NEW next \in Files, Loadable(next), NEW index, index = IndexOf(next),
         SaveCases(next, index, ok), accepted' \subseteq [event : Event, case : CaseID]
  PROVE  CaseStoreInv'
<1>1. index \in [Fingerprints -> CaseID \cup {None}]
  BY IndexTyped, Zenon
<1>2. CASE ok
  <2>1. caseFile' = next /\ byID' = next /\ openByPrint' = index /\ caseUp'
    BY <1>2, Zenon DEF SaveCases
  <2>2. CaseStoreTypeOK'
    BY <1>1, <2>1, Zenon DEF CaseStoreTypeOK, CaseStoreInv, Files
  <2>3. CaseFileLoadable'
    BY <2>1, Zenon DEF CaseFileLoadable, Loadable, Open
  <2>4. MemoryIsRebuildable'
    BY <2>1 DEF MemoryIsRebuildable, IndexOf, OpenCases
  <2> QED
    BY <2>2, <2>3, <2>4, Zenon DEF CaseStoreInv
<1>3. CASE ~ok
  <2>1. UNCHANGED <<caseFile, byID, openByPrint>>
    BY <1>3, SMTT(30) DEF SaveCases
  <2>2. CaseStoreTypeOK' /\ CaseFileLoadable' /\ MemoryIsRebuildable'
    BY <2>1 DEF CaseStoreTypeOK, CaseStoreInv, CaseFileLoadable, MemoryIsRebuildable,
      Loadable, IndexOf, OpenCases
  <2> QED
    BY <2>2, Zenon DEF CaseStoreInv
<1> QED
  BY <1>2, <1>3, Zenon

\* Steps that leave the file alone, and memory as the file is or empty.
LEMMA SameFileInv ==
  ASSUME CaseStoreInv, UNCHANGED caseFile, caseUp' \in BOOLEAN,
         caseUp' => byID' = caseFile /\ openByPrint' = IndexOf(caseFile),
         ~caseUp' => byID' = NoCases /\ openByPrint' = NoIndex,
         accepted' \subseteq [event : Event, case : CaseID]
  PROVE  CaseStoreInv'
<1>1. caseFile \in Files /\ Loadable(caseFile)
  BY Zenon DEF CaseStoreInv, CaseStoreTypeOK, CaseFileLoadable, Files
<1>2. IndexOf(caseFile) \in [Fingerprints -> CaseID \cup {None}]
  BY <1>1, IndexTyped, Zenon
<1>3. NoCases \in Files /\ NoIndex \in [Fingerprints -> CaseID \cup {None}]
  BY Zenon DEF NoCases, NoIndex, Files
<1>4. CaseStoreTypeOK'
  BY <1>1, <1>2, <1>3, Zenon DEF CaseStoreTypeOK, Files
<1>5. CaseFileLoadable'
  BY <1>1, Zenon DEF CaseFileLoadable, Loadable
<1>6. MemoryIsRebuildable'
  BY DEF MemoryIsRebuildable, IndexOf, OpenCases
<1> QED
  BY <1>4, <1>5, <1>6, Zenon DEF CaseStoreInv

\* The store before it is opened for the first time.
LEMMA CaseStoreInitInv == CaseStoreInit => CaseStoreInv
<1> SUFFICES ASSUME CaseStoreInit PROVE CaseStoreInv
  BY Zenon
<1>1. caseFile \in Files /\ Loadable(caseFile)
  BY CaseStoreAssumption, Zenon DEF CaseStoreInit, Files
<1>2. byID \in Files /\ openByPrint \in [Fingerprints -> CaseID \cup {None}]
  BY Zenon DEF CaseStoreInit, NoCases, NoIndex, Files
<1> QED
  BY <1>1, <1>2, Zenon DEF CaseStoreInit, CaseStoreInv, CaseStoreTypeOK, CaseFileLoadable,
    MemoryIsRebuildable, Files

\* An accepted Event is recorded with its Case.
LEMMA AcceptTyped ==
  ASSUME CaseStoreInv, NEW event \in Input, NEW c \in CaseID, Accept(event, c)
  PROVE  accepted' \subseteq [event : Event, case : CaseID]
<1>1. Normalize(event) \in Event
  BY CasefileAssumption, NormalizeFields, Zenon
<1> QED
  BY <1>1 DEF Accept, CaseStoreInv, CaseStoreTypeOK

\* Every step of the store keeps the invariant.
LEMMA CaseStoreNextInv == CaseStoreInv /\ [CaseStoreNext]_caseVars => CaseStoreInv'
<1> SUFFICES ASSUME CaseStoreInv, [CaseStoreNext]_caseVars PROVE CaseStoreInv'
  BY Zenon
<1>1. accepted \subseteq [event : Event, case : CaseID] /\ caseUp \in BOOLEAN
  BY Zenon DEF CaseStoreInv, CaseStoreTypeOK
<1>2. CASE OpenCaseStore
  BY <1>1, <1>2, SameFileInv, Zenon DEF OpenCaseStore
<1>3. CASE CaseStoreCrash
  BY <1>1, <1>3, SameFileInv, Zenon DEF CaseStoreCrash
<1>4. ASSUME NEW event \in Input, NEW now \in Times, NEW ok \in BOOLEAN,
             Update(event, now, ok)
      PROVE  CaseStoreInv'
  <2>1. PICK c \in CaseID, e \in Event, new \in StoredCase, next \in Files :
          UpdateWrites(event, now, ok, c, e, new, next)
    BY <1>4, UpdateFacts, Zenon
  <2>2. PICK index : index = IndexOf(next)
    BY Zenon
  <2>3. /\ Loadable(next) /\ caseUp /\ UNCHANGED caseUp /\ SaveCases(next, index, ok)
        /\ IF ok THEN Accept(event, c) ELSE UNCHANGED accepted
    BY <2>1, <2>2, Zenon DEF UpdateWrites, FileWritten, Acceptance, MemoryCurrent
  <2>4. accepted' \subseteq [event : Event, case : CaseID]
    BY <1>1, <2>3, AcceptTyped, Zenon
  <2> QED
    BY <2>2, <2>3, <2>4, SaveCasesInv, Zenon
<1>5. ASSUME NEW event \in Input, NEW now \in Times, Replay(event, now)
      PROVE  CaseStoreInv'
  <2>1. caseUp /\ Joins(event) /\ Accept(event, Indexed(event))
          /\ UNCHANGED <<byID, openByPrint, caseFile, caseUp>>
    BY <1>5, Zenon DEF Replay, Submitted
  <2>2. Indexed(event) \in CaseID
    BY <2>1, JoinedCase, Zenon
  <2>3. accepted' \subseteq [event : Event, case : CaseID]
    BY <2>1, <2>2, AcceptTyped, Zenon
  <2>4. byID = caseFile /\ openByPrint = IndexOf(caseFile)
    BY <2>1, Zenon DEF CaseStoreInv, MemoryIsRebuildable
  <2> QED
    BY <1>1, <2>1, <2>3, <2>4, SameFileInv, Zenon
<1>6. ASSUME NEW event \in Input, NEW c \in CaseID, NEW now \in Times,
             NEW ok \in BOOLEAN, Create(event, c, now, ok)
      PROVE  CaseStoreInv'
  <2>1. PICK e \in Event, new \in StoredCase, next \in Files :
          CreateWrites(event, c, now, ok, e, new, next)
    BY <1>6, CreateFacts, Zenon
  <2>2. PICK index : index = IndexOf(next)
    BY Zenon
  <2>4. /\ Loadable(next) /\ caseUp /\ UNCHANGED caseUp /\ SaveCases(next, index, ok)
        /\ IF ok THEN Accept(event, c) ELSE UNCHANGED accepted
    BY <2>1, <2>2, Zenon DEF CreateWrites, FileWritten, Acceptance, MemoryCurrent
  <2>5. accepted' \subseteq [event : Event, case : CaseID]
    BY <1>1, <2>4, AcceptTyped, SMTT(30)
  <2> QED
    BY <2>2, <2>4, <2>5, SaveCasesInv, Zenon
<1>7. CASE UNCHANGED caseVars
  BY <1>7 DEF caseVars, CaseStoreInv, CaseStoreTypeOK, CaseFileLoadable, Loadable,
    MemoryIsRebuildable, IndexOf,
              OpenCases
<1> QED
  BY <1>2, <1>3, <1>4, <1>5, <1>6, <1>7, Zenon DEF CaseStoreNext

\* The three invariants that hold together.
THEOREM StoreInvariant == CaseStoreSpec => []CaseStoreInv
  BY CaseStoreInitInv, CaseStoreNextInv, PTL DEF CaseStoreSpec

\* Type correctness of the Case store.
THEOREM CaseStoreTypeCorrect == CaseStoreSpec => []CaseStoreTypeOK
<1>1. CaseStoreInv => CaseStoreTypeOK
  BY Zenon DEF CaseStoreInv
<1> QED
  BY <1>1, StoreInvariant, PTL

\* Whatever sequence of Events, failed writes, clock readings and restarts: a
\* restart never refuses the file an earlier run left.
THEOREM FileAlwaysLoadable == CaseStoreSpec => []CaseFileLoadable
<1>1. CaseStoreInv => CaseFileLoadable
  BY Zenon DEF CaseStoreInv
<1> QED
  BY <1>1, StoreInvariant, PTL

\* The maps of a running process are those a restart would build.
THEOREM MemoryAlwaysRebuildable == CaseStoreSpec => []MemoryIsRebuildable
<1>1. CaseStoreInv => MemoryIsRebuildable
  BY Zenon DEF CaseStoreInv
<1> QED
  BY <1>1, StoreInvariant, PTL

-----------------------------------------------------------------------------
(* Cases only grow.                                                        *)

\* The change of one Case that AppendOnly allows.
Appended(old, new) ==
  \/ new = old
  \/ /\ Open(old.incident)
     /\ new.revision = old.revision + 1
     /\ new.createdAt = old.createdAt
     /\ new.updatedAt >= old.updatedAt
     /\ new.incident.status = old.incident.status
     /\ new.incident.fingerprint = old.incident.fingerprint
     /\ new.incident.firstOccurredAt <= old.incident.firstOccurredAt
     /\ new.incident.lastOccurredAt >= old.incident.lastOccurredAt
     /\ Len(new.incident.events) = Len(old.incident.events) + 1
     /\ SubSeq(new.incident.events, 1, Len(old.incident.events)) = old.incident.events

\* The old Events are a prefix of the new ones.
LEMMA AppendPrefix ==
  ASSUME NEW s \in Seq(Event), NEW e \in Event, NEW t, t = Append(s, e)
  PROVE  Len(t) = Len(s) + 1 /\ SubSeq(t, 1, Len(s)) = s
<1>1. /\ t \in Seq(Event) /\ Len(t) = Len(s) + 1
      /\ \A k \in 1 .. Len(s) : t[k] = s[k]
  BY AppendElements
<1>2. Len(s) \in Nat
  BY SequenceElements, Zenon
<1>3. PICK u : u = SubSeq(t, 1, Len(s))
  BY Zenon
<1>4. /\ u \in Seq(Event) /\ Len(u) = Len(s)
      /\ \A k \in 1 .. Len(s) : u[k] = t[k]
  BY <1>1, <1>2, <1>3
<1>5. u = s
  BY <1>1, <1>2, <1>4, SequenceEquality, Zenon
<1> QED
  BY <1>1, <1>3, <1>5, Zenon

\* An update appends to its Case.
LEMMA UpdateAppends ==
  ASSUME NEW c \in CaseID, NEW e \in Event, NEW now, NEW new \in StoredCase,
         caseFile[c] \in StoredCase, Open(caseFile[c].incident),
         UpdatedFields(c, e, now, new)
  PROVE  Appended(caseFile[c], new)
<1>1. PICK old \in StoredCase : old = caseFile[c]
  BY Zenon
<1>2. PICK s \in Seq(Event) : s = old.incident.events
  BY Zenon DEF StoredCase, StoredIncident
<1>3. PICK t : t = Append(s, e)
  BY Zenon
<1>4. new.incident.events = t
  BY <1>1, <1>2, <1>3, Zenon DEF UpdatedFields
<1>5. Len(t) = Len(s) + 1 /\ SubSeq(t, 1, Len(s)) = s
  BY <1>3, AppendPrefix, Zenon
<1>6. /\ Open(old.incident)
      /\ new.revision = old.revision + 1
      /\ new.createdAt = old.createdAt
      /\ new.updatedAt >= old.updatedAt
      /\ new.incident.status = old.incident.status
      /\ new.incident.fingerprint = old.incident.fingerprint
      /\ new.incident.firstOccurredAt <= old.incident.firstOccurredAt
      /\ new.incident.lastOccurredAt >= old.incident.lastOccurredAt
  BY <1>1, Zenon DEF UpdatedFields
<1>7. Appended(old, new)
  BY <1>2, <1>4, <1>5, <1>6, ZenonT(30) DEF Appended
<1> QED
  BY <1>1, <1>7, Zenon

\* A step changes no Case, or appends to one, or creates one.
LEMMA StepAppends ==
  ASSUME CaseStoreInv, [CaseStoreNext]_caseVars, NEW d \in CaseID, caseFile[d] # None
  PROVE  caseFile'[d] # None /\ Appended(caseFile[d], caseFile'[d])
<1>1. ASSUME caseFile'[d] = caseFile[d]
      PROVE  caseFile'[d] # None /\ Appended(caseFile[d], caseFile'[d])
  BY <1>1, Zenon DEF Appended
<1>2. ASSUME NEW event \in Input, NEW now \in Times, NEW ok \in BOOLEAN,
             Update(event, now, ok)
      PROVE  caseFile'[d] # None /\ Appended(caseFile[d], caseFile'[d])
  <2>1. PICK c \in CaseID, e \in Event, new \in StoredCase, next \in Files :
          UpdateWrites(event, now, ok, c, e, new, next)
    BY <1>2, UpdateFacts, Zenon
  <2>2. FileWritten(c, new, next, ok) /\ UpdatedFields(c, e, now, new)
          /\ UpdateGuard(event, now, c, e)
    BY <2>1, Zenon DEF UpdateWrites
  <2>3. caseFile[c] \in StoredCase /\ Open(caseFile[c].incident)
    BY <2>2, Zenon DEF UpdateGuard
  <2>4. Appended(caseFile[c], new)
    BY <2>2, <2>3, UpdateAppends, Zenon
  <2>5. CASE ok /\ d = c
    <3>1. caseFile'[d] = new /\ caseFile'[d] # None
      BY <2>2, <2>5, WrittenHere, Zenon
    <3> QED
      BY <2>4, <2>5, <3>1, ZenonT(30)
  <2>6. CASE ~ok \/ d # c
    <3>1. caseFile'[d] = caseFile[d]
      BY <2>2, <2>6, WrittenElsewhere, Zenon
    <3> QED
      BY <1>1, <3>1, Zenon
  <2> QED
    BY <2>5, <2>6, Zenon
<1>3. ASSUME NEW event \in Input, NEW c \in CaseID, NEW now \in Times,
             NEW ok \in BOOLEAN, Create(event, c, now, ok)
      PROVE  caseFile'[d] # None /\ Appended(caseFile[d], caseFile'[d])
  <2>1. PICK e \in Event, new \in StoredCase, next \in Files :
          CreateWrites(event, c, now, ok, e, new, next)
    BY <1>3, CreateFacts, Zenon
  <2>2. FileWritten(c, new, next, ok) /\ c # d
    BY <2>1, Zenon DEF CreateWrites
  <2>3. caseFile'[d] = caseFile[d]
    BY <2>2, WrittenElsewhere, Zenon
  <2> QED
    BY <1>1, <2>3, Zenon
<1>4. CASE OpenCaseStore \/ CaseStoreCrash \/ UNCHANGED caseVars
  <2>1. UNCHANGED caseFile
    BY <1>4, Zenon DEF OpenCaseStore, CaseStoreCrash, caseVars
  <2> QED
    BY <1>1, <2>1, Zenon
<1>5. ASSUME NEW event \in Input, NEW now \in Times, Replay(event, now)
      PROVE  caseFile'[d] # None /\ Appended(caseFile[d], caseFile'[d])
  <2>1. UNCHANGED caseFile
    BY <1>5, Zenon DEF Replay
  <2> QED
    BY <1>1, <2>1, Zenon
<1> QED
  BY <1>2, <1>3, <1>4, <1>5, Zenon DEF CaseStoreNext

\* Cases are versioned and appended to, never overwritten or lost, for every
\* set of Events and every clock.
THEOREM CasesOnlyGrow == CaseStoreSpec => AppendOnly
<1>1. CaseStoreInv /\ [CaseStoreNext]_caseVars =>
        [\A c \in CaseID :
           caseFile[c] # None =>
             /\ caseFile'[c] # None
             /\ LET old == caseFile[c]
                    new == caseFile'[c]
                IN \/ new = old
                   \/ /\ Open(old.incident)
                      /\ new.revision = old.revision + 1
                      /\ new.createdAt = old.createdAt
                      /\ new.updatedAt >= old.updatedAt
                      /\ new.incident.status = old.incident.status
                      /\ new.incident.fingerprint = old.incident.fingerprint
                      /\ new.incident.firstOccurredAt <= old.incident.firstOccurredAt
                      /\ new.incident.lastOccurredAt >= old.incident.lastOccurredAt
                      /\ Len(new.incident.events) = Len(old.incident.events) + 1
                      /\ SubSeq(new.incident.events, 1, Len(old.incident.events))
                           = old.incident.events]_caseVars
  BY StepAppends, Zenon DEF Appended
<1> QED
  BY <1>1, StoreInvariant, PTL DEF CaseStoreSpec, AppendOnly

-----------------------------------------------------------------------------
(* Accepted Events.                                                        *)

\* The file holds the Event of an acceptance in the Case it names.
Holds(file, a) ==
  /\ file[a.case] # None
  /\ \E k \in DOMAIN file[a.case].incident.events :
       sameEvent(file[a.case].incident.events[k], a.event)

\* An Event that a Case holds stays in it when another is appended.
LEMMA AppendKeeps ==
  ASSUME NEW s \in Seq(Event), NEW e \in Event
  PROVE  /\ \A k \in DOMAIN s : k \in DOMAIN Append(s, e) /\ Append(s, e)[k] = s[k]
         /\ \E k \in DOMAIN Append(s, e) : Append(s, e)[k] = e
<1>1. /\ Append(s, e) \in Seq(Event) /\ Len(Append(s, e)) = Len(s) + 1
      /\ \A k \in 1 .. Len(s) : Append(s, e)[k] = s[k]
      /\ Append(s, e)[Len(s) + 1] = e
  BY AppendElements
<1>2. DOMAIN s = 1 .. Len(s) /\ Len(s) \in Nat /\ DOMAIN Append(s, e) = 1 .. Len(s) + 1
  BY <1>1, SequenceElements, Zenon
<1>3. Len(s) + 1 \in DOMAIN Append(s, e)
  BY <1>2
<1> QED
  BY <1>1, <1>2, <1>3

\* A step leaves every Event of a Case at its place.
LEMMA StepKeepsEvents ==
  ASSUME CaseStoreInv, [CaseStoreNext]_caseVars, NEW d \in CaseID, caseFile[d] # None,
         NEW k \in DOMAIN caseFile[d].incident.events
  PROVE  /\ k \in DOMAIN caseFile'[d].incident.events
         /\ caseFile'[d].incident.events[k] = caseFile[d].incident.events[k]
<1>1. caseFile'[d] # None /\ Appended(caseFile[d], caseFile'[d])
  BY StepAppends, Zenon
<1>2. caseFile[d] \in StoredCase /\ caseFile'[d] \in StoredCase
  <2>1. CaseStoreInv'
    BY CaseStoreNextInv, Zenon
  <2> QED
    BY <1>1, <2>1, Zenon DEF CaseStoreInv, CaseStoreTypeOK
<1>3. PICK old \in StoredCase, new \in StoredCase : old = caseFile[d] /\ new = caseFile'[d]
  BY <1>2, Zenon
<1>4. PICK s \in Seq(Event), t \in Seq(Event) :
        s = old.incident.events /\ t = new.incident.events
  BY Zenon DEF StoredCase, StoredIncident
<1>5. t = s \/ (Len(t) = Len(s) + 1 /\ SubSeq(t, 1, Len(s)) = s)
  BY <1>1, <1>3, <1>4, Zenon DEF Appended
<1>6. k \in DOMAIN s
  BY <1>3, <1>4, Zenon
<1>7. k \in DOMAIN t /\ t[k] = s[k]
  BY <1>5, <1>6
<1> QED
  BY <1>3, <1>4, <1>7, Zenon

\* An acceptance the file holds is held by every later file.
LEMMA StepHolds ==
  ASSUME CaseStoreInv, [CaseStoreNext]_caseVars,
         NEW a \in [event : Event, case : CaseID], Holds(caseFile, a)
  PROVE  Holds(caseFile', a)
<1>1. PICK d \in CaseID : d = a.case
  BY Zenon
<1>2. caseFile[d] # None
  BY <1>1, Zenon DEF Holds
<1>3. PICK k \in DOMAIN caseFile[d].incident.events :
        sameEvent(caseFile[d].incident.events[k], a.event)
  BY <1>1, Zenon DEF Holds
<1>4. /\ k \in DOMAIN caseFile'[d].incident.events
      /\ caseFile'[d].incident.events[k] = caseFile[d].incident.events[k]
  BY <1>2, StepKeepsEvents, Zenon
<1>5. caseFile'[d] # None
  BY <1>2, StepAppends, Zenon
<1> QED
  BY <1>1, <1>3, <1>4, <1>5, Zenon DEF Holds

\* The Event prepared for the store is the same as the client's.
LEMMA PreparedIsSame ==
  ASSUME NEW event \in Input, NEW now \in Times
  PROVE  sameEvent(Prepared(event, now), Normalize(event))
<1>1. PICK e : e = Prepared(event, now)
  BY Zenon
<1>2. sameEvent(e, Normalize(event))
  BY <1>1, GivenEvent, Zenon
<1> QED
  BY <1>1, <1>2, Zenon

\* The acceptance a step adds is held by the file the step leaves.
LEMMA NewlyAcceptedHeld ==
  ASSUME CaseStoreInv, [CaseStoreNext]_caseVars, NEW a \in accepted' \ accepted
  PROVE  Holds(caseFile', a)
<1>1. ASSUME NEW event \in Input, NEW now \in Times, NEW ok \in BOOLEAN,
             Update(event, now, ok)
      PROVE  Holds(caseFile', a)
  <2>1. PICK c \in CaseID, e \in Event, new \in StoredCase, next \in Files :
          UpdateWrites(event, now, ok, c, e, new, next)
    BY <1>1, UpdateFacts, Zenon
  <2>2. /\ FileWritten(c, new, next, ok) /\ UpdatedFields(c, e, now, new)
        /\ UpdateGuard(event, now, c, e) /\ Acceptance(event, c, ok)
    BY <2>1, ZenonT(30) DEF UpdateWrites
  <2>3. ok /\ a.event = Normalize(event) /\ a.case = c
    BY <2>2, SMTT(30) DEF Acceptance, Accept
  <2>4. caseFile'[c] = new /\ caseFile'[c] # None
    BY <2>2, <2>3, WrittenHere, Zenon
  <2>5. caseFile[c] \in StoredCase /\ e = Prepared(event, now)
    BY <2>2, Zenon DEF UpdateGuard
  <2>6. PICK s \in Seq(Event) : s = caseFile[c].incident.events
    BY <2>5, SMTT(30) DEF StoredCase, StoredIncident
  <2>7. new.incident.events = Append(s, e)
    BY <2>2, <2>6, Zenon DEF UpdatedFields
  <2>8. PICK k \in DOMAIN Append(s, e) : Append(s, e)[k] = e
    BY AppendKeeps, Zenon
  <2>9. sameEvent(e, a.event)
    BY <2>3, <2>5, PreparedIsSame, Zenon
  <2> QED
    BY <2>3, <2>4, <2>7, <2>8, <2>9, Zenon DEF Holds
<1>2. ASSUME NEW event \in Input, NEW c \in CaseID, NEW now \in Times,
             NEW ok \in BOOLEAN, Create(event, c, now, ok)
      PROVE  Holds(caseFile', a)
  <2>1. PICK e \in Event, new \in StoredCase, next \in Files :
          CreateWrites(event, c, now, ok, e, new, next)
    BY <1>2, CreateFacts, Zenon
  <2>2. /\ FileWritten(c, new, next, ok) /\ Acceptance(event, c, ok)
        /\ new.incident.events = <<e>> /\ e = Prepared(event, now)
    BY <2>1, Zenon DEF CreateWrites
  <2>3. ok /\ a.event = Normalize(event) /\ a.case = c
    BY <2>2, SMTT(30) DEF Acceptance, Accept
  <2>4. caseFile'[c] = new /\ caseFile'[c] # None
    BY <2>2, <2>3, WrittenHere, Zenon
  <2>5. 1 \in DOMAIN new.incident.events /\ new.incident.events[1] = e
    BY <2>2
  <2>6. sameEvent(e, a.event)
    BY <2>2, <2>3, PreparedIsSame, Zenon
  <2> QED
    BY <2>3, <2>4, <2>5, <2>6, Zenon DEF Holds
<1>3. ASSUME NEW event \in Input, NEW now \in Times, Replay(event, now)
      PROVE  Holds(caseFile', a)
  <2>1. PICK c : c = Indexed(event)
    BY Zenon
  <2>2. PICK e : e = Prepared(event, now)
    BY Zenon
  <2>3. caseUp /\ Joins(event) /\ Replays(byID[c].incident, e) /\ Accept(event, c)
          /\ UNCHANGED caseFile
    BY <1>3, <2>1, <2>2, Zenon DEF Replay, Submitted
  <2>4. byID = caseFile
    BY <2>3, Zenon DEF CaseStoreInv, MemoryIsRebuildable
  <2>5. c \in CaseID /\ caseFile[c] # None /\ caseFile[c] \in StoredCase
    BY <2>1, <2>3, JoinedCase, Zenon
  <2>6. a.event = Normalize(event) /\ a.case = c
    BY <2>3 DEF Accept
  <2>7. PICK i \in StoredIncident : i = caseFile[c].incident
    BY <2>5, Zenon DEF StoredCase
  <2>8. Normalize(e) = e /\ \A x : sameEvent(x, e) <=> sameEvent(x, Normalize(event))
    BY <2>2, GivenEvent, Zenon
  <2>9. Matches(i, e) # {} /\ sameEvent(i.events[FirstMatch(i, e)], e)
    BY <2>3, <2>4, <2>7, <2>8, Zenon DEF Replays
  <2>10. FirstMatch(i, e) \in DOMAIN i.events
    BY <2>9, FirstMatchExists, Zenon
  <2>11. sameEvent(i.events[FirstMatch(i, e)], a.event)
    BY <2>6, <2>8, <2>9, Zenon
  <2> QED
    BY <2>3, <2>5, <2>6, <2>7, <2>10, <2>11, Zenon DEF Holds
<1>4. CASE OpenCaseStore \/ CaseStoreCrash \/ UNCHANGED caseVars
  BY <1>4, Zenon DEF OpenCaseStore, CaseStoreCrash, caseVars
<1> QED
  BY <1>1, <1>2, <1>3, <1>4, Zenon DEF CaseStoreNext

\* No step loses an accepted Event.
LEMMA StepKeepsAccepted ==
  ASSUME CaseStoreInv, AcceptedEventsKept, [CaseStoreNext]_caseVars
  PROVE  AcceptedEventsKept'
<1> SUFFICES ASSUME NEW a \in accepted' PROVE Holds(caseFile', a)
  BY Zenon DEF AcceptedEventsKept, Holds
<1>1. CASE a \in accepted
  <2>1. a \in [event : Event, case : CaseID]
    BY <1>1, Zenon DEF CaseStoreInv, CaseStoreTypeOK
  <2>2. Holds(caseFile, a)
    BY <1>1, Zenon DEF AcceptedEventsKept, Holds
  <2> QED
    BY <2>1, <2>2, StepHolds, Zenon
<1> QED
  BY <1>1, NewlyAcceptedHeld, Zenon

\* Nothing has been accepted at first.
LEMMA InitAccepted == CaseStoreInit => AcceptedEventsKept
  BY Zenon DEF CaseStoreInit, AcceptedEventsKept

\* An Event that RecordEvent accepted stays in its Case for ever, across failed
\* writes, crashes and restarts.
THEOREM EventsKept == CaseStoreSpec => []AcceptedEventsKept
<1>1. CaseStoreInv /\ AcceptedEventsKept /\ [CaseStoreNext]_caseVars => AcceptedEventsKept'
  BY StepKeepsAccepted, Zenon
<1> QED
  BY <1>1, InitAccepted, StoreInvariant, PTL DEF CaseStoreSpec

-----------------------------------------------------------------------------
(* Revisions and Events.                                                   *)

\* A Case has no more Events than revisions.
EventsWithinRevision ==
  \A c \in CaseID :
    caseFile[c] # None => Len(caseFile[c].incident.events) <= caseFile[c].revision

\* A Case that a step adds is at its first revision and has one Event.
LEMMA NewCase ==
  ASSUME CaseStoreInv, [CaseStoreNext]_caseVars, NEW d \in CaseID,
         caseFile[d] = None, caseFile'[d] # None
  PROVE  caseFile'[d].revision = 1 /\ Len(caseFile'[d].incident.events) = 1
<1>1. caseFile'[d] # caseFile[d]
  BY Zenon
<1>2. ASSUME NEW event \in Input, NEW now \in Times, NEW ok \in BOOLEAN,
             Update(event, now, ok)
      PROVE  FALSE
  <2>1. PICK c \in CaseID, e \in Event, new \in StoredCase, next \in Files :
          UpdateWrites(event, now, ok, c, e, new, next)
    BY <1>2, UpdateFacts, Zenon
  <2>2. FileWritten(c, new, next, ok) /\ caseFile[c] # None
    BY <2>1, Zenon DEF UpdateWrites, UpdateGuard
  <2>3. caseFile'[d] = caseFile[d]
    BY <2>2, WrittenElsewhere, Zenon
  <2> QED
    BY <1>1, <2>3, Zenon
<1>3. ASSUME NEW event \in Input, NEW c \in CaseID, NEW now \in Times,
             NEW ok \in BOOLEAN, Create(event, c, now, ok)
      PROVE  caseFile'[d].revision = 1 /\ Len(caseFile'[d].incident.events) = 1
  <2>1. PICK e \in Event, new \in StoredCase, next \in Files :
          CreateWrites(event, c, now, ok, e, new, next)
    BY <1>3, CreateFacts, Zenon
  <2>2. /\ FileWritten(c, new, next, ok) /\ new = Created(e, now)
        /\ new.incident.events = <<e>>
    BY <2>1, Zenon DEF CreateWrites
  <2>3. ok /\ d = c
    BY <1>1, <2>2, WrittenElsewhere, Zenon
  <2>4. caseFile'[d] = new
    BY <2>2, <2>3, WrittenHere, Zenon
  <2>5. new.revision = 1
    BY <2>2, Zenon DEF Created
  <2>6. Len(new.incident.events) = 1
    BY <2>2, Zenon
  <2> QED
    BY <2>4, <2>5, <2>6, Zenon
<1>4. CASE OpenCaseStore \/ CaseStoreCrash \/ UNCHANGED caseVars
  BY <1>1, <1>4, Zenon DEF OpenCaseStore, CaseStoreCrash, caseVars
<1>5. ASSUME NEW event \in Input, NEW now \in Times, Replay(event, now)
      PROVE  FALSE
  BY <1>1, <1>5, Zenon DEF Replay
<1> QED
  BY <1>2, <1>3, <1>4, <1>5, Zenon DEF CaseStoreNext

\* A change adds one Event and one revision.
LEMMA StepWithinRevision ==
  ASSUME CaseStoreInv, EventsWithinRevision, [CaseStoreNext]_caseVars
  PROVE  EventsWithinRevision'
<1> SUFFICES ASSUME NEW d \in CaseID, caseFile'[d] # None
             PROVE  Len(caseFile'[d].incident.events) <= caseFile'[d].revision
  BY Zenon DEF EventsWithinRevision
<1>1. CASE caseFile[d] = None
  <2>1. PICK r, n : r = caseFile'[d].revision /\ n = Len(caseFile'[d].incident.events)
    BY Zenon
  <2>2. r = 1 /\ n = 1
    BY <1>1, <2>1, NewCase, Zenon
  <2>3. n <= r
    BY <2>2
  <2> QED
    BY <2>1, <2>3, Zenon
<1>2. CASE caseFile[d] # None
  <2>1. Appended(caseFile[d], caseFile'[d])
    BY <1>2, StepAppends, Zenon
  <2>2. PICK old \in StoredCase : old = caseFile[d]
    BY <1>2, Zenon DEF CaseStoreInv, CaseStoreTypeOK
  <2>3. PICK new : new = caseFile'[d]
    BY Zenon
  <2>4. PICK s \in Seq(Event) : s = old.incident.events
    BY Zenon DEF StoredCase, StoredIncident
  <2>5. Len(s) \in Nat /\ old.revision \in Nat /\ Len(s) <= old.revision
    BY <1>2, <2>2, <2>4 DEF EventsWithinRevision, StoredCase
  <2>6. \/ new = old
        \/ /\ new.revision = old.revision + 1
           /\ Len(new.incident.events) = Len(s) + 1
    BY <2>1, <2>2, <2>3, <2>4, Zenon DEF Appended
  <2>7. Len(new.incident.events) <= new.revision
    BY <2>4, <2>5, <2>6
  <2> QED
    BY <2>3, <2>7, Zenon
<1> QED
  BY <1>1, <1>2, Zenon

\* The loader does not compare the two, but from a file in which no Case has
\* more Events than revisions none is ever written: the revision returned for
\* an Event always covers every Event of its Case.
THEOREM EventsStayWithinRevision ==
  CaseStoreSpec /\ EventsWithinRevision => []EventsWithinRevision
<1>1. CaseStoreInv /\ EventsWithinRevision /\ [CaseStoreNext]_caseVars => EventsWithinRevision'
  BY StepWithinRevision, Zenon
<1> QED
  BY <1>1, StoreInvariant, PTL DEF CaseStoreSpec

-----------------------------------------------------------------------------
(* Event IDs.                                                              *)

Clash(a, b) == a.id # Empty /\ a.id = b.id /\ a.source = b.source

Unique(events) == \A j, k \in DOMAIN events : Clash(events[j], events[k]) => j = k

\* An Event that matches none of the Case's Events can be appended.
LEMMA AppendUnique ==
  ASSUME NEW i \in StoredIncident, NEW e \in Event, Unique(i.events), Matches(i, e) = {},
         NEW t, t = Append(i.events, e)
  PROVE  Unique(t)
<1>1. PICK s \in Seq(Event) : s = i.events
  BY Zenon DEF StoredIncident
<1>2. /\ t \in Seq(Event) /\ Len(t) = Len(s) + 1
      /\ \A k \in 1 .. Len(s) : t[k] = s[k]
      /\ t[Len(s) + 1] = e
  BY <1>1, AppendElements
<1>3. DOMAIN s = 1 .. Len(s) /\ Len(s) \in Nat /\ DOMAIN t = 1 .. Len(s) + 1
  BY <1>2, SequenceElements, Zenon
<1>4. \A k \in DOMAIN s : ~Clash(s[k], e) /\ ~Clash(e, s[k])
  BY <1>1, Zenon DEF Matches, Clash
<1>5. \A k \in DOMAIN t : (k \in DOMAIN s /\ t[k] = s[k]) \/ (k = Len(s) + 1 /\ t[k] = e)
  BY <1>2, <1>3
<1> SUFFICES ASSUME NEW j \in DOMAIN t, NEW k \in DOMAIN t, Clash(t[j], t[k]) PROVE j = k
  BY Zenon DEF Unique
<1>6. CASE j \in DOMAIN s /\ k \in DOMAIN s /\ t[j] = s[j] /\ t[k] = s[k]
  BY <1>1, <1>6, Zenon DEF Unique
<1>7. CASE j \in DOMAIN s /\ t[j] = s[j] /\ t[k] = e
  BY <1>4, <1>7, Zenon
<1>8. CASE k \in DOMAIN s /\ t[k] = s[k] /\ t[j] = e
  BY <1>4, <1>8, Zenon
<1> QED
  BY <1>5, <1>6, <1>7, <1>8

\* The loader does not check this of a file, but a file that has it keeps it:
\* no sequence of Events, restarts and failed writes makes a Case hold two
\* Events with the same source and ID.
THEOREM IDsStayUnique == CaseStoreSpec /\ EventIDsUnique => []EventIDsUnique
<1>1. CaseStoreInv /\ EventIDsUnique /\ [CaseStoreNext]_caseVars => EventIDsUnique'
  <2> SUFFICES ASSUME CaseStoreInv, EventIDsUnique, [CaseStoreNext]_caseVars, NEW d \in CaseID,
                      caseFile'[d] # None
               PROVE  Unique(caseFile'[d].incident.events)
    BY Zenon DEF EventIDsUnique, Unique, Clash
  <2>1. \A c \in CaseID : caseFile[c] # None => Unique(caseFile[c].incident.events)
    BY Zenon DEF EventIDsUnique, Unique, Clash
  <2>2. ASSUME caseFile'[d] = caseFile[d] PROVE Unique(caseFile'[d].incident.events)
    BY <2>1, <2>2, Zenon
  <2>3. ASSUME NEW event \in Input, NEW now \in Times, NEW ok \in BOOLEAN,
               Update(event, now, ok)
        PROVE  Unique(caseFile'[d].incident.events)
    <3>1. PICK c \in CaseID, e \in Event, new \in StoredCase, next \in Files :
            UpdateWrites(event, now, ok, c, e, new, next)
      BY <2>3, UpdateFacts, Zenon
    <3>2. /\ FileWritten(c, new, next, ok) /\ UpdatedFields(c, e, now, new)
          /\ UpdateGuard(event, now, c, e)
      BY <3>1, Zenon DEF UpdateWrites
    <3>3. CASE ~ok \/ d # c
      <4>1. caseFile'[d] = caseFile[d]
        BY <3>2, <3>3, WrittenElsewhere, Zenon
      <4> QED
        BY <2>2, <4>1, SMTT(30)
    <3>4. CASE ok /\ d = c
      <4>1. caseFile[c] \in StoredCase /\ caseFile[c] # None /\ e = Prepared(event, now)
        BY <3>2, Zenon DEF UpdateGuard
      <4>2. PICK i \in StoredIncident : i = caseFile[c].incident
        BY <4>1, Zenon DEF StoredCase
      <4>3. ApplyError(i, e) = "none" /\ ~Replays(i, e)
        BY <3>2, <4>2, ZenonT(30) DEF UpdateGuard
      <4>4. Normalize(e) = e
        BY <4>1, GivenEvent, Zenon
      <4>5. Matches(i, e) = {}
        <5>1. Matches(i, e) # {} => sameEvent(i.events[FirstMatch(i, e)], e)
          BY <4>3, <4>4, Zenon DEF ApplyError
        <5>2. ~(Matches(i, e) # {} /\ sameEvent(i.events[FirstMatch(i, e)], e))
          BY <4>3, <4>4, Zenon DEF Replays
        <5> QED
          BY <5>1, <5>2, ZenonT(30)
      <4>6. Unique(i.events)
        BY <2>1, <4>1, <4>2, Zenon
      <4>7. Unique(Append(i.events, e))
        BY <4>5, <4>6, AppendUnique, Zenon
      <4>8. caseFile'[d] = new
        BY <3>2, <3>4, WrittenHere, Zenon
      <4>9. new.incident.events = Append(i.events, e)
        BY <3>2, <4>2, Zenon DEF UpdatedFields
      <4> QED
        BY <4>7, <4>8, <4>9, Zenon
    <3> QED
      BY <3>3, <3>4, Zenon
  <2>4. ASSUME NEW event \in Input, NEW c \in CaseID, NEW now \in Times,
               NEW ok \in BOOLEAN, Create(event, c, now, ok)
        PROVE  Unique(caseFile'[d].incident.events)
    <3>1. PICK e \in Event, new \in StoredCase, next \in Files :
            CreateWrites(event, c, now, ok, e, new, next)
      BY <2>4, CreateFacts, Zenon
    <3>2. FileWritten(c, new, next, ok) /\ new.incident.events = <<e>>
      BY <3>1, Zenon DEF CreateWrites
    <3>3. CASE ~ok \/ d # c
      <4>1. caseFile'[d] = caseFile[d]
        BY <3>2, <3>3, WrittenElsewhere, Zenon
      <4> QED
        BY <2>2, <4>1, Zenon
    <3>4. CASE ok /\ d = c
      <4>1. caseFile'[d] = new
        BY <3>2, <3>4, WrittenHere, Zenon
      <4>2. Unique(<<e>>)
        BY DEF Unique
      <4> QED
        BY <3>2, <4>1, <4>2, ZenonT(30)
    <3> QED
      BY <3>3, <3>4, Zenon
  <2>5. CASE OpenCaseStore \/ CaseStoreCrash \/ UNCHANGED caseVars
    <3>1. UNCHANGED caseFile
      BY <2>5, Zenon DEF OpenCaseStore, CaseStoreCrash, caseVars
    <3> QED
      BY <2>2, <3>1, Zenon
  <2>6. ASSUME NEW event \in Input, NEW now \in Times, Replay(event, now)
        PROVE  Unique(caseFile'[d].incident.events)
    <3>1. UNCHANGED caseFile
      BY <2>6, Zenon DEF Replay
    <3> QED
      BY <2>2, <3>1, Zenon
  <2> QED
    BY <2>3, <2>4, <2>5, <2>6, Zenon DEF CaseStoreNext
<1> QED
  BY <1>1, StoreInvariant, PTL DEF CaseStoreSpec

-----------------------------------------------------------------------------
(* The operators both stores are built from are the same in the instance.  *)

\* Normalisation and what follows from it.
LEMMA SameNormalize ==
  /\ \A e : Local!Normalize(e) = Normalize(e)
  /\ \A e : Local!Validate(e) <=> Validate(e)
  /\ \A i : Local!Open(i) <=> Open(i)
  /\ Local!Empty = Empty
  /\ Local!Fingerprints = Fingerprints
<1>1. ASSUME NEW e PROVE Local!Normalize(e) = Normalize(e)
  BY DEF Local!Normalize, Normalize, Local!TrimSpace, TrimSpace, Local!ToLower, ToLower,
         Local!ScopeField, ScopeField
<1>2. ASSUME NEW e PROVE Local!Validate(e) <=> Validate(e)
  BY DEF Local!Validate, Validate, Local!TrimSpace, TrimSpace, Local!ScopeField, ScopeField,
         Local!Empty, Empty
<1>3. ASSUME NEW i PROVE Local!Open(i) <=> Open(i)
  BY DEF Local!Open, Open
<1>4. Local!Empty = Empty
  BY DEF Local!Empty, Empty
<1>5. ASSUME NEW e PROVE Local!Fingerprint(e) = Fingerprint(e)
  BY <1>1, <1>4 DEF Local!Fingerprint, Fingerprint
<1>6. Local!Fingerprints = Fingerprints
  BY <1>5 DEF Local!Fingerprints, Fingerprints
<1> QED
  BY <1>1, <1>2, <1>3, <1>4, <1>6

\* The fingerprint.
LEMMA SameFingerprint ==
  ASSUME NEW e
  PROVE  Local!Fingerprint(e) = Fingerprint(e)
  BY SameNormalize DEF Local!Fingerprint, Fingerprint

\* The Event the store is given.
LEMMA SamePrepared ==
  ASSUME NEW e, NEW now
  PROVE  Local!Prepared(e, now) = Prepared(e, now)
  BY SameNormalize DEF Local!Prepared, Prepared

\* The Events Apply compares with.
LEMMA SameMatches ==
  ASSUME NEW i, NEW e
  PROVE  /\ Local!Matches(i, e) = Matches(i, e)
         /\ Local!FirstMatch(i, e) = FirstMatch(i, e)
<1>1. Local!Matches(i, e) = Matches(i, e)
  BY SameNormalize DEF Local!Matches, Matches
<1> QED
  BY <1>1 DEF Local!FirstMatch, FirstMatch, Local!Matches, Matches, Local!Empty, Empty

\* The comparison that recognises a replay.
LEMMA SameEventAgain ==
  ASSUME NEW a, NEW b
  PROVE  Local!sameEvent(a, b) <=> sameEvent(a, b)
  BY SameNormalize DEF Local!sameEvent, sameEvent

\* The errors and the replays of Apply.
LEMMA SameApplyError ==
  ASSUME NEW i, NEW e
  PROVE  /\ Local!ApplyError(i, e) = ApplyError(i, e)
         /\ Local!Replays(i, e) <=> Replays(i, e)
<1>1. \A a : Local!SameScope(a, i) <=> SameScope(a, i)
  BY DEF Local!SameScope, SameScope
<1> QED
  BY <1>1, SameNormalize, SameFingerprint, SameMatches, SameEventAgain
     DEF Local!ApplyError, ApplyError, Local!Replays, Replays

\* The Case an update writes.
LEMMA SameUpdated ==
  ASSUME NEW case, NEW e, NEW now
  PROVE  Local!Updated(case, e, now) = Updated(case, e, now)
  BY SameNormalize, Zenon DEF Local!Updated, Updated, Local!Applied, Applied, Local!Empty, Empty

\* The Case a creation writes.
LEMMA SameCreated ==
  ASSUME NEW e, NEW now
  PROVE  Local!Created(e, now) = Created(e, now)
  BY SameNormalize, SameFingerprint DEF Local!Created, Created, Local!New, New

-----------------------------------------------------------------------------
(* Steps.                                                                  *)

abstract == <<caseFile, IndexOf(caseFile)>>

\* While memory is the file's, both stores find the same Case for an Event.
LEMMA SameIndexed ==
  ASSUME openByPrint = IndexOf(caseFile), byID = caseFile, NEW event
  PROVE  /\ Local!Indexed(event) = Indexed(event)
         /\ Local!Joins(event) <=> Joins(event)
<1>1. Local!Indexed(event) = Indexed(event)
  BY SameFingerprint DEF Local!Indexed, Indexed
<1> QED
  BY <1>1, SameNormalize DEF Local!Joins, Joins

\* A step that leaves the file alone is a stuttering step.
LEMMA SameFileStutters ==
  ASSUME UNCHANGED caseFile
  PROVE  UNCHANGED abstract
  BY DEF abstract, IndexOf, OpenCases

\* The primed index is the index of the new file.
LEMMA IndexPrimed ==
  ASSUME NEW next, caseFile' = next
  PROVE  IndexOf(caseFile)' = IndexOf(next)
  BY DEF IndexOf, OpenCases

\* A write that succeeds is the write of the abstract maps.
LEMMA WriteSucceeds ==
  ASSUME NEW c, NEW new, NEW next, FileWritten(c, new, next, TRUE)
  PROVE  /\ caseFile' = next /\ next = [caseFile EXCEPT ![c] = new]
         /\ IndexOf(caseFile)' = IndexOf(next)
<1>1. caseFile' = next /\ next = [caseFile EXCEPT ![c] = new]
  BY DEF FileWritten, SaveCases
<1>2. IndexOf(caseFile)' = IndexOf(next)
  BY <1>1, IndexPrimed, Zenon
<1> QED
  BY <1>1, <1>2, Zenon

\* A write that fails changes nothing.
LEMMA WriteFails ==
  ASSUME NEW c, NEW new, NEW next, FileWritten(c, new, next, FALSE)
  PROVE  UNCHANGED abstract
<1>1. UNCHANGED caseFile
  BY DEF FileWritten, SaveCases
<1> QED
  BY <1>1, SameFileStutters

\* A written update is an update of the abstract store.
LEMMA UpdateRefines ==
  ASSUME CaseStoreInv, NEW event \in Input, NEW now \in Times, NEW ok \in BOOLEAN,
         Update(event, now, ok)
  PROVE  Local!Update(event, now) \/ UNCHANGED abstract
<1>1. PICK c \in CaseID, e \in Event, new \in StoredCase, next \in Files :
        UpdateWrites(event, now, ok, c, e, new, next)
  BY UpdateFacts
<1>2. /\ FileWritten(c, new, next, ok) /\ UpdatedFields(c, e, now, new)
      /\ UpdateGuard(event, now, c, e) /\ MemoryCurrent
      /\ IndexOf(next) = IndexOf(caseFile)
  BY <1>1, Zenon DEF UpdateWrites
<1>3. CASE ~ok
  <2>1. FileWritten(c, new, next, FALSE)
    BY <1>2, <1>3, Zenon
  <2> QED
    BY <2>1, WriteFails, Zenon
<1>4. CASE ok
  <2>0. FileWritten(c, new, next, TRUE)
    BY <1>2, <1>4, Zenon
  <2>1. /\ caseFile' = next /\ next = [caseFile EXCEPT ![c] = new]
        /\ IndexOf(caseFile)' = IndexOf(next)
    BY <2>0, WriteSucceeds, Zenon
  <2>2. byID = caseFile /\ openByPrint = IndexOf(caseFile)
    BY <1>2 DEF MemoryCurrent
  <2>3. /\ c = Indexed(event) /\ e = Prepared(event, now) /\ Joins(event)
        /\ Validate(Normalize(event))
        /\ ApplyError(caseFile[c].incident, e) = "none"
        /\ ~Replays(caseFile[c].incident, e)
    BY <1>2, Zenon DEF UpdateGuard
  <2>4. Local!Indexed(event) = c /\ Local!Joins(event)
    BY <2>2, <2>3, SameIndexed
  <2>5. Local!Prepared(event, now) = e
    BY <2>3, SamePrepared
  <2>6. Local!Validate(Local!Normalize(event))
    BY <2>3, SameNormalize
  <2>7. /\ Local!ApplyError(caseFile[c].incident, e) = "none"
        /\ ~Local!Replays(caseFile[c].incident, e)
    BY <2>3, SameApplyError
  <2>8. new = Local!Updated(caseFile[c], e, now)
    BY <1>2, SameUpdated, Zenon DEF UpdatedFields
  <2>9. caseFile' = [caseFile EXCEPT ![c] = Local!Updated(caseFile[c], e, now)]
    BY <2>1, <2>8
  <2>10. IndexOf(caseFile)' = IndexOf(caseFile)
    BY <1>2, <2>1
  <2> QED
    BY <2>4, <2>5, <2>6, <2>7, <2>9, <2>10 DEF Local!Update
<1> QED
  BY <1>3, <1>4

\* A written creation is a creation of the abstract store.
LEMMA CreateRefines ==
  ASSUME CaseStoreInv, NEW event \in Input, NEW c \in CaseID, NEW now \in Times,
         NEW ok \in BOOLEAN, Create(event, c, now, ok)
  PROVE  Local!Create(event, c, now) \/ UNCHANGED abstract
<1>1. PICK e \in Event, new \in StoredCase, next \in Files :
        CreateWrites(event, c, now, ok, e, new, next)
  BY CreateFacts
<1>2. /\ e = Prepared(event, now) /\ new = Created(e, now)
      /\ caseFile[c] = None /\ Validate(Normalize(event)) /\ ~Joins(event)
      /\ FileWritten(c, new, next, ok) /\ MemoryCurrent
      /\ IndexOf(next) = [IndexOf(caseFile) EXCEPT ![Fingerprint(e)] = c]
  BY <1>1, Zenon DEF CreateWrites
<1>3. CASE ~ok
  <2>1. FileWritten(c, new, next, FALSE)
    BY <1>2, <1>3, Zenon
  <2> QED
    BY <2>1, WriteFails, Zenon
<1>4. CASE ok
  <2>0. FileWritten(c, new, next, TRUE)
    BY <1>2, <1>4, Zenon
  <2>1. /\ caseFile' = next /\ next = [caseFile EXCEPT ![c] = new]
        /\ IndexOf(caseFile)' = IndexOf(next)
    BY <2>0, WriteSucceeds, Zenon
  <2>2. byID = caseFile /\ openByPrint = IndexOf(caseFile)
    BY <1>2 DEF MemoryCurrent
  <2>3. ~Local!Joins(event)
    BY <1>2, <2>2, SameIndexed
  <2>4. Local!Prepared(event, now) = e
    BY <1>2, SamePrepared
  <2>5. Local!Validate(Local!Normalize(event))
    BY <1>2, SameNormalize
  <2>6. new = Local!Created(e, now)
    BY <1>2, SameCreated
  <2>7. caseFile' = [caseFile EXCEPT ![c] = Local!Created(e, now)]
    BY <2>1, <2>6
  <2>8. IndexOf(caseFile)' = [IndexOf(caseFile) EXCEPT ![Local!Fingerprint(e)] = c]
    BY <1>2, <2>1, SameFingerprint, Zenon
  <2> QED
    BY <1>2, <2>3, <2>4, <2>5, <2>7, <2>8 DEF Local!Create
<1> QED
  BY <1>3, <1>4

\* Failed writes, crashes and restarts are invisible in the Cases and the index
\* of the file: the durable store does what the Store interface promises.
THEOREM DurableImplementsLocal == CaseStoreSpec => ImplementsMemoryStore
<1>1. CaseStoreInv /\ [CaseStoreNext]_caseVars => [Local!Next]_<<caseFile, IndexOf(caseFile)>>
  <2> SUFFICES ASSUME CaseStoreInv, [CaseStoreNext]_caseVars
               PROVE  Local!Next \/ UNCHANGED abstract
    BY DEF abstract
  <2>1. ASSUME NEW event \in Input, NEW now \in Times, NEW ok \in BOOLEAN,
               Update(event, now, ok)
        PROVE  Local!Next \/ UNCHANGED abstract
    BY <2>1, UpdateRefines DEF Local!Next
  <2>2. ASSUME NEW event \in Input, NEW c \in CaseID, NEW now \in Times,
               NEW ok \in BOOLEAN, Create(event, c, now, ok)
        PROVE  Local!Next \/ UNCHANGED abstract
    BY <2>2, CreateRefines DEF Local!Next
  <2>3. ASSUME NEW event \in Input, NEW now \in Times, Replay(event, now)
        PROVE  UNCHANGED abstract
    BY <2>3, SameFileStutters DEF Replay
  <2>4. CASE OpenCaseStore \/ CaseStoreCrash \/ UNCHANGED caseVars
    BY <2>4, SameFileStutters DEF OpenCaseStore, CaseStoreCrash, caseVars
  <2> QED
    BY <2>1, <2>2, <2>3, <2>4 DEF CaseStoreNext
<1> QED
  BY <1>1, StoreInvariant, PTL DEF CaseStoreSpec, ImplementsMemoryStore, Local!Steps

=============================================================================

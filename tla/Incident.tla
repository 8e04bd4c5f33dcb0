------------------------------ MODULE Incident ------------------------------
(***************************************************************************)
(* The Incident an open Case groups Events into                            *)
(* (internal/incident/incident.go).  Apply is split into the error it      *)
(* returns, whether it recognises a replay, and the Incident it leaves.    *)
(***************************************************************************)
EXTENDS Trigger, Sequences

Status == {"pending_investigation", "investigating", "resolved", "closed"}

Open(i) == i.status # "resolved" /\ i.status # "closed"

New(event) ==
  LET e == Normalize(event)
  IN [fingerprint |-> Fingerprint(e), type |-> e.type,
      status |-> "pending_investigation", environment |-> e.environment,
      scope |-> e.scope, severity |-> e.severity,
      firstOccurredAt |-> e.occurredAt, lastOccurredAt |-> e.occurredAt,
      events |-> <<e>>]

\* ObservedAt is not compared: a replay is observed later than the original.
sameEvent(left, right) ==
  LET l == Normalize(left)
      r == Normalize(right)
  IN /\ l.id = r.id /\ l.type = r.type /\ l.source = r.source
     /\ l.occurredAt = r.occurredAt /\ l.environment = r.environment
     /\ l.scope = r.scope /\ l.severity = r.severity
     /\ l.dedupeKey = r.dedupeKey /\ l.attributes = r.attributes

SameScope(e, i) ==
  e.type = i.type /\ e.environment = i.environment /\ e.scope = i.scope

Matches_LastOnly(i, e) ==
  {k \in {Len(i.events)} : /\ e.id # Empty
                           /\ i.events[k].source = e.source
                           /\ i.events[k].id = e.id}

\* The earlier Events with the same source and (non-empty) ID.
Matches(i, e) ==
  {k \in DOMAIN i.events : /\ e.id # Empty
                           /\ i.events[k].source = e.source
                           /\ i.events[k].id = e.id}

FirstMatch(i, e) ==
  CHOOSE k \in Matches(i, e) : \A j \in Matches(i, e) : k <= j

\* The error Apply returns, checked in this order; "none" for nil.
ApplyError(i, event) ==
  LET e == Normalize(event)
  IN IF ~Validate(e) THEN "invalid event"
     ELSE IF Fingerprint(e) # i.fingerprint THEN "fingerprint mismatch"
     ELSE IF ~SameScope(e, i) THEN "scope conflict"
     ELSE IF Matches(i, e) # {} /\ ~sameEvent(i.events[FirstMatch(i, e)], e)
            THEN "event ID conflict"
            ELSE "none"

\* Apply recognises a replay and changes nothing.
Replays(i, event) ==
  LET e == Normalize(event)
  IN Matches(i, e) # {} /\ sameEvent(i.events[FirstMatch(i, e)], e)

Applied_LastArrival(i, event) ==
  LET e == Normalize(event)
  IN [i EXCEPT
        !.firstOccurredAt = IF e.occurredAt < @ THEN e.occurredAt ELSE @,
        !.lastOccurredAt = e.occurredAt,
        !.events = Append(@, e)]

Applied_Overwrites(i, event) ==
  [i EXCEPT !.events = <<Normalize(event)>>]

\* The Incident after Apply has added the event.
Applied(i, event) ==
  LET e == Normalize(event)
  IN [i EXCEPT
        !.firstOccurredAt = IF e.occurredAt < @ THEN e.occurredAt ELSE @,
        !.lastOccurredAt = IF e.occurredAt > @ THEN e.occurredAt ELSE @,
        !.severity = IF e.severity # Empty THEN e.severity ELSE @,
        !.events = Append(@, e)]

=============================================================================

------------------------------ MODULE Casefile ------------------------------
(***************************************************************************)
(* Cases and the Case service (internal/casefile/case.go, service.go): the *)
(* values the two Case stores create and update.  A Case's ID is the key   *)
(* it is stored under.                                                     *)
(***************************************************************************)
EXTENDS Incident, Storage

CONSTANTS
  Input,        \* Events a client may post, as decoded from JSON
  MaxEvents     \* bound on the Events of one Case

\* Case IDs are natural numbers, for the order of the strings.
ASSUME CasefileAssumption ==
  /\ CaseID \subseteq Nat
  /\ Input \subseteq Event
  /\ Times \subseteq Nat \ {0}
  /\ MaxEvents \in Nat

NoCases == [id \in CaseID |-> None]

Fingerprints == {Fingerprint(e) : e \in Input}

Prepared_NotObserved(event, now) ==
  [Normalize(event) EXCEPT !.observedAt = None]

\* Service.RecordEvent up to the call of ApplyEvent: what the store is given.
Prepared(event, now) ==
  LET e == Normalize(event)
  IN [e EXCEPT !.observedAt = IF @ = 0 THEN now ELSE @]

Created(event, now) ==
  [revision |-> 1, createdAt |-> now, updatedAt |-> now, incident |-> New(event)]

Updated_ClockBackwards(case, event, now) ==
  [case EXCEPT !.revision = @ + 1,
               !.updatedAt = now,
               !.incident = Applied(@, event)]

\* A wall clock that went backwards does not move UpdatedAt backwards.
Updated(case, event, now) ==
  [case EXCEPT !.revision = @ + 1,
               !.updatedAt = IF now < @ THEN @ ELSE now,
               !.incident = Applied(@, event)]

=============================================================================

----------------------------- MODULE MemoryStore -----------------------------
(***************************************************************************)
(* The process-local Case store (internal/casefile/store.go): the same     *)
(* ApplyEvent over two maps with no file, no failing write and no restart. *)
(* It is what the Store interface promises ("atomically creates or updates *)
(* an open Case for an Event fingerprint"), and the abstract specification *)
(* the durable store implements.                                           *)
(***************************************************************************)
EXTENDS Casefile

VARIABLES
  byID,          \* s.byID
  openByPrint    \* s.openByPrint

Init ==
  /\ byID = NoCases
  /\ openByPrint = [f \in Fingerprints |-> None]

Indexed(event) == openByPrint[Fingerprint(event)]

Joins(event) == Indexed(event) # None /\ Open(byID[Indexed(event)].incident)

\* ApplyEvent on an open Case.  A replay or an error changes nothing.
Update(event, now) ==
  LET c == Indexed(event)
      e == Prepared(event, now)
  IN /\ Validate(Normalize(event)) /\ Joins(event)
     /\ ApplyError(byID[c].incident, e) = "none" /\ ~Replays(byID[c].incident, e)
     /\ byID' = [byID EXCEPT ![c] = Updated(@, e, now)]
     /\ UNCHANGED openByPrint

\* ApplyEvent with no open Case for the fingerprint.
Create(event, c, now) ==
  LET e == Prepared(event, now)
  IN /\ Validate(Normalize(event)) /\ ~Joins(event)
     /\ byID[c] = None
     /\ byID' = [byID EXCEPT ![c] = Created(e, now)]
     /\ openByPrint' = [openByPrint EXCEPT ![Fingerprint(e)] = c]

Next ==
  \/ \E event \in Input, now \in Times : Update(event, now)
  \/ \E event \in Input, c \in CaseID, now \in Times : Create(event, c, now)

\* What the store does from any content on.
Steps == [][Next]_<<byID, openByPrint>>

Spec == Init /\ Steps

=============================================================================

------------------------------ MODULE Delivery ------------------------------
(***************************************************************************)
(* What the investigation Outbox promises its callers (the Outbox          *)
(* interface of internal/investigation/outbox.go: "durably schedules       *)
(* at-least-once investigation delivery"), with no tasks, leases, clocks,  *)
(* files or crashes: a Case revision that was accepted stays due until a   *)
(* worker acknowledges that revision or a later one.                       *)
(***************************************************************************)
EXTENDS Naturals

CONSTANT CaseID

VARIABLES
  due,     \* per Case, the revision still to be delivered; 0 if none
  acked    \* per Case, highest revision a worker acknowledged

Init ==
  /\ due = [c \in CaseID |-> 0]
  /\ acked = [c \in CaseID |-> 0]

\* A later revision of Case c becomes due.
Ensure(c) ==
  /\ due'[c] \in Nat /\ due'[c] > due[c]
  /\ due' = [due EXCEPT ![c] = due'[c]]
  /\ UNCHANGED acked

\* A worker acknowledges revision r, due[c] at most, of Case c: it settles r and anything
\* older, and a revision that arrived while it worked stays due.
Acknowledge(c, r) ==
  /\ due' = [due EXCEPT ![c] = IF due[c] > r THEN due[c] ELSE 0]
  /\ acked' = [acked EXCEPT ![c] = IF acked[c] >= r THEN acked[c] ELSE r]

Next ==
  \/ \E c \in CaseID : Ensure(c)
  \/ \E c \in CaseID : \E r \in 1..due[c] : Acknowledge(c, r)

Spec == Init /\ [][Next]_<<due, acked>>

=============================================================================

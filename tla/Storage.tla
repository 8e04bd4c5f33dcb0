------------------------------ MODULE Storage -------------------------------
(***************************************************************************)
(* What the Case store and the investigation Outbox have in common: the    *)
(* Case IDs, the wall clock each call reads, and absence.                  *)
(***************************************************************************)
CONSTANTS
  CaseID,       \* Case IDs, all non-empty
  Times,        \* clock readings a call may be given
  None          \* no Case, no task, no owner, no token, no lease

=============================================================================

------------------------------ MODULE MC_Intake ------------------------------
(***************************************************************************)
(* TLC instances of Intake: an Event that can be replayed and one without  *)
(* an ID, so that every request for it adds a revision.  They belong to    *)
(* one case, or to two of which one is in the file, unscheduled, at first. *)
(***************************************************************************)
EXTENDS Intake

MCBody == {"oom", "latency", "docker", "prod", "api", "ev1"}

W(body) == [body |-> body, padded |-> FALSE, upper |-> FALSE]

Identified ==
  [id |-> W("ev1"), type |-> W("oom"), source |-> W("docker"), occurredAt |-> 1,
   observedAt |-> 1, environment |-> W("prod"),
   scope |-> [field \in ScopeField |-> IF field = "service" THEN W("api") ELSE Empty],
   severity |-> Empty, dedupeKey |-> Empty, attributes |-> "none"]

Anonymous == [Identified EXCEPT !.id = Empty]
OtherType == [Identified EXCEPT !.type = W("latency")]

MCInput == {Identified, Anonymous}
MCTwoCases == {Anonymous, OtherType}
\* Task IDs in the order of the Case IDs.
MCTaskID == [c \in CaseID |-> c]

MCFiles == {NoCases}
MCPending == {[NoCases EXCEPT ![1] = Created(Normalize(Anonymous), 1)]}

=============================================================================

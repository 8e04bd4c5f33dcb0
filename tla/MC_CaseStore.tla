---------------------------- MODULE MC_CaseStore ----------------------------
(***************************************************************************)
(* TLC instances of CaseStore.  The Events differ where the store tells    *)
(* them apart: replays written differently, an ID reused with other        *)
(* content, Events without an ID, an explicit dedupe key grouping two      *)
(* scopes, and an Event that fails validation.                             *)
(***************************************************************************)
EXTENDS CaseStore

MCBody == {"oom", "latency", "docker", "prod", "api", "high", "ev1", "key"}

W(body) == [body |-> body, padded |-> FALSE, upper |-> FALSE]
Shouted(body) == [body |-> body, padded |-> TRUE, upper |-> TRUE]
Padded(body) == [body |-> body, padded |-> TRUE, upper |-> FALSE]

Service(word) == [field \in ScopeField |-> IF field = "service" THEN word ELSE Empty]

Base == [id |-> W("ev1"), type |-> W("oom"), source |-> W("docker"), occurredAt |-> 2,
         observedAt |-> 0, environment |-> W("prod"), scope |-> Service(W("api")),
         severity |-> Empty, dedupeKey |-> Empty, attributes |-> "none"]

\* The same Event as Base after normalisation.
BaseRewritten == [Base EXCEPT !.id = Padded("ev1"), !.type = Shouted("oom"), !.observedAt = 1]
\* The ID of Base with other content, in the same and in another Incident.
IDConflict == [Base EXCEPT !.severity = Shouted("high")]
IDElsewhere == [Base EXCEPT !.type = W("latency")]
\* An earlier occurrence, without an ID.
Earlier == [Base EXCEPT !.id = Padded(""), !.occurredAt = 1, !.severity = W("high")]
\* An explicit key, in two different scopes.
Keyed == [Base EXCEPT !.dedupeKey = W("key")]
KeyedElsewhere == [Keyed EXCEPT !.scope = Service(W("docker"))]
\* No environment.
Invalid == [Base EXCEPT !.environment = Padded("")]

MCInput == {Base, BaseRewritten, IDConflict, Earlier, Keyed, KeyedElsewhere, Invalid}
MCKeyedInput == {Base, IDElsewhere, Keyed, KeyedElsewhere}

\* A file with a Case of Base's fingerprint in a later status, as OpenCaseStore
\* accepts it.
FileWith(status) ==
  [NoCases EXCEPT ![1] =
     [Created([Base EXCEPT !.observedAt = 2], 2) EXCEPT !.incident.status = status]]

MCEmpty == {NoCases}
MCFiles == {NoCases, FileWith("closed"), FileWith("investigating")}

=============================================================================

------------------------------ MODULE Trigger ------------------------------
(***************************************************************************)
(* Incident Events (internal/trigger/event.go): normalisation, validation  *)
(* and the fingerprint that groups Events into one open Incident.          *)
(*                                                                         *)
(* A text field is abstracted to a body, whether white space surrounds it  *)
(* and whether it is written with upper-case letters: what TrimSpace and   *)
(* ToLower can change.  Two bodies differ by more than that.  Times are    *)
(* instants (UTC() changes the zone only), 0 the zero time.  Attributes    *)
(* are opaque; a nil and an empty map are one value, as maps.Equal and     *)
(* JSON's omitempty make them.                                             *)
(***************************************************************************)
EXTENDS Naturals

CONSTANTS
  Body,         \* bodies of non-blank text
  Attributes    \* attribute maps

ASSUME BlankAssumption == "" \notin Body

Word == [body : Body, padded : BOOLEAN, upper : BOOLEAN]
          \cup [body : {""}, padded : BOOLEAN, upper : {FALSE}]

Empty == [body |-> "", padded |-> FALSE, upper |-> FALSE]

TrimSpace(word) == [word EXCEPT !.padded = FALSE]

ToLower(word) == [word EXCEPT !.upper = FALSE]

ScopeField == {"service", "node", "workload", "container"}

Event == [id : Word, type : Word, source : Word, occurredAt : Nat,
          observedAt : Nat, environment : Word, scope : [ScopeField -> Word],
          severity : Word, dedupeKey : Word, attributes : Attributes]

Normalize(e) ==
  [e EXCEPT !.id = TrimSpace(@),
            !.type = ToLower(TrimSpace(@)),
            !.source = TrimSpace(@),
            !.environment = TrimSpace(@),
            !.scope = [field \in ScopeField |-> TrimSpace(@[field])],
            !.severity = ToLower(TrimSpace(@)),
            !.dedupeKey = TrimSpace(@)]

Validate(e) ==
  /\ TrimSpace(e.type) # Empty
  /\ TrimSpace(e.source) # Empty
  /\ e.occurredAt # 0
  /\ TrimSpace(e.environment) # Empty
  /\ \E field \in ScopeField : TrimSpace(e.scope[field]) # Empty

\* The SHA-256 of the joined parts, taken to be injective: the parts themselves.
Fingerprint(e) ==
  LET n == Normalize(e)
  IN IF n.dedupeKey # Empty
       THEN <<"explicit", n.source, n.dedupeKey>>
       ELSE <<"scope", n.type, n.environment, n.scope>>

=============================================================================

----------------------------- MODULE Rootforged -----------------------------
(***************************************************************************)
(* The goroutines of the rootforged process from the moment it serves      *)
(* (cmd/rootforged/main.go): main blocked in ListenAndServe, the           *)
(* reconciliation ticker, the goroutine that calls Shutdown, the handlers. *)
(* What the handlers and the reconciliation do to the stores is module     *)
(* Intake, where the exit of the process is the action Crash.              *)
(*                                                                         *)
(* net/http is external: Shutdown closes the listeners, which makes        *)
(* ListenAndServe return ErrServerClosed, and then waits for the running   *)
(* requests until its context expires.                                     *)
(***************************************************************************)
EXTENDS Naturals

CONSTANT Request    \* HTTP requests, each sent at most once

VARIABLES
  main,         \* "serving", "exited" or "fatal"
  done,         \* ctx.Done() is closed: a signal arrived
  shutdown,     \* the shutdown goroutine: "waiting", "draining", "drained" or "timed out"
  listening,    \* the server accepts connections
  reconciler,   \* reconcilePending: "waiting", "reconciling" or "returned"
  request       \* per request: "unsent", "running", "answered" or "cut"

vars == <<main, done, shutdown, listening, reconciler, request>>

Init ==
  /\ main = "serving" /\ done = FALSE /\ shutdown = "waiting" /\ listening = TRUE
  /\ reconciler = "waiting"
  /\ request = [r \in Request |-> "unsent"]

Running == {r \in Request : request[r] = "running"}

Accept(r) ==
  /\ main = "serving" /\ listening /\ request[r] = "unsent"
  /\ request' = [request EXCEPT ![r] = "running"]
  /\ UNCHANGED <<main, done, shutdown, listening, reconciler>>

Answer(r) ==
  /\ main = "serving" /\ request[r] = "running"
  /\ request' = [request EXCEPT ![r] = "answered"]
  /\ UNCHANGED <<main, done, shutdown, listening, reconciler>>

\* SIGINT or SIGTERM.
Signal ==
  /\ main = "serving" /\ ~done
  /\ done' = TRUE
  /\ UNCHANGED <<main, shutdown, listening, reconciler, request>>

\* The loop of reconcilePending: when the ticker and ctx.Done() are both
\* ready, select takes either.
Tick ==
  /\ main = "serving" /\ reconciler = "waiting"
  /\ reconciler' \in {"reconciling"} \cup (IF done THEN {"returned"} ELSE {})
  /\ UNCHANGED <<main, done, shutdown, listening, request>>

Reconciled ==
  /\ main = "serving" /\ reconciler = "reconciling"
  /\ reconciler' = "waiting"
  /\ UNCHANGED <<main, done, shutdown, listening, request>>

BeginShutdown_AwaitsReconciler ==
  /\ main = "serving" /\ done /\ shutdown = "waiting" /\ reconciler = "returned"
  /\ shutdown' = "draining"
  /\ listening' = FALSE
  /\ UNCHANGED <<main, done, reconciler, request>>

\* The shutdown goroutine calls server.Shutdown.
BeginShutdown ==
  /\ main = "serving" /\ done /\ shutdown = "waiting"
  /\ shutdown' = "draining"
  /\ listening' = FALSE
  /\ UNCHANGED <<main, done, reconciler, request>>

EndShutdown ==
  /\ main = "serving" /\ shutdown = "draining"
  /\ \/ Running = {} /\ shutdown' = "drained"
     \/ shutdown' = "timed out"
  /\ UNCHANGED <<main, done, listening, reconciler, request>>

\* Leaving main ends every goroutine.
Leave(how) ==
  /\ main' = how
  /\ listening' = FALSE
  /\ request' = [r \in Request |-> IF r \in Running THEN "cut" ELSE request[r]]
  /\ UNCHANGED <<done, shutdown, reconciler>>

Exit_Unprompted == main = "serving" /\ Leave("exited")

\* ListenAndServe returns ErrServerClosed and main falls off its end.
Exit == main = "serving" /\ ~listening /\ Leave("exited")

\* ListenAndServe returns another error.
Fatal == main = "serving" /\ listening /\ Leave("fatal")

Next ==
  \/ \E r \in Request : Accept(r) \/ Answer(r)
  \/ Signal \/ Tick \/ Reconciled
  \/ BeginShutdown \/ EndShutdown
  \/ Exit \/ Fatal

\* The Go scheduler runs every goroutine that is ready.
Fairness == WF_vars(BeginShutdown) /\ WF_vars(Exit)

Spec == Init /\ [][Next]_vars /\ Fairness

-----------------------------------------------------------------------------
(* Properties.                                                             *)

TypeOK ==
  /\ main \in {"serving", "exited", "fatal"}
  /\ done \in BOOLEAN /\ listening \in BOOLEAN
  /\ shutdown \in {"waiting", "draining", "drained", "timed out"}
  /\ reconciler \in {"waiting", "reconciling", "returned"}
  /\ request \in [Request -> {"unsent", "running", "answered", "cut"}]

\* A signal stops the process, whatever requests and reconciliations run:
\* neither a request nor the ticker can keep main from returning.
SignalStops == done ~> main # "serving"

\* No request is cut without a cause: only a fatal server error or a process
\* that was told to stop leaves a request unanswered.
CutOnlyWhenStopping ==
  \A r \in Request : request[r] = "cut" => main = "fatal" \/ shutdown # "waiting"

\* What the flag description at cmd/rootforged/main.go:23 says ("graceful
\* shutdown timeout"): the process exits when the running requests are
\* answered or the timeout has passed.
ShutdownIsGraceful ==
  main = "exited" =>
    shutdown = "timed out" \/ \A r \in Request : request[r] # "cut"

=============================================================================

------------------------------- MODULE Intake -------------------------------
(***************************************************************************)
(* The rootforged process: the event-to-Case-to-Outbox workflow            *)
(* (internal/workflow/intake.go) run by HTTP handlers, by the startup and  *)
(* the periodic reconciliation (cmd/rootforged/main.go) and interleaved    *)
(* with dispatchers working on the Outbox.  The Case store and the Outbox  *)
(* have a file and a mutex each, so between RecordEvent's two writes       *)
(* anything may happen: other requests, a reconciliation, a worker         *)
(* completing the task, a cancelled request, a crash.                      *)
(*                                                                         *)
(* A store call that fails changes nothing (modules CaseStore and Outbox), *)
(* so here a call either takes effect or ends the request with an error.   *)
(***************************************************************************)
EXTENDS CaseStore, Outbox

CONSTANTS
  Handler,       \* concurrent HTTP requests
  MaxCrashes     \* bound on the crashes of the process

VARIABLES
  phase,      \* what main is doing
  request,    \* per handler, the Case it must still schedule
  todo,       \* Cases the running reconciliation still has to ensure
  answered,   \* the Events answered 202, with the Case and revision returned
  crashes     \* crashes so far

vars == <<caseVars, outboxVars, phase, request, todo, answered, crashes>>

Idle == [event |-> None, case |-> None, revision |-> 0]

Init ==
  /\ CaseStoreInit
  /\ OutboxInit
  /\ phase = "down"
  /\ request = [h \in Handler |-> Idle]
  /\ todo = {}
  /\ answered = {}
  /\ crashes = 0

-----------------------------------------------------------------------------
(* Process life cycle (main).                                              *)

StartCaseStore ==
  /\ phase = "down"
  /\ OpenCaseStore
  /\ phase' = "cases open"
  /\ UNCHANGED <<outboxVars, request, todo, answered, crashes>>

Pending_FirstOnly ==
  {[case |-> c, revision |-> byID[c].revision] :
     c \in {d \in CaseID : byID[d] # None /\ \A other \in CaseID : d <= other}}

\* ListPendingInvestigation: a snapshot of the Cases to reconcile.
Pending == {[case |-> c, revision |-> byID[c].revision] :
              c \in {d \in CaseID : /\ byID[d] # None
                                    /\ byID[d].incident.status = "pending_investigation"}}

\* The Outbox is opened and the startup reconciliation lists the pending Cases.
StartOutbox ==
  /\ phase = "cases open"
  /\ OpenInvestigationOutbox
  /\ phase' = "starting"
  /\ todo' = Pending
  /\ UNCHANGED <<caseVars, request, answered, crashes>>

Serve_BeforeReconciled ==
  /\ phase = "starting"
  /\ phase' = "serving"
  /\ UNCHANGED <<caseVars, outboxVars, request, todo, answered, crashes>>

\* The startup reconciliation finished without an error: the server listens.
Serve ==
  /\ phase = "starting" /\ todo = {}
  /\ phase' = "serving"
  /\ UNCHANGED <<caseVars, outboxVars, request, todo, answered, crashes>>

\* The process dies or is killed; a failed startup reconciliation is fatal too.
\* The clients of the running requests get no answer.
Crash ==
  /\ phase # "down" /\ crashes < MaxCrashes
  /\ CaseStoreCrash
  /\ IF outboxUp THEN OutboxCrash ELSE UNCHANGED outboxVars
  /\ phase' = "down"
  /\ request' = [h \in Handler |-> Idle]
  /\ todo' = {}
  /\ crashes' = crashes + 1
  /\ UNCHANGED answered

-----------------------------------------------------------------------------
(* RecordEvent, in the two writes a handler makes.                         *)

\* The first write: the Case store records the event.  The handler remembers
\* the Case and revision the store returned; a refused event ends the request.
RecordCase(h, event, now) ==
  /\ phase = "serving" /\ request[h] = Idle
  /\ \E c \in CaseID :
       /\ \/ c = Indexed(event) /\ Update(event, now, TRUE)
          \/ c = Indexed(event) /\ Replay(event, now)
          \/ Create(event, c, now, TRUE)
       /\ request' = [request EXCEPT ![h] =
                        [event |-> Normalize(event), case |-> c,
                         revision |-> byID'[c].revision]]
  /\ UNCHANGED <<outboxVars, phase, todo, answered, crashes>>

Schedule_OffByOne(h, now) ==
  /\ phase = "serving" /\ request[h] # Idle
  /\ EnsurePending(request[h].case, request[h].revision + 1, now, TRUE)
  /\ answered' = answered \cup {request[h]}
  /\ request' = [request EXCEPT ![h] = Idle]
  /\ UNCHANGED <<caseVars, phase, todo, crashes>>

\* The second write: EnsurePending with the revision remembered, then 202.
Schedule(h, now) ==
  /\ phase = "serving" /\ request[h] # Idle
  /\ EnsurePending(request[h].case, request[h].revision, now, TRUE)
  /\ answered' = answered \cup {request[h]}
  /\ request' = [request EXCEPT ![h] = Idle]
  /\ UNCHANGED <<caseVars, phase, todo, crashes>>

ScheduleFails_Answers(h) ==
  /\ phase = "serving" /\ request[h] # Idle
  /\ answered' = answered \cup {request[h]}
  /\ request' = [request EXCEPT ![h] = Idle]
  /\ UNCHANGED <<caseVars, outboxVars, phase, todo, crashes>>

\* EnsurePending fails (a failed write, or the client went away and cancelled
\* the request's context): the handler answers 500, the Case stays recorded.
ScheduleFails(h) ==
  /\ phase = "serving" /\ request[h] # Idle
  /\ request' = [request EXCEPT ![h] = Idle]
  /\ UNCHANGED <<caseVars, outboxVars, phase, todo, answered, crashes>>

-----------------------------------------------------------------------------
(* ReconcilePending, one EnsurePending per step, in the order of the IDs.  *)

\* The ticker fires and no reconciliation is running.
Reconcile ==
  /\ phase = "serving" /\ todo = {} /\ Pending # {}
  /\ todo' = Pending
  /\ UNCHANGED <<caseVars, outboxVars, phase, request, answered, crashes>>

First(item) == item \in todo /\ \A other \in todo : item.case <= other.case

ReconcileCase(now) ==
  \E item \in todo :
    /\ First(item)
    /\ EnsurePending(item.case, item.revision, now, TRUE)
    /\ todo' = todo \ {item}
    /\ UNCHANGED <<caseVars, phase, request, answered, crashes>>

\* EnsurePending fails: the loop stops at its first error.  At startup that is
\* fatal (Crash); the periodic reconciliation tries again at the next tick.
ReconcileFails ==
  /\ phase = "serving" /\ todo # {}
  /\ todo' = {}
  /\ UNCHANGED <<caseVars, outboxVars, phase, request, answered, crashes>>

-----------------------------------------------------------------------------
(* Dispatchers: not in the repository yet, modelled by the Outbox methods  *)
(* they are given.                                                         *)

Work(w, now) ==
  /\ phase = "serving"
  /\ \/ \E token \in Token, d \in Durations : LeaseNext(w, token, now, d, TRUE)
     \/ Complete(w, now, TRUE)
     \/ \E at \in RetryTimes : Retry(w, now, at, TRUE)
     \/ Abandon(w)
  /\ UNCHANGED <<caseVars, phase, request, todo, answered, crashes>>

Next ==
  \/ StartCaseStore
  \/ StartOutbox
  \/ Serve
  \/ Crash
  \/ \E h \in Handler, event \in Input, now \in Times : RecordCase(h, event, now)
  \/ \E h \in Handler, now \in Times : Schedule(h, now)
  \/ \E h \in Handler : ScheduleFails(h)
  \/ Reconcile
  \/ \E now \in Times : ReconcileCase(now)
  \/ ReconcileFails
  \/ \E w \in Worker, now \in Times : Work(w, now)

Spec == Init /\ [][Next]_vars

\* The process is restarted when it is down and starts up in order; the ticker
\* keeps firing; and a write that is tried again and again does not fail forever.
Fairness ==
  /\ WF_vars(StartCaseStore)
  /\ WF_vars(StartOutbox)
  /\ WF_vars(Serve)
  /\ WF_vars(Reconcile)
  /\ \A c \in CaseID :
       SF_vars((\E item \in todo : First(item) /\ item.case = c)
                 /\ \E now \in Times : ReconcileCase(now))

FairSpec == Spec /\ Fairness

-----------------------------------------------------------------------------
(* Properties.                                                             *)

\* Work exists for, or was done on, revision r of Case c.
Covered(c, r) == Due(c) >= r \/ acked[c] >= r

\* An Event answered 202 is durable and so is its investigation: the Case file
\* holds the Event, and a task or a completed investigation covers a revision
\* of the Case at which the Event was already part of it.
AnsweredIsScheduled ==
  \A a \in answered :
    /\ Covered(a.case, a.revision)
    /\ caseFile[a.case] # None
    /\ \E k \in DOMAIN caseFile[a.case].incident.events :
         /\ k <= a.revision
         /\ sameEvent(caseFile[a.case].incident.events[k], a.event)

\* The Case is written before its task: no crash, cancelled request or stale
\* handler leaves a task, or a lease, for a Case or a revision that the Case
\* file does not have.
NoOrphanTask ==
  /\ \A id \in TaskID :
       outboxFile[id] # None =>
         /\ caseFile[outboxFile[id].caseID] # None
         /\ outboxFile[id].caseRevision <= caseFile[outboxFile[id].caseID].revision
  /\ \A w \in Worker :
       held[w] # None =>
         /\ caseFile[held[w].caseID] # None
         /\ held[w].revision <= caseFile[held[w].caseID].revision

\* A restart repairs every gap between the two files: when the server starts
\* to listen, every pending Case has a task for its current revision, whatever
\* the previous run left unscheduled.
StartupClosesGap ==
  [][(phase # "serving" /\ phase' = "serving") =>
       \A c \in CaseID :
         (caseFile[c] # None /\ caseFile[c].incident.status = "pending_investigation")
           => Due(c) >= caseFile[c].revision]_vars

\* A recorded revision is eventually scheduled, even if its request was
\* cancelled or failed after the first write, or the process crashed there.
EventuallyScheduled ==
  \A c \in CaseID, r \in 1..MaxRevision :
    (caseFile[c] # None /\ caseFile[c].revision >= r) ~> Covered(c, r)

\* What internal/investigation/outbox.go:28 says of a task: it is work for the
\* latest Case revision the Outbox was told of.
TaskIsForLatestKnownRevision ==
  \A id \in TaskID :
    outboxFile[id] # None => outboxFile[id].caseRevision >= ensured[outboxFile[id].caseID]

=============================================================================

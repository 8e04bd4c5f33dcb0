------------------------------- MODULE Outbox -------------------------------
(***************************************************************************)
(* The local investigation Outbox (internal/storage/local/outbox.go): a    *)
(* durable queue holding at most one task per Case.  Every method runs     *)
(* under the mutex, so it is one action; it writes the next snapshot to    *)
(* the file first and replaces the map in memory only if that succeeded.   *)
(* A method that returns an error before persisting (cancelled context,    *)
(* missing argument, task ID collision, unknown task, lost lease) changes  *)
(* nothing and is a stuttering step.                                       *)
(*                                                                         *)
(* Time is a natural number, 0 the zero time.Time.  Each call is given its *)
(* own reading of the wall clock, which may go backwards: callers strip    *)
(* the monotonic reading with UTC().                                       *)
(*                                                                         *)
(* Attempts, CreatedAt, UpdatedAt and LastError are written by the code    *)
(* and read by no decision of it; they are left out.                       *)
(***************************************************************************)
EXTENDS Naturals, FiniteSets, Storage

CONSTANTS
  TaskID,        \* task IDs; natural numbers, for the order of the strings
  taskID,        \* taskID(caseID): a truncated SHA-256, so a constant function
  Worker,        \* lease owners after TrimSpace, all non-empty
  Token,         \* lease tokens
  MaxRevision,   \* bound on Case revisions
  Durations,     \* lease durations, all positive
  RetryTimes     \* availableAt arguments of Retry

VARIABLES
  tasks,         \* o.tasks: the map in memory
  outboxFile,    \* investigation-outbox.v1.json
  outboxUp,      \* the process is running and has opened the Outbox
  held,          \* per worker, its copy of the task LeaseNext returned
  ensured,       \* per Case, highest revision EnsurePending accepted
  acked          \* per Case, highest revision a worker completed

storeVars == <<tasks, outboxFile>>
outboxVars == <<tasks, outboxFile, outboxUp, held, ensured, acked>>

Task == [caseID : CaseID, caseRevision : Nat, status : {"pending", "leased"},
         availableAt : Nat, leaseOwner : Worker \cup {None},
         leaseToken : Token \cup {None}, leaseUntil : Nat, leasedRevision : Nat]

Lease == [id : TaskID, token : Token, caseID : CaseID, revision : Nat]

ASSUME OutboxAssumption ==
  /\ TaskID \subseteq Nat
  /\ taskID \in [CaseID -> TaskID]
  /\ MaxRevision \in Nat
  /\ Times \subseteq Nat \ {0}
  /\ Durations \subseteq Nat \ {0}
  /\ RetryTimes \subseteq Nat \ {0}

ASSUME NoneAssumption == None \notin Worker \cup Token \cup Task \cup Lease

Larger(a, b) == IF a >= b THEN a ELSE b

NoTasks == [id \in TaskID |-> None]

-----------------------------------------------------------------------------
(* Helpers of the store.                                                   *)

\* validateTask: the check every task of the file must pass on reopening.
validateTask(id, t) ==
  /\ t.caseRevision # 0
  /\ t.availableAt # 0
  /\ id = taskID[t.caseID]
  /\ t.status \in {"pending", "leased"}
  /\ IF t.status = "leased"
       THEN /\ t.leaseToken # None /\ t.leaseOwner # None /\ t.leaseUntil # 0
            /\ t.leasedRevision # 0 /\ t.leasedRevision <= t.caseRevision
       ELSE /\ t.leaseToken = None /\ t.leaseOwner = None /\ t.leaseUntil = 0
            /\ t.leasedRevision = 0

clearLease_KeepsRevision(t) ==
  [t EXCEPT !.leaseOwner = None, !.leaseToken = None, !.leaseUntil = 0]

clearLease_Released(t) ==
  [clearLease_KeepsRevision(t) EXCEPT !.status = "released", !.leasedRevision = 0]

clearLease_RollsBack(t) ==
  [clearLease_KeepsRevision(t) EXCEPT !.caseRevision = t.leasedRevision,
                                      !.leasedRevision = 0]

clearLease(t) ==
  [t EXCEPT !.leaseOwner = None, !.leaseToken = None,
            !.leaseUntil = 0, !.leasedRevision = 0]

SaveTasks_AssignsFirst(next, ok) ==
  /\ outboxFile' = IF ok THEN next ELSE outboxFile
  /\ tasks' = next

\* The tail of every mutating method: persist(next), and only if it
\* succeeded o.tasks = next.
SaveTasks(next, ok) ==
  /\ outboxFile' = IF ok THEN next ELSE outboxFile
  /\ tasks' = IF ok THEN next ELSE tasks

ownedLease_AnyToken(id, token, now) ==
  /\ tasks[id] # None
  /\ tasks[id].status = "leased"
  /\ tasks[id].leaseUntil > now

ownedLease(id, token, now) ==
  /\ tasks[id] # None
  /\ tasks[id].status = "leased"
  /\ tasks[id].leaseToken = token
  /\ tasks[id].leaseUntil > now

\* The tasks LeaseNext collects, and its sort order.
Eligible(now) ==
  {id \in TaskID :
     /\ tasks[id] # None
     /\ \/ tasks[id].status = "pending" /\ tasks[id].availableAt <= now
        \/ tasks[id].status = "leased" /\ tasks[id].leaseUntil <= now}

Before(a, b) ==
  \/ tasks[a].availableAt < tasks[b].availableAt
  \/ tasks[a].availableAt = tasks[b].availableAt /\ a < b

FreshToken_Reused(token) ==
  \A id \in TaskID : tasks[id] # None => tasks[id].leaseToken # token

\* randomLeaseToken: 128 random bits never repeat a token anybody still has.
FreshToken(token) ==
  /\ \A id \in TaskID : tasks[id] # None => tasks[id].leaseToken # token
  /\ \A w \in Worker : held[w] # None => held[w].token # token

-----------------------------------------------------------------------------
(* The methods of the Outbox.                                              *)

OutboxInit ==
  /\ tasks = NoTasks
  /\ outboxFile = NoTasks
  /\ outboxUp = FALSE
  /\ held = [w \in Worker |-> None]
  /\ ensured = [c \in CaseID |-> 0]
  /\ acked = [c \in CaseID |-> 0]

EnsurePending(c, r, now, ok) ==
  LET id == taskID[c]
      current == tasks[id]
      created == [caseID |-> c, caseRevision |-> r, status |-> "pending",
                  availableAt |-> now, leaseOwner |-> None,
                  leaseToken |-> None, leaseUntil |-> 0, leasedRevision |-> 0]
  IN /\ outboxUp
     /\ r # 0
     /\ \/ /\ current = None
           /\ SaveTasks([tasks EXCEPT ![id] = created], ok)
           /\ ensured' = IF ok THEN [ensured EXCEPT ![c] = Larger(@, r)] ELSE ensured
        \/ /\ current # None /\ current.caseID = c /\ r > current.caseRevision
           /\ SaveTasks([tasks EXCEPT ![id].caseRevision = r], ok)
           /\ ensured' = IF ok THEN [ensured EXCEPT ![c] = Larger(@, r)] ELSE ensured
        \/ /\ current # None /\ current.caseID = c /\ r <= current.caseRevision
           /\ UNCHANGED storeVars
           /\ ensured' = [ensured EXCEPT ![c] = Larger(@, r)]
     /\ UNCHANGED <<outboxUp, held, acked>>

LeaseNext(w, token, now, duration, ok) ==
  /\ outboxUp
  /\ held[w] = None
  /\ FreshToken(token)
  /\ \E id \in Eligible(now) :
       /\ \A other \in Eligible(now) \ {id} : Before(id, other)
       /\ SaveTasks([tasks EXCEPT ![id] =
                  [@ EXCEPT !.status = "leased", !.leaseOwner = w,
                            !.leaseToken = token, !.leaseUntil = now + duration,
                            !.leasedRevision = tasks[id].caseRevision]], ok)
       /\ held' = IF ok
                    THEN [held EXCEPT ![w] =
                            [id |-> id, token |-> token, caseID |-> tasks[id].caseID,
                             revision |-> tasks[id].caseRevision]]
                    ELSE held
  /\ UNCHANGED <<outboxUp, ensured, acked>>

Complete(w, now, ok) ==
  LET id == held[w].id
      current == tasks[id]
  IN /\ outboxUp
     /\ held[w] # None
     /\ ownedLease(id, held[w].token, now)
     /\ SaveTasks([tasks EXCEPT ![id] =
                IF current.caseRevision > current.leasedRevision
                  THEN clearLease([current EXCEPT !.status = "pending",
                                                  !.availableAt = now])
                  ELSE None], ok)
     /\ acked' = IF ok
                   THEN [acked EXCEPT ![held[w].caseID] = Larger(@, held[w].revision)]
                   ELSE acked
     /\ UNCHANGED <<outboxUp, held, ensured>>

Retry(w, now, availableAt, ok) ==
  LET id == held[w].id
  IN /\ outboxUp
     /\ held[w] # None
     /\ ownedLease(id, held[w].token, now)
     /\ SaveTasks([tasks EXCEPT ![id] =
                clearLease([@ EXCEPT !.status = "pending",
                                     !.availableAt = availableAt])], ok)
     /\ UNCHANGED <<outboxUp, held, ensured, acked>>

-----------------------------------------------------------------------------
(* Workers and the process.                                                *)

\* A worker forgets the lease it was given: it finished, gave up or died.
\* Until then it may call Complete or Retry any number of times, late or not.
Abandon(w) ==
  /\ held[w] # None
  /\ held' = [held EXCEPT ![w] = None]
  /\ UNCHANGED <<tasks, outboxFile, outboxUp, ensured, acked>>

OutboxCrash ==
  /\ outboxUp
  /\ outboxUp' = FALSE
  /\ tasks' = NoTasks
  /\ UNCHANGED <<outboxFile, held, ensured, acked>>

OpenInvestigationOutbox ==
  /\ ~outboxUp
  /\ \A id \in TaskID : outboxFile[id] # None => validateTask(id, outboxFile[id])
  /\ outboxUp' = TRUE
  /\ tasks' = outboxFile
  /\ UNCHANGED <<outboxFile, held, ensured, acked>>

OutboxNext ==
  \/ \E c \in CaseID, r \in 1..MaxRevision, now \in Times, ok \in BOOLEAN :
       EnsurePending(c, r, now, ok)
  \/ \E w \in Worker, token \in Token, now \in Times, d \in Durations, ok \in BOOLEAN :
       LeaseNext(w, token, now, d, ok)
  \/ \E w \in Worker, now \in Times, ok \in BOOLEAN : Complete(w, now, ok)
  \/ \E w \in Worker, now \in Times, at \in RetryTimes, ok \in BOOLEAN :
       Retry(w, now, at, ok)
  \/ \E w \in Worker : Abandon(w)
  \/ OutboxCrash
  \/ OpenInvestigationOutbox

OutboxSpec == OutboxInit /\ [][OutboxNext]_outboxVars

-----------------------------------------------------------------------------
(* Properties.                                                             *)

OutboxTypeOK ==
  /\ tasks \in [TaskID -> Task \cup {None}]
  /\ outboxFile \in [TaskID -> Task \cup {None}]
  /\ outboxUp \in BOOLEAN
  /\ held \in [Worker -> Lease \cup {None}]
  /\ ensured \in [CaseID -> Nat]
  /\ acked \in [CaseID -> Nat]

\* While the process runs, the map in memory is what the file holds: a failed
\* persist leaves both alone (persist first, assign o.tasks afterwards).
MemoryMatchesFile == outboxUp => tasks = outboxFile

\* Every file the Outbox writes passes validateTask, so that
\* OpenInvestigationOutbox never refuses the file of an earlier run.
TaskFileLoadable ==
  \A id \in TaskID : outboxFile[id] # None => validateTask(id, outboxFile[id])

\* The revision of Case c that the durable task carries, 0 without one.
Due(c) ==
  LET t == outboxFile[taskID[c]]
  IN IF t # None /\ t.caseID = c THEN t.caseRevision ELSE 0

\* At-least-once delivery: a revision EnsurePending accepted is still carried
\* by a durable task, or a worker completed that revision or a later one,
\* whatever leases expired, workers answered late or processes crashed.
AtLeastOnce ==
  \A c \in CaseID : ensured[c] <= Larger(Due(c), acked[c])

\* A lease the Outbox still honours is the lease its worker was given: the
\* task's owner, Case and leased revision are those of the worker's copy, even
\* when EnsurePending raised the Case revision in the meantime.
HonouredLeaseIsCurrent ==
  \A w \in Worker, id \in TaskID :
    (held[w] # None /\ outboxFile[id] # None /\ outboxFile[id].leaseToken = held[w].token)
      => /\ id = held[w].id
         /\ outboxFile[id].leaseOwner = w
         /\ outboxFile[id].caseID = held[w].caseID
         /\ outboxFile[id].leasedRevision = held[w].revision

\* Only Complete by a worker that was handed the task's latest revision ever
\* removes a task from the file, and no method lowers a task's revision.
TaskLeavesOnlyWhenSettled ==
  [][\A id \in TaskID :
       outboxFile[id] # None =>
         \/ /\ outboxFile'[id] # None
            /\ outboxFile'[id].caseRevision >= outboxFile[id].caseRevision
         \/ /\ outboxFile'[id] = None
            /\ acked'[outboxFile[id].caseID] >= outboxFile[id].caseRevision]_outboxVars

\* The Outbox implements the abstract at-least-once delivery of module
\* Delivery, the durable tasks being what is due.
Promise == INSTANCE Delivery WITH due <- [c \in CaseID |-> Due(c)]
ImplementsDelivery == Promise!Spec

=============================================================================

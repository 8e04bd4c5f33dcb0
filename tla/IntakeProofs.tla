---------------------------- MODULE IntakeProofs ----------------------------
(***************************************************************************)
(* Proofs about the rootforged process (module Intake), for every set of   *)
(* Cases, tasks, handlers, workers and clock readings.  Every step of the  *)
(* process is a step of the Case store and a step of the Outbox, so that   *)
(* what is proved of each store holds in the process; what relates the two *)
(* files is proved here.                                                   *)
(***************************************************************************)
EXTENDS Intake, CaseStoreProofs, OutboxProofs

\* A Case whose record and investigation a request has to see to.
Answer == [event : Event, case : CaseID, revision : Nat]

\* Type correctness of the process's own state.
IntakeTypeOK ==
  /\ request \in [Handler -> Answer \cup {Idle}]
  /\ todo \subseteq [case : CaseID, revision : Nat]
  /\ answered \subseteq Answer

\* What main has opened, in each phase.
PhaseOpens ==
  /\ phase \in {"down", "cases open", "starting", "serving"}
  /\ caseUp <=> phase # "down"
  /\ outboxUp <=> phase \in {"starting", "serving"}

\* The Case file has reached revision r of Case c.
Known(c, r) == caseFile[c] # None /\ r <= caseFile[c].revision

\* Whatever a handler or a reconciliation will ask the Outbox to schedule, and
\* whatever was answered, is in the Case file; what was answered was scheduled.
WorkIsKnown ==
  /\ \A h \in Handler : request[h] # Idle => Known(request[h].case, request[h].revision)
  /\ \A item \in todo : Known(item.case, item.revision)
  /\ \A a \in answered :
       Known(a.case, a.revision) /\ ensured[a.case] >= a.revision

IsPending(c) ==
  caseFile[c] # None /\ caseFile[c].incident.status = "pending_investigation"

\* The startup reconciliation has scheduled every pending Case it is past.
StartupProgress ==
  phase = "starting" =>
    \A c \in CaseID :
      IsPending(c) =>
        \/ [case |-> c, revision |-> caseFile[c].revision] \in todo
        \/ Due(c) >= caseFile[c].revision

\* The inductive invariant of the process.
IntakeInv ==
  /\ CaseStoreInv /\ AcceptedEventsKept /\ OutboxInv
  /\ IntakeTypeOK /\ PhaseOpens
  /\ WorkIsKnown /\ NoOrphanTask /\ StartupProgress

\* The Case named by an answer held its Event at the revision answered.
Placed(a) ==
  \E k \in DOMAIN caseFile[a.case].incident.events :
    k <= a.revision /\ sameEvent(caseFile[a.case].incident.events[k], a.event)

\* The Events that running requests and answers name are in their Cases.
EventsPlaced ==
  /\ \A h \in Handler : request[h] # Idle => Placed(request[h])
  /\ \A a \in answered : Placed(a)

-----------------------------------------------------------------------------
(* The two stores inside the process.                                      *)

\* Every step of the process is a step of the Case store.
LEMMA StepOfCaseStore == [Next]_vars => [CaseStoreNext]_caseVars
<1> SUFFICES ASSUME [Next]_vars PROVE [CaseStoreNext]_caseVars
  BY Zenon
<1>1. CASE StartCaseStore \/ Crash
  BY <1>1, Zenon DEF StartCaseStore, Crash, CaseStoreNext
<1>2. ASSUME NEW h \in Handler, NEW event \in Input, NEW now \in Times,
             RecordCase(h, event, now)
      PROVE  CaseStoreNext
  BY <1>2, Zenon DEF RecordCase, CaseStoreNext
<1>3. CASE \/ StartOutbox \/ Serve \/ Reconcile \/ ReconcileFails
           \/ \E h \in Handler, now \in Times : Schedule(h, now)
           \/ \E h \in Handler : ScheduleFails(h)
           \/ \E now \in Times : ReconcileCase(now)
           \/ \E w \in Worker, now \in Times : Work(w, now)
           \/ UNCHANGED vars
  BY <1>3, Zenon DEF StartOutbox, Serve, Reconcile, ReconcileFails, Schedule, ScheduleFails,
              ReconcileCase, Work, vars, caseVars
<1> QED
  BY <1>1, <1>2, <1>3, Zenon DEF Next

\* A request that is running names a Case and a revision.
LEMMA RunningRequest ==
  ASSUME IntakeTypeOK, NEW h \in Handler, request[h] # Idle
  PROVE  request[h] \in Answer /\ request[h].case \in CaseID /\ request[h].revision \in Nat
  BY Zenon DEF IntakeTypeOK, Answer

\* Every step of the process is a step of the Outbox.
LEMMA StepOfOutbox ==
  ASSUME IntakeTypeOK, [Next]_vars
  PROVE  [OutboxStep]_outboxVars
<1>1. CASE StartOutbox
  BY <1>1, Zenon DEF StartOutbox, OutboxNext, OutboxStep
<1>2. CASE Crash
  BY <1>2, Zenon DEF Crash, OutboxNext, OutboxStep
<1>3. ASSUME NEW h \in Handler, NEW now \in Times, Schedule(h, now)
      PROVE  OutboxStep
  BY <1>3, RunningRequest, Zenon DEF Schedule, OutboxStep
<1>4. ASSUME NEW now \in Times, ReconcileCase(now)
      PROVE  OutboxStep
  BY <1>4, Zenon DEF ReconcileCase, OutboxStep, IntakeTypeOK
<1>5. ASSUME NEW w \in Worker, NEW now \in Times, Work(w, now)
      PROVE  OutboxStep
  BY <1>5, Zenon DEF Work, OutboxNext, OutboxStep
<1>6. CASE \/ StartCaseStore \/ Serve \/ Reconcile \/ ReconcileFails
           \/ \E h \in Handler, event \in Input, now \in Times : RecordCase(h, event, now)
           \/ \E h \in Handler : ScheduleFails(h)
           \/ UNCHANGED vars
  BY <1>6, Zenon DEF StartCaseStore, Serve, Reconcile, ReconcileFails, RecordCase, ScheduleFails,
              vars, outboxVars
<1> QED
  BY <1>1, <1>2, <1>3, <1>4, <1>5, <1>6, SMTT(30) DEF Next

\* The invariants of the two stores, which a step of the process preserves.
LEMMA StoresStep ==
  ASSUME IntakeInv, [Next]_vars
  PROVE  CaseStoreInv' /\ AcceptedEventsKept' /\ OutboxInv'
<1>1. [CaseStoreNext]_caseVars /\ [OutboxStep]_outboxVars
  BY StepOfCaseStore, StepOfOutbox, Zenon DEF IntakeInv
<1>2. CaseStoreInv /\ AcceptedEventsKept /\ OutboxInv
  BY Zenon DEF IntakeInv
<1> QED
  BY <1>1, <1>2, CaseStoreNextInv, StepKeepsAccepted, OutboxStepInv, Zenon

\* A revision the Case file has reached stays reached.
LEMMA KnownStays ==
  ASSUME CaseStoreInv, [CaseStoreNext]_caseVars, NEW c \in CaseID, NEW r \in Nat, Known(c, r)
  PROVE  Known(c, r)'
<1>1. caseFile[c] # None
  BY Zenon DEF Known
<1>2. caseFile'[c] # None /\ Appended(caseFile[c], caseFile'[c])
  BY <1>1, StepAppends, Zenon
<1>3. PICK old \in StoredCase : old = caseFile[c]
  BY <1>1, Zenon DEF CaseStoreInv, CaseStoreTypeOK
<1>4. PICK new : new = caseFile'[c]
  BY Zenon
<1>5. new = old \/ new.revision = old.revision + 1
  BY <1>2, <1>3, <1>4, ZenonT(30) DEF Appended
<1>6. r <= old.revision /\ old.revision \in Nat
  BY <1>3, Zenon DEF Known, StoredCase
<1>7. r <= new.revision
  BY <1>5, <1>6
<1> QED
  BY <1>2, <1>4, <1>7, Zenon DEF Known

\* What a handler remembers after the first write: the Case the store returned,
\* which holds the Event, and its revision.
Remembered(h, n, c, r) ==
  /\ request' = [request EXCEPT ![h] = [event |-> n, case |-> c, revision |-> r]]
  /\ caseFile'[c] # None /\ caseFile'[c].revision = r
  /\ Holds(caseFile', [event |-> n, case |-> c])

\* RecordCase remembers what it recorded.
LEMMA RecordCaseRemembers ==
  ASSUME IntakeInv, [Next]_vars, NEW h \in Handler, NEW event \in Input, NEW now \in Times,
         RecordCase(h, event, now)
  PROVE  \E n \in Event, c \in CaseID, r \in Nat : Remembered(h, n, c, r)
<1>1. PICK c \in CaseID :
        /\ \/ c = Indexed(event) /\ Update(event, now, TRUE)
           \/ c = Indexed(event) /\ Replay(event, now)
           \/ Create(event, c, now, TRUE)
        /\ request' = [request EXCEPT ![h] =
                         [event |-> Normalize(event), case |-> c,
                          revision |-> byID'[c].revision]]
  BY Zenon DEF RecordCase
<1>2. CaseStoreInv' /\ AcceptedEventsKept'
  BY StoresStep, Zenon
<1>3. Accept(event, c) /\ caseUp'
  <2>1. CASE c = Indexed(event) /\ Update(event, now, TRUE)
    BY <2>1, Zenon DEF Update, Submitted
  <2>2. CASE c = Indexed(event) /\ Replay(event, now)
    BY <2>2, Zenon DEF Replay, Submitted
  <2>3. CASE Create(event, c, now, TRUE)
    BY <2>3, Zenon DEF Create, Submitted
  <2> QED
    BY <1>1, <2>1, <2>2, <2>3, ZenonT(30)
<1>4. PICK n : n = Normalize(event)
  BY Zenon
<1>5. n \in Event
  BY <1>4, CasefileAssumption, NormalizeFields, ZenonT(30)
<1>6. Holds(caseFile', [event |-> n, case |-> c])
  <2>1. [event |-> n, case |-> c] \in accepted'
    BY <1>3, <1>4, Zenon DEF Accept
  <2> QED
    BY <1>2, <2>1, Zenon DEF AcceptedEventsKept, Holds
<1>7. byID' = caseFile'
  BY <1>2, <1>3, Zenon DEF CaseStoreInv, MemoryIsRebuildable
<1>8. caseFile'[c] # None
  BY <1>6, Zenon DEF Holds
<1>9. caseFile'[c] \in StoredCase
  BY <1>2, <1>8, Zenon DEF CaseStoreInv, CaseStoreTypeOK
<1>10. PICK r \in Nat : r = caseFile'[c].revision
  BY <1>9, Zenon DEF StoredCase
<1>11. request' = [request EXCEPT ![h] = [event |-> n, case |-> c, revision |-> r]]
  BY <1>1, <1>4, <1>7, <1>10, ZenonT(30)
<1> QED
  BY <1>5, <1>6, <1>8, <1>10, <1>11, ZenonT(30) DEF Remembered

-----------------------------------------------------------------------------
(* The conjuncts of the invariant.                                         *)

\* A running store has the Cases of the file, so a reconciliation lists Cases
\* and revisions of the file.
LEMMA PendingListed ==
  ASSUME CaseStoreInv, caseUp
  PROVE  /\ Pending \subseteq [case : CaseID, revision : Nat]
         /\ \A item \in Pending : Known(item.case, item.revision)
         /\ \A c \in CaseID :
              IsPending(c) => [case |-> c, revision |-> caseFile[c].revision] \in Pending
<1>1. byID = caseFile
  BY Zenon DEF CaseStoreInv, MemoryIsRebuildable
<1>2. \A c \in CaseID : caseFile[c] # None => caseFile[c].revision \in Nat
  BY Zenon DEF CaseStoreInv, CaseStoreTypeOK, StoredCase
<1> QED
  BY <1>1, <1>2 DEF Pending, Known, IsPending

\* A step leaves the process's state well typed.
LEMMA TypeStep ==
  ASSUME IntakeInv, [Next]_vars
  PROVE  IntakeTypeOK'
<1>1. IntakeTypeOK /\ PhaseOpens /\ CaseStoreInv
  BY Zenon DEF IntakeInv
<1>2. CASE StartCaseStore \/ Serve \/ ReconcileFails \/ UNCHANGED vars
  BY <1>1, <1>2, Zenon DEF StartCaseStore, Serve, ReconcileFails, vars, IntakeTypeOK
<1>3. CASE StartOutbox \/ Reconcile
  <2>1. caseUp
    BY <1>1, <1>3, Zenon DEF StartOutbox, Reconcile, PhaseOpens
  <2>2. todo' = Pending /\ UNCHANGED <<request, answered>>
    BY <1>3, Zenon DEF StartOutbox, Reconcile
  <2> QED
    BY <1>1, <2>1, <2>2, PendingListed, SMTT(30) DEF IntakeTypeOK
<1>4. CASE Crash
  BY <1>1, <1>4, Zenon DEF Crash, IntakeTypeOK
<1>5. ASSUME NEW h \in Handler, NEW event \in Input, NEW now \in Times,
             RecordCase(h, event, now)
      PROVE  IntakeTypeOK'
  <2>1. PICK n \in Event, c \in CaseID, r \in Nat : Remembered(h, n, c, r)
    BY <1>5, RecordCaseRemembers, Zenon
  <2>2. request' = [request EXCEPT ![h] = [event |-> n, case |-> c, revision |-> r]]
    BY <2>1, Zenon DEF Remembered
  <2>3. [event |-> n, case |-> c, revision |-> r] \in Answer
    BY Zenon DEF Answer
  <2>4. UNCHANGED <<todo, answered>>
    BY <1>5, Zenon DEF RecordCase
  <2> QED
    BY <1>1, <2>2, <2>3, <2>4, SMTT(30) DEF IntakeTypeOK
<1>6. ASSUME NEW h \in Handler, NEW now \in Times, Schedule(h, now)
      PROVE  IntakeTypeOK'
  <2>1. request[h] \in Answer
    BY <1>1, <1>6, RunningRequest, Zenon DEF Schedule
  <2> QED
    BY <1>1, <1>6, <2>1, SMTT(30) DEF Schedule, IntakeTypeOK
<1>7. ASSUME NEW h \in Handler, ScheduleFails(h)
      PROVE  IntakeTypeOK'
  BY <1>1, <1>7, Zenon DEF ScheduleFails, IntakeTypeOK
<1>8. ASSUME NEW now \in Times, ReconcileCase(now)
      PROVE  IntakeTypeOK'
  BY <1>1, <1>8, Zenon DEF ReconcileCase, IntakeTypeOK
<1>9. ASSUME NEW w \in Worker, NEW now \in Times, Work(w, now)
      PROVE  IntakeTypeOK'
  BY <1>1, <1>9, Zenon DEF Work, IntakeTypeOK
<1> QED
  BY <1>2, <1>3, <1>4, <1>5, <1>6, <1>7, <1>8, <1>9, SMTT(30) DEF Next

\* main opens the stores in order and a crash closes both.
LEMMA PhaseStep ==
  ASSUME IntakeInv, [Next]_vars
  PROVE  PhaseOpens'
<1>1. PhaseOpens /\ caseUp \in BOOLEAN /\ outboxUp \in BOOLEAN
  BY Zenon DEF IntakeInv, CaseStoreInv, CaseStoreTypeOK, OutboxInv, OutboxTypeOK
<1>2. CASE StartCaseStore
  BY <1>1, <1>2, Zenon DEF StartCaseStore, OpenCaseStore, outboxVars, PhaseOpens
<1>3. CASE StartOutbox
  BY <1>1, <1>3, Zenon DEF StartOutbox, OpenInvestigationOutbox, caseVars, PhaseOpens
<1>4. CASE Crash
  BY <1>1, <1>4, Zenon DEF Crash, CaseStoreCrash, OutboxCrash, outboxVars, PhaseOpens
<1>5. CASE Serve
  BY <1>1, <1>5, Zenon DEF Serve, caseVars, outboxVars, PhaseOpens
<1>6. ASSUME UNCHANGED <<phase, caseUp, outboxUp>> PROVE PhaseOpens'
  BY <1>1, <1>6, Zenon DEF PhaseOpens
<1>7. CASE Reconcile \/ ReconcileFails \/ (\E h \in Handler : ScheduleFails(h)) \/ UNCHANGED vars
  BY <1>6, <1>7, SMTT(30) DEF Reconcile, ReconcileFails, ScheduleFails, caseVars, outboxVars, vars
<1>8. ASSUME NEW h \in Handler, NEW event \in Input, NEW now \in Times,
             RecordCase(h, event, now)
      PROVE  PhaseOpens'
  <2>1. UNCHANGED caseUp
    BY <1>8, ZenonT(30) DEF RecordCase, Update, Replay, Create
  <2> QED
    BY <1>6, <1>8, <2>1, SMTT(30) DEF RecordCase, outboxVars
<1>9. CASE \/ \E h \in Handler, now \in Times : Schedule(h, now)
           \/ \E now \in Times : ReconcileCase(now)
  BY <1>6, <1>9, ZenonT(30) DEF Schedule, ReconcileCase, EnsurePending, caseVars
<1>10. CASE \E w \in Worker, now \in Times : Work(w, now)
  <2>1. UNCHANGED <<phase, caseUp>>
    BY <1>10, Zenon DEF Work, caseVars
  <2>2. UNCHANGED outboxUp
    BY <1>10, ZenonT(30) DEF Work, LeaseNext, Complete, Retry, Abandon
  <2> QED
    BY <1>6, <2>1, <2>2, Zenon
<1> QED
  BY <1>2, <1>3, <1>4, <1>5, <1>7, <1>8, <1>9, <1>10, SMTT(30) DEF Next

\* What EnsurePending has accepted never decreases.
LEMMA EnsuredGrows ==
  ASSUME OutboxInv, [OutboxStep]_outboxVars, NEW d \in CaseID
  PROVE  ensured'[d] >= ensured[d]
<1>1. ensured[d] \in Nat
  BY Zenon DEF OutboxInv, OutboxTypeOK
<1>2. ASSUME NEW c \in CaseID, NEW r \in Nat, NEW now \in Times, NEW ok \in BOOLEAN,
             EnsurePending(c, r, now, ok)
      PROVE  ensured'[d] >= ensured[d]
  BY <1>2, EnsurePendingEffects, Zenon
<1>3. CASE UNCHANGED ensured
  BY <1>1, <1>3, SMTT(30)
<1>4. CASE OutboxNext
  <2>1. 1..MaxRevision \subseteq Nat
    BY OutboxAssumption, SMTT(30)
  <2>2. \/ \E c \in CaseID, r \in Nat, now \in Times, ok \in BOOLEAN :
             EnsurePending(c, r, now, ok)
        \/ UNCHANGED ensured
    BY <1>4, <2>1, ZenonT(30) DEF OutboxNext, LeaseNext, Complete, Retry, Abandon, OutboxCrash,
                      OpenInvestigationOutbox
  <2> QED
    BY <1>2, <1>3, <2>2, SMTT(30)
<1> QED
  BY <1>2, <1>3, <1>4, Zenon DEF OutboxStep, outboxVars

\* What handlers, the reconciliation and answers name stays in the Case file.
LEMMA WorkStep ==
  ASSUME IntakeInv, [Next]_vars
  PROVE  WorkIsKnown'
<1>1. IntakeTypeOK /\ PhaseOpens /\ CaseStoreInv /\ OutboxInv /\ WorkIsKnown
  BY Zenon DEF IntakeInv
<1>2. [CaseStoreNext]_caseVars /\ [OutboxStep]_outboxVars
  BY <1>1, StepOfCaseStore, StepOfOutbox, SMTT(30)
<1>3. \A c \in CaseID, r \in Nat : Known(c, r) => Known(c, r)'
  BY <1>1, <1>2, KnownStays, SMTT(30)
<1>4. \A c \in CaseID, r \in Nat : ensured[c] >= r => ensured'[c] >= r
  <2> SUFFICES ASSUME NEW c \in CaseID, NEW r \in Nat, ensured[c] >= r
               PROVE  ensured'[c] >= r
    BY Zenon
  <2>1. ensured[c] \in Nat /\ ensured'[c] \in Nat
    <3>1. OutboxInv'
      BY StoresStep, Zenon
    <3> QED
      BY <1>1, <3>1, Zenon DEF OutboxInv, OutboxTypeOK
  <2> QED
    BY <1>1, <1>2, <2>1, EnsuredGrows, SMTT(30)
<1> DEFINE Requests == \A h \in Handler :
                         request[h] # Idle => Known(request[h].case, request[h].revision)
           Todo == \A item \in todo : Known(item.case, item.revision)
           Answers == \A a \in answered :
                        Known(a.case, a.revision) /\ ensured[a.case] >= a.revision
<1>5. ASSUME UNCHANGED request PROVE Requests'
  <2> SUFFICES ASSUME NEW h \in Handler, request[h] # Idle
               PROVE  Known(request[h].case, request[h].revision)'
    BY <1>5, Zenon
  <2>1. PICK c \in CaseID, r \in Nat : c = request[h].case /\ r = request[h].revision
    BY <1>1, RunningRequest, Zenon
  <2>2. Known(c, r)
    BY <1>1, <2>1, ZenonT(30) DEF WorkIsKnown
  <2>3. Known(c, r)'
    BY <1>3, <2>2, Zenon
  <2> QED
    BY <1>5, <2>1, <2>3, ZenonT(30) DEF Known
<1>6. ASSUME NEW h \in Handler, request' = [request EXCEPT ![h] = Idle] PROVE Requests'
  <2> SUFFICES ASSUME NEW g \in Handler, request'[g] # Idle
               PROVE  Known(request[g].case, request[g].revision)'
    BY Zenon
  <2>1. request'[g] = request[g]
    BY <1>1, <1>6, SMTT(30) DEF IntakeTypeOK
  <2>2. PICK c \in CaseID, r \in Nat : c = request[g].case /\ r = request[g].revision
    BY <1>1, <2>1, RunningRequest, SMTT(30)
  <2>3. Known(c, r)
    BY <1>1, <2>1, <2>2, ZenonT(30) DEF WorkIsKnown
  <2>4. Known(c, r)'
    BY <1>3, <2>3, SMTT(30)
  <2> QED
    BY <2>1, <2>2, <2>4, ZenonT(30) DEF Known
<1>7. ASSUME todo' \subseteq todo PROVE Todo'
  <2> SUFFICES ASSUME NEW item \in todo PROVE Known(item.case, item.revision)'
    BY <1>7, Zenon
  <2>1. item.case \in CaseID /\ item.revision \in Nat
    BY <1>1, SMTT(30) DEF IntakeTypeOK
  <2> QED
    BY <1>1, <1>3, <2>1, SMTT(30) DEF WorkIsKnown
<1>8. ASSUME UNCHANGED answered PROVE Answers'
  <2> SUFFICES ASSUME NEW a \in answered
               PROVE  Known(a.case, a.revision)' /\ ensured'[a.case] >= a.revision
    BY <1>8, Zenon
  <2>1. a.case \in CaseID /\ a.revision \in Nat
    BY <1>1, Zenon DEF IntakeTypeOK, Answer
  <2> QED
    BY <1>1, <1>3, <1>4, <2>1, SMTT(30) DEF WorkIsKnown
<1>9. CASE StartCaseStore \/ Serve \/ ReconcileFails \/ UNCHANGED vars
  <2>1. UNCHANGED <<request, answered>> /\ todo' \subseteq todo
    BY <1>9, Zenon DEF StartCaseStore, Serve, ReconcileFails, vars
  <2> QED
    BY <1>5, <1>7, <1>8, <2>1, SMTT(30) DEF WorkIsKnown
<1>10. CASE StartOutbox \/ Reconcile
  <2>1. caseUp
    BY <1>1, <1>10, Zenon DEF StartOutbox, Reconcile, PhaseOpens
  <2>2. todo' = Pending /\ UNCHANGED <<caseVars, request, answered>>
    BY <1>10, Zenon DEF StartOutbox, Reconcile
  <2>3. Todo'
    BY <1>1, <2>1, <2>2, PendingListed, SMTT(30) DEF Known, caseVars
  <2> QED
    BY <1>5, <1>8, <2>2, <2>3, SMTT(30) DEF WorkIsKnown
<1>11. CASE Crash
  <2>1. Requests' /\ Todo' /\ UNCHANGED answered
    BY <1>11, Zenon DEF Crash
  <2> QED
    BY <1>8, <2>1, SMTT(30) DEF WorkIsKnown
<1>12. ASSUME NEW h \in Handler, NEW event \in Input, NEW now \in Times,
              RecordCase(h, event, now)
       PROVE  WorkIsKnown'
  <2>1. PICK n \in Event, c \in CaseID, r \in Nat : Remembered(h, n, c, r)
    BY <1>12, RecordCaseRemembers, Zenon
  <2>2. /\ request' = [request EXCEPT ![h] = [event |-> n, case |-> c, revision |-> r]]
        /\ caseFile'[c] # None /\ r = caseFile'[c].revision
    BY <2>1, ZenonT(30) DEF Remembered
  <2>3. UNCHANGED <<todo, answered>>
    BY <1>12, Zenon DEF RecordCase
  <2>4. Known(c, r)'
    BY <2>2 DEF Known
  <2>5. Requests'
    <3> SUFFICES ASSUME NEW g \in Handler, request'[g] # Idle
                 PROVE  Known(request[g].case, request[g].revision)'
      BY Zenon
    <3>1. CASE g = h
      <4>1. request'[g].case = c /\ request'[g].revision = r
        BY <1>1, <2>2, <3>1, Zenon DEF IntakeTypeOK
      <4> QED
        BY <2>4, <4>1, ZenonT(30) DEF Known
    <3>2. CASE g # h
      <4>1. request'[g] = request[g]
        BY <1>1, <2>2, <3>2, SMTT(30) DEF IntakeTypeOK
      <4>2. PICK d \in CaseID, s \in Nat : d = request[g].case /\ s = request[g].revision
        BY <1>1, <4>1, RunningRequest, SMTT(30)
      <4>3. Known(d, s)
        BY <1>1, <4>1, <4>2, ZenonT(30) DEF WorkIsKnown
      <4>4. Known(d, s)'
        BY <1>3, <4>3, SMTT(30)
      <4> QED
        BY <4>1, <4>2, <4>4, ZenonT(30) DEF Known
    <3> QED
      BY <3>1, <3>2, Zenon
  <2> QED
    BY <1>7, <1>8, <2>3, <2>5, SMTT(30) DEF WorkIsKnown
<1>13. ASSUME NEW h \in Handler, NEW now \in Times, Schedule(h, now)
       PROVE  WorkIsKnown'
  <2>1. PICK c \in CaseID, r \in Nat : c = request[h].case /\ r = request[h].revision
    BY <1>1, <1>13, RunningRequest, Zenon DEF Schedule
  <2>2. EnsurePending(c, r, now, TRUE)
    BY <1>13, <2>1, ZenonT(30) DEF Schedule
  <2>3. ensured'[c] >= r
    BY <1>1, <2>2, EnsurePendingEffects, ZenonT(30)
  <2>4. Known(c, r)'
    <3>1. Known(c, r)
      BY <1>1, <1>13, <2>1, ZenonT(30) DEF WorkIsKnown, Schedule
    <3> QED
      BY <1>3, <3>1, Zenon
  <2>5. /\ answered' = answered \cup {request[h]}
        /\ request' = [request EXCEPT ![h] = Idle] /\ UNCHANGED todo
    BY <1>13, Zenon DEF Schedule
  <2>6. Answers'
    <3> SUFFICES ASSUME NEW a \in answered'
                 PROVE  Known(a.case, a.revision)' /\ ensured'[a.case] >= a.revision
      BY Zenon
    <3>1. CASE a = request[h]
      BY <2>1, <2>3, <2>4, <3>1, ZenonT(30) DEF Known
    <3>2. CASE a \in answered
      <4>1. a.case \in CaseID /\ a.revision \in Nat
        BY <1>1, <3>2, SMTT(30) DEF IntakeTypeOK, Answer
      <4> QED
        BY <1>1, <1>3, <1>4, <3>2, <4>1, SMTT(30) DEF WorkIsKnown
    <3> QED
      BY <2>5, <3>1, <3>2, SMTT(30)
  <2> QED
    BY <1>6, <1>7, <2>5, <2>6, ZenonT(30) DEF WorkIsKnown
<1>14. ASSUME NEW h \in Handler, ScheduleFails(h)
       PROVE  WorkIsKnown'
  BY <1>6, <1>7, <1>8, <1>14, ZenonT(30) DEF ScheduleFails, WorkIsKnown
<1>15. CASE \/ \E now \in Times : ReconcileCase(now)
            \/ \E w \in Worker, now \in Times : Work(w, now)
  <2>1. UNCHANGED <<request, answered>> /\ todo' \subseteq todo
    BY <1>15, ZenonT(30) DEF ReconcileCase, Work
  <2> QED
    BY <1>5, <1>7, <1>8, <2>1, Zenon DEF WorkIsKnown
<1> QED
  BY <1>9, <1>10, <1>11, <1>12, <1>13, <1>14, <1>15, SMTT(30) DEF Next

\* The tasks and the leases name work that the Case file has.
LEMMA OrphansStep ==
  ASSUME IntakeInv, [Next]_vars
  PROVE  NoOrphanTask'
<1>1. IntakeTypeOK /\ CaseStoreInv /\ OutboxInv /\ WorkIsKnown /\ OutboxTypeOK
  BY Zenon DEF IntakeInv, OutboxInv
<1> DEFINE After(c, r) == caseFile'[c] # None /\ r <= caseFile'[c].revision
<1>2. \A c \in CaseID, r \in Nat : Known(c, r) => After(c, r)
  BY <1>1, StepOfCaseStore, KnownStays, SMTT(30) DEF Known
<1>3. /\ \A id \in TaskID : outboxFile[id] # None =>
           /\ outboxFile[id].caseID \in CaseID /\ outboxFile[id].caseRevision \in Nat
           /\ Known(outboxFile[id].caseID, outboxFile[id].caseRevision)
      /\ \A w \in Worker : held[w] # None =>
           /\ held[w].caseID \in CaseID /\ held[w].revision \in Nat
           /\ Known(held[w].caseID, held[w].revision)
  <2>1. NoOrphanTask
    BY Zenon DEF IntakeInv
  <2>2. /\ \A id \in TaskID : outboxFile[id] # None => outboxFile[id] \in Task
        /\ \A w \in Worker : held[w] # None => held[w] \in Lease
    BY <1>1, Zenon DEF OutboxTypeOK
  <2> QED
    BY <2>1, <2>2, Zenon DEF NoOrphanTask, Known, Task, Lease
<1>4. /\ \A id \in TaskID : outboxFile[id] # None =>
           After(outboxFile[id].caseID, outboxFile[id].caseRevision)
      /\ \A w \in Worker : held[w] # None => After(held[w].caseID, held[w].revision)
  <2> HIDE DEF After
  <2> QED
    BY <1>2, <1>3, SMTT(30)
<1> DEFINE Tasks == \A id \in TaskID : outboxFile'[id] # None =>
                      After(outboxFile'[id].caseID, outboxFile'[id].caseRevision)
           Leases == \A w \in Worker :
                       held'[w] # None => After(held'[w].caseID, held'[w].revision)
<1> SUFFICES Tasks /\ Leases
  BY Zenon DEF NoOrphanTask
<1> HIDE DEF After
<1>5. CASE UNCHANGED <<outboxFile, held>>
  BY <1>4, <1>5, SMTT(30)
<1>6. ASSUME NEW c \in CaseID, NEW r \in Nat, Known(c, r), NEW now \in Times,
             EnsurePending(c, r, now, TRUE)
      PROVE  Tasks /\ Leases
  <2>1. /\ \A id \in TaskID :
             outboxFile'[id] # None =>
               \/ SameWork(outboxFile'[id], outboxFile[id])
               \/ outboxFile'[id].caseID = c /\ outboxFile'[id].caseRevision = r
        /\ UNCHANGED held
    BY <1>1, <1>6, EnsurePendingEffects, ZenonT(30)
  <2>2. After(c, r)
    BY <1>2, <1>6, Zenon
  <2> QED
    BY <1>4, <2>1, <2>2, SMTT(30) DEF SameWork
<1>7. ASSUME NEW h \in Handler, NEW now \in Times, Schedule(h, now)
      PROVE  Tasks /\ Leases
  <2>1. PICK c \in CaseID, r \in Nat : c = request[h].case /\ r = request[h].revision
    BY <1>1, <1>7, RunningRequest, Zenon DEF Schedule
  <2>2. EnsurePending(c, r, now, TRUE) /\ Known(c, r)
    BY <1>1, <1>7, <2>1, ZenonT(30) DEF Schedule, WorkIsKnown
  <2> QED
    BY <1>6, <2>2, ZenonT(30)
<1>8. ASSUME NEW now \in Times, ReconcileCase(now)
      PROVE  Tasks /\ Leases
  <2>1. PICK item \in todo : EnsurePending(item.case, item.revision, now, TRUE)
    BY <1>8, ZenonT(30) DEF ReconcileCase
  <2>2. item.case \in CaseID /\ item.revision \in Nat /\ Known(item.case, item.revision)
    BY <1>1, Zenon DEF IntakeTypeOK, WorkIsKnown
  <2> QED
    BY <1>6, <2>1, <2>2, ZenonT(30)
<1>9. ASSUME NEW w \in Worker, NEW now \in Times, Work(w, now)
      PROVE  Tasks /\ Leases
  <2>1. WorkerStep(w, now, TRUE)
    BY <1>9, ZenonT(30) DEF Work, WorkerStep
  <2>2. /\ \A id \in TaskID :
             outboxFile'[id] # None => SameWork(outboxFile'[id], outboxFile[id])
        /\ \A v \in Worker :
             held'[v] # None => held'[v] = held[v] \/ LeaseOfTask(held'[v])
    BY <1>1, <2>1, WorkerEffects, ZenonT(30)
  <2>3. Tasks
    BY <1>4, <2>2, Zenon DEF SameWork
  <2>4. Leases
    BY <1>4, <2>2, Zenon DEF LeaseOfTask
  <2> QED
    BY <2>3, <2>4, Zenon
<1>10. CASE \/ StartCaseStore \/ StartOutbox \/ Serve \/ Crash \/ Reconcile \/ ReconcileFails
            \/ \E h \in Handler, event \in Input, now \in Times : RecordCase(h, event, now)
            \/ \E h \in Handler : ScheduleFails(h)
            \/ UNCHANGED vars
  <2>1. UNCHANGED <<outboxFile, held>>
    BY <1>10, Zenon DEF StartCaseStore, StartOutbox, Serve, Crash, Reconcile, ReconcileFails,
         RecordCase, ScheduleFails, vars, outboxVars, OutboxCrash, OpenInvestigationOutbox
  <2> QED
    BY <1>5, <2>1, SMTT(30)
<1> QED
  BY <1>7, <1>8, <1>9, <1>10, SMTT(30) DEF Next

\* Only what it has scheduled leaves the list of the startup reconciliation.
LEMMA StartupStep ==
  ASSUME IntakeInv, [Next]_vars
  PROVE  StartupProgress'
<1>1. /\ IntakeTypeOK /\ PhaseOpens /\ CaseStoreInv /\ OutboxInv
      /\ StartupProgress /\ WorkIsKnown
  BY Zenon DEF IntakeInv
<1>2. CASE phase' # "starting"
  BY <1>2, SMTT(30) DEF StartupProgress
<1>3. CASE StartOutbox
  <2>1. caseUp /\ todo' = Pending /\ UNCHANGED caseFile
    BY <1>1, <1>3, Zenon DEF StartOutbox, PhaseOpens, caseVars
  <2> QED
    BY <1>1, <2>1, PendingListed, SMTT(30) DEF StartupProgress, IsPending
<1>4. ASSUME NEW now \in Times, ReconcileCase(now), phase' = "starting"
      PROVE  StartupProgress'
  <2>1. PICK item \in todo :
          /\ EnsurePending(item.case, item.revision, now, TRUE)
          /\ todo' = todo \ {item} /\ UNCHANGED <<caseVars, phase>>
    BY <1>4, ZenonT(30) DEF ReconcileCase
  <2>2. PICK c \in CaseID, r \in Nat : item = [case |-> c, revision |-> r]
    BY <1>1, Zenon DEF IntakeTypeOK
  <2>3. EnsurePending(c, r, now, TRUE)
    BY <2>1, <2>2, ZenonT(30)
  <2>4. /\ \A d \in CaseID : Due(d)' >= Due(d)
        /\ Due(c)' >= r
    BY <1>1, <2>3, EnsurePendingEffects, ZenonT(30)
  <2>5. \A d \in CaseID : Due(d) \in Nat /\ Due(d)' \in Nat
    <3>1. OutboxTypeOK /\ OutboxTypeOK'
      BY <1>1, StoresStep, Zenon DEF OutboxInv
    <3> QED
      BY <3>1, OutboxAssumption, ZenonT(30) DEF OutboxTypeOK, Due, Task
  <2>6. UNCHANGED caseFile /\ phase = "starting"
    BY <1>4, <2>1, SMTT(30) DEF caseVars
  <2> SUFFICES ASSUME NEW d \in CaseID, IsPending(d)
               PROVE  \/ [case |-> d, revision |-> caseFile[d].revision] \in todo'
                      \/ Due(d)' >= caseFile[d].revision
    BY <2>6, SMTT(30) DEF StartupProgress, IsPending
  <2>7. caseFile[d].revision \in Nat
    BY <1>1, SMTT(30) DEF IsPending, CaseStoreInv, CaseStoreTypeOK, StoredCase
  <2>8. CASE Due(d) >= caseFile[d].revision
    BY <2>4, <2>5, <2>7, <2>8, SMTT(30)
  <2>9. CASE [case |-> d, revision |-> caseFile[d].revision] \in todo
    BY <2>1, <2>2, <2>4, <2>9, ZenonT(30)
  <2> QED
    BY <1>1, <2>6, <2>8, <2>9, SMTT(30) DEF StartupProgress
<1>5. CASE UNCHANGED vars
  BY <1>1, <1>5, ZenonT(30) DEF StartupProgress, vars, caseVars, outboxVars, IsPending, Due
<1>6. CASE \/ StartCaseStore \/ Serve \/ Crash \/ Reconcile \/ ReconcileFails
           \/ \E h \in Handler, event \in Input, now \in Times : RecordCase(h, event, now)
           \/ \E h \in Handler, now \in Times : Schedule(h, now)
           \/ \E h \in Handler : ScheduleFails(h)
           \/ \E w \in Worker, now \in Times : Work(w, now)
  BY <1>2, <1>6, Zenon DEF StartCaseStore, Serve, Crash, Reconcile, ReconcileFails, RecordCase,
                    Schedule, ScheduleFails, Work
<1> QED
  BY <1>2, <1>3, <1>4, <1>5, <1>6, SMTT(30) DEF Next

\* The process starts, down, in a state that satisfies the invariant.
LEMMA IntakeInitInv == Init => IntakeInv
<1> SUFFICES ASSUME Init PROVE IntakeInv
  BY Zenon
<1>1. CaseStoreInv /\ AcceptedEventsKept /\ OutboxInv
  BY CaseStoreInitInv, InitAccepted, OutboxInitInv, SMTT(30) DEF Init
<1>2. IntakeTypeOK /\ PhaseOpens /\ WorkIsKnown /\ StartupProgress
  BY SMTT(30) DEF Init, CaseStoreInit, OutboxInit, IntakeTypeOK, PhaseOpens, WorkIsKnown,
       StartupProgress
<1>3. NoOrphanTask
  BY Zenon DEF Init, OutboxInit, NoTasks, NoOrphanTask
<1> QED
  BY <1>1, <1>2, <1>3, Zenon DEF IntakeInv

\* Every step of the process preserves the invariant.
LEMMA IntakeNextInv == IntakeInv /\ [Next]_vars => IntakeInv'
  BY StoresStep, TypeStep, PhaseStep, WorkStep, OrphansStep, StartupStep, SMTT(30) DEF IntakeInv

\* The inductive invariant holds in every reachable state of the process.
THEOREM IntakeInvariant == Spec => []IntakeInv
  BY IntakeInitInv, IntakeNextInv, PTL DEF Spec

-----------------------------------------------------------------------------
(* What the process promises.                                              *)

\* RecordEvent writes the Case before its task: no crash, cancelled request,
\* failed write or stale handler ever leaves a task or a lease for a Case or a
\* revision that the Case file does not have.
THEOREM TasksNameRecordedCases == Spec => []NoOrphanTask
<1>1. IntakeInv => NoOrphanTask
  BY Zenon DEF IntakeInv
<1> QED
  BY <1>1, IntakeInvariant, PTL

\* The startup reconciliation that main waits for repairs every gap that an
\* earlier run left between the two files before the server listens.
THEOREM RestartRepairsGap == Spec => StartupClosesGap
<1>1. IntakeInv /\ [Next]_vars =>
        [(phase # "serving" /\ phase' = "serving") =>
           \A c \in CaseID :
             (caseFile[c] # None /\ caseFile[c].incident.status = "pending_investigation")
               => Due(c) >= caseFile[c].revision]_vars
  <2> SUFFICES ASSUME IntakeInv, Next, phase # "serving", phase' = "serving",
                      NEW c \in CaseID, IsPending(c)
               PROVE  Due(c) >= caseFile[c].revision
    BY SMTT(30) DEF IsPending
  <2>1. phase = "starting" /\ todo = {}
    BY Zenon DEF Next, StartCaseStore, StartOutbox, Serve, Crash, RecordCase, Schedule,
           ScheduleFails, Reconcile, ReconcileCase, ReconcileFails, Work
  <2> QED
    BY <2>1, Zenon DEF IntakeInv, StartupProgress
<1> QED
  BY <1>1, IntakeInvariant, PTL DEF Spec, StartupClosesGap

\* The whole process is a Case store: its handlers, reconciliations, workers
\* and crashes do to the Cases only what module CaseStore allows, so that all
\* that is proved of CaseStoreSpec holds of the process.
THEOREM ProcessIsCaseStore == Spec => CaseStoreSpec
<1>1. Init => CaseStoreInit
  BY Zenon DEF Init
<1> QED
  BY <1>1, StepOfCaseStore, PTL DEF Spec, CaseStoreSpec

\* The whole process delivers at least once: from RecordEvent's handlers to the
\* workers, with crashes in between, it implements module Delivery.
THEOREM ProcessDelivers == Spec => ImplementsDelivery
<1>1. Init => Promise!Init
  BY InitDelivers, Zenon DEF Init
<1>2. IntakeInv /\ [Next]_vars => [Promise!Next]_<<[c \in CaseID |-> Due(c)], acked>>
  BY StepOfOutbox, StepDelivers, SMTT(30) DEF IntakeInv
<1> QED
  BY <1>1, <1>2, IntakeInvariant, PTL DEF Spec, ImplementsDelivery, Promise!Spec

-----------------------------------------------------------------------------
(* Answered Events.                                                        *)

\* An Event stays at its place in its Case.
LEMMA PlacedStays ==
  ASSUME CaseStoreInv, [CaseStoreNext]_caseVars, NEW a \in Answer, caseFile[a.case] # None,
         Placed(a)
  PROVE  Placed(a)'
<1>1. PICK c \in CaseID : c = a.case
  BY Zenon DEF Answer
<1>2. PICK k \in DOMAIN caseFile[c].incident.events :
        k <= a.revision /\ sameEvent(caseFile[c].incident.events[k], a.event)
  BY <1>1, ZenonT(30) DEF Placed
<1>3. /\ k \in DOMAIN caseFile'[c].incident.events
      /\ caseFile'[c].incident.events[k] = caseFile[c].incident.events[k]
  BY <1>1, StepKeepsEvents, Zenon
<1> QED
  BY <1>1, <1>2, <1>3, ZenonT(30) DEF Placed

\* What RecordCase remembers is placed.
LEMMA RememberedPlaced ==
  ASSUME CaseStoreInv', EventsWithinRevision', NEW h, NEW n \in Event, NEW c \in CaseID,
         NEW r \in Nat, Remembered(h, n, c, r), NEW a \in Answer,
         a = [event |-> n, case |-> c, revision |-> r]
  PROVE  Placed(a)'
<1>1. caseFile'[c] # None /\ caseFile'[c].revision = r
  BY Zenon DEF Remembered
<1>2. PICK k \in DOMAIN caseFile'[c].incident.events :
        sameEvent(caseFile'[c].incident.events[k], n)
  <2>1. PICK b : b = [event |-> n, case |-> c]
    BY Zenon
  <2>2. b.event = n /\ b.case = c
    BY <2>1, Zenon
  <2>3. Holds(caseFile', b)
    BY <2>1, ZenonT(30) DEF Remembered
  <2> QED
    BY <2>2, <2>3, ZenonT(30) DEF Holds
<1>3. PICK new \in StoredCase : new = caseFile'[c]
  BY <1>1, SMTT(30) DEF CaseStoreInv, CaseStoreTypeOK
<1>4. PICK s \in Seq(Event) : s = new.incident.events
  BY Zenon DEF StoredCase, StoredIncident
<1>5. Len(s) <= r /\ k \in DOMAIN s
  BY <1>1, <1>2, <1>3, <1>4, ZenonT(30) DEF EventsWithinRevision
<1>6. k <= r
  BY <1>5
<1>7. a.case = c /\ a.event = n /\ a.revision = r
  BY Zenon
<1> QED
  BY <1>2, <1>6, <1>7, ZenonT(30) DEF Placed

\* The invariant of the answers.
AnswersInv == EventsWithinRevision /\ EventsPlaced

\* Requests and answers keep naming Events that their Cases hold.
LEMMA AnswersStep ==
  ASSUME IntakeInv, AnswersInv, [Next]_vars
  PROVE  AnswersInv'
<1>1. IntakeTypeOK /\ CaseStoreInv /\ WorkIsKnown /\ EventsWithinRevision /\ EventsPlaced
  BY Zenon DEF IntakeInv, AnswersInv
<1>2. [CaseStoreNext]_caseVars
  BY StepOfCaseStore, Zenon
<1>3. EventsWithinRevision' /\ CaseStoreInv'
  BY <1>1, <1>2, StepWithinRevision, CaseStoreNextInv, SMTT(30)
<1>4. \A a \in Answer : caseFile[a.case] # None /\ Placed(a) => Placed(a)'
  BY <1>1, <1>2, PlacedStays, SMTT(30)
<1>5. ASSUME NEW h \in Handler, request[h] # Idle
      PROVE  \E a \in Answer : a = request[h] /\ Placed(a)'
  <2>1. PICK a \in Answer : a = request[h]
    BY <1>1, <1>5, RunningRequest, SMTT(30)
  <2>2. caseFile[a.case] # None /\ Placed(a)
    BY <1>1, <1>5, <2>1, ZenonT(30) DEF WorkIsKnown, Known, EventsPlaced
  <2> QED
    BY <1>4, <2>1, <2>2, SMTT(30)
<1>6. ASSUME NEW a \in answered PROVE a \in Answer /\ Placed(a)'
  <2>1. a \in Answer /\ caseFile[a.case] # None /\ Placed(a)
    BY <1>1, Zenon DEF IntakeTypeOK, WorkIsKnown, Known, EventsPlaced
  <2> QED
    BY <1>4, <2>1, SMTT(30)
<1>7. ASSUME NEW g \in Handler, request'[g] # Idle
      PROVE  \E a \in Answer : a = request'[g] /\ Placed(a)'
  <2>1. CASE request'[g] = request[g]
    BY <1>5, <1>7, <2>1, SMTT(30)
  <2>2. ASSUME NEW h \in Handler, request' = [request EXCEPT ![h] = Idle]
        PROVE  request'[g] = request[g]
    BY <1>1, <1>7, <2>2, SMTT(30) DEF IntakeTypeOK
  <2>3. ASSUME NEW h \in Handler, NEW event \in Input, NEW now \in Times,
               RecordCase(h, event, now)
        PROVE  \E a \in Answer : a = request'[g] /\ Placed(a)'
    <3>1. PICK n \in Event, c \in CaseID, r \in Nat : Remembered(h, n, c, r)
      BY <2>3, RecordCaseRemembers, Zenon
    <3>2. PICK a \in Answer : a = [event |-> n, case |-> c, revision |-> r]
      BY ZenonT(30) DEF Answer
    <3>3. Placed(a)'
      BY <1>3, <3>1, <3>2, RememberedPlaced, SMTT(30)
    <3>4. request'[g] = request[g] \/ request'[g] = a
      BY <1>1, <3>1, <3>2, SMTT(30) DEF Remembered, IntakeTypeOK
    <3> QED
      BY <2>1, <3>3, <3>4, SMTT(30)
  <2>4. \/ request'[g] = request[g]
        \/ \E h \in Handler : request' = [request EXCEPT ![h] = Idle]
        \/ \E h \in Handler, event \in Input, now \in Times : RecordCase(h, event, now)
    BY <1>7, ZenonT(30) DEF Next, StartCaseStore, StartOutbox, Serve, Crash, Schedule,
         ScheduleFails,
         Reconcile, ReconcileCase, ReconcileFails, Work, vars
  <2> QED
    BY <2>1, <2>2, <2>3, <2>4, SMTT(30)
<1>8. ASSUME NEW a \in answered' PROVE Placed(a)'
  <2>1. a \in answered \/ \E h \in Handler : request[h] # Idle /\ a = request[h]
    BY <1>8, ZenonT(30) DEF Next, StartCaseStore, StartOutbox, Serve, Crash, RecordCase, Schedule,
         ScheduleFails, Reconcile, ReconcileCase, ReconcileFails, Work, vars
  <2> QED
    BY <1>5, <1>6, <2>1, SMTT(30)
<1>9. EventsPlaced'
  <2>1. \A g \in Handler : request'[g] # Idle => Placed(request[g])'
    BY <1>7, Zenon DEF Placed
  <2> QED
    BY <1>8, <2>1, Zenon DEF EventsPlaced
<1> QED
  BY <1>3, <1>9, Zenon DEF AnswersInv

\* From Case files in which no Case has more Events than revisions, as this
\* code writes them: an Event answered 202 is in the Case file for ever, and
\* work that covers a revision with the Event exists or was completed.
THEOREM AnswersAreScheduled ==
  Spec /\ EventsWithinRevision => []AnsweredIsScheduled
<1>1. Init /\ EventsWithinRevision => AnswersInv
  BY Zenon DEF Init, AnswersInv, EventsPlaced
<1>2. IntakeInv /\ AnswersInv /\ [Next]_vars => AnswersInv'
  BY AnswersStep, Zenon
<1>3. IntakeInv /\ AnswersInv => AnsweredIsScheduled
  <2> SUFFICES ASSUME IntakeInv, AnswersInv, NEW a \in answered
               PROVE  /\ Covered(a.case, a.revision) /\ caseFile[a.case] # None
                      /\ Placed(a)
    BY SMTT(30) DEF AnsweredIsScheduled, Placed
  <2>1. /\ caseFile[a.case] # None /\ ensured[a.case] >= a.revision
        /\ a.case \in CaseID /\ a.revision \in Nat
    BY Zenon DEF IntakeInv, WorkIsKnown, Known, IntakeTypeOK, Answer
  <2>2. Covered(a.case, a.revision)
    <3>1. /\ ensured[a.case] <= Larger(Due(a.case), acked[a.case])
          /\ ensured[a.case] \in Nat /\ acked[a.case] \in Nat /\ Due(a.case) \in Nat
      BY <2>1, OutboxAssumption, ZenonT(30)
      DEF IntakeInv, OutboxInv, AtLeastOnce, OutboxTypeOK, Due, Task
    <3> QED
      BY <2>1, <3>1, SMTT(30) DEF Covered, Larger
  <2>3. Placed(a)
    BY Zenon DEF AnswersInv, EventsPlaced
  <2> QED
    BY <2>1, <2>2, <2>3, SMTT(30)
<1> QED
  BY <1>1, <1>2, <1>3, IntakeInvariant, PTL DEF Spec

=============================================================================

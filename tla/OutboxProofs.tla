---------------------------- MODULE OutboxProofs ----------------------------
(***************************************************************************)
(* Proofs about the investigation Outbox, for every set of Cases, workers, *)
(* tokens and times.  The inductive invariant is the conjunction of the    *)
(* invariants of module Outbox: none of them is inductive on its own.      *)
(* At-least-once delivery needs that an honoured lease is current (else    *)
(* Complete could settle a revision its worker never saw), which needs     *)
(* fresh tokens and the memory to match the file.                          *)
(***************************************************************************)
EXTENDS Outbox, TLAPS

\* The inductive invariant of the Outbox.
OutboxInv ==
  /\ OutboxTypeOK
  /\ MemoryMatchesFile
  /\ TaskFileLoadable
  /\ AtLeastOnce
  /\ HonouredLeaseIsCurrent

\* The initial state, an empty Outbox, satisfies the invariant.
LEMMA OutboxInitInv == OutboxInit => OutboxInv
<1> SUFFICES ASSUME OutboxInit PROVE OutboxInv
  OBVIOUS
<1>1. OutboxTypeOK /\ MemoryMatchesFile
  BY Zenon DEF OutboxInit, OutboxTypeOK, MemoryMatchesFile, NoTasks
<1>2. TaskFileLoadable /\ HonouredLeaseIsCurrent
  BY DEF OutboxInit, TaskFileLoadable, HonouredLeaseIsCurrent, NoTasks
<1>3. AtLeastOnce
  BY OutboxAssumption DEF OutboxInit, AtLeastOnce, Due, Larger, NoTasks
<1> QED
  BY <1>1, <1>2, <1>3 DEF OutboxInv

\* A persist that fails leaves the store as it was (Save with ok = FALSE).
LEMMA SaveFailed ==
  ASSUME NEW next, SaveTasks(next, FALSE)
  PROVE  UNCHANGED storeVars
  BY DEF SaveTasks, storeVars

\* A persist that succeeds makes both copies the next snapshot.
LEMMA SaveDone ==
  ASSUME NEW next, SaveTasks(next, TRUE)
  PROVE  outboxFile' = next /\ tasks' = next
  BY DEF SaveTasks

\* clearLease makes a pending task with no lease out of any task.
LEMMA ClearLeaseType ==
  ASSUME NEW t \in Task, NEW at \in Nat
  PROVE  LET u == clearLease([t EXCEPT !.status = "pending", !.availableAt = at])
         IN /\ u \in Task
            /\ u.caseID = t.caseID /\ u.caseRevision = t.caseRevision
            /\ u.status = "pending" /\ u.availableAt = at
            /\ u.leaseOwner = None /\ u.leaseToken = None
            /\ u.leaseUntil = 0 /\ u.leasedRevision = 0
  BY Zenon DEF clearLease, Task

\* EnsurePending preserves the invariant.
LEMMA EnsurePendingInv ==
  ASSUME OutboxInv, NEW c \in CaseID, NEW r \in Nat, NEW now \in Times,
         NEW ok \in BOOLEAN, EnsurePending(c, r, now, ok)
  PROVE  OutboxInv'
<1> DEFINE id == taskID[c]
           created == [caseID |-> c, caseRevision |-> r, status |-> "pending",
                       availableAt |-> now, leaseOwner |-> None,
                       leaseToken |-> None, leaseUntil |-> 0, leasedRevision |-> 0]
           raised == [tasks[id] EXCEPT !.caseRevision = r]
<1>1. /\ id \in TaskID /\ r \in Nat /\ r # 0 /\ now \in Nat /\ now # 0
      /\ created \in Task
  BY OutboxAssumption DEF EnsurePending, Task
<1>2. tasks = outboxFile /\ outboxUp /\ OutboxTypeOK
  BY DEF EnsurePending, OutboxInv, MemoryMatchesFile
<1>3. UNCHANGED <<outboxUp, held, acked>>
  BY DEF EnsurePending
<1>4. CASE UNCHANGED <<storeVars, ensured>>
  BY <1>3, <1>4 DEF OutboxInv, OutboxTypeOK, MemoryMatchesFile, TaskFileLoadable, AtLeastOnce,
                    HonouredLeaseIsCurrent, Due, storeVars
<1>5. ASSUME UNCHANGED storeVars, outboxFile[id] # None,
             outboxFile[id].caseID = c, r <= outboxFile[id].caseRevision,
             ensured' = [ensured EXCEPT ![c] = Larger(@, r)]
      PROVE  OutboxInv'
  <2>1. OutboxTypeOK'
    BY <1>1, <1>2, <1>3, <1>5 DEF OutboxTypeOK, storeVars, Larger
  <2>2. AtLeastOnce'
    BY <1>1, <1>2, <1>3, <1>5
      DEF OutboxInv, OutboxTypeOK, Task, AtLeastOnce, storeVars, Larger, Due
  <2> QED
    BY <2>1, <2>2, <1>3, <1>5
    DEF OutboxInv, MemoryMatchesFile, TaskFileLoadable, HonouredLeaseIsCurrent, storeVars
<1>6. ASSUME NEW t \in Task, t.caseID = c, t.caseRevision = r, validateTask(id, t),
             outboxFile' = [outboxFile EXCEPT ![id] = t],
             tasks' = [outboxFile EXCEPT ![id] = t],
             ensured' = [ensured EXCEPT ![c] = Larger(@, r)],
             \A w \in Worker :
               held[w] # None /\ t.leaseToken = held[w].token =>
                 /\ id = held[w].id
                 /\ t.leaseOwner = w
                 /\ t.caseID = held[w].caseID
                 /\ t.leasedRevision = held[w].revision,
             \/ outboxFile[id] = None
             \/ outboxFile[id].caseID = c /\ outboxFile[id].caseRevision < r
      PROVE  OutboxInv'
  <2>1. OutboxTypeOK'
    BY <1>1, <1>2, <1>3, <1>6 DEF OutboxTypeOK, Larger
  <2>2. MemoryMatchesFile' /\ TaskFileLoadable'
    BY <1>1, <1>2, <1>6 DEF OutboxInv, OutboxTypeOK, MemoryMatchesFile, TaskFileLoadable
  <2>3. AtLeastOnce'
    <3> SUFFICES ASSUME NEW d \in CaseID
                 PROVE  (ensured[d] <= Larger(Due(d), acked[d]))'
      BY DEF AtLeastOnce
    <3>1. ensured[d] <= Larger(Due(d), acked[d])
      BY DEF OutboxInv, AtLeastOnce
    <3>2. CASE d = c
      <4>1. Due(c)' = r /\ Due(c) <= r /\ Due(c) \in Nat
        BY <1>1, <1>2, <1>6, NoneAssumption DEF OutboxTypeOK, Task, Due
      <4> QED
        BY <1>1, <1>2, <1>3, <1>6, <3>1, <3>2, <4>1 DEF OutboxTypeOK, Larger
    <3>3. CASE d # c
      <4>1. Due(d)' = Due(d)
        BY <1>1, <1>2, <1>6, <3>3, OutboxAssumption DEF OutboxTypeOK, Due
      <4> QED
        BY <1>2, <1>3, <1>6, <3>1, <3>3, <4>1 DEF OutboxTypeOK
    <3> QED
      BY <3>2, <3>3
  <2>4. HonouredLeaseIsCurrent'
    BY <1>1, <1>2, <1>3, <1>6 DEF OutboxInv, OutboxTypeOK, HonouredLeaseIsCurrent
  <2> QED
    BY <2>1, <2>2, <2>3, <2>4 DEF OutboxInv
<1>7. CASE tasks[id] = None /\ SaveTasks([tasks EXCEPT ![id] = created], TRUE)
            /\ ensured' = [ensured EXCEPT ![c] = Larger(@, r)]
  <2>1. validateTask(id, created)
    BY <1>1 DEF validateTask
  <2>2. \A w \in Worker : held[w] # None => created.leaseToken # held[w].token
    BY <1>2, NoneAssumption DEF OutboxTypeOK, Lease
  <2> HIDE DEF created
  <2>3. created.caseID = c /\ created.caseRevision = r
    BY DEF created
  <2> QED
    BY <1>1, <1>2, <1>6, <1>7, <2>1, <2>2, <2>3, SaveDone, Zenon
<1>8. CASE /\ tasks[id] # None /\ tasks[id].caseID = c /\ r > tasks[id].caseRevision
           /\ SaveTasks([tasks EXCEPT ![id].caseRevision = r], TRUE)
           /\ ensured' = [ensured EXCEPT ![c] = Larger(@, r)]
  <2>1. /\ raised \in Task /\ raised.caseID = c /\ raised.caseRevision = r
        /\ raised.leaseToken = tasks[id].leaseToken
        /\ raised.leaseOwner = tasks[id].leaseOwner
        /\ raised.leasedRevision = tasks[id].leasedRevision
    BY <1>1, <1>2, <1>8 DEF OutboxTypeOK, Task
  <2>2. validateTask(id, raised)
    BY <1>1, <1>2, <1>8 DEF OutboxInv, OutboxTypeOK, Task, TaskFileLoadable, validateTask
  <2>3. [tasks EXCEPT ![id].caseRevision = r] = [tasks EXCEPT ![id] = raised]
    BY <1>1, <1>2 DEF OutboxTypeOK
  <2>4. \A w \in Worker :
          held[w] # None /\ raised.leaseToken = held[w].token =>
            /\ id = held[w].id
            /\ raised.leaseOwner = w
            /\ raised.caseID = held[w].caseID
            /\ raised.leasedRevision = held[w].revision
    BY <1>1, <1>2, <1>8, <2>1 DEF OutboxInv, HonouredLeaseIsCurrent
  <2> HIDE DEF raised
  <2> QED
    BY <1>1, <1>2, <1>6, <1>8, <2>1, <2>2, <2>3, <2>4, SaveDone, Zenon
<1> QED
  BY <1>2, <1>4, <1>5, <1>7, <1>8, SaveFailed, Zenon DEF EnsurePending, storeVars

\* Replacing a task by one for the same Case and revision (LeaseNext, Retry and
\* Complete's rescheduling do) leaves what is due for every Case unchanged.
LEMMA SameRevisionSameDue ==
  ASSUME OutboxTypeOK, NEW id \in TaskID, outboxFile[id] # None, NEW t \in Task,
         t.caseID = outboxFile[id].caseID,
         t.caseRevision = outboxFile[id].caseRevision,
         outboxFile' = [outboxFile EXCEPT ![id] = t]
  PROVE  \A c \in CaseID : Due(c)' = Due(c)
  BY NoneAssumption, OutboxAssumption DEF OutboxTypeOK, Task, Due

\* LeaseNext preserves the invariant.
LEMMA LeaseNextInv ==
  ASSUME OutboxInv, NEW w \in Worker, NEW token \in Token, NEW now \in Times,
         NEW d \in Durations, NEW ok \in BOOLEAN, LeaseNext(w, token, now, d, ok)
  PROVE  OutboxInv'
<1>1. /\ tasks = outboxFile /\ outboxUp /\ OutboxTypeOK /\ FreshToken(token)
      /\ now \in Nat /\ d \in Nat /\ d # 0
  BY OutboxAssumption DEF LeaseNext, OutboxInv, MemoryMatchesFile
<1>2. UNCHANGED <<outboxUp, ensured, acked>>
  BY DEF LeaseNext
<1>3. PICK id \in Eligible(now) :
        /\ SaveTasks([tasks EXCEPT ![id] =
                   [@ EXCEPT !.status = "leased", !.leaseOwner = w,
                             !.leaseToken = token, !.leaseUntil = now + d,
                             !.leasedRevision = tasks[id].caseRevision]], ok)
        /\ held' = IF ok
                     THEN [held EXCEPT ![w] =
                             [id |-> id, token |-> token, caseID |-> tasks[id].caseID,
                              revision |-> tasks[id].caseRevision]]
                     ELSE held
  BY DEF LeaseNext
<1>4. CASE ok = FALSE
  <2>1. UNCHANGED <<tasks, outboxFile, held>>
    BY <1>3, <1>4 DEF SaveTasks
  <2> QED
    BY <1>2, <2>1
    DEF OutboxInv, OutboxTypeOK, MemoryMatchesFile, TaskFileLoadable, AtLeastOnce,
        HonouredLeaseIsCurrent, Due
<1>5. CASE ok = TRUE
  <2> DEFINE t == [tasks[id] EXCEPT !.status = "leased", !.leaseOwner = w,
                             !.leaseToken = token, !.leaseUntil = now + d,
                             !.leasedRevision = tasks[id].caseRevision]
             lease == [id |-> id, token |-> token, caseID |-> tasks[id].caseID,
                       revision |-> tasks[id].caseRevision]
  <2>1. id \in TaskID /\ tasks[id] \in Task /\ tasks[id] # None
    BY <1>1 DEF Eligible, OutboxTypeOK
  <2>2. /\ t \in Task /\ t.caseID = tasks[id].caseID
        /\ t.caseRevision = tasks[id].caseRevision /\ t.availableAt = tasks[id].availableAt
        /\ t.status = "leased" /\ t.leaseOwner = w /\ t.leaseToken = token
        /\ t.leaseUntil = now + d /\ t.leasedRevision = tasks[id].caseRevision
    <3>1. now + d \in Nat
      BY <1>1
    <3> QED
      BY <2>1, <3>1, Zenon DEF Task
  <2>3. /\ lease \in Lease /\ lease.id = id /\ lease.token = token
        /\ lease.caseID = t.caseID /\ lease.revision = t.leasedRevision
    BY <2>1, <2>2 DEF Lease, Task
  <2>4. outboxFile' = [outboxFile EXCEPT ![id] = t] /\ tasks' = outboxFile'
    BY <1>1, <1>3, <1>5, SaveDone, Zenon
  <2>5. held' = [held EXCEPT ![w] = lease]
    BY <1>3, <1>5
  <2> HIDE DEF t, lease
  <2>6. OutboxTypeOK'
    BY <1>1, <1>2, <2>1, <2>2, <2>3, <2>4, <2>5 DEF OutboxTypeOK
  <2>7. MemoryMatchesFile'
    BY <2>4 DEF MemoryMatchesFile
  <2>8. validateTask(id, t)
    BY <1>1, <2>1, <2>2, NoneAssumption DEF OutboxInv, TaskFileLoadable, validateTask, Task
  <2>9. TaskFileLoadable'
    BY <1>1, <2>1, <2>4, <2>8 DEF OutboxInv, OutboxTypeOK, TaskFileLoadable
  <2>10. AtLeastOnce'
    BY <1>1, <1>2, <2>1, <2>2, <2>4, SameRevisionSameDue, Zenon DEF OutboxInv, AtLeastOnce, Larger
  <2>11. HonouredLeaseIsCurrent'
    <3> SUFFICES ASSUME NEW v \in Worker, NEW i \in TaskID, held'[v] # None,
                        outboxFile'[i] # None,
                        outboxFile'[i].leaseToken = held'[v].token
                 PROVE  /\ i = held'[v].id
                        /\ outboxFile'[i].leaseOwner = v
                        /\ outboxFile'[i].caseID = held'[v].caseID
                        /\ outboxFile'[i].leasedRevision = held'[v].revision
      BY DEF HonouredLeaseIsCurrent
    <3>1. CASE i = id /\ v = w
      BY <1>1, <2>1, <2>2, <2>3, <2>4, <2>5, <3>1 DEF OutboxTypeOK
    <3>2. CASE i = id /\ v # w
      BY <1>1, <2>1, <2>2, <2>4, <2>5, <3>2 DEF OutboxTypeOK, FreshToken
    <3>3. CASE i # id /\ v = w
      BY <1>1, <2>1, <2>3, <2>4, <2>5, <3>3 DEF OutboxTypeOK, FreshToken
    <3>4. CASE i # id /\ v # w
      BY <1>1, <2>1, <2>4, <2>5, <3>4 DEF OutboxInv, OutboxTypeOK, HonouredLeaseIsCurrent
    <3> QED
      BY <3>1, <3>2, <3>3, <3>4
  <2> QED
    BY <2>6, <2>7, <2>9, <2>10, <2>11 DEF OutboxInv
<1> QED
  BY <1>4, <1>5, Zenon

\* A task taken back from its worker (Retry, Complete's rescheduling) keeps the
\* invariant: the old token is no longer honoured by anybody.
LEMMA RescheduleInv ==
  ASSUME OutboxInv, outboxUp, NEW id \in TaskID, outboxFile[id] # None,
         NEW at \in Nat \ {0}, UNCHANGED <<outboxUp, held, ensured>>,
         outboxFile' = [outboxFile EXCEPT ![id] =
                          clearLease([outboxFile[id] EXCEPT !.status = "pending",
                                                            !.availableAt = at])],
         tasks' = outboxFile',
         acked' \in [CaseID -> Nat], \A c \in CaseID : acked'[c] >= acked[c]
  PROVE  OutboxInv'
<1> DEFINE t == clearLease([outboxFile[id] EXCEPT !.status = "pending",
                                                  !.availableAt = at])
<1>1. OutboxTypeOK /\ outboxFile[id] \in Task /\ at \in Nat /\ at # 0
  BY DEF OutboxInv, OutboxTypeOK
<1>2. /\ t \in Task
      /\ t.caseID = outboxFile[id].caseID
      /\ t.caseRevision = outboxFile[id].caseRevision
      /\ t.status = "pending" /\ t.availableAt = at
      /\ t.leaseOwner = None /\ t.leaseToken = None
      /\ t.leaseUntil = 0 /\ t.leasedRevision = 0
  BY <1>1, ClearLeaseType, ZenonT(30)
<1>3. outboxFile' = [outboxFile EXCEPT ![id] = t]
  OBVIOUS
<1> HIDE DEF t
<1>4. OutboxTypeOK'
  BY <1>1, <1>2, <1>3 DEF OutboxTypeOK
<1>5. MemoryMatchesFile'
  BY DEF MemoryMatchesFile
<1>6. TaskFileLoadable'
  <2>1. validateTask(id, t)
    BY <1>1, <1>2 DEF OutboxInv, TaskFileLoadable, validateTask
  <2> QED
    BY <1>1, <1>3, <2>1 DEF OutboxInv, OutboxTypeOK, TaskFileLoadable
<1>7. AtLeastOnce'
  <2> SUFFICES ASSUME NEW c \in CaseID
               PROVE  (ensured[c] <= Larger(Due(c), acked[c]))'
    BY DEF AtLeastOnce
  <2>1. Due(c)' = Due(c)
    BY <1>1, <1>2, <1>3, SameRevisionSameDue, Zenon
  <2>2. Due(c) \in Nat /\ ensured[c] \in Nat /\ acked[c] \in Nat /\ acked'[c] \in Nat
    BY <1>1, OutboxAssumption DEF OutboxTypeOK, Task, Due
  <2>3. ensured[c] <= Larger(Due(c), acked[c]) /\ acked'[c] >= acked[c]
    BY DEF OutboxInv, AtLeastOnce
  <2> QED
    BY <2>1, <2>2, <2>3 DEF Larger
<1>8. HonouredLeaseIsCurrent'
  BY <1>1, <1>2, <1>3, NoneAssumption DEF OutboxInv, OutboxTypeOK, Lease, HonouredLeaseIsCurrent
<1> QED
  BY <1>4, <1>5, <1>6, <1>7, <1>8 DEF OutboxInv

\* A step that leaves every variable unchanged preserves the invariant.
LEMMA OutboxStutterInv == OutboxInv /\ UNCHANGED outboxVars => OutboxInv'
  BY DEF outboxVars, OutboxInv, OutboxTypeOK, MemoryMatchesFile, TaskFileLoadable, AtLeastOnce,
         HonouredLeaseIsCurrent, Due

\* The lease a worker completes or returns: the task exists, is leased to that
\* worker, and carries the revision the worker was handed.
LEMMA OwnedLease ==
  ASSUME OutboxInv, outboxUp, NEW w \in Worker, held[w] # None, NEW now \in Times,
         ownedLease(held[w].id, held[w].token, now)
  PROVE  \E id \in TaskID, c \in CaseID, r \in Nat, s \in Nat :
           /\ held[w].id = id /\ held[w].caseID = c /\ held[w].revision = r
           /\ tasks = outboxFile /\ outboxFile[id] \in Task /\ outboxFile[id] # None
           /\ outboxFile[id].caseID = c /\ outboxFile[id].leasedRevision = r
           /\ outboxFile[id].caseRevision = s /\ r # 0 /\ r <= s /\ id = taskID[c]
<1>1. OutboxTypeOK /\ tasks = outboxFile /\ held[w] \in Lease
  BY DEF OutboxInv, OutboxTypeOK, MemoryMatchesFile
<1>2. /\ held[w].id \in TaskID /\ held[w].caseID \in CaseID
      /\ held[w].revision \in Nat
  BY <1>1 DEF Lease
<1>3. /\ outboxFile[held[w].id] # None /\ outboxFile[held[w].id] \in Task
      /\ outboxFile[held[w].id].status = "leased"
      /\ outboxFile[held[w].id].leaseToken = held[w].token
  BY <1>1, <1>2 DEF ownedLease, OutboxTypeOK
<1>4. /\ held[w].caseID = outboxFile[held[w].id].caseID
      /\ held[w].revision = outboxFile[held[w].id].leasedRevision
  BY <1>2, <1>3 DEF OutboxInv, HonouredLeaseIsCurrent
<1>5. validateTask(held[w].id, outboxFile[held[w].id])
  BY <1>2, <1>3 DEF OutboxInv, TaskFileLoadable
<1> QED
  BY <1>1, <1>2, <1>3, <1>4, <1>5 DEF validateTask, Task

\* Larger is the maximum of two naturals.
LEMMA LargerIsMaximum ==
  ASSUME NEW a \in Nat, NEW b \in Nat
  PROVE  Larger(a, b) \in Nat /\ Larger(a, b) >= a /\ Larger(a, b) >= b
  BY DEF Larger

\* Complete preserves the invariant: it removes a task only if the worker was
\* handed the revision the task carries, and reschedules it otherwise.
LEMMA CompleteInv ==
  ASSUME OutboxInv, NEW w \in Worker, NEW now \in Times, NEW ok \in BOOLEAN,
         Complete(w, now, ok)
  PROVE  OutboxInv'
<1>1. /\ outboxUp /\ held[w] # None /\ ownedLease(held[w].id, held[w].token, now)
      /\ UNCHANGED <<outboxUp, held, ensured>> /\ OutboxTypeOK
  BY DEF Complete, OutboxInv
<1>2. PICK id \in TaskID, c \in CaseID, r \in Nat, s \in Nat :
        /\ held[w].id = id /\ held[w].caseID = c /\ held[w].revision = r
        /\ tasks = outboxFile /\ outboxFile[id] \in Task /\ outboxFile[id] # None
        /\ outboxFile[id].caseID = c /\ outboxFile[id].leasedRevision = r
        /\ outboxFile[id].caseRevision = s /\ r # 0 /\ r <= s /\ id = taskID[c]
  BY <1>1, OwnedLease
<1> DEFINE m == Larger(acked[c], r)
           settled == [acked EXCEPT ![c] = m]
<1>3. /\ settled \in [CaseID -> Nat] /\ settled[c] >= r
      /\ \A d \in CaseID : settled[d] >= acked[d]
  <2>1. acked \in [CaseID -> Nat] /\ acked[c] \in Nat
    BY <1>1 DEF OutboxTypeOK
  <2>2. m \in Nat /\ m >= acked[c] /\ m >= r
    BY <2>1, LargerIsMaximum, Zenon
  <2> HIDE DEF m
  <2>3. settled \in [CaseID -> Nat] /\ settled[c] >= r
    BY <2>1, <2>2
  <2>4. ASSUME NEW d \in CaseID PROVE settled[d] >= acked[d]
    <3>1. acked[d] \in Nat /\ settled[d] = IF d = c THEN m ELSE acked[d]
      BY <2>1
    <3> QED
      BY <2>2, <3>1
  <2> QED
    BY <2>3, <2>4
<1> HIDE DEF settled
<1>4. CASE ok = FALSE
  <2>1. UNCHANGED <<tasks, outboxFile, acked>>
    BY <1>4 DEF Complete, SaveTasks
  <2>2. UNCHANGED outboxVars
    BY <1>1, <2>1 DEF outboxVars
  <2> QED
    BY <2>2, OutboxStutterInv
<1>5. CASE ok = TRUE /\ s > r
  <2>1. /\ outboxFile' = [outboxFile EXCEPT ![id] =
                            clearLease([outboxFile[id] EXCEPT !.status = "pending",
                                                              !.availableAt = now])]
        /\ tasks' = outboxFile' /\ acked' = settled
    BY <1>2, <1>5 DEF Complete, SaveTasks, settled
  <2>2. now \in Nat \ {0}
    BY OutboxAssumption
  <2> QED
    BY <1>1, <1>2, <1>3, <2>1, <2>2, RescheduleInv
<1>6. CASE ok = TRUE /\ ~(s > r)
  <2>1. /\ outboxFile' = [outboxFile EXCEPT ![id] = None]
        /\ tasks' = outboxFile' /\ acked' = settled
    BY <1>2, <1>6 DEF Complete, SaveTasks, settled
  <2>2. OutboxTypeOK'
    BY <1>1, <1>2, <1>3, <2>1 DEF OutboxTypeOK
  <2>3. MemoryMatchesFile' /\ TaskFileLoadable'
    BY <1>1, <1>2, <2>1 DEF OutboxInv, OutboxTypeOK, MemoryMatchesFile, TaskFileLoadable
  <2>4. AtLeastOnce'
    <3> SUFFICES ASSUME NEW d \in CaseID
                 PROVE  (ensured[d] <= Larger(Due(d), acked[d]))'
      BY DEF AtLeastOnce
    <3>1. /\ ensured[d] <= Larger(Due(d), acked[d])
          /\ ensured[d] \in Nat /\ acked[d] \in Nat /\ settled[d] \in Nat
          /\ settled[d] >= acked[d]
      BY <1>1, <1>3 DEF OutboxInv, OutboxTypeOK, AtLeastOnce
    <3>2. CASE d = c
      <4>1. Due(d) = s /\ Due(d)' = 0
        BY <1>1, <1>2, <2>1, <3>2 DEF OutboxTypeOK, Due
      <4>2. settled[d] >= s
        BY <1>2, <1>3, <1>6, <3>1, <3>2
      <4> QED
        BY <1>1, <2>1, <3>1, <4>1, <4>2 DEF Larger
    <3>3. CASE d # c
      <4>1. Due(d)' = Due(d) /\ Due(d) \in Nat
        BY <1>1, <1>2, <2>1, <3>3, OutboxAssumption DEF OutboxTypeOK, Task, Due
      <4> QED
        BY <1>1, <2>1, <3>1, <4>1 DEF Larger
    <3> QED
      BY <3>2, <3>3
  <2>5. HonouredLeaseIsCurrent'
    BY <1>1, <1>2, <2>1 DEF OutboxInv, OutboxTypeOK, HonouredLeaseIsCurrent
  <2> QED
    BY <2>2, <2>3, <2>4, <2>5 DEF OutboxInv
<1> QED
  BY <1>4, <1>5, <1>6, Zenon

\* Retry preserves the invariant.
LEMMA RetryInv ==
  ASSUME OutboxInv, NEW w \in Worker, NEW now \in Times, NEW at \in RetryTimes,
         NEW ok \in BOOLEAN, Retry(w, now, at, ok)
  PROVE  OutboxInv'
<1>1. /\ outboxUp /\ held[w] # None /\ ownedLease(held[w].id, held[w].token, now)
      /\ UNCHANGED <<outboxUp, held, ensured, acked>> /\ OutboxTypeOK
  BY DEF Retry, OutboxInv
<1>2. PICK id \in TaskID :
        held[w].id = id /\ tasks = outboxFile /\ outboxFile[id] # None
  BY <1>1, OwnedLease
<1>3. CASE ok = FALSE
  <2>1. UNCHANGED outboxVars
    BY <1>1, <1>3 DEF Retry, SaveTasks, outboxVars
  <2> QED
    BY <2>1, OutboxStutterInv
<1>4. CASE ok = TRUE
  <2>1. /\ outboxFile' = [outboxFile EXCEPT ![id] =
                            clearLease([outboxFile[id] EXCEPT !.status = "pending",
                                                              !.availableAt = at])]
        /\ tasks' = outboxFile'
    BY <1>2, <1>4 DEF Retry, SaveTasks
  <2>2. at \in Nat \ {0}
    BY OutboxAssumption
  <2>3. acked' \in [CaseID -> Nat] /\ \A c \in CaseID : acked'[c] >= acked[c]
    BY <1>1 DEF OutboxTypeOK
  <2> QED
    BY <1>1, <1>2, <2>1, <2>2, <2>3, RescheduleInv
<1> QED
  BY <1>3, <1>4, Zenon

\* A worker forgetting its lease, a crash and a reopening preserve the invariant.
LEMMA EnvironmentInv ==
  ASSUME OutboxInv,
         \/ \E w \in Worker : Abandon(w)
         \/ OutboxCrash
         \/ OpenInvestigationOutbox
  PROVE  OutboxInv'
<1>1. OutboxTypeOK
  BY DEF OutboxInv
<1>2. ASSUME NEW w \in Worker, Abandon(w)
      PROVE  OutboxInv'
  <2>1. /\ UNCHANGED <<tasks, outboxFile, outboxUp, ensured, acked>>
        /\ held' = [held EXCEPT ![w] = None]
    BY <1>2 DEF Abandon
  <2> QED
    BY <1>1, <2>1
    DEF OutboxInv, OutboxTypeOK, MemoryMatchesFile, TaskFileLoadable, AtLeastOnce,
        HonouredLeaseIsCurrent, Due
<1>3. CASE OutboxCrash
  BY <1>1, <1>3, ZenonT(30)
  DEF OutboxCrash, OutboxInv, OutboxTypeOK, MemoryMatchesFile, TaskFileLoadable, AtLeastOnce,
      HonouredLeaseIsCurrent, Due, NoTasks
<1>4. CASE OpenInvestigationOutbox
  BY <1>1, <1>4
  DEF OpenInvestigationOutbox, OutboxInv, OutboxTypeOK, MemoryMatchesFile, TaskFileLoadable,
      AtLeastOnce, HonouredLeaseIsCurrent, Due
<1> QED
  BY <1>2, <1>3, <1>4

\* A step of the Outbox, with no bound on the revisions.
OutboxStep ==
  \/ OutboxNext
  \/ \E c \in CaseID, r \in Nat, now \in Times, ok \in BOOLEAN :
       EnsurePending(c, r, now, ok)

\* Every step of the Outbox preserves the invariant.
LEMMA OutboxStepInv == OutboxInv /\ [OutboxStep]_outboxVars => OutboxInv'
<1> SUFFICES ASSUME OutboxInv, [OutboxStep]_outboxVars PROVE OutboxInv'
  OBVIOUS
<1>1. CASE UNCHANGED outboxVars
  BY <1>1, OutboxStutterInv
<1>2. CASE OutboxNext
  BY <1>2, EnsurePendingInv, LeaseNextInv, CompleteInv, RetryInv, EnvironmentInv,
     OutboxAssumption DEF OutboxNext
<1> QED
  BY <1>1, <1>2, EnsurePendingInv DEF OutboxStep

\* The inductive invariant holds in every reachable state of the Outbox.
THEOREM OutboxInvariant == OutboxSpec => []OutboxInv
<1>1. OutboxNext => OutboxStep
  BY DEF OutboxStep
<1> QED
  BY <1>1, OutboxInitInv, OutboxStepInv, PTL DEF OutboxSpec

\* Type correctness of the Outbox.
THEOREM TypeCorrect == OutboxSpec => []OutboxTypeOK
<1>1. OutboxInv => OutboxTypeOK
  BY DEF OutboxInv
<1> QED
  BY <1>1, OutboxInvariant, PTL

\* No accepted revision is ever lost: EnsurePending's promise survives crashes,
\* expired leases, stale workers and failed writes.
THEOREM DeliveryAtLeastOnce == OutboxSpec => []AtLeastOnce
<1>1. OutboxInv => AtLeastOnce
  BY DEF OutboxInv
<1> QED
  BY <1>1, OutboxInvariant, PTL

\* A restart never finds a file that OpenInvestigationOutbox refuses.
THEOREM RestartNeverRefused == OutboxSpec => []TaskFileLoadable
<1>1. OutboxInv => TaskFileLoadable
  BY DEF OutboxInv
<1> QED
  BY <1>1, OutboxInvariant, PTL

\* No failed write leaves the map in memory ahead of the file, or behind it.
THEOREM OutboxMemoryMatchesFile == OutboxSpec => []MemoryMatchesFile
<1>1. OutboxInv => MemoryMatchesFile
  BY DEF OutboxInv
<1> QED
  BY <1>1, OutboxInvariant, PTL

\* A token the Outbox honours identifies the lease its worker was given.
THEOREM StaleWorkersAreFenced == OutboxSpec => []HonouredLeaseIsCurrent
<1>1. OutboxInv => HonouredLeaseIsCurrent
  BY DEF OutboxInv
<1> QED
  BY <1>1, OutboxInvariant, PTL

-----------------------------------------------------------------------------
(* The Outbox implements module Delivery.                                  *)

\* EnsurePending makes its revision due, or changes nothing that is due.
LEMMA EnsurePendingDelivers ==
  ASSUME OutboxInv, NEW c \in CaseID, NEW r \in Nat, NEW now \in Times,
         NEW ok \in BOOLEAN, EnsurePending(c, r, now, ok)
  PROVE  [Promise!Next]_<<[d \in CaseID |-> Due(d)], acked>>
<1> DEFINE id == taskID[c]
           due == [d \in CaseID |-> Due(d)]
<1>1. id \in TaskID /\ r \in Nat /\ r # 0 /\ tasks = outboxFile /\ OutboxTypeOK
  BY OutboxAssumption DEF EnsurePending, OutboxInv, MemoryMatchesFile
<1>2. UNCHANGED acked
  BY DEF EnsurePending
<1>3. CASE UNCHANGED outboxFile
  BY <1>2, <1>3 DEF Due
<1>4. ASSUME NEW t \in Task, t.caseID = c, t.caseRevision = r,
             outboxFile' = [outboxFile EXCEPT ![id] = t],
             \/ outboxFile[id] = None
             \/ outboxFile[id].caseID = c /\ outboxFile[id].caseRevision < r
      PROVE  Promise!Ensure(c)
  <2>1. Due(c)' = r /\ Due(c) < r
    BY <1>1, <1>4, NoneAssumption DEF OutboxTypeOK, Due
  <2>2. \A d \in CaseID : d # c => Due(d)' = Due(d)
    BY <1>1, <1>4, OutboxAssumption DEF OutboxTypeOK, Due
  <2>3. due' = [due EXCEPT ![c] = r] /\ r > due[c] /\ due'[c] = r
    BY <2>1, <2>2, Zenon
  <2> QED
    BY <1>2, <2>3 DEF Promise!Ensure
<1>5. CASE tasks[id] = None /\ ok = TRUE
  <2> DEFINE t == [caseID |-> c, caseRevision |-> r, status |-> "pending",
                   availableAt |-> now, leaseOwner |-> None,
                   leaseToken |-> None, leaseUntil |-> 0, leasedRevision |-> 0]
  <2>1. outboxFile' = [outboxFile EXCEPT ![id] = t]
    BY <1>1, <1>5 DEF EnsurePending, SaveTasks
  <2>2. t \in Task /\ t.caseID = c /\ t.caseRevision = r
    BY <1>1, OutboxAssumption DEF Task
  <2> HIDE DEF t
  <2>3. Promise!Ensure(c)
    BY <1>1, <1>4, <1>5, <2>1, <2>2, Zenon
  <2> QED
    BY <2>3 DEF Promise!Next
<1>6. CASE tasks[id] # None /\ tasks[id].caseID = c /\ r > tasks[id].caseRevision /\ ok = TRUE
  <2> DEFINE t == [tasks[id] EXCEPT !.caseRevision = r]
  <2>1. outboxFile' = [outboxFile EXCEPT ![id] = t]
    BY <1>1, <1>6 DEF EnsurePending, SaveTasks, storeVars, OutboxTypeOK, Task
  <2>2. /\ t \in Task /\ t.caseID = c /\ t.caseRevision = r
        /\ outboxFile[id].caseRevision < r
    BY <1>1, <1>6 DEF OutboxTypeOK, Task
  <2> HIDE DEF t
  <2>3. Promise!Ensure(c)
    BY <1>1, <1>4, <1>6, <2>1, <2>2, Zenon
  <2> QED
    BY <2>3 DEF Promise!Next
<1>7. CASE tasks[id] # None /\ tasks[id].caseID = c /\ ~(r > tasks[id].caseRevision)
  <2>1. UNCHANGED outboxFile
    BY <1>7 DEF EnsurePending, storeVars
  <2> QED
    BY <1>3, <2>1
<1>8. CASE ok = FALSE
  <2>1. UNCHANGED outboxFile
    BY <1>8 DEF EnsurePending, SaveTasks, storeVars
  <2> QED
    BY <1>3, <2>1
<1> QED
  BY <1>5, <1>6, <1>7, <1>8, Zenon DEF EnsurePending

\* Complete acknowledges the revision its worker was handed.
LEMMA CompleteDelivers ==
  ASSUME OutboxInv, NEW w \in Worker, NEW now \in Times, NEW ok \in BOOLEAN,
         Complete(w, now, ok)
  PROVE  [Promise!Next]_<<[d \in CaseID |-> Due(d)], acked>>
<1> DEFINE due == [d \in CaseID |-> Due(d)]
<1>1. OutboxTypeOK /\ outboxUp /\ held[w] # None /\ ownedLease(held[w].id, held[w].token, now)
  BY DEF OutboxInv, Complete
<1>2. PICK id \in TaskID, c \in CaseID, r \in Nat, s \in Nat :
        /\ held[w].id = id /\ held[w].caseID = c /\ held[w].revision = r
        /\ tasks = outboxFile /\ outboxFile[id] \in Task /\ outboxFile[id] # None
        /\ outboxFile[id].caseID = c /\ outboxFile[id].leasedRevision = r
        /\ outboxFile[id].caseRevision = s /\ r # 0 /\ r <= s /\ id = taskID[c]
  BY <1>1, OwnedLease
<1>3. CASE ok = FALSE
  BY <1>3 DEF Complete, SaveTasks, Due
<1>4. CASE ok = TRUE
  <2>1. /\ outboxFile' = [outboxFile EXCEPT ![id] =
                IF s > r
                  THEN clearLease([outboxFile[id] EXCEPT !.status = "pending",
                                                         !.availableAt = now])
                  ELSE None]
        /\ acked' = [acked EXCEPT ![c] = Larger(acked[c], r)]
    BY <1>2, <1>4 DEF Complete, SaveTasks
  <2>2. Due(c) = s
    BY <1>2 DEF Due
  <2>3. Due(c)' = IF Due(c) > r THEN Due(c) ELSE 0
    <3>1. CASE Due(c) > r
      <4> DEFINE t == clearLease([outboxFile[id] EXCEPT !.status = "pending",
                                                        !.availableAt = now])
      <4>1. /\ t \in Task /\ t.caseID = outboxFile[id].caseID
            /\ t.caseRevision = outboxFile[id].caseRevision
        <5>1. now \in Nat
          BY OutboxAssumption
        <5> QED
          BY <1>2, <5>1, ClearLeaseType, Zenon
      <4>2. outboxFile' = [outboxFile EXCEPT ![id] = t]
        BY <2>1, <2>2, <3>1
      <4> HIDE DEF t
      <4>3. Due(c)' = Due(c)
        BY <1>1, <1>2, <4>1, <4>2, SameRevisionSameDue, Zenon
      <4> QED
        BY <3>1, <4>3, SMTT(30)
    <3>2. CASE ~(Due(c) > r)
      <4>1. outboxFile' = [outboxFile EXCEPT ![id] = None]
        BY <2>1, <2>2, <3>2
      <4> QED
        BY <1>1, <1>2, <3>2, <4>1 DEF OutboxTypeOK, Due
    <3> QED
      BY <3>1, <3>2
  <2>4. \A d \in CaseID : d # c => Due(d)' = Due(d)
    <3> SUFFICES ASSUME NEW d \in CaseID, d # c PROVE Due(d)' = Due(d)
      OBVIOUS
    <3>1. CASE taskID[d] # id
      BY <1>1, <1>2, <2>1, <3>1, OutboxAssumption DEF OutboxTypeOK, Due
    <3>2. CASE taskID[d] = id
      BY <1>1, <1>2, <2>1, <3>2 DEF OutboxTypeOK, Due, clearLease, Task
    <3> QED
      BY <3>1, <3>2
  <2>5. /\ due' = [due EXCEPT ![c] = IF due[c] > r THEN due[c] ELSE 0]
        /\ r \in 1..due[c]
    <3>1. due[c] = s /\ due = [d \in CaseID |-> Due(d)] /\ due' = [d \in CaseID |-> Due(d)']
      BY <2>2
    <3>2. r \in 1..s
      BY <1>2
    <3> QED
      BY <2>2, <2>3, <2>4, <3>1, <3>2, Zenon
  <2>6. acked' = [acked EXCEPT ![c] = IF acked[c] >= r THEN acked[c] ELSE r]
    BY <2>1 DEF Larger
  <2>7. Promise!Acknowledge(c, r)
    BY <2>5, <2>6 DEF Promise!Acknowledge
  <2> QED
    BY <2>5, <2>7 DEF Promise!Next
<1> QED
  BY <1>3, <1>4, Zenon

\* Every other step leaves what is due, and what is acknowledged, unchanged.
LEMMA OtherStepsDeliverNothing ==
  ASSUME OutboxInv,
         \/ \E w \in Worker, token \in Token, now \in Times, d \in Durations, ok \in BOOLEAN :
              LeaseNext(w, token, now, d, ok)
         \/ \E w \in Worker, now \in Times, at \in RetryTimes, ok \in BOOLEAN :
              Retry(w, now, at, ok)
         \/ \E w \in Worker : Abandon(w)
         \/ OutboxCrash
         \/ OpenInvestigationOutbox
         \/ UNCHANGED outboxVars
  PROVE  UNCHANGED <<[c \in CaseID |-> Due(c)], acked>>
<1>1. OutboxTypeOK
  BY DEF OutboxInv
<1>2. ASSUME UNCHANGED <<outboxFile, acked>>
      PROVE  UNCHANGED <<[c \in CaseID |-> Due(c)], acked>>
  BY <1>2 DEF Due
<1>3. ASSUME UNCHANGED acked, NEW id \in TaskID, outboxFile[id] # None, NEW t \in Task,
             t.caseID = outboxFile[id].caseID,
             t.caseRevision = outboxFile[id].caseRevision,
             outboxFile' = [outboxFile EXCEPT ![id] = t]
      PROVE  UNCHANGED <<[c \in CaseID |-> Due(c)], acked>>
  BY <1>1, <1>3, SameRevisionSameDue, Zenon
<1>4. ASSUME NEW w \in Worker, NEW token \in Token, NEW now \in Times,
             NEW d \in Durations, NEW ok \in BOOLEAN, LeaseNext(w, token, now, d, ok)
      PROVE  UNCHANGED <<[c \in CaseID |-> Due(c)], acked>>
  <2>1. CASE ok = FALSE
    BY <1>2, <1>4, <2>1, Zenon DEF LeaseNext, SaveTasks
  <2>2. CASE ok = TRUE
    <3>1. PICK id \in Eligible(now) :
            outboxFile' = [tasks EXCEPT ![id] =
                 [@ EXCEPT !.status = "leased", !.leaseOwner = w,
                           !.leaseToken = token, !.leaseUntil = now + d,
                           !.leasedRevision = tasks[id].caseRevision]]
      BY <1>4, <2>2, Zenon DEF LeaseNext, SaveTasks
    <3> DEFINE t == [tasks[id] EXCEPT !.status = "leased", !.leaseOwner = w,
                           !.leaseToken = token, !.leaseUntil = now + d,
                           !.leasedRevision = tasks[id].caseRevision]
    <3>2. /\ id \in TaskID /\ tasks = outboxFile /\ tasks[id] \in Task /\ tasks[id] # None
          /\ UNCHANGED acked
      BY <1>1, <1>4, Zenon DEF Eligible, OutboxTypeOK, LeaseNext, OutboxInv, MemoryMatchesFile
    <3>3. now + d \in Nat
      BY OutboxAssumption
    <3>4. /\ t \in Task /\ t.caseID = tasks[id].caseID
          /\ t.caseRevision = tasks[id].caseRevision
      BY <3>2, <3>3, Zenon DEF Task
    <3>5. outboxFile' = [outboxFile EXCEPT ![id] = t]
      BY <3>1, <3>2
    <3> HIDE DEF t
    <3> QED
      BY <1>3, <3>2, <3>4, <3>5, Zenon
  <2> QED
    BY <2>1, <2>2, ZenonT(30)
<1>5. ASSUME NEW w \in Worker, NEW now \in Times, NEW at \in RetryTimes,
             NEW ok \in BOOLEAN, Retry(w, now, at, ok)
      PROVE  UNCHANGED <<[c \in CaseID |-> Due(c)], acked>>
  <2>1. CASE ok = FALSE
    BY <1>2, <1>5, <2>1, Zenon DEF Retry, SaveTasks
  <2>2. CASE ok = TRUE
    <3>1. outboxUp /\ held[w] # None /\ ownedLease(held[w].id, held[w].token, now)
      BY <1>5, Zenon DEF Retry
    <3>2. PICK id \in TaskID :
            /\ held[w].id = id /\ tasks = outboxFile
            /\ outboxFile[id] # None /\ outboxFile[id] \in Task
      BY <3>1, OwnedLease, SMTT(30)
    <3> DEFINE t == clearLease([outboxFile[id] EXCEPT !.status = "pending",
                                                      !.availableAt = at])
    <3>3. outboxFile' = [outboxFile EXCEPT ![id] = t] /\ UNCHANGED acked
      BY <1>5, <2>2, <3>2, Zenon DEF Retry, SaveTasks
    <3>4. at \in Nat
      BY OutboxAssumption, SMTT(30)
    <3>5. /\ t \in Task /\ t.caseID = outboxFile[id].caseID
          /\ t.caseRevision = outboxFile[id].caseRevision
      BY <3>2, <3>4, ClearLeaseType, Zenon
    <3> HIDE DEF t
    <3> QED
      BY <1>3, <3>2, <3>3, <3>5, Zenon
  <2> QED
    BY <2>1, <2>2, Zenon
<1>6. ASSUME \/ \E w \in Worker : Abandon(w)
             \/ OutboxCrash
             \/ OpenInvestigationOutbox
             \/ UNCHANGED outboxVars
      PROVE  UNCHANGED <<outboxFile, acked>>
  BY <1>6 DEF Abandon, OutboxCrash, OpenInvestigationOutbox, outboxVars
<1> QED
  BY <1>2, <1>4, <1>5, <1>6

\* Nothing is due at first.
LEMMA InitDelivers == OutboxInit => Promise!Init
  BY OutboxAssumption DEF OutboxInit, Promise!Init, Due, NoTasks

\* Every step delivers, or changes nothing that is due.
LEMMA StepDelivers ==
  ASSUME OutboxInv, [OutboxStep]_outboxVars
  PROVE  [Promise!Next]_<<[c \in CaseID |-> Due(c)], acked>>
<1>1. CASE \E c \in CaseID, r \in Nat, now \in Times, ok \in BOOLEAN :
             EnsurePending(c, r, now, ok)
  BY <1>1, EnsurePendingDelivers
<1>2. CASE \E c \in CaseID, r \in 1..MaxRevision, now \in Times, ok \in BOOLEAN :
             EnsurePending(c, r, now, ok)
  BY <1>2, EnsurePendingDelivers, OutboxAssumption
<1>3. CASE \E w \in Worker, now \in Times, ok \in BOOLEAN : Complete(w, now, ok)
  BY <1>3, CompleteDelivers
<1> QED
  BY <1>1, <1>2, <1>3, OtherStepsDeliverNothing DEF OutboxStep, OutboxNext

\* The Outbox implements at-least-once delivery: every method, crash or restart
\* is a step of module Delivery on the durable tasks, or changes nothing there.
THEOREM OutboxImplementsDelivery == OutboxSpec => ImplementsDelivery
<1>1. OutboxInv /\ [OutboxNext]_outboxVars =>
        [Promise!Next]_<<[c \in CaseID |-> Due(c)], acked>>
  BY StepDelivers DEF OutboxStep
<1> QED
  BY <1>1, InitDelivers, OutboxInvariant, PTL
  DEF OutboxSpec, ImplementsDelivery, Promise!Spec

-----------------------------------------------------------------------------
(* When a task may leave the file.                                         *)

\* What TaskLeavesOnlyWhenSettled says of one step and one task.
Settles(id) ==
  outboxFile[id] # None =>
    \/ /\ outboxFile'[id] # None
       /\ outboxFile'[id].caseRevision >= outboxFile[id].caseRevision
    \/ /\ outboxFile'[id] = None
       /\ acked'[outboxFile[id].caseID] >= outboxFile[id].caseRevision

\* A step that leaves the file alone removes no task.
LEMMA UnchangedFileSettles ==
  ASSUME OutboxTypeOK, UNCHANGED outboxFile
  PROVE  \A id \in TaskID : Settles(id)
  BY DEF OutboxTypeOK, Task, Settles

\* Nor does one that replaces a task by one of at least its revision.
LEMMA ReplacingSettles ==
  ASSUME OutboxTypeOK, NEW id \in TaskID, NEW t \in Task,
         outboxFile[id] # None => t.caseRevision >= outboxFile[id].caseRevision,
         outboxFile' = [outboxFile EXCEPT ![id] = t]
  PROVE  \A j \in TaskID : Settles(j)
  BY NoneAssumption DEF OutboxTypeOK, Task, Settles

\* EnsurePending creates a task, raises its revision or leaves it alone.
LEMMA EnsurePendingSettles ==
  ASSUME OutboxInv, NEW c \in CaseID, NEW r \in Nat, NEW now \in Times,
         NEW ok \in BOOLEAN, EnsurePending(c, r, now, ok)
  PROVE  \A id \in TaskID : Settles(id)
<1> DEFINE id == taskID[c]
<1>1. id \in TaskID /\ r \in Nat /\ tasks = outboxFile /\ OutboxTypeOK /\ now \in Nat
  BY OutboxAssumption DEF EnsurePending, OutboxInv, MemoryMatchesFile
<1>2. CASE UNCHANGED outboxFile
  BY <1>1, <1>2, UnchangedFileSettles
<1>3. CASE tasks[id] = None /\ ok = TRUE
  <2> DEFINE t == [caseID |-> c, caseRevision |-> r, status |-> "pending",
                   availableAt |-> now, leaseOwner |-> None,
                   leaseToken |-> None, leaseUntil |-> 0, leasedRevision |-> 0]
  <2>1. outboxFile' = [outboxFile EXCEPT ![id] = t]
    BY <1>1, <1>3 DEF EnsurePending, SaveTasks
  <2>2. t \in Task
    BY <1>1 DEF Task
  <2> HIDE DEF t
  <2> QED
    BY <1>1, <1>3, <2>1, <2>2, ReplacingSettles, Zenon
<1>4. CASE tasks[id] # None /\ r > tasks[id].caseRevision /\ ok = TRUE
  <2> DEFINE t == [tasks[id] EXCEPT !.caseRevision = r]
  <2>1. outboxFile' = [outboxFile EXCEPT ![id] = t]
    BY <1>1, <1>4 DEF EnsurePending, SaveTasks, storeVars, OutboxTypeOK, Task
  <2>2. t \in Task /\ t.caseRevision = r /\ tasks[id].caseRevision \in Nat
    BY <1>1, <1>4 DEF OutboxTypeOK, Task
  <2>3. t.caseRevision >= outboxFile[id].caseRevision
    BY <1>1, <1>4, <2>2
  <2> HIDE DEF t
  <2> QED
    BY <1>1, <2>1, <2>2, <2>3, ReplacingSettles, Zenon
<1> QED
  BY <1>2, <1>3, <1>4, Zenon DEF EnsurePending, SaveTasks, storeVars

\* LeaseNext and Retry keep the revision of the task they change.
LEMMA LeaseNextSettles ==
  ASSUME OutboxInv, NEW w \in Worker, NEW token \in Token, NEW now \in Times,
         NEW d \in Durations, NEW ok \in BOOLEAN, LeaseNext(w, token, now, d, ok)
  PROVE  \A id \in TaskID : Settles(id)
<1>1. OutboxTypeOK /\ tasks = outboxFile /\ now + d \in Nat
  BY OutboxAssumption DEF LeaseNext, OutboxInv, MemoryMatchesFile
<1>2. CASE ok = FALSE
  <2>1. UNCHANGED outboxFile
    BY <1>2 DEF LeaseNext, SaveTasks
  <2> QED
    BY <1>1, <2>1, UnchangedFileSettles
<1>3. CASE ok = TRUE
  <2>1. PICK id \in Eligible(now) :
          outboxFile' = [tasks EXCEPT ![id] =
               [@ EXCEPT !.status = "leased", !.leaseOwner = w,
                         !.leaseToken = token, !.leaseUntil = now + d,
                         !.leasedRevision = tasks[id].caseRevision]]
    BY <1>3 DEF LeaseNext, SaveTasks
  <2> DEFINE t == [tasks[id] EXCEPT !.status = "leased", !.leaseOwner = w,
                         !.leaseToken = token, !.leaseUntil = now + d,
                         !.leasedRevision = tasks[id].caseRevision]
  <2>2. id \in TaskID /\ tasks[id] \in Task
    BY <1>1 DEF Eligible, OutboxTypeOK
  <2>3. t \in Task /\ t.caseRevision = tasks[id].caseRevision
    BY <1>1, <2>2, Zenon DEF Task
  <2>4. t.caseRevision >= outboxFile[id].caseRevision
    BY <1>1, <2>2, <2>3 DEF Task
  <2>5. outboxFile' = [outboxFile EXCEPT ![id] = t]
    BY <1>1, <2>1
  <2> HIDE DEF t
  <2> QED
    BY <1>1, <2>2, <2>3, <2>4, <2>5, ReplacingSettles, Zenon
<1> QED
  BY <1>2, <1>3, Zenon

\* A task that is taken back keeps its revision.
LEMMA RescheduleSettles ==
  ASSUME OutboxTypeOK, NEW id \in TaskID, outboxFile[id] # None, NEW at \in Nat,
         outboxFile' = [outboxFile EXCEPT ![id] =
                          clearLease([outboxFile[id] EXCEPT !.status = "pending",
                                                            !.availableAt = at])]
  PROVE  \A j \in TaskID : Settles(j)
<1> DEFINE t == clearLease([outboxFile[id] EXCEPT !.status = "pending",
                                                  !.availableAt = at])
<1>1. outboxFile[id] \in Task
  BY DEF OutboxTypeOK
<1>2. t \in Task /\ t.caseRevision = outboxFile[id].caseRevision
  BY <1>1, ClearLeaseType, Zenon
<1>3. outboxFile' = [outboxFile EXCEPT ![id] = t]
  OBVIOUS
<1>4. t.caseRevision >= outboxFile[id].caseRevision
  BY <1>1, <1>2 DEF Task
<1> HIDE DEF t
<1> QED
  BY <1>2, <1>3, <1>4, ReplacingSettles, Zenon

\* Retry takes the task back from its worker.
LEMMA RetrySettles ==
  ASSUME OutboxInv, NEW w \in Worker, NEW now \in Times, NEW at \in RetryTimes,
         NEW ok \in BOOLEAN, Retry(w, now, at, ok)
  PROVE  \A id \in TaskID : Settles(id)
<1>1. /\ outboxUp /\ held[w] # None /\ ownedLease(held[w].id, held[w].token, now)
      /\ OutboxTypeOK /\ at \in Nat
  BY OutboxAssumption DEF Retry, OutboxInv
<1>2. PICK id \in TaskID :
        held[w].id = id /\ tasks = outboxFile /\ outboxFile[id] # None
  BY <1>1, OwnedLease
<1>3. CASE ok = FALSE
  <2>1. UNCHANGED outboxFile
    BY <1>3 DEF Retry, SaveTasks
  <2> QED
    BY <1>1, <2>1, UnchangedFileSettles
<1>4. CASE ok = TRUE
  <2>1. outboxFile' = [outboxFile EXCEPT ![id] =
                         clearLease([outboxFile[id] EXCEPT !.status = "pending",
                                                           !.availableAt = at])]
    BY <1>2, <1>4 DEF Retry, SaveTasks
  <2> QED
    BY <1>1, <1>2, <2>1, RescheduleSettles
<1> QED
  BY <1>3, <1>4, Zenon

\* Complete removes a task only if its worker was handed the revision the task
\* carries, and then that revision is acknowledged in the same step.
LEMMA CompleteSettles ==
  ASSUME OutboxInv, NEW w \in Worker, NEW now \in Times, NEW ok \in BOOLEAN,
         Complete(w, now, ok)
  PROVE  \A id \in TaskID : Settles(id)
<1>1. /\ outboxUp /\ held[w] # None /\ ownedLease(held[w].id, held[w].token, now)
      /\ OutboxTypeOK /\ now \in Nat
  BY OutboxAssumption DEF Complete, OutboxInv
<1>2. PICK id \in TaskID, c \in CaseID, r \in Nat, s \in Nat :
        /\ held[w].id = id /\ held[w].caseID = c /\ held[w].revision = r
        /\ tasks = outboxFile /\ outboxFile[id] \in Task /\ outboxFile[id] # None
        /\ outboxFile[id].caseID = c /\ outboxFile[id].leasedRevision = r
        /\ outboxFile[id].caseRevision = s /\ r # 0 /\ r <= s /\ id = taskID[c]
  BY <1>1, OwnedLease
<1>3. CASE ok = FALSE
  <2>1. UNCHANGED outboxFile
    BY <1>3 DEF Complete, SaveTasks
  <2> QED
    BY <1>1, <2>1, UnchangedFileSettles
<1>4. CASE ok = TRUE /\ s > r
  <2>1. outboxFile' = [outboxFile EXCEPT ![id] =
                         clearLease([outboxFile[id] EXCEPT !.status = "pending",
                                                           !.availableAt = now])]
    BY <1>2, <1>4 DEF Complete, SaveTasks
  <2> QED
    BY <1>1, <1>2, <2>1, RescheduleSettles
<1>5. CASE ok = TRUE /\ ~(s > r)
  <2>1. /\ outboxFile' = [outboxFile EXCEPT ![id] = None]
        /\ acked' = [acked EXCEPT ![c] = Larger(acked[c], r)]
    BY <1>2, <1>5 DEF Complete, SaveTasks
  <2>2. acked \in [CaseID -> Nat] /\ acked[c] \in Nat
    BY <1>1 DEF OutboxTypeOK
  <2>3. acked'[c] >= s
    <3>1. acked'[c] = Larger(acked[c], r)
      BY <2>1, <2>2
    <3> QED
      BY <1>2, <1>5, <2>2, <3>1, LargerIsMaximum
  <2>4. Settles(id)
    BY <1>1, <1>2, <2>1, <2>3 DEF OutboxTypeOK, Settles
  <2>5. ASSUME NEW j \in TaskID, j # id PROVE Settles(j)
    <3>1. outboxFile'[j] = outboxFile[j] /\ outboxFile[j] \in Task \cup {None}
      BY <1>1, <2>1, <2>5 DEF OutboxTypeOK
    <3> QED
      BY <3>1 DEF Task, Settles
  <2> QED
    BY <2>4, <2>5
<1> QED
  BY <1>3, <1>4, <1>5, Zenon

\* No step removes a task that is not settled.
LEMMA StepSettles ==
  ASSUME OutboxInv, [OutboxStep]_outboxVars
  PROVE  \A id \in TaskID : Settles(id)
<1>1. OutboxTypeOK
  BY DEF OutboxInv
<1>2. CASE \/ \E w \in Worker : Abandon(w)
           \/ OutboxCrash
           \/ OpenInvestigationOutbox
           \/ UNCHANGED outboxVars
  <2>1. UNCHANGED outboxFile
    BY <1>2 DEF Abandon, OutboxCrash, OpenInvestigationOutbox, outboxVars
  <2> QED
    BY <1>1, <2>1, UnchangedFileSettles
<1>3. CASE OutboxNext
  BY <1>2, <1>3, EnsurePendingSettles, LeaseNextSettles, CompleteSettles, RetrySettles,
     OutboxAssumption DEF OutboxNext
<1> QED
  BY <1>2, <1>3, EnsurePendingSettles DEF OutboxStep

\* No method, crash or restart removes a task from the file but Complete by a
\* worker that was handed its latest revision, and none lowers its revision.
THEOREM TasksLeaveSettled == OutboxSpec => TaskLeavesOnlyWhenSettled
<1>1. OutboxInv /\ [OutboxNext]_outboxVars =>
        [\A id \in TaskID :
           outboxFile[id] # None =>
             \/ /\ outboxFile'[id] # None
                /\ outboxFile'[id].caseRevision >= outboxFile[id].caseRevision
             \/ /\ outboxFile'[id] = None
                /\ acked'[outboxFile[id].caseID] >= outboxFile[id].caseRevision]_outboxVars
  BY StepSettles DEF Settles, OutboxStep
<1> QED
  BY <1>1, OutboxInvariant, PTL DEF OutboxSpec, TaskLeavesOnlyWhenSettled

-----------------------------------------------------------------------------
(* What a step does to the work that exists, for the users of the Outbox.  *)

\* The task t asks for the same work as u.
SameWork(t, u) == u # None /\ t.caseID = u.caseID /\ t.caseRevision = u.caseRevision

\* EnsurePending creates no work but that it was asked for, makes no less due
\* and, unless it fails, has revision r of Case c due.
LEMMA EnsurePendingEffects ==
  ASSUME OutboxInv, NEW c \in CaseID, NEW r \in Nat, NEW now \in Times,
         NEW ok \in BOOLEAN, EnsurePending(c, r, now, ok)
  PROVE  /\ \A id \in TaskID :
              outboxFile'[id] # None =>
                \/ SameWork(outboxFile'[id], outboxFile[id])
                \/ outboxFile'[id].caseID = c /\ outboxFile'[id].caseRevision = r
         /\ \A d \in CaseID : Due(d)' >= Due(d) /\ ensured'[d] >= ensured[d]
         /\ ok => Due(c)' >= r /\ ensured'[c] >= r
         /\ UNCHANGED held
<1> DEFINE id == taskID[c]
           Work == \A i \in TaskID :
                     outboxFile'[i] # None =>
                       \/ SameWork(outboxFile'[i], outboxFile[i])
                       \/ outboxFile'[i].caseID = c /\ outboxFile'[i].caseRevision = r
           MoreDue == \A d \in CaseID : Due(d)' >= Due(d)
<1>1. /\ id \in TaskID /\ tasks = outboxFile /\ OutboxTypeOK /\ UNCHANGED held
      /\ \A d \in CaseID : Due(d) \in Nat
  <2>1. id \in TaskID /\ tasks = outboxFile /\ OutboxTypeOK /\ UNCHANGED held
    BY OutboxAssumption DEF EnsurePending, OutboxInv, MemoryMatchesFile
  <2> QED
    BY <2>1, OutboxAssumption, Zenon DEF OutboxTypeOK, Due, Task
<1>2. /\ \A d \in CaseID : ensured'[d] >= ensured[d]
      /\ ok => ensured'[c] >= r
  BY <1>1 DEF EnsurePending, OutboxTypeOK, Larger
<1>3. ASSUME UNCHANGED outboxFile PROVE Work /\ MoreDue
  BY <1>1, <1>3 DEF Due, SameWork
<1>4. ASSUME NEW t \in Task, t.caseID = c, t.caseRevision = r,
             outboxFile' = [outboxFile EXCEPT ![id] = t],
             \/ outboxFile[id] = None
             \/ outboxFile[id].caseID = c /\ outboxFile[id].caseRevision < r
      PROVE  Work /\ MoreDue /\ Due(c)' = r
  <2>1. Work
    BY <1>1, <1>4 DEF OutboxTypeOK, SameWork
  <2>2. Due(c)' = r /\ Due(c) <= r
    BY <1>1, <1>4, NoneAssumption DEF OutboxTypeOK, Due
  <2>3. \A d \in CaseID : d # c => Due(d)' = Due(d)
    BY <1>1, <1>4, OutboxAssumption DEF OutboxTypeOK, Due
  <2> QED
    BY <1>1, <2>1, <2>2, <2>3
<1>5. CASE tasks[id] = None /\ ok = TRUE
  <2> DEFINE t == [caseID |-> c, caseRevision |-> r, status |-> "pending",
                   availableAt |-> now, leaseOwner |-> None,
                   leaseToken |-> None, leaseUntil |-> 0, leasedRevision |-> 0]
  <2>1. outboxFile' = [outboxFile EXCEPT ![id] = t]
    BY <1>1, <1>5 DEF EnsurePending, SaveTasks
  <2>2. t \in Task /\ t.caseID = c /\ t.caseRevision = r
    BY OutboxAssumption DEF Task
  <2> HIDE DEF t
  <2>3. Work /\ MoreDue /\ Due(c)' = r
    BY <1>1, <1>4, <1>5, <2>1, <2>2, Zenon
  <2> QED
    BY <1>1, <1>2, <2>3
<1>6. CASE tasks[id] # None /\ tasks[id].caseID = c /\ r > tasks[id].caseRevision /\ ok = TRUE
  <2> DEFINE t == [tasks[id] EXCEPT !.caseRevision = r]
  <2>1. outboxFile' = [outboxFile EXCEPT ![id] = t]
    BY <1>1, <1>6 DEF EnsurePending, SaveTasks, storeVars, OutboxTypeOK, Task
  <2>2. /\ t \in Task /\ t.caseID = c /\ t.caseRevision = r
        /\ outboxFile[id].caseRevision < r
    BY <1>1, <1>6 DEF OutboxTypeOK, Task
  <2> HIDE DEF t
  <2>3. Work /\ MoreDue /\ Due(c)' = r
    BY <1>1, <1>4, <1>6, <2>1, <2>2, Zenon
  <2> QED
    BY <1>1, <1>2, <2>3
<1>7. CASE tasks[id] # None /\ tasks[id].caseID = c /\ ~(r > tasks[id].caseRevision)
  <2>1. UNCHANGED outboxFile
    BY <1>7 DEF EnsurePending, storeVars
  <2>2. Due(c)' >= r
    BY <1>1, <1>7, <2>1 DEF Due, OutboxTypeOK, Task
  <2> QED
    BY <1>1, <1>2, <1>3, <2>1, <2>2
<1>8. CASE ok = FALSE
  <2>1. UNCHANGED outboxFile
    BY <1>8 DEF EnsurePending, SaveTasks, storeVars
  <2> QED
    BY <1>1, <1>2, <1>3, <1>8, <2>1
<1> QED
  BY <1>5, <1>6, <1>7, <1>8, Zenon DEF EnsurePending

\* The lease l is for the work of a task in the file.
LeaseOfTask(l) ==
  \E id \in TaskID :
    /\ outboxFile[id] # None
    /\ l.caseID = outboxFile[id].caseID /\ l.revision = outboxFile[id].caseRevision

\* A worker's step.
WorkerStep(w, now, ok) ==
  \/ \E token \in Token, d \in Durations : LeaseNext(w, token, now, d, ok)
  \/ Complete(w, now, ok)
  \/ \E at \in RetryTimes : Retry(w, now, at, ok)
  \/ Abandon(w)

\* A worker creates no work, and is only ever handed work that exists.
LEMMA WorkerEffects ==
  ASSUME OutboxInv, NEW w \in Worker, NEW now \in Times, NEW ok \in BOOLEAN,
         WorkerStep(w, now, ok)
  PROVE  /\ \A id \in TaskID :
              outboxFile'[id] # None => SameWork(outboxFile'[id], outboxFile[id])
         /\ \A v \in Worker :
              held'[v] # None => held'[v] = held[v] \/ LeaseOfTask(held'[v])
         /\ UNCHANGED ensured
<1> DEFINE Work == \A i \in TaskID :
                     outboxFile'[i] # None => SameWork(outboxFile'[i], outboxFile[i])
<1>1. /\ OutboxTypeOK /\ UNCHANGED ensured /\ now \in Nat
      /\ Durations \subseteq Nat /\ RetryTimes \subseteq Nat
  BY OutboxAssumption, Zenon DEF OutboxInv, WorkerStep, LeaseNext, Complete, Retry, Abandon
<1>2. ASSUME UNCHANGED outboxFile PROVE Work
  BY <1>2 DEF SameWork
<1>3. ASSUME NEW id \in TaskID, outboxFile[id] # None, NEW t,
             t = None \/ SameWork(t, outboxFile[id]),
             outboxFile' = [outboxFile EXCEPT ![id] = t]
      PROVE  Work
  BY <1>1, <1>3 DEF OutboxTypeOK, SameWork
<1>4. ASSUME NEW token \in Token, NEW d \in Durations, LeaseNext(w, token, now, d, ok)
      PROVE  /\ Work
             /\ \A v \in Worker :
                  held'[v] # None => held'[v] = held[v] \/ LeaseOfTask(held'[v])
  <2>1. CASE ok = FALSE
    BY <1>2, <1>4, <2>1, SMTT(30) DEF LeaseNext, SaveTasks
  <2>2. CASE ok = TRUE
    <3>1. PICK id \in Eligible(now) :
            /\ outboxFile' = [tasks EXCEPT ![id] =
                 [@ EXCEPT !.status = "leased", !.leaseOwner = w,
                           !.leaseToken = token, !.leaseUntil = now + d,
                           !.leasedRevision = tasks[id].caseRevision]]
            /\ held' = [held EXCEPT ![w] =
                 [id |-> id, token |-> token, caseID |-> tasks[id].caseID,
                  revision |-> tasks[id].caseRevision]]
      BY <1>4, <2>2 DEF LeaseNext, SaveTasks
    <3>2. id \in TaskID /\ tasks = outboxFile /\ tasks[id] \in Task /\ tasks[id] # None
      BY <1>1, <1>4 DEF Eligible, OutboxTypeOK, LeaseNext, OutboxInv, MemoryMatchesFile
    <3> DEFINE t == [tasks[id] EXCEPT !.status = "leased", !.leaseOwner = w,
                           !.leaseToken = token, !.leaseUntil = now + d,
                           !.leasedRevision = tasks[id].caseRevision]
    <3>3. t.caseID = tasks[id].caseID /\ t.caseRevision = tasks[id].caseRevision
      BY <3>2 DEF Task
    <3>4. outboxFile' = [outboxFile EXCEPT ![id] = t]
      BY <3>1, <3>2
    <3> HIDE DEF t
    <3>5. Work
      <4>1. SameWork(t, outboxFile[id]) /\ outboxFile[id] # None
        BY <3>2, <3>3 DEF SameWork
      <4> QED
        BY <1>3, <3>2, <3>4, <4>1, Zenon
    <3>6. ASSUME NEW v \in Worker, v # w PROVE held'[v] = held[v]
      BY <1>1, <3>1, <3>6 DEF OutboxTypeOK
    <3>7. LeaseOfTask(held'[w])
      <4>1. held'[w].caseID = tasks[id].caseID /\ held'[w].revision = tasks[id].caseRevision
        BY <1>1, <3>1 DEF OutboxTypeOK
      <4> QED
        BY <3>2, <4>1 DEF LeaseOfTask
    <3> QED
      BY <3>5, <3>6, <3>7, SMTT(30)
  <2> QED
    BY <2>1, <2>2, Zenon
<1>5. ASSUME ownedLease(held[w].id, held[w].token, now), outboxUp, held[w] # None,
             UNCHANGED held, NEW at \in Nat,
             LET current == outboxFile[held[w].id]
             IN \/ UNCHANGED outboxFile
                \/ outboxFile' = [outboxFile EXCEPT ![held[w].id] =
                     clearLease([current EXCEPT !.status = "pending", !.availableAt = at])]
                \/ outboxFile' = [outboxFile EXCEPT ![held[w].id] = None]
      PROVE  Work
  <2>1. PICK id \in TaskID :
          held[w].id = id /\ outboxFile[id] # None /\ outboxFile[id] \in Task
    BY <1>1, <1>5, OwnedLease
  <2> DEFINE t == clearLease([outboxFile[id] EXCEPT !.status = "pending",
                                                    !.availableAt = at])
  <2>2. SameWork(t, outboxFile[id])
    BY <2>1, ClearLeaseType, Zenon DEF SameWork
  <2>3. \/ UNCHANGED outboxFile
        \/ outboxFile' = [outboxFile EXCEPT ![id] = t]
        \/ outboxFile' = [outboxFile EXCEPT ![id] = None]
    BY <1>5, <2>1
  <2> HIDE DEF t
  <2> QED
    BY <1>2, <1>3, <2>1, <2>2, <2>3
<1>6. ASSUME outboxUp PROVE tasks = outboxFile
  BY <1>6 DEF OutboxInv, MemoryMatchesFile
<1>7. CASE Complete(w, now, ok)
  <2>1. Work
    BY <1>1, <1>5, <1>6, <1>7, Zenon DEF Complete, SaveTasks
  <2> QED
    BY <1>1, <1>7, <2>1, SMTT(30) DEF Complete
<1>8. ASSUME NEW at \in RetryTimes, Retry(w, now, at, ok)
      PROVE  Work /\ UNCHANGED held
  <2>1. /\ outboxUp /\ held[w] # None /\ ownedLease(held[w].id, held[w].token, now)
        /\ UNCHANGED held /\ at \in Nat /\ tasks = outboxFile
    BY <1>1, <1>6, <1>8 DEF Retry
  <2>2. PICK id \in TaskID :
          held[w].id = id /\ outboxFile[id] # None /\ outboxFile[id] \in Task
    BY <1>1, <2>1, OwnedLease
  <2>3. \/ UNCHANGED outboxFile
        \/ outboxFile' = [outboxFile EXCEPT ![held[w].id] =
             clearLease([outboxFile[held[w].id] EXCEPT !.status = "pending",
                                                       !.availableAt = at])]
    BY <1>1, <1>8, <2>1, <2>2 DEF Retry, SaveTasks, OutboxTypeOK
  <2> QED
    BY <1>5, <2>1, <2>3, Zenon
<1>9. CASE Abandon(w)
  <2>1. \A v \in Worker : held'[v] # None => held'[v] = held[v]
    BY <1>1, <1>9 DEF Abandon, OutboxTypeOK
  <2> QED
    BY <1>1, <1>2, <1>9, <2>1 DEF Abandon
<1> QED
  BY <1>1, <1>4, <1>7, <1>8, <1>9, SMTT(30) DEF WorkerStep

=============================================================================

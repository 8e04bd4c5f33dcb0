----------------------------- MODULE CaseStore -----------------------------
(***************************************************************************)
(* The durable Case store (internal/storage/local/cases.go): Case          *)
(* snapshots in one JSON file, replaced atomically, and two maps in memory *)
(* that are replaced only after the file was.  ApplyEvent runs under the   *)
(* mutex, so each of its outcomes is one action; an outcome that returns   *)
(* an error changes nothing.  Get and ListPendingInvestigation only read.  *)
(*                                                                         *)
(* Each call reads the wall clock, which may go backwards.                 *)
(***************************************************************************)
EXTENDS Casefile, FiniteSets

CONSTANT InitialFiles   \* loadable files the process may find when it first starts

VARIABLES
  byID,          \* s.byID
  openByPrint,   \* s.openByPrint
  caseFile,      \* cases.v1.json
  caseUp,        \* the process is running and has opened the store
  accepted       \* the Events RecordEvent accepted, with the Case it returned

memory == <<byID, openByPrint>>
caseVars == <<byID, openByPrint, caseFile, caseUp, accepted>>

NoIndex == [f \in Fingerprints |-> None]

-----------------------------------------------------------------------------
(* Opening the store.                                                      *)

validateStoredCase(case) ==
  LET i == case.incident
      occurred == {i.events[k].occurredAt : k \in DOMAIN i.events}
  IN /\ case.revision # 0
     /\ case.createdAt # 0 /\ case.updatedAt # 0 /\ case.updatedAt >= case.createdAt
     /\ i.events # <<>>
     /\ i.status \in Status
     /\ \A k \in DOMAIN i.events :
          /\ Validate(i.events[k])
          /\ Fingerprint(i.events[k]) = i.fingerprint
          /\ SameScope(i.events[k], i)
     /\ i.firstOccurredAt \in occurred /\ \A t \in occurred : i.firstOccurredAt <= t
     /\ i.lastOccurredAt \in occurred /\ \A t \in occurred : i.lastOccurredAt >= t

\* The open Cases of a file with fingerprint f.
OpenCases(file, f) ==
  {c \in CaseID : /\ file[c] # None
                  /\ Open(file[c].incident)
                  /\ file[c].incident.fingerprint = f}

\* OpenCaseStore accepts the file.
Loadable(file) ==
  /\ \A c \in CaseID : file[c] # None => validateStoredCase(file[c])
  /\ \A c, d \in CaseID :
       (/\ file[c] # None /\ Open(file[c].incident)
        /\ file[d] # None /\ Open(file[d].incident)
        /\ file[c].incident.fingerprint = file[d].incident.fingerprint) => c = d

\* The index OpenCaseStore builds from the file.
IndexOf(file) ==
  [f \in Fingerprints |-> IF OpenCases(file, f) = {}
                     THEN None
                     ELSE CHOOSE c \in OpenCases(file, f) : TRUE]

StoredIncident ==
  [fingerprint : Fingerprints, type : Word, status : Status, environment : Word,
   scope : [ScopeField -> Word], severity : Word, firstOccurredAt : Nat,
   lastOccurredAt : Nat, events : Seq(Event)]

StoredCase ==
  [revision : Nat, createdAt : Nat, updatedAt : Nat, incident : StoredIncident]

ASSUME CaseStoreAssumption ==
  /\ None \notin StoredCase /\ None \notin CaseID
  /\ \A file \in InitialFiles :
       file \in [CaseID -> StoredCase \cup {None}] /\ Loadable(file)

CaseStoreInit ==
  /\ caseFile \in InitialFiles
  /\ byID = NoCases
  /\ openByPrint = NoIndex
  /\ caseUp = FALSE
  /\ accepted = {}

OpenCaseStore ==
  /\ ~caseUp
  /\ Loadable(caseFile)
  /\ caseUp' = TRUE
  /\ byID' = caseFile
  /\ openByPrint' = IndexOf(caseFile)
  /\ UNCHANGED <<caseFile, accepted>>

CaseStoreCrash ==
  /\ caseUp
  /\ caseUp' = FALSE
  /\ byID' = NoCases
  /\ openByPrint' = NoIndex
  /\ UNCHANGED <<caseFile, accepted>>

-----------------------------------------------------------------------------
(* RecordEvent and ApplyEvent, for the client's event at clock reading now. *)

SaveCases_AssignsFirst(nextCases, nextOpen, ok) ==
  /\ caseFile' = IF ok THEN nextCases ELSE caseFile
  /\ byID' = nextCases
  /\ openByPrint' = nextOpen

\* persist(nextCases), and only if it succeeded the two assignments.
SaveCases(nextCases, nextOpen, ok) ==
  /\ caseFile' = IF ok THEN nextCases ELSE caseFile
  /\ byID' = IF ok THEN nextCases ELSE byID
  /\ openByPrint' = IF ok THEN nextOpen ELSE openByPrint

Accept(event, c) == accepted' = accepted \cup {[event |-> Normalize(event), case |-> c]}

\* The Case the index names for the event's fingerprint.
Indexed(event) == openByPrint[Fingerprint(event)]

Joins(event) == Indexed(event) # None /\ Open(byID[Indexed(event)].incident)

\* The request passes validation and reaches the store.
Submitted(event) == caseUp /\ Validate(Normalize(event))

\* The event adds an occurrence to its open Case.
Update(event, now, ok) ==
  LET c == Indexed(event)
      e == Prepared(event, now)
  IN /\ Submitted(event) /\ Joins(event)
     /\ ApplyError(byID[c].incident, e) = "none" /\ ~Replays(byID[c].incident, e)
     /\ Len(byID[c].incident.events) < MaxEvents
     /\ SaveCases([byID EXCEPT ![c] = Updated(@, e, now)], openByPrint, ok)
     /\ IF ok THEN Accept(event, c) ELSE UNCHANGED accepted
     /\ UNCHANGED caseUp

\* The event is a replay: nothing is written and the Case is returned.
Replay(event, now) ==
  LET c == Indexed(event)
      e == Prepared(event, now)
  IN /\ Submitted(event) /\ Joins(event)
     /\ ApplyError(byID[c].incident, e) = "none" /\ Replays(byID[c].incident, e)
     /\ Accept(event, c)
     /\ UNCHANGED <<byID, openByPrint, caseFile, caseUp>>

\* No open Case has the event's fingerprint: a Case with a fresh ID is created.
\* An ID that exists is ErrIDConflict, an error like any other.
Create(event, c, now, ok) ==
  LET e == Prepared(event, now)
  IN /\ Submitted(event) /\ ~Joins(event)
     /\ byID[c] = None
     /\ SaveCases([byID EXCEPT ![c] = Created(e, now)],
             [openByPrint EXCEPT ![Fingerprint(e)] = c], ok)
     /\ IF ok THEN Accept(event, c) ELSE UNCHANGED accepted
     /\ UNCHANGED caseUp

CaseStoreNext ==
  \/ OpenCaseStore
  \/ CaseStoreCrash
  \/ \E event \in Input, now \in Times, ok \in BOOLEAN : Update(event, now, ok)
  \/ \E event \in Input, now \in Times : Replay(event, now)
  \/ \E event \in Input, c \in CaseID, now \in Times, ok \in BOOLEAN :
       Create(event, c, now, ok)

CaseStoreSpec == CaseStoreInit /\ [][CaseStoreNext]_caseVars

-----------------------------------------------------------------------------
(* Properties.                                                             *)

CaseStoreTypeOK ==
  /\ byID \in [CaseID -> StoredCase \cup {None}]
  /\ openByPrint \in [Fingerprints -> CaseID \cup {None}]
  /\ caseFile \in [CaseID -> StoredCase \cup {None}]
  /\ caseUp \in BOOLEAN
  /\ accepted \subseteq [event : Event, case : CaseID]

\* Every file the store writes is accepted by OpenCaseStore: each Case passes
\* validateStoredCase and no two open Cases share a fingerprint, so that a
\* restart never refuses the state of an earlier run.
CaseFileLoadable == Loadable(caseFile)

\* While the process runs, its two maps are those a restart would rebuild from
\* the file: no failed write and no order of Events leaves a stale index entry.
MemoryIsRebuildable ==
  caseUp => byID = caseFile /\ openByPrint = IndexOf(caseFile)

\* An Event that RecordEvent accepted, as new or as a replay, is durably in the
\* Case that was returned for it, whatever happened since.
AcceptedEventsKept ==
  \A a \in accepted :
    /\ caseFile[a.case] # None
    /\ \E k \in DOMAIN caseFile[a.case].incident.events :
         sameEvent(caseFile[a.case].incident.events[k], a.event)

\* Replays are recognised across restarts: no Case holds two Events with the
\* same source and ID.
EventIDsUnique ==
  \A c \in CaseID :
    caseFile[c] # None =>
      LET events == caseFile[c].incident.events
      IN \A j, k \in DOMAIN events :
           (/\ events[j].id # Empty /\ events[j].id = events[k].id
            /\ events[j].source = events[k].source) => j = k

\* Cases are versioned and appended to, never overwritten (internal/casefile/
\* README.md): a Case never disappears, a closed one never changes, and a
\* change appends one Event, raises the revision by one, widens the occurrence
\* window and moves UpdatedAt forward even when the clock went backwards.
AppendOnly ==
  [][\A c \in CaseID :
       caseFile[c] # None =>
         /\ caseFile'[c] # None
         /\ LET old == caseFile[c]
                new == caseFile'[c]
            IN \/ new = old
               \/ /\ Open(old.incident)
                  /\ new.revision = old.revision + 1
                  /\ new.createdAt = old.createdAt
                  /\ new.updatedAt >= old.updatedAt
                  /\ new.incident.status = old.incident.status
                  /\ new.incident.fingerprint = old.incident.fingerprint
                  /\ new.incident.firstOccurredAt <= old.incident.firstOccurredAt
                  /\ new.incident.lastOccurredAt >= old.incident.lastOccurredAt
                  /\ Len(new.incident.events) = Len(old.incident.events) + 1
                  /\ SubSeq(new.incident.events, 1, Len(old.incident.events))
                       = old.incident.events]_caseVars

\* The durable store implements the process-local one, from the Cases of its
\* first file on: failed writes, crashes and restarts are invisible in the Cases
\* and the index of the file.
Local == INSTANCE MemoryStore WITH byID <- caseFile, openByPrint <- IndexOf(caseFile)
ImplementsMemoryStore == Local!Steps

\* What api/v1alpha1/README.md says of event IDs: reusing a source and ID with
\* different content is refused, so no two accepted Events share them.
EventIDReuseRefused ==
  \A a, b \in accepted :
    (/\ a.event.id # Empty /\ a.event.id = b.event.id
     /\ a.event.source = b.event.source) => sameEvent(a.event, b.event)

=============================================================================

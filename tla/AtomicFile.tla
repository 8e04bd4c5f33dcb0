----------------------------- MODULE AtomicFile -----------------------------
(***************************************************************************)
(* A state file of the local stores (internal/storage/local/jsonfile.go):  *)
(* writeJSONAtomic step by step, with an error, a crash of the process or  *)
(* a power failure between any two steps.  The caller holds the mutex of   *)
(* its store, so one write runs at a time.  The stores are modelled on     *)
(* what this module shows: a write takes place completely or not at all,   *)
(* and its error says which.                                               *)
(*                                                                         *)
(* The file system keeps what was synced.  A rename that was not followed  *)
(* by a successful directory sync may or may not survive a power failure,  *)
(* and a renamed file whose data was not synced may come back torn.        *)
(***************************************************************************)
EXTENDS Naturals

CONSTANTS
  Snapshot,     \* states a store may write
  Missing,      \* there is no file yet
  Torn          \* what readJSONFile cannot decode

ASSUME ContentsAssumption == Missing \notin Snapshot /\ Torn \notin Snapshot \cup {Missing}

VARIABLES
  file,         \* what a reader of the path finds
  onDisk,       \* what a reader may find after a power failure
  step,         \* the next step of the running write, "idle" without one
  value,        \* the snapshot it writes, or the last one written
  before,       \* the file when the last write began
  temp,         \* the temporary file: "none", "empty", "written" or "synced"
  result        \* of the last write: "none" while it runs or after a crash

fileVars == <<file, onDisk, step, value, before, temp, result>>

FileInit ==
  /\ file = Missing /\ onDisk = {Missing} /\ before = Missing
  /\ step = "idle" /\ value = Missing /\ temp = "none" /\ result = "none"

-----------------------------------------------------------------------------
(* writeJSONAtomic.                                                        *)

CreateTemp(v) ==
  /\ step = "idle"
  /\ value' = v /\ before' = file
  /\ \/ step' = "chmod" /\ temp' = "empty" /\ result' = "none"
     \/ step' = "idle" /\ temp' = "none" /\ result' = "error"
  /\ UNCHANGED <<file, onDisk>>

\* A step fails: the deferred function removes the temporary file.
Fail ==
  /\ step \in {"chmod", "encode", "sync", "close", "rename"}
  /\ step' = "idle" /\ temp' = "none" /\ result' = "error"
  /\ UNCHANGED <<file, onDisk, value, before>>

Chmod ==
  /\ step = "chmod" /\ step' = "encode"
  /\ UNCHANGED <<file, onDisk, value, before, temp, result>>

Encode ==
  /\ step = "encode" /\ step' = "sync"
  /\ temp' = "written"
  /\ UNCHANGED <<file, onDisk, value, before, result>>

Sync_Skipped ==
  /\ step = "sync" /\ step' = "close"
  /\ UNCHANGED <<file, onDisk, value, before, temp, result>>

Sync ==
  /\ step = "sync" /\ step' = "close"
  /\ temp' = "synced"
  /\ UNCHANGED <<file, onDisk, value, before, result>>

Close ==
  /\ step = "close" /\ step' = "rename"
  /\ UNCHANGED <<file, onDisk, value, before, temp, result>>

Rename_ForgetsTemp ==
  /\ step = "rename" /\ step' = "sync directory"
  /\ file' = temp
  /\ UNCHANGED <<onDisk, value, before, temp, result>>

Rename ==
  /\ step = "rename" /\ step' = "sync directory"
  /\ file' = value
  /\ onDisk' = onDisk \cup {IF temp = "synced" THEN value ELSE Torn}
  /\ temp' = "none"
  /\ UNCHANGED <<value, before, result>>

SyncDirectory_Mandatory ==
  /\ step = "sync directory" /\ step' = "idle"
  /\ \/ onDisk' = {file} /\ result' = "ok"
     \/ UNCHANGED onDisk /\ result' = "error"
  /\ UNCHANGED <<file, value, before, temp>>

\* Best effort: nil is returned whether or not the directory could be synced.
SyncDirectory ==
  /\ step = "sync directory" /\ step' = "idle"
  /\ onDisk' \in {onDisk, {file}}
  /\ result' = "ok"
  /\ UNCHANGED <<file, value, before, temp>>

-----------------------------------------------------------------------------
(* Failures of the process and of the machine; the process restarts.       *)

\* The temporary file is left behind, under a name no later write reuses.
Crash ==
  /\ step # "idle"
  /\ step' = "idle" /\ temp' = "none" /\ result' = "none"
  /\ UNCHANGED <<file, onDisk, value, before>>

PowerFailure ==
  /\ file' \in onDisk
  /\ onDisk' = {file'}
  /\ step' = "idle" /\ temp' = "none" /\ result' = "none"
  /\ UNCHANGED <<value, before>>

FileNext ==
  \/ \E v \in Snapshot : CreateTemp(v)
  \/ Fail \/ Chmod \/ Encode \/ Sync \/ Close \/ Rename \/ SyncDirectory
  \/ Crash \/ PowerFailure

FileSpec == FileInit /\ [][FileNext]_fileVars

-----------------------------------------------------------------------------
(* Properties.                                                             *)

FileTypeOK ==
  /\ file \in Snapshot \cup {Missing, Torn}
  /\ onDisk \subseteq Snapshot \cup {Missing, Torn} /\ onDisk # {}
  /\ step \in {"idle", "chmod", "encode", "sync", "close", "rename", "sync directory"}
  /\ value \in Snapshot \cup {Missing}
  /\ before \in Snapshot \cup {Missing, Torn}
  /\ temp \in {"none", "empty", "written", "synced"}
  /\ result \in {"none", "ok", "error"}

\* Whatever fails and whenever, readJSONFile finds a complete snapshot at the
\* next start: data is synced before the rename makes it visible.
NeverTorn == Torn \notin onDisk \cup {file}

\* The error tells the caller what happened: after an error the file is what
\* it was before the call, after nil it is the new snapshot.  This is what
\* lets the stores keep their maps on an error and replace them otherwise.
ResultTellsFile ==
  /\ result = "error" => file = before
  /\ result = "ok" => file = value

=============================================================================

--------------------------- MODULE ProcessProofs ----------------------------
(***************************************************************************)
(* The process around the workflow: how rootforged replaces its files and  *)
(* how it stops.                                                           *)
(*                                                                         *)
(* NeverTorn and ResultTellsFile for every set of snapshots.  Neither is   *)
(* inductive: the first needs that the temporary file is synced by the     *)
(* time it can be renamed, the second what the file is while a write runs. *)
(*                                                                         *)
(* CutOnlyWhenStopping for every set of requests.  It is not inductive:    *)
(* main falls off its end when the server stopped listening, so one needs  *)
(* to know that nothing but Shutdown makes a serving process do that.      *)
(***************************************************************************)
EXTENDS AtomicFile, Rootforged, TLAPS

-----------------------------------------------------------------------------
(* writeJSONAtomic.                                                        *)

FileInv ==
  /\ FileTypeOK
  /\ NeverTorn
  /\ ResultTellsFile
  /\ step \in {"close", "rename"} => temp = "synced"
  /\ step \in {"chmod", "encode", "sync", "close", "rename"} =>
       /\ file = before /\ value \in Snapshot /\ result = "none"
  /\ step = "sync directory" => file = value

\* Before the first write there is no file, no temporary file and no result.
LEMMA FileInitInv == FileInit => FileInv
  BY ContentsAssumption DEF FileInit, FileInv, FileTypeOK, NeverTorn, ResultTellsFile

\* The steps of writeJSONAtomic that succeed.
LEMMA WriteInv ==
  ASSUME FileInv,
         \/ \E v \in Snapshot : CreateTemp(v)
         \/ Chmod \/ Encode \/ Sync \/ Close \/ Rename \/ SyncDirectory
  PROVE  FileInv'
<1> USE ContentsAssumption DEF FileInv, FileTypeOK, NeverTorn, ResultTellsFile
<1>1. ASSUME NEW v \in Snapshot, CreateTemp(v) PROVE FileInv'
  BY <1>1 DEF CreateTemp
<1>2. CASE Chmod
  BY <1>2 DEF Chmod
<1>3. CASE Encode
  BY <1>3 DEF Encode
<1>4. CASE Sync
  BY <1>4 DEF Sync
<1>5. CASE Close
  BY <1>5 DEF Close
<1>6. CASE Rename
  BY <1>6 DEF Rename
<1>7. CASE SyncDirectory
  BY <1>7 DEF SyncDirectory
<1> QED
  BY <1>1, <1>2, <1>3, <1>4, <1>5, <1>6, <1>7

\* The failures.
LEMMA FailureInv ==
  ASSUME FileInv, Fail \/ Crash \/ PowerFailure
  PROVE  FileInv'
<1> USE ContentsAssumption DEF FileInv, FileTypeOK, NeverTorn, ResultTellsFile
<1>1. CASE Fail
  BY <1>1 DEF Fail
<1>2. CASE Crash
  BY <1>2 DEF Crash
<1>3. CASE PowerFailure
  BY <1>3 DEF PowerFailure
<1> QED
  BY <1>1, <1>2, <1>3

\* Every step of a write and every failure keeps the invariant.
LEMMA FileNextInv == FileInv /\ [FileNext]_fileVars => FileInv'
<1> SUFFICES ASSUME FileInv, [FileNext]_fileVars PROVE FileInv'
  OBVIOUS
<1>1. CASE UNCHANGED fileVars
  BY <1>1 DEF fileVars, FileInv, FileTypeOK, NeverTorn, ResultTellsFile
<1> QED
  BY <1>1, WriteInv, FailureInv DEF FileNext

\* The inductive invariant holds in every reachable state of a state file.
THEOREM FileInvariant == FileSpec => []FileInv
  BY FileInitInv, FileNextInv, PTL DEF FileSpec

\* The state writeJSONAtomic works on keeps its types, in whatever step of a
\* write a failure, a crash or a loss of power comes; in particular there is
\* always something a loss of power may leave on disk.
THEOREM FileTypeCorrect == FileSpec => []FileTypeOK
<1>1. FileInv => FileTypeOK
  BY DEF FileInv
<1> QED
  BY <1>1, FileInvariant, PTL

\* A store always finds a complete snapshot when it opens its file, whatever
\* step of writeJSONAtomic failed, crashed or lost power.
THEOREM FileNeverTorn == FileSpec => []NeverTorn
<1>1. FileInv => NeverTorn
  BY DEF FileInv
<1> QED
  BY <1>1, FileInvariant, PTL

\* The error of writeJSONAtomic is exact: unchanged on an error, replaced on
\* nil, which the stores' persist-then-assign relies on.
THEOREM WriteResultIsExact == FileSpec => []ResultTellsFile
<1>1. FileInv => ResultTellsFile
  BY DEF FileInv
<1> QED
  BY <1>1, FileInvariant, PTL

-----------------------------------------------------------------------------
(* The goroutines of main.                                                 *)

ShutdownInv ==
  /\ TypeOK
  /\ CutOnlyWhenStopping
  /\ main = "serving" => (listening <=> shutdown = "waiting")

\* A process that has just begun to serve.
LEMMA ShutdownInitInv == Init => ShutdownInv
  BY DEF Init, ShutdownInv, TypeOK, CutOnlyWhenStopping

\* Requests come and go, signals arrive and the ticker fires.
LEMMA ServingInv ==
  ASSUME ShutdownInv,
         \/ \E r \in Request : Accept(r) \/ Answer(r)
         \/ Signal \/ Tick \/ Reconciled
  PROVE  ShutdownInv'
<1> USE DEF ShutdownInv, TypeOK, CutOnlyWhenStopping
<1>1. ASSUME NEW r \in Request, Accept(r) PROVE ShutdownInv'
  BY <1>1 DEF Accept
<1>2. ASSUME NEW r \in Request, Answer(r) PROVE ShutdownInv'
  BY <1>2 DEF Answer
<1>3. CASE Signal
  BY <1>3 DEF Signal
<1>4. CASE Tick
  <2>1. reconciler' \in {"waiting", "reconciling", "returned"}
    BY <1>4 DEF Tick
  <2> QED
    BY <1>4, <2>1 DEF Tick
<1>5. CASE Reconciled
  BY <1>5 DEF Reconciled
<1> QED
  BY <1>1, <1>2, <1>3, <1>4, <1>5

\* The shutdown goroutine, and the two ways main returns.
LEMMA StoppingInv ==
  ASSUME ShutdownInv, BeginShutdown \/ EndShutdown \/ Exit \/ Fatal
  PROVE  ShutdownInv'
<1> USE DEF ShutdownInv, TypeOK, CutOnlyWhenStopping
<1>1. CASE BeginShutdown
  BY <1>1 DEF BeginShutdown
<1>2. CASE EndShutdown
  BY <1>2 DEF EndShutdown
<1>3. CASE Exit
  BY <1>3 DEF Exit, Leave, Running
<1>4. CASE Fatal
  BY <1>4 DEF Fatal, Leave, Running
<1> QED
  BY <1>1, <1>2, <1>3, <1>4

\* Every step of the process keeps the invariant.
LEMMA ShutdownNextInv == ShutdownInv /\ [Next]_vars => ShutdownInv'
<1> SUFFICES ASSUME ShutdownInv, [Next]_vars PROVE ShutdownInv'
  OBVIOUS
<1>1. CASE UNCHANGED vars
  BY <1>1 DEF vars, ShutdownInv, TypeOK, CutOnlyWhenStopping
<1> QED
  BY <1>1, ServingInv, StoppingInv DEF Next

\* However many requests run and however main, the ticker and the shutdown
\* goroutine interleave, a request is cut only by a fatal server error or a
\* shutdown that has begun.
THEOREM RequestsCutOnlyWhenStopping == Spec => []CutOnlyWhenStopping
<1>1. ShutdownInv => CutOnlyWhenStopping
  BY DEF ShutdownInv
<1> QED
  BY <1>1, ShutdownInitInv, ShutdownNextInv, PTL DEF Spec

=============================================================================

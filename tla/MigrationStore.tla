--------------------------- MODULE MigrationStore ---------------------------
(***************************************************************************)
(* The rows that every process of a Clumoove deployment shares for one     *)
(* migration, and the SQL statements of package db that change them.       *)
(*                                                                         *)
(* Each operator with a primed variable is one statement or one            *)
(* transaction and therefore one atomic step.  Time is abstracted: a lease *)
(* is a BOOLEAN (set and not yet expired) and next_retry_at is a BOOLEAN   *)
(* (NOT NULL).  Byte counters move together with the file counters and are *)
(* left out, and so are names, hashes and messages.                        *)
(***************************************************************************)
EXTENDS Integers, FiniteSets

CONSTANTS
    Tasks,        \* identities a row of the tasks table can get
    Items,        \* source paths a user can select
    Procs,        \* worker processes (the value of worker_hash)
    MaxThreads,   \* largest value handleSetThreads accepts (16 in the code)
    MaxAttempts,  \* attempts before a transfer failure is final (3 in the code)
    MaxFaults,    \* bound: failures the environment injects in one behaviour
    NoProc,       \* worker_hash IS NULL, or holds a content hash
    NoItem        \* the path of a task row that does not exist yet

ASSUME StoreAssumption ==
    /\ IsFiniteSet(Tasks) /\ Tasks # {}
    /\ IsFiniteSet(Items)
    /\ MaxThreads \in Nat \ {0}
    /\ MaxAttempts \in Nat \ {0}
    /\ MaxFaults \in Nat
    /\ NoProc \notin Procs
    /\ NoItem \notin Items

VARIABLES
    mig,          \* the migrations row: lifecycle columns
    progress,     \* the migrations row: counters
    tasks,        \* the tasks table
    indexErrors,  \* the indexing_errors table (paths that could not be listed)
    events,       \* notification_events: the generations that have an event
    faults,       \* failures the environment may still inject (a bound)
    up            \* the worker processes that are running

storeVars == <<mig, progress, tasks, indexErrors, events, faults>>

-----------------------------------------------------------------------------
(* Row types *)

Terminal == {"COMPLETED", "COMPLETED_WITH_ERRORS", "FAILED"}

Paused == {"PAUSED", "PAUSED_CONNECTION_LOSS"}

Working == {"RUNNING", "INDEXING"}

MigrationStatus ==
    {"SCHEDULED", "VERIFYING", "CANCELLED"} \cup Working \cup Paused \cup Terminal

Migration ==
    [ status                 : MigrationStatus,
      selected               : SUBSET Items,   \* selected paths that hold a file
      threads                : 1..MaxThreads,
      discoveryComplete      : BOOLEAN,
      discoveryGeneration    : Nat,
      indexingLease          : BOOLEAN,
      failedRetryDone        : BOOLEAN,
      verificationGeneration : Nat,
      verificationLease      : BOOLEAN,
      notificationGeneration : Nat,
      unlisted               : SUBSET Items ]  \* no column: see IndexingToRunning

Progress == [total : Nat, processed : Nat, failed : Nat, skipped : Nat, verified : Nat]

\* NONE: no row yet.  DELETED: the row was removed by a re-index; ids are
\* UUIDs, so a deleted identity never comes back.
TaskStatus ==
    {"NONE", "PENDING", "RUNNING", "COMPLETED", "SKIPPED", "FAILED", "CANCELLED", "DELETED"}

Task ==
    [ status           : TaskStatus,
      path             : Items \cup {NoItem},
      attempts         : 0..MaxAttempts + 1,
      retry            : BOOLEAN,      \* next_retry_at IS NOT NULL
      worker           : Procs \cup {NoProc},
      claimEpoch       : Nat,
      checksumVerified : BOOLEAN ]

StoreTypeOK ==
    /\ mig \in Migration
    /\ progress \in Progress
    /\ tasks \in [Tasks -> Task]
    /\ indexErrors \in SUBSET Items
    /\ events \in SUBSET Nat
    /\ faults \in 0..MaxFaults

NoTask == [status |-> "NONE", path |-> NoItem, attempts |-> 0, retry |-> FALSE,
           worker |-> NoProc, claimEpoch |-> 0, checksumVerified |-> FALSE]

NewTask(p) == [NoTask EXCEPT !.status = "PENDING", !.path = p]

NoProgress == [total |-> 0, processed |-> 0, failed |-> 0, skipped |-> 0, verified |-> 0]

-----------------------------------------------------------------------------
(* What the statements count and test *)

Rows == {t \in Tasks : tasks[t].status \notin {"NONE", "DELETED"}}

WithStatus(S) == {t \in Tasks : tasks[t].status \in S}

\* Work that a worker will still pick up: a FAILED row with a retry time counts.
Active == {t \in Tasks : \/ tasks[t].status \in {"PENDING", "RUNNING"}
                         \/ tasks[t].status = "FAILED" /\ tasks[t].retry}

FinallyFailed == {t \in Tasks : tasks[t].status = "FAILED" /\ ~tasks[t].retry}

Completed(v) ==
    {t \in Tasks : tasks[t].status = "COMPLETED" /\ tasks[t].checksumVerified = v}

\* Mutant: the fence tests the status only, not the epoch
HoldsAnyClaim(t, e) == tasks[t].status = "RUNNING"

HoldsClaim(t, e) == tasks[t].status = "RUNNING" /\ tasks[t].claimEpoch = e

\* attempts only matters up to the first value past the limit
Bump(n) == IF n <= MaxAttempts THEN n + 1 ELSE n

\* A crash, an error or an expiry that the code handles but does not cause
Fault == faults > 0 /\ faults' = faults - 1

CreateEvent(generation) == events' = events \cup {generation}

-----------------------------------------------------------------------------
(* Statements on one claimed task: no row matches once the claim is lost *)

\* Mutant: the write is not fenced at all
UpdateTaskUnfenced(t, e, row) == tasks' = [tasks EXCEPT ![t] = row]

UpdateClaimedTaskStatus(t, e, row) ==
    tasks' = IF HoldsClaim(t, e) THEN [tasks EXCEPT ![t] = row] ELSE tasks

\* TransitionClaimedTask: used before the worker has loaded the row
TransitionClaimedTask(t, e, status) ==
    UpdateClaimedTaskStatus(t, e, [tasks[t] EXCEPT !.status = status, !.worker = NoProc])

\* The fenced task write and the counters are one transaction
UpdateMigrationTaskAndProgress(t, e, row, files, skipped, failed) ==
    /\ UpdateClaimedTaskStatus(t, e, row)
    /\ progress' = IF HoldsClaim(t, e)
                   THEN [progress EXCEPT
                           !.processed = @ + files,
                           !.skipped   = @ + skipped,
                           !.failed    = @ + failed,
                           !.verified  = IF row.checksumVerified THEN @ + 1 ELSE @]
                   ELSE progress

-----------------------------------------------------------------------------
(* Lifecycle statements on the migrations row *)

LeavesTerminal(status) == mig.status \in Terminal /\ status \notin Terminal

\* Carries no guard on the current status
UpdateMigrationStatus(status) ==
    /\ mig' = [mig EXCEPT
                 !.status = status,
                 !.notificationGeneration = IF LeavesTerminal(status) THEN @ + 1 ELSE @]
    /\ IF status \in Terminal
       THEN CreateEvent(mig'.notificationGeneration)
       ELSE UNCHANGED events

CanPauseForConnectionLoss == mig.status \in Working

PauseMigrationForConnectionLoss ==
    mig' = IF CanPauseForConnectionLoss
           THEN [mig EXCEPT !.status = "PAUSED_CONNECTION_LOSS", !.indexingLease = FALSE]
           ELSE mig

\* The row ResumeMigration and RecoverConnectionLostMigration both write: go on
\* when discovery is done, otherwise start a new generation of discovery
Resumed ==
    IF mig.discoveryComplete
    THEN [mig EXCEPT !.status = "RUNNING", !.indexingLease = FALSE]
    ELSE [mig EXCEPT !.status = "INDEXING", !.indexingLease = TRUE,
                     !.discoveryGeneration = @ + 1]

\* MaybeRetryFailedMigrationTasks: one last round for the finally failed tasks
CanRetryFailed ==
    /\ mig.status = "RUNNING"
    /\ ~mig.failedRetryDone
    /\ FinallyFailed # {}
    /\ Active = {}

MaybeRetryFailedMigrationTasks ==
    /\ mig' = IF CanRetryFailed THEN [mig EXCEPT !.failedRetryDone = TRUE] ELSE mig
    /\ tasks' = IF CanRetryFailed
                THEN [t \in Tasks |->
                        IF t \in FinallyFailed
                        THEN [tasks[t] EXCEPT !.status = "PENDING", !.attempts = 0,
                                !.worker = NoProc, !.checksumVerified = FALSE]
                        ELSE tasks[t]]
                ELSE tasks

-----------------------------------------------------------------------------
(* reconcileMigrationProgress.  One UPDATE whose task_stats come from the     *)
(* snapshot the statement started with, while the migrations row it changes   *)
(* is the newest committed version (READ COMMITTED): callers take TaskStats   *)
(* in one step and apply it in a later one.                                   *)

TaskStats ==
    [ done       |-> Cardinality(WithStatus({"COMPLETED"})),
      skipped    |-> Cardinality(WithStatus({"SKIPPED"})),
      failed     |-> Cardinality(WithStatus({"FAILED", "CANCELLED"})),
      active     |-> Cardinality(Active),
      verified   |-> Cardinality(Completed(TRUE)),
      unverified |-> Cardinality(Completed(FALSE)),
      errors     |-> indexErrors # {} ]

NoStats == [done |-> 0, skipped |-> 0, failed |-> 0, active |-> 0,
            verified |-> 0, unverified |-> 0, errors |-> FALSE]

Stats ==
    [done : Nat, skipped : Nat, failed : Nat, active : Nat,
     verified : Nat, unverified : Nat, errors : BOOLEAN]

\* Mutant: CANCELLED is forgotten among the states reconciliation leaves alone
StickyButCancelled == Paused \cup Terminal

Sticky == {"CANCELLED"} \cup Paused \cup Terminal

\* Mutant: failed tasks do not spoil the outcome
StatusIgnoringFailures(s) ==
    CASE mig.status \in Sticky                             -> mig.status
      [] mig.status = "INDEXING" /\ ~mig.discoveryComplete -> "INDEXING"
      [] OTHER ->
           IF s.active > 0 THEN "RUNNING"
           ELSE IF s.unverified > 0 THEN "VERIFYING"
           ELSE IF s.errors THEN "COMPLETED_WITH_ERRORS"
           ELSE "COMPLETED"

ReconciledStatus(s) ==
    CASE mig.status \in Sticky                                -> mig.status
      [] mig.status = "INDEXING" /\ ~mig.discoveryComplete    -> "INDEXING"
      [] OTHER ->
           IF s.active > 0 THEN "RUNNING"
           ELSE IF s.unverified > 0 THEN "VERIFYING"
           ELSE IF s.failed > 0 \/ s.errors THEN "COMPLETED_WITH_ERRORS"
           ELSE "COMPLETED"

Finishes(s) ==
    mig.status \in {"RUNNING", "VERIFYING"} /\ s.active = 0 /\ s.unverified = 0

ReconcileMigrationProgress(s) ==
    /\ mig' = [mig EXCEPT
                 !.status = ReconciledStatus(s),
                 !.notificationGeneration = IF Finishes(s) THEN @ + 1 ELSE @]
    /\ progress' = [progress EXCEPT
                      !.processed = s.done + s.skipped + s.failed,
                      !.skipped   = s.skipped,
                      !.failed    = s.failed,
                      !.verified  = s.verified]
    /\ IF ReconciledStatus(s) \in Terminal
       THEN CreateEvent(mig'.notificationGeneration)
       ELSE UNCHANGED events
    /\ UNCHANGED <<tasks, indexErrors>>

=============================================================================

-------------------------- MODULE MigrationControl --------------------------
(***************************************************************************)
(* What starts, stops and resumes a migration from outside: the HTTP       *)
(* handlers of cmd/api and the connection-recovery scheduler of a worker.  *)
(*                                                                         *)
(* Pause and re-index read the status and later write the row without      *)
(* testing it again; cancel changes the row first and sweeps the pending   *)
(* tasks in a second statement.  Resume and retry test the status in the   *)
(* statement that changes it, so they are one step.                        *)
(***************************************************************************)
EXTENDS Discovery

CONSTANTS
    Handlers,     \* bound: HTTP requests being served at the same time
    MaxRequests   \* bound: HTTP requests in one behaviour

ASSUME ControlAssumption == MaxRequests \in Nat

VARIABLES
    handler,      \* per request being served: what it still has to do
    requests      \* requests the user may still send (a bound)

controlVars == <<handler, requests>>

HandlerPC == {"idle", "pausing", "reindexing", "cancelling"}

ControlTypeOK ==
    /\ handler \in [Handlers -> HandlerPC]
    /\ requests \in 0..MaxRequests

ControlInit ==
    /\ handler = [h \in Handlers |-> "idle"]
    /\ requests = MaxRequests

Request == requests > 0 /\ requests' = requests - 1

Serve(h, pc) == handler[h] = "idle" /\ handler' = [handler EXCEPT ![h] = pc]

Served(h, pc) == handler[h] = pc /\ handler' = [handler EXCEPT ![h] = "idle"]

\* handlePause: status read ...
PauseRead(h) ==
    /\ Request
    /\ mig.status \in Working
    /\ Serve(h, "pausing")
    /\ UNCHANGED <<storeVars, indexer>>

\* ... and written, whatever it has become
PauseWrite(h) ==
    /\ Served(h, "pausing")
    /\ UpdateMigrationStatus("PAUSED")
    /\ UNCHANGED <<progress, tasks, indexErrors, faults, indexer, requests>>

\* handleResume
Resume ==
    /\ Request
    /\ mig.status \in Paused
    /\ mig' = Resumed
    /\ SpawnWhen(~mig.discoveryComplete)
    /\ UNCHANGED <<progress, tasks, indexErrors, events, faults, handler>>

\* recoverPausedMigrations: both providers answer again
RecoverConnectionLostMigration ==
    /\ up # {}
    /\ mig.status = "PAUSED_CONNECTION_LOSS"
    /\ mig' = Resumed
    /\ SpawnWhen(~mig.discoveryComplete)
    /\ UNCHANGED <<progress, tasks, indexErrors, events, faults, controlVars>>

Retried == WithStatus({"FAILED", "CANCELLED"})

Minus(a, b) == IF a >= b THEN a - b ELSE 0

\* handleRetryFailed: ResetFailedTasksForRetry
RetryFailed ==
    /\ Request
    /\ mig.status \in Terminal
    /\ Retried # {}
    /\ tasks' = [t \in Tasks |->
                   IF t \in Retried
                   THEN [tasks[t] EXCEPT !.status = "PENDING", !.attempts = 0,
                                         !.retry = FALSE, !.worker = NoProc]
                   ELSE tasks[t]]
    /\ progress' = [progress EXCEPT !.failed = Minus(@, Cardinality(Retried)),
                                    !.processed = Minus(@, Cardinality(Retried))]
    /\ mig' = [mig EXCEPT !.status = "RUNNING", !.failedRetryDone = FALSE,
                          !.notificationGeneration = @ + 1]
    /\ UNCHANGED <<indexErrors, events, faults, indexer, handler>>

\* handleReindex: status read ...
ReindexRead(h) ==
    /\ Request
    /\ mig.status \in {"FAILED", "COMPLETED_WITH_ERRORS"}
    /\ Serve(h, "reindexing")
    /\ UNCHANGED <<storeVars, indexer>>

\* What is left of a deleted row: ids are never used again
DeletedTask(t) ==
    [NoTask EXCEPT !.status = "DELETED", !.claimEpoch = tasks[t].claimEpoch]

\* ... then ResetMigrationForReindex, which deletes the tasks, and a new indexer
ReindexWrite(h) ==
    /\ Served(h, "reindexing")
    /\ tasks' = [t \in Tasks |-> IF t \in Rows THEN DeletedTask(t) ELSE tasks[t]]
    /\ indexErrors' = {}
    /\ progress' = [NoProgress EXCEPT !.verified = progress.verified]
    /\ mig' = [mig EXCEPT !.status = "INDEXING", !.discoveryComplete = FALSE,
                          !.discoveryGeneration = @ + 1,
                          !.notificationGeneration = @ + 1]
    /\ Spawn
    /\ UNCHANGED <<events, faults, requests>>

\* handleCancel: the row, then CancelPendingTasks, then the cancel event
CancelMigration(h) ==
    /\ Request
    /\ Serve(h, "cancelling")
    /\ UpdateMigrationStatus("CANCELLED")
    /\ UNCHANGED <<progress, tasks, indexErrors, faults, indexer>>

CancelPendingTasks(h) ==
    /\ Served(h, "cancelling")
    /\ tasks' = [t \in Tasks |->
                   IF tasks[t].status = "PENDING"
                   THEN [tasks[t] EXCEPT !.status = "CANCELLED"] ELSE tasks[t]]
    /\ UNCHANGED <<mig, progress, indexErrors, events, faults, indexer, requests>>

\* handleSetThreads
SetThreads(n) ==
    /\ Request
    /\ n # mig.threads
    /\ mig' = [mig EXCEPT !.threads = n]
    /\ UNCHANGED <<progress, tasks, indexErrors, events, faults, indexer, handler>>

\* The API process stops in the middle of its requests
HandlersCrash == handler' = [h \in Handlers |-> "idle"] /\ UNCHANGED requests

ControlNext ==
    \/ \E h \in Handlers :
         \/ PauseRead(h)
         \/ PauseWrite(h)
         \/ ReindexRead(h)
         \/ ReindexWrite(h)
         \/ CancelMigration(h)
         \/ CancelPendingTasks(h)
    \/ Resume
    \/ RecoverConnectionLostMigration
    \/ RetryFailed
    \/ \E n \in 1..MaxThreads : SetThreads(n)

=============================================================================

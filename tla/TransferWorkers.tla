--------------------------- MODULE TransferWorkers ---------------------------
(***************************************************************************)
(* The transfer threads of the worker processes (queue.DequeueSQL,         *)
(* processor.processTask, processor.handleTaskFailure) and the periodic    *)
(* jobs of each worker process that move tasks: retry scheduler, recovery  *)
(* of abandoned and orphaned tasks, progress reconciler.                   *)
(*                                                                         *)
(* A thread holds the payload of its claim (task, claim epoch) and, between *)
(* two statements, whatever it read with the first one.                    *)
(***************************************************************************)
EXTENDS MigrationStore

CONSTANTS
    Workers,            \* transfer threads
    ProcOf,             \* the process a thread belongs to
    ConnLossThreshold,  \* connLossEscalationThreshold, maxConnLossTaskAttempts (3)
    FileManager         \* whether this is a file-manager transfer

ASSUME WorkersAssumption ==
    /\ ProcOf \in [Workers -> Procs]
    /\ ConnLossThreshold \in Nat \ {0}
    /\ FileManager \in BOOLEAN

VARIABLES
    worker,       \* per thread: its step, its claim and what it last read
    connLoss,     \* per process: consecutive connection losses, in memory
    reconciler    \* per process: the progress reconciler's loop

workersVars == <<worker, connLoss, reconciler>>

\* claimed: dequeued.  loaded: migration row read.  copying: marked RUNNING.
\* failing: processTask returned an error.  handling: handleTaskFailure has
\* read the migration.  requeueing: it has paused the migration.
\* settling, applying: a file-manager transfer reconciles at once.
WorkerPC == {"idle", "claimed", "loaded", "copying", "failing", "handling",
             "requeueing", "settling", "applying"}

\* What handleTaskFailure tells apart
Failure == {"none", "network", "auth", "permanent", "transient", "cancelled"}

Worker ==
    [ pc    : WorkerPC,
      task  : Tasks,
      epoch : Nat,
      seen  : MigrationStatus,
      error : Failure,
      stats : Stats ]

ConnLoss == [migration : 0..ConnLossThreshold, task : [Tasks -> 0..ConnLossThreshold]]

NoConnLoss == [migration |-> 0, task |-> [t \in Tasks |-> 0]]

Reconciler == [pc : {"idle", "selected", "retried", "applying"}, stats : Stats]

IdleReconciler == [pc |-> "idle", stats |-> NoStats]

WorkersTypeOK ==
    /\ worker \in [Workers -> Worker]
    /\ connLoss \in [Procs -> ConnLoss]
    /\ reconciler \in [Procs -> Reconciler]

\* Idle threads keep the task field of an arbitrary but fixed task
IdleWorker ==
    [pc |-> "idle", task |-> CHOOSE t \in Tasks : TRUE, epoch |-> 0,
     seen |-> "CANCELLED", error |-> "none", stats |-> NoStats]

WorkersInit ==
    /\ worker = [w \in Workers |-> IdleWorker]
    /\ connLoss = [p \in Procs |-> NoConnLoss]
    /\ reconciler = [p \in Procs |-> IdleReconciler]

Busy(w) == worker[w].pc # "idle"

Rest(w) == worker' = [worker EXCEPT ![w] = IdleWorker]

Goto(w, pc) == worker' = [worker EXCEPT ![w].pc = pc]

Errs(w, error) == worker' = [worker EXCEPT ![w].pc = "failing", ![w].error = error]

MyTask(w) == tasks[worker[w].task]

StillClaimed(w) == HoldsClaim(worker[w].task, worker[w].epoch)

-----------------------------------------------------------------------------
(* processTask *)

\* Mutant: the claim keeps the epoch of the previous one
DequeueWithoutEpoch(w, t) ==
    /\ ProcOf[w] \in up
    /\ worker[w].pc = "idle"
    /\ tasks[t].status = "PENDING"
    /\ mig.status \in Working
    /\ Cardinality(WithStatus({"RUNNING"})) < mig.threads
    /\ tasks' = [tasks EXCEPT ![t].status = "RUNNING", ![t].worker = ProcOf[w]]
    /\ worker' = [worker EXCEPT ![w].pc = "claimed", ![w].task = t,
                                ![w].epoch = tasks[t].claimEpoch]
    /\ UNCHANGED <<mig, progress, indexErrors, events, faults, connLoss, reconciler>>

\* DequeueSQL: candidate row locked, then the migration row, then the count
\* of RUNNING tasks against threads, then the claim: one transaction
DequeueSQL(w, t) ==
    /\ ProcOf[w] \in up
    /\ worker[w].pc = "idle"
    /\ tasks[t].status = "PENDING"
    /\ mig.status \in Working
    /\ Cardinality(WithStatus({"RUNNING"})) < mig.threads
    /\ tasks' = [tasks EXCEPT ![t].status = "RUNNING", ![t].worker = ProcOf[w],
                              ![t].claimEpoch = @ + 1]
    /\ worker' = [worker EXCEPT ![w].pc = "claimed", ![w].task = t,
                                ![w].epoch = tasks[t].claimEpoch + 1]
    /\ UNCHANGED <<mig, progress, indexErrors, events, faults, connLoss, reconciler>>

\* GetMigration
LoadMigration(w) ==
    /\ worker[w].pc = "claimed"
    /\ worker' = [worker EXCEPT ![w].pc = "loaded", ![w].seen = mig.status]
    /\ UNCHANGED <<storeVars, connLoss, reconciler>>

\* A statement on the task whose error is only logged: the thread goes on, and
\* the row stays RUNNING until recovery finds it
Logged(Statement) == (Statement /\ UNCHANGED faults) \/ (Fault /\ UNCHANGED tasks)

\* The migration left RUNNING and INDEXING right after the claim
Unrunnable(status) ==
    IF status \in Terminal THEN "SKIPPED"
    ELSE IF status = "CANCELLED" THEN "CANCELLED"
    ELSE "PENDING"

ReturnTask(w) ==
    /\ worker[w].pc = "loaded"
    /\ worker[w].seen \notin Working
    /\ Logged(TransitionClaimedTask(worker[w].task, worker[w].epoch, Unrunnable(worker[w].seen)))
    /\ IF worker[w].seen \in Paused \cup Terminal \cup {"CANCELLED"}
       THEN Rest(w)
       ELSE Errs(w, "transient")
    /\ UNCHANGED <<mig, progress, indexErrors, events, connLoss, reconciler>>

\* UpdateClaimedTaskStatus RUNNING: the last check before the transfer
MarkRunning(w) ==
    /\ worker[w].pc = "loaded"
    /\ worker[w].seen \in Working
    /\ IF StillClaimed(w) THEN Goto(w, "copying") ELSE Errs(w, "transient")
    /\ UNCHANGED <<storeVars, connLoss, reconciler>>

\* Success of any kind ends the streak of connection losses
ClearConnLoss(w) ==
    connLoss' = [connLoss EXCEPT ![ProcOf[w]].migration = 0,
                                 ![ProcOf[w]].task[worker[w].task] = 0]

\* COMPLETED, in one transaction with the counters.  verified is TRUE when the
\* target could be checked inline; a file-manager transfer is never re-checked.
\* A directory keeps its worker_hash, which nobody reads once it is COMPLETED.
CompleteTask(w, verified) ==
    /\ worker[w].pc = "copying"
    /\ FileManager => verified
    /\ UpdateMigrationTaskAndProgress(worker[w].task, worker[w].epoch,
         [MyTask(w) EXCEPT !.status = "COMPLETED", !.worker = NoProc,
                           !.checksumVerified = verified], 1, 0, 0)
    /\ IF StillClaimed(w)
       THEN /\ ClearConnLoss(w)
            /\ IF FileManager THEN Goto(w, "settling") ELSE Rest(w)
       ELSE /\ Errs(w, "transient")
            /\ UNCHANGED connLoss
    /\ UNCHANGED <<mig, indexErrors, events, faults, reconciler>>

\* SKIPPED: existing target, system collection, vault, native duplicate.  A
\* directory skipped for a case collision is not counted in skipped_files.
SkipTask(w, skipped) ==
    /\ worker[w].pc = "copying"
    /\ UpdateMigrationTaskAndProgress(worker[w].task, worker[w].epoch,
         [MyTask(w) EXCEPT !.status = "SKIPPED"], 1, skipped, 0)
    /\ IF StillClaimed(w) THEN Rest(w) ELSE Errs(w, "transient")
    /\ UNCHANGED <<mig, indexErrors, events, faults, connLoss, reconciler>>

\* Credentials, connection, transfer or bookkeeping failed
TransferFails(w, error) ==
    /\ \/ worker[w].pc = "claimed"
       \/ worker[w].pc \in {"loaded", "copying"} /\ worker[w].seen \in Working
    /\ Fault
    /\ Errs(w, error)
    /\ UNCHANGED <<mig, progress, tasks, indexErrors, events, connLoss, reconciler>>

\* The heartbeat lost the claim, or a cancel event arrived: context cancelled
TransferCancelled(w) ==
    /\ worker[w].pc = "copying"
    /\ ~StillClaimed(w) \/ mig.status = "CANCELLED"
    /\ Errs(w, "cancelled")
    /\ UNCHANGED <<storeVars, connLoss, reconciler>>

-----------------------------------------------------------------------------
(* handleTaskFailure *)

\* GetTask and GetMigration; without the task nothing more is done
HandleFailure(w) ==
    /\ worker[w].pc = "failing"
    /\ \/ /\ MyTask(w).status # "DELETED"
          /\ worker' = [worker EXCEPT ![w].pc = "handling", ![w].seen = mig.status]
          /\ UNCHANGED faults
       \/ /\ IF MyTask(w).status = "DELETED" THEN UNCHANGED faults ELSE Fault
          /\ Rest(w)
    /\ UNCHANGED <<mig, progress, tasks, indexErrors, events, connLoss, reconciler>>

Handling(w, errors) ==
    worker[w].pc = "handling" /\ worker[w].seen # "CANCELLED" /\ worker[w].error \in errors

WriteClaimed(w, row) ==
    Logged(UpdateClaimedTaskStatus(worker[w].task, worker[w].epoch, row))

FailedRow(w, retry) ==
    [MyTask(w) EXCEPT !.status = "FAILED", !.retry = retry, !.attempts = Bump(@)]

HandleCancelledMigration(w) ==
    /\ worker[w].pc = "handling"
    /\ worker[w].seen = "CANCELLED"
    /\ WriteClaimed(w, [MyTask(w) EXCEPT !.status = "CANCELLED"])
    /\ Rest(w)
    /\ UNCHANGED <<mig, progress, indexErrors, events, connLoss, reconciler>>

HandleCancelledContext(w) ==
    /\ Handling(w, {"cancelled"})
    /\ WriteClaimed(w, [MyTask(w) EXCEPT !.status = "PENDING"])
    /\ Rest(w)
    /\ UNCHANGED <<mig, progress, indexErrors, events, connLoss, reconciler>>

\* recordConnLoss and recordConnLossTask; values past the threshold act alike
Loss(w) == connLoss[ProcOf[w]]

Saturate(n) == IF n < ConnLossThreshold THEN n + 1 ELSE n

RecordedLoss(w) ==
    [connLoss EXCEPT ![ProcOf[w]].migration = Saturate(@),
                     ![ProcOf[w]].task[worker[w].task] = Saturate(@)]

Escalates(w) ==
    \/ Saturate(Loss(w).migration) >= ConnLossThreshold
    \/ Saturate(Loss(w).task[worker[w].task]) >= ConnLossThreshold

HandleConnLossRetry(w) ==
    /\ Handling(w, {"network"})
    /\ ~Escalates(w)
    /\ connLoss' = RecordedLoss(w)
    /\ WriteClaimed(w, FailedRow(w, TRUE))
    /\ Rest(w)
    /\ UNCHANGED <<mig, progress, indexErrors, events, reconciler>>

\* Pause the migration; if its status changed, the task is left as it is
HandleConnLossEscalate(w) ==
    /\ Handling(w, {"network"})
    /\ Escalates(w)
    /\ \/ /\ PauseMigrationForConnectionLoss
          /\ IF CanPauseForConnectionLoss
             THEN Goto(w, "requeueing") /\ ClearConnLoss(w)
             ELSE Rest(w) /\ connLoss' = RecordedLoss(w)
          /\ UNCHANGED faults
       \/ /\ Fault                               \* the statement fails
          /\ Rest(w) /\ connLoss' = RecordedLoss(w)
          /\ UNCHANGED mig
    /\ UNCHANGED <<progress, tasks, indexErrors, events, reconciler>>

RequeueAfterPause(w) ==
    /\ worker[w].pc = "requeueing"
    /\ WriteClaimed(w, [MyTask(w) EXCEPT !.status = "PENDING", !.attempts = Bump(@)])
    /\ Rest(w)
    /\ UNCHANGED <<mig, progress, indexErrors, events, connLoss, reconciler>>

\* The rejected OAuth token could be refreshed: retry like any other failure
HandleAuthRefreshed(w) ==
    /\ Handling(w, {"auth"})
    /\ Bump(MyTask(w).attempts) <= MaxAttempts
    /\ WriteClaimed(w, FailedRow(w, TRUE))
    /\ Rest(w)
    /\ UNCHANGED <<mig, progress, indexErrors, events, connLoss, reconciler>>

\* FailMigrationForAuthentication: fenced by the claim and by the status
AuthFailureApplies(w) == StillClaimed(w) /\ mig.status \in Working

AuthFailedTasks(w) ==
    [t \in Tasks |->
       IF t = worker[w].task THEN [tasks[t] EXCEPT !.status = "FAILED", !.retry = FALSE]
       ELSE IF tasks[t].status \in {"PENDING", "RUNNING"}
            THEN [tasks[t] EXCEPT !.status = "CANCELLED", !.retry = FALSE]
            ELSE tasks[t]]

Recount(ts) ==
    [progress EXCEPT
       !.processed = Cardinality({t \in Tasks :
           ts[t].status \in {"COMPLETED", "SKIPPED", "FAILED", "CANCELLED"}}),
       !.skipped = Cardinality({t \in Tasks : ts[t].status = "SKIPPED"}),
       !.failed  = Cardinality({t \in Tasks : ts[t].status \in {"FAILED", "CANCELLED"}})]

HandleAuthFailure(w) ==
    /\ Handling(w, {"auth"})
    /\ \/ /\ AuthFailureApplies(w)
          /\ tasks' = AuthFailedTasks(w)
          /\ progress' = Recount(tasks')
          /\ mig' = [mig EXCEPT !.status = "FAILED", !.notificationGeneration = @ + 1]
          /\ CreateEvent(mig'.notificationGeneration)
          /\ UNCHANGED faults
       \/ /\ IF AuthFailureApplies(w) THEN Fault ELSE UNCHANGED faults
          /\ UNCHANGED <<mig, progress, tasks, events>>
    /\ ClearConnLoss(w)
    /\ Rest(w)
    /\ UNCHANGED <<indexErrors, reconciler>>

\* An ordinary failure is retried after a backoff, and already booked
HandleTransient(w) ==
    /\ Handling(w, {"transient"})
    /\ Bump(MyTask(w).attempts) < MaxAttempts
    /\ \/ /\ UpdateMigrationTaskAndProgress(worker[w].task, worker[w].epoch,
                                            FailedRow(w, TRUE), 1, 0, 1)
          /\ UNCHANGED faults
       \/ Fault /\ UNCHANGED <<tasks, progress>>
    /\ Rest(w)
    /\ UNCHANGED <<mig, indexErrors, events, connLoss, reconciler>>

HandleFinal(w) ==
    /\ Handling(w, {"permanent", "transient"})
    /\ worker[w].error = "permanent" \/ Bump(MyTask(w).attempts) >= MaxAttempts
    /\ WriteClaimed(w, FailedRow(w, FALSE))
    /\ connLoss' = [connLoss EXCEPT ![ProcOf[w]].task[worker[w].task] = 0]
    /\ IF FileManager THEN Goto(w, "settling") ELSE Rest(w)
    /\ UNCHANGED <<mig, progress, indexErrors, events, reconciler>>

\* reconcileFileManagerTransferIfDone
SettleSnapshot(w) ==
    /\ worker[w].pc = "settling"
    /\ worker' = [worker EXCEPT ![w].pc = "applying", ![w].stats = TaskStats]
    /\ UNCHANGED <<storeVars, connLoss, reconciler>>

Settle(w) ==
    /\ worker[w].pc = "applying"
    /\ ReconcileMigrationProgress(worker[w].stats)
    /\ Rest(w)
    /\ UNCHANGED <<faults, connLoss, reconciler>>

-----------------------------------------------------------------------------
(* Periodic jobs of a worker process *)

\* requeueFailedTasks: the retry times of S have come
RequeueFailedTasks(S) ==
    /\ up # {}
    /\ mig.status \in Working \cup {"VERIFYING"}
    /\ tasks' = [t \in Tasks |->
                   IF t \in S THEN [tasks[t] EXCEPT !.status = "PENDING", !.retry = FALSE,
                                                    !.checksumVerified = FALSE]
                   ELSE tasks[t]]
    /\ UNCHANGED <<mig, progress, indexErrors, events, faults, workersVars>>

Retryable == {t \in Tasks : tasks[t].status = "FAILED" /\ tasks[t].retry}

\* A claim nobody works for any more; its updated_at can only grow older
Orphaned(t) ==
    /\ tasks[t].status = "RUNNING"
    /\ ~\E w \in Workers : Busy(w) /\ worker[w].task = t
                                   /\ worker[w].epoch = tasks[t].claimEpoch

\* Rows look stale when nobody heartbeats them or when the heartbeat stalls
LooksStale(S) ==
    IF \A t \in S : Orphaned(t) THEN UNCHANGED faults ELSE Fault

RunningOf(p) == {t \in Tasks : tasks[t].status = "RUNNING" /\ tasks[t].worker = p}

\* Mutant: recovery clears the worker but leaves the task RUNNING
ForgetWorker(S) ==
    tasks' = [t \in Tasks |-> IF t \in S THEN [tasks[t] EXCEPT !.worker = NoProc] ELSE tasks[t]]

BackToPending(S) ==
    tasks' = [t \in Tasks |->
                IF t \in S THEN [tasks[t] EXCEPT !.status = "PENDING", !.worker = NoProc]
                ELSE tasks[t]]

\* cleanupAbandonedWorkers: another process finds that the liveness key of p has
\* expired.  Only a process that is cut off or stalled for two minutes loses its
\* key, and with it its heartbeats, while it runs.
RecoverAbandonedTasks(p, S) ==
    /\ S \subseteq RunningOf(p)
    /\ up \ {p} # {}
    /\ IF p \in up THEN Fault ELSE UNCHANGED faults
    /\ BackToPending(S)
    /\ UNCHANGED <<mig, progress, indexErrors, events, workersVars>>

RequeueOrphanedRunningTasks(S) ==
    /\ up # {}
    /\ mig.status \in Working
    /\ S \subseteq WithStatus({"RUNNING"})
    /\ LooksStale(S)
    /\ BackToPending(S)
    /\ UNCHANGED <<mig, progress, indexErrors, events, workersVars>>

\* reconcileActiveMigrations: select, last retry round, reconcile
SelectActiveMigration(p) ==
    /\ p \in up
    /\ reconciler[p].pc = "idle"
    /\ mig.status = "RUNNING"
    /\ reconciler' = [reconciler EXCEPT ![p].pc = "selected"]
    /\ UNCHANGED <<storeVars, worker, connLoss>>

RetryFailedOnce(p) ==
    /\ reconciler[p].pc = "selected"
    /\ \/ MaybeRetryFailedMigrationTasks /\ UNCHANGED faults
       \/ Fault /\ UNCHANGED <<mig, tasks>>      \* logged, and reconciled all the same
    /\ reconciler' = [reconciler EXCEPT ![p].pc = "retried"]
    /\ UNCHANGED <<progress, indexErrors, events, worker, connLoss>>

ReconcileSnapshot(p) ==
    /\ reconciler[p].pc = "retried"
    /\ reconciler' = [reconciler EXCEPT ![p].pc = "applying", ![p].stats = TaskStats]
    /\ UNCHANGED <<storeVars, worker, connLoss>>

Reconcile(p) ==
    /\ reconciler[p].pc = "applying"
    /\ ReconcileMigrationProgress(reconciler[p].stats)
    /\ reconciler' = [reconciler EXCEPT ![p] = IdleReconciler]
    /\ UNCHANGED <<faults, worker, connLoss>>

\* Start: a process comes back under the name it had and requeues those of its
\* rows that are two minutes old.  Of the younger ones it knows nothing.
Start(p, S) ==
    /\ p \notin up
    /\ up' = up \cup {p}
    /\ BackToPending(S)
    /\ UNCHANGED <<mig, progress, indexErrors, events, faults, workersVars>>

\* The process dies and its memory is gone
WorkerCrash(p) ==
    /\ p \in up
    /\ up' = up \ {p}
    /\ Fault
    /\ worker' = [w \in Workers |-> IF ProcOf[w] = p THEN IdleWorker ELSE worker[w]]
    /\ connLoss' = [connLoss EXCEPT ![p] = NoConnLoss]
    /\ reconciler' = [reconciler EXCEPT ![p] = IdleReconciler]
    /\ UNCHANGED <<mig, progress, tasks, indexErrors, events>>

WorkerStep(w) ==
    \/ \E t \in Tasks : DequeueSQL(w, t)
    \/ LoadMigration(w)
    \/ ReturnTask(w)
    \/ MarkRunning(w)
    \/ \E verified \in BOOLEAN : CompleteTask(w, verified)
    \/ \E skipped \in {0, 1} : SkipTask(w, skipped)
    \/ \E error \in Failure \ {"none"} : TransferFails(w, error)
    \/ TransferCancelled(w)
    \/ HandleFailure(w)
    \/ HandleCancelledMigration(w)
    \/ HandleCancelledContext(w)
    \/ HandleConnLossRetry(w)
    \/ HandleConnLossEscalate(w)
    \/ RequeueAfterPause(w)
    \/ HandleAuthRefreshed(w)
    \/ HandleAuthFailure(w)
    \/ HandleTransient(w)
    \/ HandleFinal(w)
    \/ SettleSnapshot(w)
    \/ Settle(w)

Reconciling(p) ==
    \/ SelectActiveMigration(p)
    \/ RetryFailedOnce(p)
    \/ ReconcileSnapshot(p)
    \/ Reconcile(p)

Requeueing ==
    \/ \E p \in Procs : \E S \in SUBSET RunningOf(p) \ {{}} : RecoverAbandonedTasks(p, S)
    \/ \E S \in SUBSET Retryable \ {{}} : RequeueFailedTasks(S)
    \/ \E S \in SUBSET WithStatus({"RUNNING"}) \ {{}} : RequeueOrphanedRunningTasks(S)

WorkersNext ==
    \/ \E w \in Workers : WorkerStep(w)
    \/ \E p \in Procs : Reconciling(p)
    \/ Requeueing

=============================================================================

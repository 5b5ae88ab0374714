------------------------ MODULE MigrationSystemProofs ------------------------
(* Theorems about MigrationSystem, for every value of the constants. *)
EXTENDS MigrationSystem, FiniteSetTheorems, TLAPS

-----------------------------------------------------------------------------
(* Facts about the operators of MigrationStore *)

\* Counting rows of the tasks table gives a natural number
LEMMA CountType ==
    ASSUME NEW S \in SUBSET Tasks
    PROVE  Cardinality(S) \in Nat
BY FS_Subset, FS_CardinalityType, StoreAssumption

\* The statistics reconcileMigrationProgress collects are well typed
LEMMA StatsType == TaskStats \in Stats
<1>1. Active \in SUBSET Tasks /\ WithStatus({"COMPLETED"}) \in SUBSET Tasks
      /\ WithStatus({"SKIPPED"}) \in SUBSET Tasks
      /\ WithStatus({"FAILED", "CANCELLED"}) \in SUBSET Tasks
      /\ Completed(TRUE) \in SUBSET Tasks /\ Completed(FALSE) \in SUBSET Tasks
  BY DEF Active, WithStatus, Completed
<1>2. (indexErrors # {}) \in BOOLEAN
  OBVIOUS
<1> QED BY <1>1, <1>2, CountType DEF TaskStats, Stats

\* So are the statistics of a thread that holds none
LEMMA NoStatsType == NoStats \in Stats
BY DEF NoStats, Stats

\* A fenced task write keeps the table well typed
LEMMA ClaimedWriteType ==
    ASSUME tasks \in [Tasks -> Task], NEW t \in Tasks, NEW e, NEW row \in Task,
           UpdateClaimedTaskStatus(t, e, row)
    PROVE  tasks' \in [Tasks -> Task]
BY DEF UpdateClaimedTaskStatus

\* An environment failure uses up one of the allowed ones
LEMMA FaultType ==
    ASSUME faults \in 0..MaxFaults, Fault
    PROVE  faults' \in 0..MaxFaults
BY StoreAssumption DEF Fault

\* Creating a notification event adds one generation to the table
LEMMA EventType ==
    ASSUME events \in SUBSET Nat, NEW g \in Nat, CreateEvent(g)
    PROVE  events' \in SUBSET Nat
BY DEF CreateEvent

\* Reconciliation, with whatever statistics, keeps the store well typed
LEMMA ReconcileType ==
    ASSUME StoreTypeOK, NEW s \in Stats, ReconcileMigrationProgress(s)
    PROVE  /\ mig' \in Migration
           /\ progress' \in Progress
           /\ tasks' \in [Tasks -> Task]
           /\ indexErrors' \in SUBSET Items
           /\ events' \in SUBSET Nat
<1>1. ReconciledStatus(s) \in MigrationStatus
  BY DEF ReconciledStatus, StoreTypeOK, Migration, MigrationStatus, Sticky, Paused, Terminal, Working
<1>2. mig' \in Migration
  <2> DEFINE g == IF Finishes(s) THEN mig.notificationGeneration + 1
                  ELSE mig.notificationGeneration
  <2>1. g \in Nat
    BY DEF StoreTypeOK, Migration
  <2>2. mig' = [mig EXCEPT !.status = ReconciledStatus(s), !.notificationGeneration = g]
    BY DEF ReconcileMigrationProgress
  <2> HIDE DEF g
  <2> QED BY <1>1, <2>1, <2>2 DEF StoreTypeOK, Migration
<1>3. progress' \in Progress
  <2>1. /\ s.done + s.skipped + s.failed \in Nat
        /\ s.skipped \in Nat /\ s.failed \in Nat /\ s.verified \in Nat
    BY DEF Stats
  <2>2. progress \in Progress /\ progress' = [progress EXCEPT
                      !.processed = s.done + s.skipped + s.failed,
                      !.skipped   = s.skipped,
                      !.failed    = s.failed,
                      !.verified  = s.verified]
    BY DEF ReconcileMigrationProgress, StoreTypeOK
  <2> QED BY <2>1, <2>2 DEF Progress
<1>4. events' \in SUBSET Nat
  <2>1. mig'.notificationGeneration \in Nat
    BY <1>2 DEF Migration
  <2> QED BY <2>1 DEF ReconcileMigrationProgress, StoreTypeOK, CreateEvent
<1> QED BY <1>2, <1>3, <1>4 DEF ReconcileMigrationProgress, StoreTypeOK


-----------------------------------------------------------------------------
(* Type correctness of the transfer workers *)

\* The idle thread and the idle reconciler are well typed
LEMMA IdleTypes == IdleWorker \in Worker /\ IdleReconciler \in Reconciler
<1>1. (CHOOSE t \in Tasks : TRUE) \in Tasks
  BY StoreAssumption
<1>2. "CANCELLED" \in MigrationStatus
  BY DEF MigrationStatus
<1> QED BY <1>1, <1>2, NoStatsType
        DEF IdleWorker, Worker, WorkerPC, Failure, IdleReconciler, Reconciler

\* A thread that gives up its task stays well typed
LEMMA RestType ==
    ASSUME worker \in [Workers -> Worker], NEW w \in Workers, Rest(w)
    PROVE  worker' \in [Workers -> Worker]
BY IdleTypes DEF Rest

\* A thread that moves on in processTask stays well typed
LEMMA GotoType ==
    ASSUME worker \in [Workers -> Worker], NEW w \in Workers, NEW pc \in WorkerPC,
           Goto(w, pc)
    PROVE  worker' \in [Workers -> Worker]
BY DEF Goto, Worker

\* A thread whose processTask returns an error stays well typed
LEMMA ErrsType ==
    ASSUME worker \in [Workers -> Worker], NEW w \in Workers, NEW e \in Failure,
           Errs(w, e)
    PROVE  worker' \in [Workers -> Worker]
<1>1. [worker[w] EXCEPT !.pc = "failing", !.error = e] \in Worker
  BY DEF Worker, WorkerPC
<1> QED BY <1>1 DEF Errs

\* One record of connection-loss counters, with one entry changed
LEMMA ConnLossRecordType ==
    ASSUME NEW c \in ConnLoss, NEW t \in Tasks,
           NEW m \in 0..ConnLossThreshold, NEW n \in 0..ConnLossThreshold
    PROVE  [c EXCEPT !.migration = m, !.task[t] = n] \in ConnLoss
<1>1. [c.task EXCEPT ![t] = n] \in [Tasks -> 0..ConnLossThreshold]
  BY DEF ConnLoss
<1>2. [c EXCEPT !.migration = m, !.task[t] = n]
      = [c EXCEPT !.migration = m, !.task = [c.task EXCEPT ![t] = n]]
  BY DEF ConnLoss
<1> QED BY <1>1, <1>2 DEF ConnLoss

\* The connection-loss counters stay within the threshold
LEMMA ConnLossType ==
    ASSUME connLoss \in [Procs -> ConnLoss], worker \in [Workers -> Worker],
           NEW w \in Workers, ClearConnLoss(w) \/ connLoss' = RecordedLoss(w)
    PROVE  connLoss' \in [Procs -> ConnLoss]
<1> DEFINE p == ProcOf[w]
           t == worker[w].task
           c == connLoss[p]
<1>1. p \in Procs /\ t \in Tasks /\ c \in ConnLoss
  BY WorkersAssumption DEF Worker
<1>2. /\ 0 \in 0..ConnLossThreshold
      /\ Saturate(c.migration) \in 0..ConnLossThreshold
      /\ Saturate(c.task[t]) \in 0..ConnLossThreshold
  BY <1>1, WorkersAssumption DEF Saturate, ConnLoss
<1>3. CASE ClearConnLoss(w)
  <2>1. connLoss' = [connLoss EXCEPT ![p] = [c EXCEPT !.migration = 0, !.task[t] = 0]]
    BY <1>1, <1>3 DEF ClearConnLoss
  <2> QED BY <1>1, <1>2, <2>1, ConnLossRecordType
<1>4. CASE connLoss' = RecordedLoss(w)
  <2>1. connLoss' = [connLoss EXCEPT ![p] =
          [c EXCEPT !.migration = Saturate(c.migration), !.task[t] = Saturate(c.task[t])]]
    BY <1>1, <1>4 DEF RecordedLoss
  <2> QED BY <1>1, <1>2, <2>1, ConnLossRecordType
<1> QED BY <1>3, <1>4

\* The fenced task write that also books counters (UpdateMigrationTaskAndProgress)
\* keeps both well typed
LEMMA BookedWriteType ==
    ASSUME StoreTypeOK, NEW t \in Tasks, NEW e, NEW row \in Task,
           NEW f \in Nat, NEW s \in Nat, NEW g \in Nat,
           UpdateMigrationTaskAndProgress(t, e, row, f, s, g)
    PROVE  tasks' \in [Tasks -> Task] /\ progress' \in Progress
<1>1. tasks' \in [Tasks -> Task]
  BY ClaimedWriteType DEF UpdateMigrationTaskAndProgress, StoreTypeOK
<1>2. progress' \in Progress
  <2> DEFINE v == IF row.checksumVerified THEN progress.verified + 1 ELSE progress.verified
  <2>1. /\ progress.processed + f \in Nat /\ progress.skipped + s \in Nat
        /\ progress.failed + g \in Nat /\ v \in Nat
    BY DEF StoreTypeOK, Progress
  <2>2. CASE HoldsClaim(t, e)
    <3>1. progress' = [progress EXCEPT !.processed = progress.processed + f,
                         !.skipped = progress.skipped + s,
                         !.failed = progress.failed + g, !.verified = v]
      BY <2>2 DEF UpdateMigrationTaskAndProgress, StoreTypeOK, Progress
    <3> HIDE DEF v
    <3> QED BY <2>1, <3>1 DEF StoreTypeOK, Progress
  <2>3. CASE ~HoldsClaim(t, e)
    BY <2>3 DEF UpdateMigrationTaskAndProgress, StoreTypeOK
  <2> QED BY <2>2, <2>3
<1> QED BY <1>1, <1>2

\* The rows the workers write are rows of the table
LEMMA RowTypes ==
    ASSUME NEW r \in Task
    PROVE  /\ \A st \in TaskStatus : [r EXCEPT !.status = st] \in Task
           /\ \A st \in TaskStatus : [r EXCEPT !.status = st, !.worker = NoProc] \in Task
           /\ \A v \in BOOLEAN : [r EXCEPT !.status = "COMPLETED", !.worker = NoProc,
                                            !.checksumVerified = v] \in Task
           /\ \A x \in BOOLEAN : [r EXCEPT !.status = "FAILED", !.retry = x] \in Task
           /\ \A x \in BOOLEAN : [r EXCEPT !.status = "FAILED", !.retry = x,
                                            !.attempts = Bump(@)] \in Task
           /\ [r EXCEPT !.status = "PENDING", !.attempts = Bump(@)] \in Task
<1>1. Bump(r.attempts) \in 0..MaxAttempts + 1
  BY StoreAssumption DEF Bump, Task
<1>2. \A st \in TaskStatus : [r EXCEPT !.status = st, !.worker = NoProc] \in Task
  BY DEF Task
<1>3. \A v \in BOOLEAN : [r EXCEPT !.status = "COMPLETED", !.worker = NoProc,
                                    !.checksumVerified = v] \in Task
  BY DEF Task, TaskStatus
<1>4. \A x \in BOOLEAN : [r EXCEPT !.status = "FAILED", !.retry = x] \in Task
  BY DEF Task, TaskStatus
<1>5. \A x \in BOOLEAN : [r EXCEPT !.status = "FAILED", !.retry = x,
                                    !.attempts = Bump(r.attempts)] \in Task
  BY <1>1 DEF Task, TaskStatus
<1>6. [r EXCEPT !.status = "PENDING", !.attempts = Bump(r.attempts)] \in Task
  BY <1>1 DEF Task, TaskStatus
<1>7. \A st \in TaskStatus : [r EXCEPT !.status = st] \in Task
  BY DEF Task
<1> QED BY <1>2, <1>3, <1>4, <1>5, <1>6, <1>7

\* Every step of a transfer thread keeps the store and the workers well typed
LEMMA WorkerStepType ==
    ASSUME StoreTypeOK, WorkersTypeOK, NEW w \in Workers, WorkerStep(w)
    PROVE  StoreTypeOK' /\ WorkersTypeOK'
<1> DEFINE t == worker[w].task
<1>t. /\ t \in Tasks /\ worker[w].epoch \in Nat /\ tasks[t] \in Task /\ MyTask(w) \in Task
      /\ worker[w].stats \in Stats /\ worker[w] \in Worker
      /\ worker \in [Workers -> Worker] /\ tasks \in [Tasks -> Task]
      /\ connLoss \in [Procs -> ConnLoss]
  BY DEF StoreTypeOK, WorkersTypeOK, Worker, MyTask
<1>s. {"PENDING", "RUNNING", "COMPLETED", "SKIPPED", "FAILED", "CANCELLED"} \subseteq TaskStatus
  BY DEF TaskStatus
<1>p. {"claimed", "loaded", "copying", "failing", "handling", "requeueing", "settling",
       "applying"} \subseteq WorkerPC /\ {"transient", "cancelled"} \subseteq Failure
  BY DEF WorkerPC, Failure
<1>m. mig.status \in MigrationStatus
  BY DEF StoreTypeOK, Migration
<1>u. \A u \in Tasks : tasks[u].claimEpoch + 1 \in Nat
  BY DEF StoreTypeOK, Task
<1>f. faults \in 0..MaxFaults /\ (Fault => faults' \in 0..MaxFaults)
  BY FaultType DEF StoreTypeOK
<1>w. ASSUME NEW row \in Task, WriteClaimed(w, row)
      PROVE  tasks' \in [Tasks -> Task] /\ faults' \in 0..MaxFaults
  <2>1. CASE UpdateClaimedTaskStatus(t, worker[w].epoch, row) /\ UNCHANGED faults
    BY <2>1, <1>t, <1>f, ClaimedWriteType
  <2>2. CASE Fault /\ UNCHANGED tasks
    BY <2>2, <1>t, <1>f
  <2> QED BY <1>w, <2>1, <2>2 DEF WriteClaimed, Logged
<1>1. ASSUME NEW u \in Tasks, DequeueSQL(w, u) PROVE StoreTypeOK' /\ WorkersTypeOK'
  <2>1. [tasks[u] EXCEPT !.status = "RUNNING", !.worker = ProcOf[w],
                         !.claimEpoch = tasks[u].claimEpoch + 1] \in Task
    BY <1>s, <1>u, WorkersAssumption DEF StoreTypeOK, Task
  <2>2. tasks' = [tasks EXCEPT ![u] = [tasks[u] EXCEPT !.status = "RUNNING",
                    !.worker = ProcOf[w], !.claimEpoch = tasks[u].claimEpoch + 1]]
    BY <1>1, <1>t DEF DequeueSQL, Task
  <2>3. [worker[w] EXCEPT !.pc = "claimed", !.task = u,
                          !.epoch = tasks[u].claimEpoch + 1] \in Worker
    BY <1>t, <1>p, <1>u DEF Worker
  <2>4. worker' = [worker EXCEPT ![w] = [worker[w] EXCEPT !.pc = "claimed", !.task = u,
                                           !.epoch = tasks[u].claimEpoch + 1]]
    BY <1>1, <1>t DEF DequeueSQL, Worker
  <2>5. tasks' \in [Tasks -> Task] /\ worker' \in [Workers -> Worker]
    BY <1>t, <2>1, <2>2, <2>3, <2>4
  <2> QED BY <1>1, <2>5 DEF DequeueSQL, StoreTypeOK, WorkersTypeOK
<1>2. CASE LoadMigration(w)
  <2>1. [worker[w] EXCEPT !.pc = "loaded", !.seen = mig.status] \in Worker
    BY <1>t, <1>p, <1>m DEF Worker
  <2> QED BY <1>2, <2>1 DEF LoadMigration, StoreTypeOK, WorkersTypeOK, storeVars
<1>3. CASE ReturnTask(w)
  <2>1. Unrunnable(worker[w].seen) \in TaskStatus
    BY <1>s DEF Unrunnable
  <2>2. tasks' \in [Tasks -> Task] /\ faults' \in 0..MaxFaults
    <3>1. CASE TransitionClaimedTask(t, worker[w].epoch, Unrunnable(worker[w].seen))
               /\ UNCHANGED faults
      BY <3>1, <1>t, <1>f, <2>1, RowTypes, ClaimedWriteType DEF TransitionClaimedTask
    <3>2. CASE Fault /\ UNCHANGED tasks
      BY <3>2, <1>t, <1>f
    <3> QED BY <1>3, <3>1, <3>2 DEF ReturnTask, Logged
  <2>3. worker' \in [Workers -> Worker]
    BY <1>3, <1>t, <1>p, RestType, ErrsType DEF ReturnTask
  <2> QED BY <1>3, <2>2, <2>3 DEF ReturnTask, StoreTypeOK, WorkersTypeOK
<1>4. CASE MarkRunning(w)
  <2>1. worker' \in [Workers -> Worker]
    BY <1>4, <1>t, <1>p, GotoType, ErrsType DEF MarkRunning
  <2> QED BY <1>4, <2>1 DEF MarkRunning, StoreTypeOK, WorkersTypeOK, storeVars
<1>5. ASSUME NEW v \in BOOLEAN, CompleteTask(w, v) PROVE StoreTypeOK' /\ WorkersTypeOK'
  <2>1. tasks' \in [Tasks -> Task] /\ progress' \in Progress
    BY <1>5, <1>t, RowTypes, BookedWriteType DEF CompleteTask
  <2>2. worker' \in [Workers -> Worker]
    BY <1>5, <1>t, <1>p, RestType, GotoType, ErrsType DEF CompleteTask
  <2>3. connLoss' \in [Procs -> ConnLoss]
    BY <1>5, <1>t, ConnLossType DEF CompleteTask
  <2> QED BY <1>5, <2>1, <2>2, <2>3, SMTT(40) DEF CompleteTask, StoreTypeOK, WorkersTypeOK
<1>6. ASSUME NEW k \in {0, 1}, SkipTask(w, k) PROVE StoreTypeOK' /\ WorkersTypeOK'
  <2>1. tasks' \in [Tasks -> Task] /\ progress' \in Progress
    <3>1. k \in Nat
      OBVIOUS
    <3>2. [MyTask(w) EXCEPT !.status = "SKIPPED"] \in Task
      BY <1>t, <1>s, RowTypes
    <3> QED BY <1>6, <1>t, <3>1, <3>2, BookedWriteType DEF SkipTask
  <2>2. worker' \in [Workers -> Worker]
    BY <1>6, <1>t, <1>p, RestType, ErrsType DEF SkipTask
  <2> QED BY <1>6, <2>1, <2>2 DEF SkipTask, StoreTypeOK, WorkersTypeOK
<1>7. ASSUME NEW e \in Failure, TransferFails(w, e) PROVE StoreTypeOK' /\ WorkersTypeOK'
  <2>1. faults' \in 0..MaxFaults
    BY <1>7, FaultType DEF TransferFails, StoreTypeOK
  <2>2. worker' \in [Workers -> Worker]
    BY <1>7, <1>t, ErrsType DEF TransferFails
  <2> QED BY <1>7, <2>1, <2>2 DEF TransferFails, StoreTypeOK, WorkersTypeOK
<1>8. CASE TransferCancelled(w)
  <2>1. worker' \in [Workers -> Worker]
    BY <1>8, <1>t, <1>p, ErrsType DEF TransferCancelled
  <2> QED BY <1>8, <2>1 DEF TransferCancelled, StoreTypeOK, WorkersTypeOK, storeVars
<1>9. CASE HandleFailure(w)
  <2>1. [worker[w] EXCEPT !.pc = "handling", !.seen = mig.status] \in Worker
    BY <1>t, <1>p, <1>m DEF Worker
  <2>2. worker' \in [Workers -> Worker]
    BY <1>9, <1>t, <2>1, RestType DEF HandleFailure
  <2>3. faults' \in 0..MaxFaults
    BY <1>9, <1>f DEF HandleFailure
  <2> QED BY <1>9, <2>2, <2>3 DEF HandleFailure, StoreTypeOK, WorkersTypeOK
<1>10. CASE HandleCancelledMigration(w) \/ HandleCancelledContext(w) \/ RequeueAfterPause(w)
  <2>1. tasks' \in [Tasks -> Task] /\ faults' \in 0..MaxFaults
    BY <1>10, <1>t, <1>s, <1>w, RowTypes
       DEF HandleCancelledMigration, HandleCancelledContext, RequeueAfterPause
  <2>2. worker' \in [Workers -> Worker]
    BY <1>10, <1>t, RestType
       DEF HandleCancelledMigration, HandleCancelledContext, RequeueAfterPause
  <2> QED BY <1>10, <2>1, <2>2, SMTT(40) DEF HandleCancelledMigration, HandleCancelledContext,
             RequeueAfterPause, StoreTypeOK, WorkersTypeOK
<1>11. CASE HandleConnLossRetry(w)
  <2>1. tasks' \in [Tasks -> Task] /\ faults' \in 0..MaxFaults
    BY <1>11, <1>t, <1>w, RowTypes DEF HandleConnLossRetry, FailedRow
  <2>2. worker' \in [Workers -> Worker] /\ connLoss' \in [Procs -> ConnLoss]
    BY <1>11, <1>t, RestType, ConnLossType DEF HandleConnLossRetry
  <2> QED BY <1>11, <2>1, <2>2, SMTT(40) DEF HandleConnLossRetry, StoreTypeOK, WorkersTypeOK
<1>12. CASE HandleConnLossEscalate(w)
  <2>1. mig' \in Migration /\ faults' \in 0..MaxFaults
    <3>1. [mig EXCEPT !.status = "PAUSED_CONNECTION_LOSS", !.indexingLease = FALSE] \in Migration
      BY DEF StoreTypeOK, Migration, MigrationStatus, Paused
    <3> QED BY <1>12, <1>f, <3>1
            DEF HandleConnLossEscalate, PauseMigrationForConnectionLoss, StoreTypeOK
  <2>2. worker' \in [Workers -> Worker]
    BY <1>12, <1>t, <1>p, RestType, GotoType DEF HandleConnLossEscalate
  <2>3. connLoss' \in [Procs -> ConnLoss]
    BY <1>12, <1>t, ConnLossType DEF HandleConnLossEscalate
  <2> QED BY <1>12, <2>1, <2>2, <2>3 DEF HandleConnLossEscalate, StoreTypeOK, WorkersTypeOK
<1>13. CASE HandleAuthRefreshed(w)
  <2>1. tasks' \in [Tasks -> Task] /\ faults' \in 0..MaxFaults
    BY <1>13, <1>t, <1>w, RowTypes DEF HandleAuthRefreshed, FailedRow
  <2>2. worker' \in [Workers -> Worker]
    BY <1>13, <1>t, RestType DEF HandleAuthRefreshed
  <2> QED BY <1>13, <2>1, <2>2 DEF HandleAuthRefreshed, StoreTypeOK, WorkersTypeOK
<1>14. CASE HandleAuthFailure(w)
  <2>1. CASE AuthFailureApplies(w) /\ tasks' = AuthFailedTasks(w)
             /\ progress' = Recount(tasks')
             /\ mig' = [mig EXCEPT !.status = "FAILED", !.notificationGeneration = @ + 1]
             /\ CreateEvent(mig'.notificationGeneration) /\ UNCHANGED faults
    <3>1. AuthFailedTasks(w) \in [Tasks -> Task]
      <4>1. \A u \in Tasks : /\ [tasks[u] EXCEPT !.status = "FAILED", !.retry = FALSE] \in Task
                             /\ [tasks[u] EXCEPT !.status = "CANCELLED", !.retry = FALSE] \in Task
        BY <1>t DEF Task, TaskStatus
      <4> QED BY <1>t, <4>1 DEF AuthFailedTasks
    <3>2. Recount(tasks') \in Progress
      <4> DEFINE A == {u \in Tasks : tasks'[u].status \in {"COMPLETED", "SKIPPED", "FAILED", "CANCELLED"}}
                 B == {u \in Tasks : tasks'[u].status = "SKIPPED"}
                 C == {u \in Tasks : tasks'[u].status \in {"FAILED", "CANCELLED"}}
      <4>1. Cardinality(A) \in Nat /\ Cardinality(B) \in Nat /\ Cardinality(C) \in Nat
        BY CountType
      <4>2. Recount(tasks') = [progress EXCEPT !.processed = Cardinality(A),
                                  !.skipped = Cardinality(B), !.failed = Cardinality(C)]
        BY DEF Recount
      <4> HIDE DEF A, B, C
      <4> QED BY <4>1, <4>2 DEF StoreTypeOK, Progress
    <3>3. mig' \in Migration
      <4>1. mig.notificationGeneration + 1 \in Nat /\ "FAILED" \in MigrationStatus
        BY DEF StoreTypeOK, Migration, MigrationStatus, Terminal
      <4>2. mig' = [mig EXCEPT !.status = "FAILED",
                               !.notificationGeneration = mig.notificationGeneration + 1]
        BY <2>1 DEF StoreTypeOK, Migration
      <4> QED BY <4>1, <4>2 DEF StoreTypeOK, Migration
    <3>4. events' \in SUBSET Nat
      <4>1. mig'.notificationGeneration \in Nat
        BY <3>3 DEF Migration
      <4> QED BY <2>1, <4>1 DEF StoreTypeOK, CreateEvent
    <3> QED BY <1>14, <2>1, <3>1, <3>2, <3>3, <3>4, <1>t, RestType, ConnLossType, SMTT(40)
            DEF HandleAuthFailure, StoreTypeOK, WorkersTypeOK
  <2>2. CASE /\ IF AuthFailureApplies(w) THEN Fault ELSE UNCHANGED faults
             /\ UNCHANGED <<mig, progress, tasks, events>>
    BY <1>14, <2>2, <1>t, <1>f, RestType, ConnLossType
       DEF HandleAuthFailure, StoreTypeOK, WorkersTypeOK
  <2> QED BY <1>14, <2>1, <2>2 DEF HandleAuthFailure
<1>15. CASE HandleTransient(w)
  <2>1. tasks' \in [Tasks -> Task] /\ progress' \in Progress /\ faults' \in 0..MaxFaults
    <3>1. FailedRow(w, TRUE) \in Task
      BY <1>t, RowTypes DEF FailedRow
    <3>2. CASE Fault /\ UNCHANGED <<tasks, progress>>
      BY <3>2, <1>t, <1>f DEF StoreTypeOK
    <3>3. CASE UpdateMigrationTaskAndProgress(t, worker[w].epoch, FailedRow(w, TRUE), 1, 0, 1)
               /\ UNCHANGED faults
      BY <3>3, <1>t, <1>f, <3>1, BookedWriteType
    <3> QED BY <1>15, <3>2, <3>3 DEF HandleTransient
  <2>2. worker' \in [Workers -> Worker]
    BY <1>15, <1>t, RestType DEF HandleTransient
  <2> QED BY <1>15, <2>1, <2>2 DEF HandleTransient, StoreTypeOK, WorkersTypeOK
<1>16. CASE HandleFinal(w)
  <2>1. tasks' \in [Tasks -> Task] /\ faults' \in 0..MaxFaults
    BY <1>16, <1>t, <1>w, RowTypes DEF HandleFinal, FailedRow
  <2>2. worker' \in [Workers -> Worker]
    BY <1>16, <1>t, <1>p, RestType, GotoType DEF HandleFinal
  <2>3. connLoss' \in [Procs -> ConnLoss]
    <3> DEFINE c == connLoss[ProcOf[w]]
    <3>1. ProcOf[w] \in Procs /\ c \in ConnLoss /\ 0 \in 0..ConnLossThreshold
          /\ c.migration \in 0..ConnLossThreshold
      BY <1>t, WorkersAssumption DEF ConnLoss
    <3>2. connLoss' = [connLoss EXCEPT ![ProcOf[w]] =
                         [c EXCEPT !.migration = c.migration, !.task[t] = 0]]
      BY <1>16, <1>t, <3>1 DEF HandleFinal, ConnLoss
    <3> QED BY <1>t, <3>1, <3>2, ConnLossRecordType
  <2> QED BY <1>16, <2>1, <2>2, <2>3 DEF HandleFinal, StoreTypeOK, WorkersTypeOK
<1>17. CASE SettleSnapshot(w)
  <2>1. [worker[w] EXCEPT !.pc = "applying", !.stats = TaskStats] \in Worker
    BY <1>t, <1>p, StatsType DEF Worker
  <2> QED BY <1>17, <2>1 DEF SettleSnapshot, StoreTypeOK, WorkersTypeOK, storeVars
<1>18. CASE Settle(w)
  BY <1>18, <1>t, ReconcileType, RestType DEF Settle, StoreTypeOK, WorkersTypeOK
<1> QED BY <1>1, <1>2, <1>3, <1>4, <1>5, <1>6, <1>7, <1>8, <1>9, <1>10, <1>11, <1>12,
           <1>13, <1>14, <1>15, <1>16, <1>17, <1>18 DEF WorkerStep

\* ... and so does every step of a process's periodic jobs, its crash and its start
LEMMA WorkersNextType ==
    ASSUME StoreTypeOK, WorkersTypeOK,
           WorkersNext \/ \E p \in Procs : WorkerCrash(p) \/ \E S : Start(p, S)
    PROVE  StoreTypeOK' /\ WorkersTypeOK'
<1>t. /\ tasks \in [Tasks -> Task] /\ worker \in [Workers -> Worker]
      /\ reconciler \in [Procs -> Reconciler] /\ faults \in 0..MaxFaults
  BY DEF StoreTypeOK, WorkersTypeOK
<1>b. ASSUME NEW S, BackToPending(S) PROVE tasks' \in [Tasks -> Task]
  <2>1. \A u \in Tasks : [tasks[u] EXCEPT !.status = "PENDING", !.worker = NoProc] \in Task
    BY <1>t DEF Task, TaskStatus
  <2> QED BY <1>t, <1>b, <2>1 DEF BackToPending
<1>f. ASSUME NEW S, LooksStale(S) PROVE faults' \in 0..MaxFaults
  BY <1>t, <1>f, FaultType DEF LooksStale
<1>1. ASSUME NEW w \in Workers, WorkerStep(w) PROVE StoreTypeOK' /\ WorkersTypeOK'
  BY <1>1, WorkerStepType
<1>2. ASSUME NEW p \in Procs, NEW S, RecoverAbandonedTasks(p, S)
      PROVE  StoreTypeOK' /\ WorkersTypeOK'
  <2>1. tasks' \in [Tasks -> Task] /\ faults' \in 0..MaxFaults
    BY <1>2, <1>b, <1>t, FaultType DEF RecoverAbandonedTasks
  <2> QED BY <1>2, <2>1 DEF RecoverAbandonedTasks, StoreTypeOK, WorkersTypeOK, workersVars
<1>3. ASSUME NEW p \in Procs, SelectActiveMigration(p) PROVE StoreTypeOK' /\ WorkersTypeOK'
  <2>1. reconciler' \in [Procs -> Reconciler]
    BY <1>3, <1>t DEF SelectActiveMigration, Reconciler
  <2> QED BY <1>3, <2>1 DEF SelectActiveMigration, StoreTypeOK, WorkersTypeOK, storeVars
<1>4. ASSUME NEW p \in Procs, RetryFailedOnce(p) PROVE StoreTypeOK' /\ WorkersTypeOK'
  <2>1. reconciler' \in [Procs -> Reconciler]
    BY <1>4, <1>t DEF RetryFailedOnce, Reconciler
  <2>2. faults' \in 0..MaxFaults
    BY <1>4, <1>t, FaultType DEF RetryFailedOnce
  <2>3. mig' \in Migration
    BY <1>4 DEF RetryFailedOnce, MaybeRetryFailedMigrationTasks, StoreTypeOK, Migration
  <2>4. tasks' \in [Tasks -> Task]
    <3>1. 0 \in 0..MaxAttempts + 1
      BY StoreAssumption
    <3>2. \A u \in Tasks : [tasks[u] EXCEPT !.status = "PENDING", !.attempts = 0,
                              !.worker = NoProc, !.checksumVerified = FALSE] \in Task
      BY <1>t, <3>1 DEF Task, TaskStatus
    <3> QED BY <1>4, <1>t, <3>2 DEF RetryFailedOnce, MaybeRetryFailedMigrationTasks
  <2> QED BY <1>4, <2>1, <2>2, <2>3, <2>4 DEF RetryFailedOnce, StoreTypeOK, WorkersTypeOK
<1>5. ASSUME NEW p \in Procs, ReconcileSnapshot(p) PROVE StoreTypeOK' /\ WorkersTypeOK'
  <2>1. [reconciler[p] EXCEPT !.pc = "applying", !.stats = TaskStats] \in Reconciler
    BY <1>t, StatsType DEF Reconciler
  <2> QED BY <1>5, <2>1 DEF ReconcileSnapshot, StoreTypeOK, WorkersTypeOK, storeVars
<1>6. ASSUME NEW p \in Procs, Reconcile(p) PROVE StoreTypeOK' /\ WorkersTypeOK'
  <2>1. reconciler[p].stats \in Stats
    BY <1>t DEF Reconciler
  <2>2. reconciler' \in [Procs -> Reconciler]
    BY <1>6, <1>t, IdleTypes DEF Reconcile
  <2> QED BY <1>6, <2>1, <2>2, ReconcileType DEF Reconcile, StoreTypeOK, WorkersTypeOK
<1>7. ASSUME NEW S, RequeueFailedTasks(S) PROVE StoreTypeOK' /\ WorkersTypeOK'
  <2>1. \A u \in Tasks : [tasks[u] EXCEPT !.status = "PENDING", !.retry = FALSE,
                            !.checksumVerified = FALSE] \in Task
    BY <1>t DEF Task, TaskStatus
  <2>2. tasks' \in [Tasks -> Task]
    BY <1>7, <1>t, <2>1 DEF RequeueFailedTasks
  <2> QED BY <1>7, <2>2 DEF RequeueFailedTasks, StoreTypeOK, WorkersTypeOK, workersVars
<1>8. ASSUME NEW S, RequeueOrphanedRunningTasks(S) PROVE StoreTypeOK' /\ WorkersTypeOK'
  <2>1. tasks' \in [Tasks -> Task] /\ faults' \in 0..MaxFaults
    BY <1>8, <1>b, <1>f DEF RequeueOrphanedRunningTasks
  <2> QED BY <1>8, <2>1 DEF RequeueOrphanedRunningTasks, StoreTypeOK, WorkersTypeOK, workersVars
<1>9. ASSUME NEW p \in Procs, WorkerCrash(p) PROVE StoreTypeOK' /\ WorkersTypeOK'
  <2>1. NoConnLoss \in ConnLoss
    BY WorkersAssumption DEF NoConnLoss, ConnLoss
  <2>2. /\ worker' \in [Workers -> Worker] /\ connLoss' \in [Procs -> ConnLoss]
        /\ reconciler' \in [Procs -> Reconciler]
    BY <1>9, <1>t, <2>1, IdleTypes DEF WorkerCrash, WorkersTypeOK
  <2>3. faults' \in 0..MaxFaults
    BY <1>9, <1>t, FaultType DEF WorkerCrash
  <2> QED BY <1>9, <2>2, <2>3 DEF WorkerCrash, StoreTypeOK, WorkersTypeOK
<1>10. ASSUME NEW p \in Procs, NEW S, Start(p, S) PROVE StoreTypeOK' /\ WorkersTypeOK'
  <2>1. tasks' \in [Tasks -> Task] BY <1>10, <1>b DEF Start
  <2> QED BY <1>10, <2>1 DEF Start, StoreTypeOK, WorkersTypeOK, workersVars
<1> QED BY <1>1, <1>2, <1>3, <1>4, <1>5, <1>6, <1>7, <1>8, <1>9, <1>10 DEF WorkersNext, Reconciling, Requeueing

-----------------------------------------------------------------------------
(* Type correctness of verification *)

\* Every step of a verification pass keeps the store and the passes well typed
LEMMA VerificationNextType ==
    ASSUME StoreTypeOK, VerificationTypeOK, VerificationNext
    PROVE  StoreTypeOK' /\ VerificationTypeOK'
<1>t. /\ mig \in Migration /\ tasks \in [Tasks -> Task] /\ progress \in Progress
      /\ verifier \in [Procs -> Verifier] /\ faults \in 0..MaxFaults
  BY DEF StoreTypeOK, VerificationTypeOK
<1>g. mig.verificationGeneration + 1 \in Nat /\ progress.verified + 1 \in Nat
  BY <1>t DEF Migration, Progress
<1>i. IdleVerifier \in Verifier
  BY NoStatsType DEF IdleVerifier, Verifier, VerifierPC
<1>e. ASSUME NEW p \in Procs, EndPass(p) PROVE verifier' \in [Procs -> Verifier]
  <2>1. [verifier[p] EXCEPT !.pc = "releasing", !.todo = {}] \in Verifier
    BY <1>t DEF Verifier, VerifierPC
  <2> QED BY <1>e, <1>t, <2>1 DEF EndPass
<1>l. [mig EXCEPT !.verificationLease = FALSE] \in Migration
  BY <1>t DEF Migration
<1>1. ASSUME NEW p \in Procs, ClaimMigrationVerification(p)
      PROVE  StoreTypeOK' /\ VerificationTypeOK'
  <2>1. mig' \in Migration
    <3>1. mig' = [mig EXCEPT !.verificationGeneration = mig.verificationGeneration + 1,
                             !.verificationLease = TRUE]
      BY <1>1, <1>t DEF ClaimMigrationVerification, Migration
    <3> QED BY <1>t, <1>g, <3>1 DEF Migration
  <2>2. [verifier[p] EXCEPT !.pc = "claimed", !.generation = mig.verificationGeneration + 1]
          \in Verifier
    BY <1>t, <1>g DEF Verifier, VerifierPC
  <2> QED BY <1>1, <1>t, <2>1, <2>2
          DEF ClaimMigrationVerification, StoreTypeOK, VerificationTypeOK
<1>2. ASSUME NEW p \in Procs, AbandonClaim(p) PROVE StoreTypeOK' /\ VerificationTypeOK'
  BY <1>2, <1>t, <1>i, FaultType DEF AbandonClaim, StoreTypeOK, VerificationTypeOK
<1>3. ASSUME NEW p \in Procs, RenewVerificationLease(p)
      PROVE  StoreTypeOK' /\ VerificationTypeOK'
  <2>1. [verifier[p] EXCEPT !.pc = "renewed"] \in Verifier
    BY <1>t DEF Verifier, VerifierPC
  <2>2. verifier' \in [Procs -> Verifier]
    BY <1>3, <1>t, <1>e, <2>1 DEF RenewVerificationLease
  <2> QED BY <1>3, <2>2 DEF RenewVerificationLease, StoreTypeOK, VerificationTypeOK, storeVars
<1>4. ASSUME NEW p \in Procs, PassFails(p) PROVE StoreTypeOK' /\ VerificationTypeOK'
  BY <1>4, <1>t, <1>e, FaultType DEF PassFails, StoreTypeOK, VerificationTypeOK
<1>5. ASSUME NEW p \in Procs, ListUnverifiedTasks(p) PROVE StoreTypeOK' /\ VerificationTypeOK'
  <2>1. [verifier[p] EXCEPT !.pc = "checking", !.todo = Completed(FALSE)] \in Verifier
    BY <1>t DEF Verifier, VerifierPC, Completed
  <2> QED BY <1>5, <1>t, <2>1 DEF ListUnverifiedTasks, StoreTypeOK, VerificationTypeOK, storeVars
<1>6. ASSUME NEW p \in Procs, NEW u \in Tasks, MarkVerified(p, u)
      PROVE  StoreTypeOK' /\ VerificationTypeOK'
  <2>1. tasks' \in [Tasks -> Task]
    <3>1. [tasks[u] EXCEPT !.checksumVerified = TRUE] \in Task
      BY <1>t DEF Task
    <3> QED BY <1>6, <1>t, <3>1 DEF MarkVerified
  <2>2. progress' \in Progress
    <3>1. CASE CanMark(p, u)
      <4>1. progress' = [progress EXCEPT !.verified = progress.verified + 1]
        BY <1>6, <3>1, <1>t DEF MarkVerified, Progress
      <4> QED BY <1>t, <1>g, <4>1 DEF Progress
    <3> QED BY <1>6, <1>t, <3>1 DEF MarkVerified
  <2>3. verifier' \in [Procs -> Verifier]
    BY <1>6, <1>t DEF MarkVerified, Verifier
  <2> QED BY <1>6, <2>1, <2>2, <2>3 DEF MarkVerified, StoreTypeOK, VerificationTypeOK
<1>7. ASSUME NEW p \in Procs, NEW u \in Tasks, MarkMismatch(p, u) \/ LeaveUnverified(p, u)
      PROVE  StoreTypeOK' /\ VerificationTypeOK'
  <2>1. tasks' \in [Tasks -> Task]
    <3>1. [tasks[u] EXCEPT !.status = "FAILED", !.retry = FALSE] \in Task
      BY <1>t, RowTypes
    <3> QED BY <1>7, <1>t, <3>1 DEF MarkMismatch, LeaveUnverified
  <2>2. verifier' \in [Procs -> Verifier]
    <3>1. \A R \in SUBSET Tasks : [verifier[p] EXCEPT !.todo = R] \in Verifier
      BY <1>t DEF Verifier
    <3>2. {} \in SUBSET Tasks /\ verifier[p].todo \ {u} \in SUBSET Tasks
      BY <1>t DEF Verifier
    <3> QED BY <1>7, <1>t, <3>1, <3>2 DEF MarkMismatch, LeaveUnverified
  <2>3. faults' \in 0..MaxFaults
    BY <1>7, <1>t, FaultType DEF MarkMismatch, LeaveUnverified
  <2> QED BY <1>7, <2>1, <2>2, <2>3 DEF MarkMismatch, LeaveUnverified, StoreTypeOK, VerificationTypeOK
<1>8. ASSUME NEW p \in Procs, PassCancelled(p) PROVE StoreTypeOK' /\ VerificationTypeOK'
  BY <1>8, <1>e DEF PassCancelled, StoreTypeOK, VerificationTypeOK, storeVars
<1>9. ASSUME NEW p \in Procs, FinishSnapshot(p) PROVE StoreTypeOK' /\ VerificationTypeOK'
  <2>1. [verifier[p] EXCEPT !.pc = "applying", !.stats = TaskStats] \in Verifier
    BY <1>t, StatsType DEF Verifier, VerifierPC
  <2> QED BY <1>9, <1>t, <2>1 DEF FinishSnapshot, StoreTypeOK, VerificationTypeOK, storeVars
<1>10. ASSUME NEW p \in Procs, FinishPass(p) PROVE StoreTypeOK' /\ VerificationTypeOK'
  <2>1. verifier[p].stats \in Stats
    BY <1>t DEF Verifier
  <2> QED BY <1>10, <1>e, <2>1, ReconcileType DEF FinishPass, StoreTypeOK, VerificationTypeOK
<1>11. ASSUME NEW p \in Procs, ReleaseVerificationLease(p)
       PROVE  StoreTypeOK' /\ VerificationTypeOK'
  BY <1>11, <1>t, <1>i, <1>l DEF ReleaseVerificationLease, StoreTypeOK, VerificationTypeOK
<1>12. CASE VerificationLeaseExpires
  <2>1. faults' \in 0..MaxFaults
    BY <1>12, <1>t, FaultType DEF VerificationLeaseExpires
  <2> QED BY <1>12, <1>t, <1>l, <2>1 DEF VerificationLeaseExpires, StoreTypeOK, VerificationTypeOK
<1> QED BY <1>1, <1>2, <1>3, <1>4, <1>5, <1>6, <1>7, <1>8, <1>9, <1>10, <1>11, <1>12
        DEF VerificationNext, VerifierStep

-----------------------------------------------------------------------------
(* Type correctness of discovery *)

\* What the statements on the migrations row write is a row
LEMMA MigrationRowTypes ==
    ASSUME mig \in Migration
    PROVE  /\ IndexingFailed \in Migration /\ IndexingCompleted \in Migration
           /\ Resumed \in Migration
           /\ \A i \in Indexers : indexer[i] \in Indexer => IndexingToRunning(i) \in Migration
           /\ \A x \in BOOLEAN : [mig EXCEPT !.indexingLease = x] \in Migration
           /\ \A st \in MigrationStatus : [mig EXCEPT !.status = st] \in Migration
<1>1. /\ mig.notificationGeneration + 1 \in Nat /\ mig.discoveryGeneration + 1 \in Nat
      /\ {"FAILED", "COMPLETED", "RUNNING", "INDEXING"} \subseteq MigrationStatus
  BY DEF Migration, MigrationStatus, Terminal, Working
<1>2. IndexingFailed \in Migration
  BY <1>1 DEF Migration, IndexingFailed
<1>3. IndexingCompleted \in Migration
  BY <1>1 DEF Migration, IndexingCompleted
<1>4. ASSUME NEW i \in Indexers, indexer[i] \in Indexer PROVE IndexingToRunning(i) \in Migration
  <2>1. indexer[i].errors \ indexErrors \in SUBSET Items BY <1>4 DEF Indexer
  <2> QED BY <1>1, <2>1 DEF Migration, IndexingToRunning
<1>5. Resumed \in Migration
  BY <1>1 DEF Migration, Resumed
<1>6. /\ \A x \in BOOLEAN : [mig EXCEPT !.indexingLease = x] \in Migration
      /\ \A st \in MigrationStatus : [mig EXCEPT !.status = st] \in Migration
  BY DEF Migration
<1> QED BY <1>2, <1>3, <1>4, <1>5, <1>6

\* The memory of an idle and of a just started indexer
LEMMA IndexerTypes ==
    ASSUME indexer \in [Indexers -> Indexer]
    PROVE  /\ IdleIndexer \in Indexer /\ Started \in Indexer
           /\ \A i \in Indexers : Retire(i) => indexer' \in [Indexers -> Indexer]
           /\ Spawn => indexer' \in [Indexers -> Indexer]
<1>1. IdleIndexer \in Indexer
  BY NoStatsType DEF IdleIndexer, Indexer, IndexerPC
<1>2. Started \in Indexer
  BY <1>1 DEF Started, Indexer, IndexerPC
<1> QED BY <1>1, <1>2 DEF Retire, Spawn

\* A row that does not exist, and one just inserted
LEMMA NewTaskType == NoTask \in Task /\ \A p \in Items \cup {NoItem} : NewTask(p) \in Task
<1>1. 0 \in 0..MaxAttempts + 1
  BY StoreAssumption
<1>2. NoTask \in Task
  BY <1>1 DEF NoTask, Task, TaskStatus
<1> QED BY <1>2 DEF NewTask, Task, TaskStatus

\* A step that ends the migration writes its event
LEMMA OutcomeType ==
    ASSUME mig' \in Migration, events \in SUBSET Nat, CreateEvent(mig'.notificationGeneration)
    PROVE  events' \in SUBSET Nat
BY DEF Migration, CreateEvent

\* Every step of an indexer keeps the store well typed
LEMMA DiscoveryNextType ==
    ASSUME StoreTypeOK, DiscoveryTypeOK, DiscoveryNext
    PROVE  StoreTypeOK' /\ DiscoveryTypeOK'
<1>t. /\ mig \in Migration /\ tasks \in [Tasks -> Task] /\ progress \in Progress
      /\ indexer \in [Indexers -> Indexer] /\ faults \in 0..MaxFaults
      /\ events \in SUBSET Nat /\ indexErrors \in SUBSET Items
  BY DEF StoreTypeOK, DiscoveryTypeOK
<1>r. Cardinality(Rows) \in Nat
  BY CountType DEF Rows
<1>1. ASSUME NEW i \in Indexers, IndexerLoad(i) PROVE StoreTypeOK' /\ DiscoveryTypeOK'
  <2>1. [indexer[i] EXCEPT !.pc = "loaded", !.generation = mig.discoveryGeneration] \in Indexer
    BY <1>t, ZenonT(40) DEF Indexer, IndexerPC, Migration
  <2>2. indexer' \in [Indexers -> Indexer]
    BY <1>1, <1>t, <2>1, IndexerTypes DEF IndexerLoad
  <2> QED BY <1>1, <2>2 DEF IndexerLoad, StoreTypeOK, DiscoveryTypeOK, storeVars
<1>2. ASSUME NEW i \in Indexers, IndexerClaimLease(i) PROVE StoreTypeOK' /\ DiscoveryTypeOK'
  <2>1. [indexer[i] EXCEPT !.pc = "connecting"] \in Indexer
    BY <1>t DEF Indexer, IndexerPC
  <2>2. indexer' \in [Indexers -> Indexer] /\ mig' \in Migration
    BY <1>2, <1>t, <2>1, IndexerTypes, MigrationRowTypes DEF IndexerClaimLease
  <2> QED BY <1>2, <2>2 DEF IndexerClaimLease, StoreTypeOK, DiscoveryTypeOK
<1>3. ASSUME NEW i \in Indexers, IndexerHeartbeat(i) PROVE StoreTypeOK' /\ DiscoveryTypeOK'
  BY <1>3, <1>t, MigrationRowTypes DEF IndexerHeartbeat, StoreTypeOK, DiscoveryTypeOK
<1>4. ASSUME NEW i \in Indexers, IndexerLoadKeys(i) PROVE StoreTypeOK' /\ DiscoveryTypeOK'
  <2> DEFINE R == mig.selected \ {tasks[t].path : t \in Rows}
  <2>1. R \in SUBSET Items
    BY <1>t DEF Migration
  <2>2. indexer' = [indexer EXCEPT ![i] = [indexer[i] EXCEPT !.pc = "walking", !.todo = R]]
    BY <1>4, <1>t DEF IndexerLoadKeys
  <2> HIDE DEF R
  <2>3. [indexer[i] EXCEPT !.pc = "walking", !.todo = R] \in Indexer
    BY <1>t, <2>1 DEF Indexer, IndexerPC
  <2>4. indexer' \in [Indexers -> Indexer]
    BY <1>t, <2>2, <2>3
  <2> QED BY <1>4, <2>4 DEF IndexerLoadKeys, StoreTypeOK, DiscoveryTypeOK, storeVars
<1>e. ASSUME NEW i \in Indexers, NEW R \in SUBSET Items, NEW E \in SUBSET Items
      PROVE  [indexer[i] EXCEPT !.todo = R, !.errors = E] \in Indexer
  BY <1>t DEF Indexer
<1>5. ASSUME NEW i \in Indexers, NEW p \in Items, IndexerSkipItem(i, p)
      PROVE  StoreTypeOK' /\ DiscoveryTypeOK'
  <2>1. /\ indexer[i].todo \ {p} \in SUBSET Items
        /\ indexer[i].errors \cup {p} \in SUBSET Items
    BY <1>t DEF Indexer
  <2>2. indexer' = [indexer EXCEPT ![i] = [indexer[i] EXCEPT
                      !.todo = indexer[i].todo \ {p}, !.errors = indexer[i].errors \cup {p}]]
    BY <1>5, <1>t DEF IndexerSkipItem, Indexer
  <2>3. indexer' \in [Indexers -> Indexer]
    BY <1>t, <1>e, <2>1, <2>2
  <2> QED BY <1>5, <1>t, <2>3, FaultType DEF IndexerSkipItem, StoreTypeOK, DiscoveryTypeOK
<1>6. ASSUME NEW i \in Indexers, IndexerInterrupted(i) PROVE StoreTypeOK' /\ DiscoveryTypeOK'
  <2>1. {} \in SUBSET Items /\ indexer[i].errors \cup indexer[i].todo \in SUBSET Items
    BY <1>t DEF Indexer
  <2>2. indexer' = [indexer EXCEPT ![i] = [indexer[i] EXCEPT
                      !.todo = {}, !.errors = indexer[i].errors \cup indexer[i].todo]]
    BY <1>6, <1>t DEF IndexerInterrupted, Indexer
  <2>3. indexer' \in [Indexers -> Indexer]
    BY <1>t, <1>e, <2>1, <2>2
  <2>4. faults' \in 0..MaxFaults
    BY <1>6, <1>t, FaultType DEF IndexerInterrupted
  <2> QED BY <1>6, <2>3, <2>4 DEF IndexerInterrupted, StoreTypeOK, DiscoveryTypeOK
<1>7. ASSUME NEW i \in Indexers, NEW p \in Items, IndexerInsert(i, p)
      PROVE  StoreTypeOK' /\ DiscoveryTypeOK'
  <2>1. [indexer[i] EXCEPT !.pc = "inserting", !.item = p] \in Indexer
    BY <1>t DEF Indexer, IndexerPC
  <2>2. indexer' \in [Indexers -> Indexer]
    BY <1>7, <1>t, <2>1, IndexerTypes DEF IndexerInsert
  <2> QED BY <1>7, <2>2 DEF IndexerInsert, StoreTypeOK, DiscoveryTypeOK, storeVars
<1>8. ASSUME NEW i \in Indexers, IndexerInsertCommit(i) PROVE StoreTypeOK' /\ DiscoveryTypeOK'
  <2>1. NewTask(indexer[i].item) \in Task
    BY <1>t, NewTaskType DEF Indexer
  <2>2. tasks' \in [Tasks -> Task]
    BY <1>8, <1>t, <2>1 DEF IndexerInsertCommit
  <2>3. indexer[i].todo \ {indexer[i].item} \in SUBSET Items
    BY <1>t DEF Indexer
  <2>4. [indexer[i] EXCEPT !.pc = "walking", !.item = NoItem,
                           !.todo = indexer[i].todo \ {indexer[i].item}] \in Indexer
    BY <1>t, <2>3 DEF Indexer, IndexerPC
  <2>5. indexer' = [indexer EXCEPT ![i] = [indexer[i] EXCEPT !.pc = "walking",
                      !.item = NoItem, !.todo = indexer[i].todo \ {indexer[i].item}]]
    BY <1>8, <1>t DEF IndexerInsertCommit, Indexer
  <2>6. indexer' \in [Indexers -> Indexer]
    BY <1>t, <2>4, <2>5
  <2> QED BY <1>8, <2>2, <2>6 DEF IndexerInsertCommit, StoreTypeOK, DiscoveryTypeOK
<1>9. ASSUME NEW i \in Indexers, IndexerRecordErrors(i) PROVE StoreTypeOK' /\ DiscoveryTypeOK'
  <2>1. indexErrors' \in SUBSET Items
    BY <1>9, <1>t DEF IndexerRecordErrors, Indexer
  <2>2. faults' \in 0..MaxFaults
    BY <1>9, <1>t, FaultType DEF IndexerRecordErrors
  <2>3. [indexer[i] EXCEPT !.pc = "totals"] \in Indexer
    BY <1>t DEF Indexer, IndexerPC
  <2> QED BY <1>9, <1>t, <2>1, <2>2, <2>3 DEF IndexerRecordErrors, StoreTypeOK, DiscoveryTypeOK
<1>10. ASSUME NEW i \in Indexers, IndexerTotals(i) PROVE StoreTypeOK' /\ DiscoveryTypeOK'
  <2>1. [indexer[i] EXCEPT !.pc = "deciding", !.total = Cardinality(Rows)] \in Indexer
    BY <1>t, <1>r DEF Indexer, IndexerPC
  <2>2. [progress EXCEPT !.total = Cardinality(Rows)] \in Progress
    BY <1>t, <1>r DEF Progress
  <2>3. indexer' \in [Indexers -> Indexer] /\ progress' \in Progress
    BY <1>10, <1>t, <2>1, <2>2, IndexerTypes DEF IndexerTotals
  <2> QED BY <1>10, <2>3 DEF IndexerTotals, StoreTypeOK, DiscoveryTypeOK
<1>11. ASSUME NEW i \in Indexers, IndexerDecide(i) PROVE StoreTypeOK' /\ DiscoveryTypeOK'
  <2>1. mig' \in Migration
    BY <1>11, <1>t, MigrationRowTypes DEF IndexerDecide
  <2>2. events' \in SUBSET Nat
    BY <1>11, <1>t, <2>1, OutcomeType DEF IndexerDecide
  <2>3. [indexer[i] EXCEPT !.pc = "reconciling"] \in Indexer
    BY <1>t DEF Indexer, IndexerPC
  <2>4. indexer' \in [Indexers -> Indexer]
    BY <1>11, <1>t, <2>3, IndexerTypes DEF IndexerDecide
  <2> QED BY <1>11, <2>1, <2>2, <2>4 DEF IndexerDecide, StoreTypeOK, DiscoveryTypeOK
<1>12. ASSUME NEW i \in Indexers, IndexerReconcileSnapshot(i)
       PROVE  StoreTypeOK' /\ DiscoveryTypeOK'
  <2>1. [indexer[i] EXCEPT !.pc = "applying", !.stats = TaskStats] \in Indexer
    BY <1>t, StatsType DEF Indexer, IndexerPC
  <2> QED BY <1>12, <1>t, <2>1
          DEF IndexerReconcileSnapshot, StoreTypeOK, DiscoveryTypeOK, storeVars
<1>13. ASSUME NEW i \in Indexers, IndexerReconcile(i) PROVE StoreTypeOK' /\ DiscoveryTypeOK'
  <2>1. indexer[i].stats \in Stats
    BY <1>t DEF Indexer
  <2> QED BY <1>13, <1>t, <2>1, ReconcileType, IndexerTypes
          DEF IndexerReconcile, StoreTypeOK, DiscoveryTypeOK
<1>14. ASSUME NEW i \in Indexers, IndexerFail(i) PROVE StoreTypeOK' /\ DiscoveryTypeOK'
  <2>1. mig' \in Migration
    BY <1>14, <1>t, MigrationRowTypes DEF IndexerFail
  <2>2. events' \in SUBSET Nat
    BY <1>14, <1>t, <2>1, OutcomeType DEF IndexerFail
  <2> QED BY <1>14, <1>t, <2>1, <2>2, IndexerTypes, FaultType
          DEF IndexerFail, StoreTypeOK, DiscoveryTypeOK
<1>15. ASSUME NEW i \in Indexers, IndexerCrash(i) PROVE StoreTypeOK' /\ DiscoveryTypeOK'
  BY <1>15, <1>t, IndexerTypes, FaultType DEF IndexerCrash, StoreTypeOK, DiscoveryTypeOK
<1> QED BY <1>1, <1>2, <1>3, <1>4, <1>5, <1>6, <1>7, <1>8, <1>9, <1>10, <1>11, <1>12, <1>13,
           <1>14, <1>15
        DEF DiscoveryNext, IndexerStep

-----------------------------------------------------------------------------
(* Type correctness of the scheduler *)

\* Every step of the scheduler, and a crash of its process, keeps the store, the
\* indexers and the schedule well typed
LEMMA SchedulerNextType ==
    ASSUME StoreTypeOK, DiscoveryTypeOK, SchedulerTypeOK, SchedulerNext \/ SchedulerCrash
    PROVE  StoreTypeOK' /\ DiscoveryTypeOK' /\ SchedulerTypeOK'
<1>t. /\ mig \in Migration /\ tasks \in [Tasks -> Task] /\ progress \in Progress
      /\ indexer \in [Indexers -> Indexer] /\ faults \in 0..MaxFaults
      /\ events \in SUBSET Nat /\ indexErrors \in SUBSET Items /\ schedule \in Schedule
  BY DEF StoreTypeOK, DiscoveryTypeOK, SchedulerTypeOK
<1>f. Fault => faults' \in 0..MaxFaults
  BY <1>t, FaultType
<1>s. /\ \A pc \in {"idle", "triggering", "deactivating"} :
           [schedule EXCEPT !.tick = pc] \in Schedule
      /\ [schedule EXCEPT !.tick = "idle", !.due = FALSE] \in Schedule
      /\ [schedule EXCEPT !.tick = "idle", !.recovery = "idle"] \in Schedule
      /\ \A pc \in {"idle", "reactivating"} : [schedule EXCEPT !.recovery = pc] \in Schedule
      /\ [schedule EXCEPT !.recovery = "idle", !.due = TRUE] \in Schedule
  BY <1>t DEF Schedule
<1>1. CASE DueSchedule
  <2>1. schedule' \in Schedule
    BY <1>1, <1>s DEF DueSchedule
  <2> QED BY <1>1, <2>1 DEF DueSchedule, StoreTypeOK, DiscoveryTypeOK, SchedulerTypeOK, storeVars
<1>2. CASE triggerMigration
  <2>1. ScheduleClaimed \in Migration
    <3>1. mig.discoveryGeneration + 1 \in Nat /\ "INDEXING" \in MigrationStatus
      BY <1>t DEF Migration, MigrationStatus, Working
    <3>2. ScheduleClaimed = [mig EXCEPT !.status = "INDEXING", !.discoveryComplete = FALSE,
            !.discoveryGeneration = mig.discoveryGeneration + 1, !.indexingLease = TRUE]
      BY <1>t DEF ScheduleClaimed, Migration
    <3> QED BY <1>t, <3>1, <3>2 DEF Migration
  <2>2. mig' \in Migration /\ indexer' \in [Indexers -> Indexer] /\ faults' \in 0..MaxFaults
    BY <1>2, <1>t, <1>f, <2>1, IndexerTypes DEF triggerMigration
  <2>3. schedule' \in Schedule
    BY <1>2, <1>s DEF triggerMigration
  <2> QED BY <1>2, <2>2, <2>3 DEF triggerMigration, StoreTypeOK, DiscoveryTypeOK, SchedulerTypeOK
<1>3. CASE DeactivateSchedule \/ ReactivateSchedule
  <2>1. schedule' \in Schedule /\ faults' \in 0..MaxFaults
    BY <1>3, <1>t, <1>f, <1>s DEF DeactivateSchedule, ReactivateSchedule
  <2> QED BY <1>3, <2>1 DEF DeactivateSchedule, ReactivateSchedule, StoreTypeOK,
             DiscoveryTypeOK, SchedulerTypeOK
<1>4. CASE IndexingLeaseExpires
  <2>1. mig' \in Migration /\ faults' \in 0..MaxFaults
    BY <1>4, <1>t, <1>f, MigrationRowTypes DEF IndexingLeaseExpires
  <2> QED BY <1>4, <2>1 DEF IndexingLeaseExpires, StoreTypeOK, DiscoveryTypeOK, SchedulerTypeOK
<1>5. CASE recoverScheduledMigrations
  <2>1. "SCHEDULED" \in MigrationStatus
    BY DEF MigrationStatus
  <2>2. mig' \in Migration /\ schedule' \in Schedule
    BY <1>5, <1>t, <1>s, <2>1, MigrationRowTypes DEF recoverScheduledMigrations
  <2> QED BY <1>5, <2>2 DEF recoverScheduledMigrations, StoreTypeOK, DiscoveryTypeOK, SchedulerTypeOK
<1>6. CASE FailStaleIndexingMigration
  <2>1. mig' \in Migration
    <3>1. mig.notificationGeneration + 1 \in Nat /\ "FAILED" \in MigrationStatus
      BY <1>t DEF Migration, MigrationStatus, Terminal
    <3>2. mig' = [mig EXCEPT !.status = "FAILED",
                    !.notificationGeneration = mig.notificationGeneration + 1]
      BY <1>6, <1>t DEF FailStaleIndexingMigration, Migration
    <3> QED BY <1>t, <3>1, <3>2 DEF Migration
  <2>2. events' \in SUBSET Nat
    BY <1>6, <1>t, <2>1, OutcomeType DEF FailStaleIndexingMigration
  <2> QED BY <1>6, <2>1, <2>2
          DEF FailStaleIndexingMigration, StoreTypeOK, DiscoveryTypeOK, SchedulerTypeOK
<1>7. CASE SchedulerCrash
  <2>1. IdleIndexer \in Indexer
    BY NoStatsType DEF IdleIndexer, Indexer, IndexerPC
  <2>2. /\ indexer' \in [Indexers -> Indexer] /\ schedule' \in Schedule
        /\ faults' \in 0..MaxFaults
    BY <1>7, <1>f, <1>s, <2>1 DEF SchedulerCrash
  <2> QED BY <1>7, <2>2 DEF SchedulerCrash, StoreTypeOK, DiscoveryTypeOK, SchedulerTypeOK
<1> QED BY <1>1, <1>2, <1>3, <1>4, <1>5, <1>6, <1>7 DEF SchedulerNext, TickStep, RecoveryStep

-----------------------------------------------------------------------------
(* Type correctness of the API handlers *)

\* Every step of an HTTP handler or of connection recovery keeps the store
\* well typed
LEMMA ControlNextType ==
    ASSUME StoreTypeOK, DiscoveryTypeOK, ControlTypeOK, ControlNext
    PROVE  StoreTypeOK' /\ DiscoveryTypeOK' /\ ControlTypeOK'
<1>t. /\ mig \in Migration /\ tasks \in [Tasks -> Task] /\ progress \in Progress
      /\ indexer \in [Indexers -> Indexer] /\ events \in SUBSET Nat
      /\ handler \in [Handlers -> HandlerPC] /\ requests \in 0..MaxRequests
  BY DEF StoreTypeOK, DiscoveryTypeOK, ControlTypeOK
<1>q. Request => requests' \in 0..MaxRequests
  BY <1>t, ControlAssumption DEF Request
<1>h. \A h \in Handlers, pc \in HandlerPC :
        Serve(h, pc) \/ Served(h, pc) => handler' \in [Handlers -> HandlerPC]
  BY <1>t DEF Serve, Served, HandlerPC
<1>p. {"pausing", "reindexing", "cancelling"} \subseteq HandlerPC
  BY DEF HandlerPC
<1>g. mig.notificationGeneration + 1 \in Nat /\ mig.discoveryGeneration + 1 \in Nat
  BY <1>t DEF Migration
<1>s. \A st \in MigrationStatus :
        UpdateMigrationStatus(st) => mig' \in Migration /\ events' \in SUBSET Nat
  <2> SUFFICES ASSUME NEW st \in MigrationStatus, UpdateMigrationStatus(st)
               PROVE  mig' \in Migration /\ events' \in SUBSET Nat
    OBVIOUS
  <2>1. mig' \in Migration
    <3> DEFINE g == IF LeavesTerminal(st) THEN mig.notificationGeneration + 1
                    ELSE mig.notificationGeneration
    <3>1. g \in Nat
      BY <1>t, <1>g DEF Migration
    <3>2. mig' = [mig EXCEPT !.status = st, !.notificationGeneration = g]
      BY <1>t DEF UpdateMigrationStatus, Migration
    <3> HIDE DEF g
    <3> QED BY <1>t, <3>1, <3>2 DEF Migration
  <2> QED BY <1>t, <2>1, OutcomeType DEF UpdateMigrationStatus
<1>x. {"PAUSED", "CANCELLED", "RUNNING", "INDEXING"} \subseteq MigrationStatus
  BY DEF MigrationStatus, Paused, Working
<1>1. ASSUME NEW h \in Handlers, PauseRead(h) \/ ReindexRead(h)
      PROVE  StoreTypeOK' /\ DiscoveryTypeOK' /\ ControlTypeOK'
  <2>1. requests' \in 0..MaxRequests /\ handler' \in [Handlers -> HandlerPC]
    BY <1>1, <1>q, <1>h, <1>p DEF PauseRead, ReindexRead
  <2> QED BY <1>1, <2>1 DEF PauseRead, ReindexRead, StoreTypeOK, DiscoveryTypeOK,
             ControlTypeOK, storeVars
<1>2. ASSUME NEW h \in Handlers, PauseWrite(h)
      PROVE  StoreTypeOK' /\ DiscoveryTypeOK' /\ ControlTypeOK'
  <2>1. /\ handler' \in [Handlers -> HandlerPC]
        /\ mig' \in Migration /\ events' \in SUBSET Nat
    BY <1>2, <1>h, <1>p, <1>s, <1>x DEF PauseWrite
  <2> QED BY <1>2, <2>1 DEF PauseWrite, StoreTypeOK, DiscoveryTypeOK, ControlTypeOK
<1>3. ASSUME NEW h \in Handlers, ReindexWrite(h)
      PROVE  StoreTypeOK' /\ DiscoveryTypeOK' /\ ControlTypeOK'
  <2>1. tasks' \in [Tasks -> Task]
    <3>1. \A t \in Tasks : DeletedTask(t) \in Task
      BY <1>t, NewTaskType DEF DeletedTask, Task, TaskStatus
    <3> QED BY <1>3, <1>t, <3>1 DEF ReindexWrite
  <2>2. progress' \in Progress
    <3>1. NoProgress \in Progress /\ progress.verified \in Nat
      BY <1>t DEF NoProgress, Progress
    <3> QED BY <1>3, <3>1 DEF ReindexWrite, Progress
  <2>3. mig' \in Migration
    <3>1. mig' = [mig EXCEPT !.status = "INDEXING", !.discoveryComplete = FALSE,
                    !.discoveryGeneration = mig.discoveryGeneration + 1,
                    !.notificationGeneration = mig.notificationGeneration + 1]
      BY <1>3, <1>t DEF ReindexWrite, Migration
    <3> QED BY <1>t, <1>g, <1>x, <3>1 DEF Migration
  <2>4. handler' \in [Handlers -> HandlerPC] /\ indexer' \in [Indexers -> Indexer]
    BY <1>3, <1>t, <1>h, <1>p, IndexerTypes DEF ReindexWrite
  <2>5. indexErrors' \in SUBSET Items
    BY <1>3 DEF ReindexWrite
  <2> QED BY <1>3, <2>1, <2>2, <2>3, <2>4, <2>5
          DEF ReindexWrite, StoreTypeOK, DiscoveryTypeOK, ControlTypeOK
<1>4. ASSUME NEW h \in Handlers, CancelMigration(h)
      PROVE  StoreTypeOK' /\ DiscoveryTypeOK' /\ ControlTypeOK'
  <2>1. /\ handler' \in [Handlers -> HandlerPC] /\ requests' \in 0..MaxRequests
        /\ mig' \in Migration /\ events' \in SUBSET Nat
    BY <1>4, <1>q, <1>h, <1>p, <1>s, <1>x DEF CancelMigration
  <2> QED BY <1>4, <2>1 DEF CancelMigration, StoreTypeOK, DiscoveryTypeOK, ControlTypeOK
<1>5. ASSUME NEW h \in Handlers, CancelPendingTasks(h)
      PROVE  StoreTypeOK' /\ DiscoveryTypeOK' /\ ControlTypeOK'
  <2>1. \A t \in Tasks : [tasks[t] EXCEPT !.status = "CANCELLED"] \in Task
    BY <1>t DEF Task, TaskStatus
  <2>2. tasks' \in [Tasks -> Task]
    BY <1>5, <1>t, <2>1 DEF CancelPendingTasks
  <2>3. handler' \in [Handlers -> HandlerPC]
    BY <1>5, <1>h, <1>p DEF CancelPendingTasks
  <2> QED BY <1>5, <2>2, <2>3 DEF CancelPendingTasks, StoreTypeOK, DiscoveryTypeOK, ControlTypeOK
<1>6. CASE Resume \/ RecoverConnectionLostMigration
  <2>1. mig' \in Migration /\ indexer' \in [Indexers -> Indexer]
    BY <1>6, <1>t, MigrationRowTypes, IndexerTypes
       DEF Resume, RecoverConnectionLostMigration, SpawnWhen
  <2>2. handler' \in [Handlers -> HandlerPC] /\ requests' \in 0..MaxRequests
    BY <1>6, <1>t, <1>q DEF Resume, RecoverConnectionLostMigration, controlVars
  <2> QED BY <1>6, <2>1, <2>2 DEF Resume, RecoverConnectionLostMigration, StoreTypeOK,
             DiscoveryTypeOK, ControlTypeOK
<1>7. CASE RetryFailed
  <2>1. tasks' \in [Tasks -> Task]
    <3>1. 0 \in 0..MaxAttempts + 1
      BY StoreAssumption
    <3>2. \A t \in Tasks : [tasks[t] EXCEPT !.status = "PENDING", !.attempts = 0,
                              !.retry = FALSE, !.worker = NoProc] \in Task
      BY <1>t, <3>1 DEF Task, TaskStatus
    <3> QED BY <1>7, <1>t, <3>2 DEF RetryFailed
  <2>2. progress' \in Progress
    <3> DEFINE n == Cardinality(Retried)
               f == Minus(progress.failed, n)
               c == Minus(progress.processed, n)
    <3>1. n \in Nat
      BY CountType DEF Retried, WithStatus
    <3>2. progress' = [progress EXCEPT !.failed = f, !.processed = c]
      BY <1>7, <1>t DEF RetryFailed, Progress
    <3>3. f \in Nat /\ c \in Nat
      <4> HIDE DEF n
      <4> QED BY <1>t, <3>1 DEF Minus, Progress
    <3> HIDE DEF f, c
    <3> QED BY <1>t, <3>2, <3>3 DEF Progress
  <2>3. mig' \in Migration
    <3>1. mig' = [mig EXCEPT !.status = "RUNNING", !.failedRetryDone = FALSE,
                    !.notificationGeneration = mig.notificationGeneration + 1]
      BY <1>7, <1>t DEF RetryFailed, Migration
    <3> QED BY <1>t, <1>g, <1>x, <3>1 DEF Migration
  <2> QED BY <1>7, <1>q, <2>1, <2>2, <2>3
          DEF RetryFailed, StoreTypeOK, DiscoveryTypeOK, ControlTypeOK
<1>8. ASSUME NEW n \in 1..MaxThreads, SetThreads(n)
      PROVE  StoreTypeOK' /\ DiscoveryTypeOK' /\ ControlTypeOK'
  <2>1. mig' \in Migration
    BY <1>8, <1>t DEF SetThreads, Migration
  <2> QED BY <1>8, <1>q, <2>1 DEF SetThreads, StoreTypeOK, DiscoveryTypeOK, ControlTypeOK
<1> QED BY <1>1, <1>2, <1>3, <1>4, <1>5, <1>6, <1>7, <1>8 DEF ControlNext

-----------------------------------------------------------------------------
(* The type invariant *)

\* The state handleStart or a finished discovery leaves is well typed
LEMMA InitType == Init => TypeOK
<1> SUFFICES ASSUME Init PROVE TypeOK
  OBVIOUS
<1>1. IdleIndexer \in Indexer /\ Started \in Indexer
  <2>1. IdleIndexer \in Indexer
    BY NoStatsType DEF IdleIndexer, Indexer, IndexerPC
  <2> QED BY <2>1 DEF Started, Indexer, IndexerPC
<1>2. \A st \in MigrationStatus, S \in SUBSET Items : NewMigration(st, S) \in Migration
  BY StoreAssumption DEF NewMigration, Migration
<1>3. {"SCHEDULED", "INDEXING", "RUNNING"} \subseteq MigrationStatus
  BY DEF MigrationStatus, Working
<1>4. mig \in Migration
  <2>1. CASE InitFresh
    BY <2>1, <1>2, <1>3 DEF InitFresh
  <2>2. CASE InitIndexed
    <3>1. NewMigration("RUNNING", Items) \in Migration
      BY <1>2, <1>3
    <3> HIDE DEF NewMigration
    <3> QED BY <2>2, <3>1 DEF InitIndexed, Migration
  <2>3. CASE InitAbandoned
    <3>1. NewMigration("INDEXING", Items) \in Migration
      BY <1>2, <1>3
    <3> HIDE DEF NewMigration
    <3> QED BY <2>3, <3>1 DEF InitAbandoned, Migration
  <2> QED BY <2>1, <2>2, <2>3 DEF Init
<1>5. tasks \in [Tasks -> Task]
  BY NewTaskType DEF Init, InitFresh, InitIndexed, InitAbandoned
<1>6. progress \in Progress
  <2>1. NoProgress \in Progress /\ Cardinality(Items) \in Nat
    BY StoreAssumption, FS_CardinalityType DEF NoProgress, Progress
  <2> QED BY <2>1 DEF Init, InitFresh, InitIndexed, InitAbandoned, Progress
<1>7. indexer \in [Indexers -> Indexer]
  BY <1>1 DEF Init, InitFresh, InitIndexed, InitAbandoned
<1>8. StoreTypeOK /\ DiscoveryTypeOK
  BY <1>4, <1>5, <1>6, <1>7, StoreAssumption DEF Init, StoreTypeOK, DiscoveryTypeOK
<1>9. ControlTypeOK
  BY ControlAssumption DEF Init, ControlInit, ControlTypeOK, HandlerPC
<1>10. WorkersTypeOK
  <2>1. NoConnLoss \in ConnLoss
    BY WorkersAssumption DEF NoConnLoss, ConnLoss
  <2> QED BY <2>1, IdleTypes DEF Init, WorkersInit, WorkersTypeOK
<1>11. VerificationTypeOK
  <2>1. IdleVerifier \in Verifier
    BY NoStatsType DEF IdleVerifier, Verifier, VerifierPC
  <2> QED BY <2>1 DEF Init, VerificationInit, VerificationTypeOK
<1>12. SchedulerTypeOK
  BY DiscoveryAssumption DEF Init, SchedulerInit, SchedulerTypeOK, Schedule
<1>13. up \subseteq Procs
  BY DEF Init
<1> QED BY <1>8, <1>9, <1>10, <1>11, <1>12, <1>13 DEF TypeOK

\* The type invariant is inductive as it stands: one case per component
LEMMA NextType == TypeOK /\ [Next]_vars => TypeOK'
<1> SUFFICES ASSUME TypeOK, [Next]_vars PROVE TypeOK'
  OBVIOUS
<1> USE DEF TypeOK
<1>1. CASE DiscoveryNext /\ UNCHANGED <<up, schedule, controlVars, workersVars, verifier>>
  BY <1>1, DiscoveryNextType DEF SchedulerTypeOK, ControlTypeOK, WorkersTypeOK,
     VerificationTypeOK, controlVars, workersVars
<1>2. CASE ControlNext /\ UNCHANGED <<up, schedule, workersVars, verifier>>
  BY <1>2, ControlNextType DEF SchedulerTypeOK, WorkersTypeOK, VerificationTypeOK, workersVars
<1>3. CASE WorkersNext /\ UNCHANGED <<up, indexer, schedule, controlVars, verifier>>
  BY <1>3, WorkersNextType DEF DiscoveryTypeOK, SchedulerTypeOK, ControlTypeOK,
     VerificationTypeOK, controlVars
<1>4. CASE VerificationNext /\ UNCHANGED <<up, indexer, schedule, controlVars, workersVars>>
  BY <1>4, VerificationNextType DEF DiscoveryTypeOK, SchedulerTypeOK, ControlTypeOK, WorkersTypeOK,
     controlVars, workersVars
<1>5. ASSUME NEW p \in Procs, Crash(p) PROVE TypeOK'
  <2>1. IdleVerifier \in Verifier
    BY NoStatsType DEF IdleVerifier, Verifier, VerifierPC
  <2>2. VerificationTypeOK'
    BY <1>5, <2>1 DEF Crash, VerifierCrash, VerificationTypeOK
  <2> QED BY <1>5, <2>2, WorkersNextType DEF Crash, DiscoveryTypeOK, SchedulerTypeOK,
             ControlTypeOK, WorkerCrash, controlVars
<1>9. ASSUME NEW p \in Procs, Restart(p) PROVE TypeOK'
  <2>1. PICK S : Start(p, S) BY <1>9 DEF Restart
  <2>2. StoreTypeOK' /\ WorkersTypeOK' BY <2>1, WorkersNextType
  <2>3. up' \subseteq Procs BY <2>1 DEF Start
  <2> QED BY <1>9, <2>2, <2>3 DEF Restart, DiscoveryTypeOK, SchedulerTypeOK,
             ControlTypeOK, VerificationTypeOK, controlVars
<1>6. CASE UNCHANGED vars
  BY <1>6 DEF vars, storeVars, controlVars, workersVars, StoreTypeOK, DiscoveryTypeOK,
     SchedulerTypeOK, ControlTypeOK, WorkersTypeOK, VerificationTypeOK
<1>7. CASE SchedulerNext /\ UNCHANGED <<up, controlVars, workersVars, verifier>>
  BY <1>7, SchedulerNextType DEF ControlTypeOK, WorkersTypeOK, VerificationTypeOK,
     controlVars, workersVars
<1>8. CASE ApiCrash
  <2>1. ControlTypeOK'
    BY <1>8 DEF ApiCrash, HandlersCrash, ControlTypeOK, HandlerPC
  <2> QED BY <1>8, <2>1, SchedulerNextType DEF ApiCrash, WorkersTypeOK, VerificationTypeOK, workersVars
<1> QED BY <1>1, <1>2, <1>3, <1>4, <1>5, <1>6, <1>7, <1>8, <1>9 DEF Next

\* Every column and every piece of process memory keeps its type in every
\* behaviour of the system, however many tasks, threads and processes there are.
THEOREM TypeCorrect == Spec => []TypeOK
BY InitType, NextType, PTL DEF Spec

-----------------------------------------------------------------------------
(* Claims.  A step other than DequeueSQL changes no claim_epoch and gives no  *)
(* thread a claim; and rows that are claimed or requeued are clean, because   *)
(* every write is fenced by RUNNING, where a row carries neither a retry time *)
(* nor a verified checksum.                                                   *)

RowConsistent(r) ==
    /\ r.retry => r.status = "FAILED"
    /\ r.checksumVerified => r.status = "COMPLETED"
    /\ r.status = "NONE" => r.claimEpoch = 0

RowsConsistent == \A t \in Tasks : RowConsistent(tasks[t])

EpochsKept == \A t \in Tasks : tasks'[t].claimEpoch = tasks[t].claimEpoch

ThreadsKept ==
    \A w \in Workers : worker'[w].pc # "idle" =>
        /\ worker[w].pc # "idle"
        /\ worker'[w].task = worker[w].task
        /\ worker'[w].epoch = worker[w].epoch

\* What a fenced write may put into a claimed row
CleanRow(t, row) == RowConsistent(row) /\ row.claimEpoch = tasks[t].claimEpoch

\* A fenced write of a clean row keeps all rows consistent and all epochs
LEMMA ClaimedWriteClean ==
    ASSUME tasks \in [Tasks -> Task], RowsConsistent, NEW t \in Tasks, NEW e, NEW row,
           UpdateClaimedTaskStatus(t, e, row), HoldsClaim(t, e) => CleanRow(t, row)
    PROVE  RowsConsistent' /\ EpochsKept
BY DEF UpdateClaimedTaskStatus, RowsConsistent, EpochsKept, CleanRow

\* The rows the workers write over a claimed row are clean
LEMMA CleanRows ==
    ASSUME tasks \in [Tasks -> Task], RowsConsistent, NEW t \in Tasks,
           tasks[t].status = "RUNNING"
    PROVE  /\ \A st \in TaskStatus \ {"NONE"} :
                /\ CleanRow(t, [tasks[t] EXCEPT !.status = st])
                /\ CleanRow(t, [tasks[t] EXCEPT !.status = st, !.worker = NoProc])
           /\ \A v \in BOOLEAN : CleanRow(t, [tasks[t] EXCEPT !.status = "COMPLETED",
                                     !.worker = NoProc, !.checksumVerified = v])
           /\ \A x \in BOOLEAN : CleanRow(t, [tasks[t] EXCEPT !.status = "FAILED",
                                     !.retry = x, !.attempts = Bump(@)])
           /\ CleanRow(t, [tasks[t] EXCEPT !.status = "PENDING", !.attempts = Bump(@)])
<1>1. /\ tasks[t].retry = FALSE /\ tasks[t].checksumVerified = FALSE /\ tasks[t] \in Task
  BY DEF RowsConsistent, RowConsistent, Task
<1>2. \A st \in TaskStatus \ {"NONE"} :
        /\ CleanRow(t, [tasks[t] EXCEPT !.status = st])
        /\ CleanRow(t, [tasks[t] EXCEPT !.status = st, !.worker = NoProc])
  BY <1>1 DEF CleanRow, RowConsistent, Task
<1>3. \A v \in BOOLEAN : CleanRow(t, [tasks[t] EXCEPT !.status = "COMPLETED",
                            !.worker = NoProc, !.checksumVerified = v])
  BY <1>1 DEF CleanRow, RowConsistent, Task
<1> DEFINE n == Bump(tasks[t].attempts)
<1>4. \A x \in BOOLEAN : CleanRow(t, [tasks[t] EXCEPT !.status = "FAILED",
                            !.retry = x, !.attempts = n])
  <2> HIDE DEF n
  <2> QED BY <1>1 DEF CleanRow, RowConsistent, Task
<1>5. CleanRow(t, [tasks[t] EXCEPT !.status = "PENDING", !.attempts = n])
  <2> HIDE DEF n
  <2> QED BY <1>1 DEF CleanRow, RowConsistent, Task
<1> QED BY <1>2, <1>3, <1>4, <1>5

\* Rest, Goto and Errs give no thread a claim it did not have
LEMMA ThreadMoves ==
    ASSUME worker \in [Workers -> Worker], NEW w \in Workers, worker[w].pc # "idle"
    PROVE  /\ Rest(w) => ThreadsKept
           /\ \A pc : Goto(w, pc) => ThreadsKept
           /\ \A e : Errs(w, e) => ThreadsKept
           /\ \A s : worker' = [worker EXCEPT ![w].pc = "handling", ![w].seen = s] => ThreadsKept
           /\ \A s : worker' = [worker EXCEPT ![w].pc = "loaded", ![w].seen = s] => ThreadsKept
           /\ \A s : worker' = [worker EXCEPT ![w].pc = "applying", ![w].stats = s] => ThreadsKept
<1>1. Rest(w) => ThreadsKept
  BY DEF Rest, IdleWorker, ThreadsKept
<1>2. \A pc : Goto(w, pc) => ThreadsKept
  BY DEF Goto, ThreadsKept, Worker
<1>3. \A e : Errs(w, e) => ThreadsKept
  BY DEF Errs, ThreadsKept, Worker
<1>4. \A s : worker' = [worker EXCEPT ![w].pc = "handling", ![w].seen = s] => ThreadsKept
  BY DEF ThreadsKept, Worker
<1>5. \A s : worker' = [worker EXCEPT ![w].pc = "loaded", ![w].seen = s] => ThreadsKept
  BY DEF ThreadsKept, Worker
<1>6. \A s : worker' = [worker EXCEPT ![w].pc = "applying", ![w].stats = s] => ThreadsKept
  BY DEF ThreadsKept, Worker
<1> QED BY <1>1, <1>2, <1>3, <1>4, <1>5, <1>6

\* A step of a transfer thread other than DequeueSQL keeps rows and claims
LEMMA WorkerStepClaims ==
    ASSUME StoreTypeOK, WorkersTypeOK, RowsConsistent, NEW w \in Workers, WorkerStep(w),
           ~\E t \in Tasks : DequeueSQL(w, t)
    PROVE  RowsConsistent' /\ EpochsKept /\ ThreadsKept
<1> DEFINE t == worker[w].task
           Kept == RowsConsistent' /\ EpochsKept /\ ThreadsKept
<1>t. /\ t \in Tasks /\ MyTask(w) = tasks[t] /\ tasks[t] \in Task
      /\ worker \in [Workers -> Worker] /\ tasks \in [Tasks -> Task]
  BY DEF StoreTypeOK, WorkersTypeOK, Worker, MyTask
<1>s. {"PENDING", "RUNNING", "COMPLETED", "SKIPPED", "FAILED", "CANCELLED"}
        \subseteq TaskStatus \ {"NONE"}
  BY DEF TaskStatus
<1>h. HoldsClaim(t, worker[w].epoch) => tasks[t].status = "RUNNING"
  BY DEF HoldsClaim
<1>w. ASSUME NEW row, UpdateClaimedTaskStatus(t, worker[w].epoch, row),
             tasks[t].status = "RUNNING" => CleanRow(t, row)
      PROVE  RowsConsistent' /\ EpochsKept
  BY <1>w, <1>t, <1>h, ClaimedWriteClean
<1>u. UNCHANGED tasks => RowsConsistent' /\ EpochsKept
  BY DEF RowsConsistent, EpochsKept
<1>l. ASSUME NEW row, WriteClaimed(w, row), tasks[t].status = "RUNNING" => CleanRow(t, row)
      PROVE  RowsConsistent' /\ EpochsKept
  <2>1. CASE UpdateClaimedTaskStatus(t, worker[w].epoch, row)
    BY <2>1, <1>l, <1>w
  <2>2. CASE UNCHANGED tasks
    BY <2>2, <1>u
  <2> QED BY <1>l, <2>1, <2>2 DEF WriteClaimed, Logged
<1> HIDE DEF t
<1>1. CASE LoadMigration(w)
  BY <1>1, <1>t, <1>u, ThreadMoves DEF LoadMigration, storeVars
<1>2. CASE ReturnTask(w)
  <2>1. Unrunnable(worker[w].seen) \in TaskStatus \ {"NONE"}
    BY <1>s DEF Unrunnable
  <2>2. RowsConsistent' /\ EpochsKept
    <3>1. CASE TransitionClaimedTask(t, worker[w].epoch, Unrunnable(worker[w].seen))
      BY <3>1, <1>t, <1>w, <2>1, CleanRows DEF TransitionClaimedTask
    <3>2. CASE UNCHANGED tasks
      BY <3>2, <1>u
    <3> QED BY <1>2, <3>1, <3>2 DEF ReturnTask, Logged, t
  <2> QED BY <1>2, <1>t, <2>2, ThreadMoves DEF ReturnTask
<1>3. CASE MarkRunning(w)
  BY <1>3, <1>t, <1>u, ThreadMoves DEF MarkRunning, storeVars
<1>4. ASSUME NEW v \in BOOLEAN, CompleteTask(w, v) PROVE Kept
  <2>1. RowsConsistent' /\ EpochsKept
    BY <1>4, <1>t, <1>w, CleanRows DEF CompleteTask, UpdateMigrationTaskAndProgress, t
  <2> QED BY <1>4, <1>t, <2>1, ThreadMoves DEF CompleteTask
<1>5. ASSUME NEW k \in {0, 1}, SkipTask(w, k) PROVE Kept
  <2>1. RowsConsistent' /\ EpochsKept
    BY <1>5, <1>t, <1>s, <1>w, CleanRows DEF SkipTask, UpdateMigrationTaskAndProgress, t
  <2> QED BY <1>5, <1>t, <2>1, ThreadMoves DEF SkipTask
<1>6. ASSUME NEW e \in Failure, TransferFails(w, e) PROVE Kept
  BY <1>6, <1>t, <1>u, ThreadMoves DEF TransferFails
<1>7. CASE TransferCancelled(w)
  BY <1>7, <1>t, <1>u, ThreadMoves DEF TransferCancelled, storeVars
<1>8. CASE HandleFailure(w)
  BY <1>8, <1>t, <1>u, ThreadMoves DEF HandleFailure
<1>9. CASE HandleCancelledMigration(w) \/ HandleCancelledContext(w) \/ RequeueAfterPause(w)
  <2>1. RowsConsistent' /\ EpochsKept
    BY <1>9, <1>t, <1>s, <1>l, CleanRows
       DEF HandleCancelledMigration, HandleCancelledContext, RequeueAfterPause
  <2> QED BY <1>9, <1>t, <2>1, ThreadMoves
          DEF HandleCancelledMigration, HandleCancelledContext, RequeueAfterPause, Handling
<1>10. CASE HandleConnLossRetry(w) \/ HandleAuthRefreshed(w) \/ HandleFinal(w)
  <2>1. RowsConsistent' /\ EpochsKept
    BY <1>10, <1>t, <1>l, CleanRows
       DEF HandleConnLossRetry, HandleAuthRefreshed, HandleFinal, FailedRow
  <2> QED BY <1>10, <1>t, <2>1, ThreadMoves
          DEF HandleConnLossRetry, HandleAuthRefreshed, HandleFinal, Handling
<1>11. CASE HandleConnLossEscalate(w)
  BY <1>11, <1>t, <1>u, ThreadMoves DEF HandleConnLossEscalate, Handling
<1>12. CASE HandleAuthFailure(w)
  <2>1. CASE AuthFailureApplies(w) /\ tasks' = AuthFailedTasks(w)
    <3>1. tasks' = AuthFailedTasks(w)
      BY <2>1
    <3>2. ASSUME NEW u \in Tasks
          PROVE  RowConsistent(tasks'[u]) /\ tasks'[u].claimEpoch = tasks[u].claimEpoch
      <4>1. tasks[u] \in Task /\ RowConsistent(tasks[u]) /\ tasks[t].status = "RUNNING"
        BY <1>t, <2>1 DEF RowsConsistent, AuthFailureApplies, StillClaimed, HoldsClaim, t
      <4> QED BY <1>t, <3>1, <4>1 DEF AuthFailedTasks, RowConsistent, Task, t
    <3>3. RowsConsistent' /\ EpochsKept
      BY <3>2 DEF RowsConsistent, EpochsKept
    <3> QED BY <1>12, <1>t, <3>3, ThreadMoves DEF HandleAuthFailure, Handling
  <2>2. CASE UNCHANGED tasks
    BY <1>12, <1>t, <1>u, <2>2, ThreadMoves DEF HandleAuthFailure, Handling
  <2> QED BY <1>12, <2>1, <2>2 DEF HandleAuthFailure
<1>13. CASE HandleTransient(w)
  <2>1. RowsConsistent' /\ EpochsKept
    <3>1. CASE UNCHANGED tasks
      BY <3>1, <1>u
    <3>2. CASE UpdateClaimedTaskStatus(t, worker[w].epoch, FailedRow(w, TRUE))
      BY <3>2, <1>t, <1>w, CleanRows DEF FailedRow
    <3> QED BY <1>13, <3>1, <3>2 DEF HandleTransient, UpdateMigrationTaskAndProgress, t
  <2> QED BY <1>13, <1>t, <2>1, ThreadMoves DEF HandleTransient, Handling
<1>14. CASE SettleSnapshot(w)
  BY <1>14, <1>t, <1>u, ThreadMoves DEF SettleSnapshot, storeVars
<1>15. CASE Settle(w)
  BY <1>15, <1>t, <1>u, ThreadMoves DEF Settle, ReconcileMigrationProgress
<1> QED BY <1>1, <1>2, <1>3, <1>4, <1>5, <1>6, <1>7, <1>8, <1>9, <1>10, <1>11, <1>12,
           <1>13, <1>14, <1>15 DEF WorkerStep

\* The rows a set-oriented statement changes stay clean
LEMMA RowChanges ==
    ASSUME tasks \in [Tasks -> Task], RowsConsistent,
           \A t \in Tasks : tasks'[t] # tasks[t] => CleanRow(t, tasks'[t])
    PROVE  RowsConsistent' /\ EpochsKept
BY DEF RowsConsistent, EpochsKept, CleanRow

\* Nobody but DequeueSQL changes a claim_epoch or gives a thread a claim
LEMMA OnlyDequeueClaims ==
    ASSUME TypeOK, RowsConsistent, [Next]_vars,
           ~\E w \in Workers, t \in Tasks : DequeueSQL(w, t)
    PROVE  RowsConsistent' /\ EpochsKept /\ ThreadsKept
<1> DEFINE Kept == RowsConsistent' /\ EpochsKept /\ ThreadsKept
<1>t. /\ tasks \in [Tasks -> Task] /\ worker \in [Workers -> Worker]
      /\ StoreTypeOK /\ WorkersTypeOK
      /\ \A u \in Tasks : tasks[u] \in Task /\ RowConsistent(tasks[u])
  BY DEF TypeOK, StoreTypeOK, WorkersTypeOK, RowsConsistent
<1>u. UNCHANGED tasks => RowsConsistent' /\ EpochsKept
  BY DEF RowsConsistent, EpochsKept
<1>w. UNCHANGED worker => ThreadsKept
  BY DEF ThreadsKept
<1>b. ASSUME NEW S, BackToPending(S), S \subseteq WithStatus({"RUNNING"})
      PROVE  RowsConsistent' /\ EpochsKept
  <2>1. ASSUME NEW u \in S PROVE CleanRow(u, [tasks[u] EXCEPT !.status = "PENDING", !.worker = NoProc])
    BY <1>b, <1>t DEF CleanRow, RowConsistent, Task, WithStatus
  <2> QED BY <1>b, <1>t, <2>1, RowChanges DEF BackToPending
<1>1. CASE DiscoveryNext /\ UNCHANGED <<schedule, controlVars, workersVars, verifier>>
  <2>1. ASSUME NEW i \in Indexers, IndexerInsertCommit(i) PROVE RowsConsistent' /\ EpochsKept
    <3>1. PICK u \in WithStatus({"NONE"}) : tasks' = [tasks EXCEPT ![u] = NewTask(indexer[i].item)]
      BY <2>1 DEF IndexerInsertCommit
    <3>2. u \in Tasks /\ tasks[u].claimEpoch = 0
      BY <1>t DEF WithStatus, RowConsistent
    <3>3. CleanRow(u, NewTask(indexer[i].item))
      BY <3>2 DEF CleanRow, RowConsistent, NewTask, NoTask
    <3> QED BY <1>t, <3>1, <3>2, <3>3, RowChanges
  <2>2. (~\E i \in Indexers : IndexerInsertCommit(i)) => UNCHANGED tasks
    BY <1>1, ZenonT(40) DEF DiscoveryNext, IndexerStep, IndexerLoad, IndexerClaimLease, IndexerHeartbeat,
       IndexerLoadKeys, IndexerSkipItem, IndexerInterrupted, IndexerInsert,
       IndexerRecordErrors, IndexerTotals, IndexerDecide, IndexerReconcileSnapshot,
       IndexerReconcile, IndexerFail, IndexerCrash, ReconcileMigrationProgress, storeVars
  <2> QED BY <1>1, <1>u, <1>w, <2>1, <2>2 DEF workersVars
<1>2. CASE ControlNext /\ UNCHANGED <<schedule, workersVars, verifier>>
  <2>1. CASE RetryFailed
    <3>1. ASSUME NEW u \in Retried
          PROVE  CleanRow(u, [tasks[u] EXCEPT !.status = "PENDING", !.attempts = 0,
                                !.retry = FALSE, !.worker = NoProc])
      BY <1>t DEF CleanRow, RowConsistent, Task, Retried, WithStatus
    <3> QED BY <2>1, <1>2, <1>t, <1>w, <3>1, RowChanges DEF RetryFailed, workersVars
  <2>2. ASSUME NEW h \in Handlers, ReindexWrite(h) PROVE Kept
    <3>1. ASSUME NEW u \in Tasks PROVE CleanRow(u, DeletedTask(u))
      BY DEF CleanRow, RowConsistent, DeletedTask, NoTask
    <3> QED BY <2>2, <1>2, <1>t, <1>w, <3>1, RowChanges DEF ReindexWrite, workersVars
  <2>3. ASSUME NEW h \in Handlers, CancelPendingTasks(h) PROVE Kept
    <3>1. ASSUME NEW u \in Tasks, tasks[u].status = "PENDING"
          PROVE  CleanRow(u, [tasks[u] EXCEPT !.status = "CANCELLED"])
      BY <1>t, <3>1 DEF CleanRow, RowConsistent, Task
    <3> QED BY <2>3, <1>2, <1>t, <1>w, <3>1, RowChanges DEF CancelPendingTasks, workersVars
  <2>4. \/ RetryFailed \/ \E h \in Handlers : ReindexWrite(h) \/ CancelPendingTasks(h)
        \/ UNCHANGED tasks
    BY <1>2 DEF ControlNext, PauseRead, PauseWrite, ReindexRead, CancelMigration, Resume,
       RecoverConnectionLostMigration, SetThreads, storeVars
  <2> QED BY <1>2, <1>u, <1>w, <2>1, <2>2, <2>3, <2>4 DEF workersVars
<1>3. CASE WorkersNext /\ UNCHANGED <<indexer, schedule, controlVars, verifier>>
  <2>1. ASSUME NEW w \in Workers, WorkerStep(w) PROVE Kept
    BY <2>1, <1>t, WorkerStepClaims
  <2>2. ASSUME NEW p \in Procs, NEW S, RecoverAbandonedTasks(p, S) PROVE Kept
    BY <2>2, <1>b, <1>w DEF RecoverAbandonedTasks, RunningOf, WithStatus, workersVars
  <2>3. ASSUME NEW p \in Procs, RetryFailedOnce(p) PROVE Kept
    <3> DEFINE again(u) == [tasks[u] EXCEPT !.status = "PENDING", !.attempts = 0,
                                !.worker = NoProc, !.checksumVerified = FALSE]
    <3>1. \A u \in FinallyFailed : CleanRow(u, again(u))
      BY <1>t DEF CleanRow, RowConsistent, Task, FinallyFailed
    <3>2. \/ UNCHANGED tasks
          \/ tasks' = [u \in Tasks |-> IF u \in FinallyFailed THEN again(u) ELSE tasks[u]]
      BY <2>3, Zenon DEF RetryFailedOnce, MaybeRetryFailedMigrationTasks
    <3> HIDE DEF again
    <3>3. \A u \in Tasks : tasks'[u] # tasks[u] => CleanRow(u, tasks'[u])
      BY <3>1, <3>2
    <3>4. RowsConsistent' /\ EpochsKept
      BY <1>t, <3>3, RowChanges
    <3> QED BY <2>3, <1>w, <3>4 DEF RetryFailedOnce
  <2>4. ASSUME NEW S \in SUBSET Retryable, RequeueFailedTasks(S) PROVE Kept
    <3>1. ASSUME NEW u \in S
          PROVE  CleanRow(u, [tasks[u] EXCEPT !.status = "PENDING", !.retry = FALSE,
                                !.checksumVerified = FALSE])
      BY <1>t DEF CleanRow, RowConsistent, Task, Retryable
    <3> QED BY <2>4, <1>t, <1>w, <3>1, RowChanges DEF RequeueFailedTasks, workersVars
  <2>5. ASSUME NEW S, RequeueOrphanedRunningTasks(S) PROVE Kept
    BY <2>5, <1>b, <1>w DEF RequeueOrphanedRunningTasks, workersVars
  <2>6. ASSUME NEW p \in Procs,
               SelectActiveMigration(p) \/ ReconcileSnapshot(p) \/ Reconcile(p)
        PROVE  Kept
    BY <2>6, <1>u, <1>w DEF SelectActiveMigration, ReconcileSnapshot, Reconcile,
       ReconcileMigrationProgress, storeVars
  <2> QED BY <1>3, <2>1, <2>2, <2>3, <2>4, <2>5, <2>6 DEF WorkersNext, Reconciling, Requeueing
<1>4. CASE VerificationNext /\ UNCHANGED <<indexer, schedule, controlVars, workersVars>>
  <2>1. ASSUME NEW p \in Procs, NEW u \in Tasks, MarkVerified(p, u) PROVE Kept
    <3>1. CanMark(p, u) => CleanRow(u, [tasks[u] EXCEPT !.checksumVerified = TRUE])
      BY <1>t DEF CanMark, CleanRow, RowConsistent, Task
    <3> QED BY <2>1, <1>4, <1>t, <1>w, <3>1, RowChanges DEF MarkVerified, workersVars
  <2>2. ASSUME NEW p \in Procs, NEW u \in Tasks, MarkMismatch(p, u) PROVE Kept
    <3>1. CanMark(p, u) => CleanRow(u, [tasks[u] EXCEPT !.status = "FAILED", !.retry = FALSE])
      BY <1>t DEF CanMark, CleanRow, RowConsistent, Task
    <3> QED BY <2>2, <1>4, <1>t, <1>w, <3>1, RowChanges DEF MarkMismatch, workersVars
  <2>3. \/ \E p \in Procs, u \in Tasks : MarkVerified(p, u) \/ MarkMismatch(p, u)
        \/ UNCHANGED tasks
    BY <1>4 DEF VerificationNext, VerifierStep, ClaimMigrationVerification, AbandonClaim,
       RenewVerificationLease, PassFails, ListUnverifiedTasks, LeaveUnverified,
       PassCancelled, FinishSnapshot, FinishPass, ReleaseVerificationLease,
       VerificationLeaseExpires, ReconcileMigrationProgress, storeVars
  <2> QED BY <1>4, <1>u, <1>w, <2>1, <2>2, <2>3 DEF workersVars
<1>5. ASSUME NEW p \in Procs, Crash(p) PROVE Kept
  BY <1>5, <1>t, <1>u DEF Crash, WorkerCrash, ThreadsKept, IdleWorker
<1>6. CASE UNCHANGED vars
  BY <1>6, <1>u, <1>w DEF vars, storeVars, workersVars
<1>7. CASE SchedulerNext /\ UNCHANGED <<controlVars, workersVars, verifier>>
  <2>1. UNCHANGED tasks
    BY <1>7 DEF SchedulerNext, TickStep, RecoveryStep, DueSchedule, triggerMigration,
       DeactivateSchedule, IndexingLeaseExpires, recoverScheduledMigrations,
       ReactivateSchedule, FailStaleIndexingMigration, storeVars
  <2> QED BY <1>7, <1>u, <1>w, <2>1 DEF workersVars
<1>8. CASE ApiCrash
  BY <1>8, <1>u, <1>w DEF ApiCrash, SchedulerCrash, workersVars
<1>9. ASSUME NEW p \in Procs, Restart(p) PROVE Kept
  <2>1. PICK S \in SUBSET RunningOf(p) : Start(p, S) BY <1>9 DEF Restart
  <2>2. S \subseteq WithStatus({"RUNNING"}) BY DEF RunningOf, WithStatus
  <2> QED BY <2>1, <2>2, <1>b, <1>w DEF Start, workersVars
<1> QED BY <1>1, <1>2, <1>3, <1>4, <1>5, <1>6, <1>7, <1>8, <1>9 DEF Next

\* The inductive invariant behind the claims
ClaimInv == TypeOK /\ RowsConsistent /\ ClaimsDistinct

\* The claim invariant is inductive: DequeueSQL hands out a new epoch, and no
\* other step touches epochs or hands out claims
LEMMA ClaimInvStep == ClaimInv /\ [Next]_vars => ClaimInv'
<1> SUFFICES ASSUME TypeOK, RowsConsistent, ClaimsDistinct, [Next]_vars
             PROVE  ClaimInv'
  BY DEF ClaimInv
<1>t. /\ tasks \in [Tasks -> Task] /\ worker \in [Workers -> Worker]
      /\ tasks' \in [Tasks -> Task] /\ worker' \in [Workers -> Worker] /\ TypeOK'
      /\ \A w \in Workers : worker[w].task \in Tasks /\ worker'[w].task \in Tasks
      /\ \A u \in Tasks : tasks[u].claimEpoch \in Nat /\ RowConsistent(tasks[u])
  BY NextType DEF TypeOK, StoreTypeOK, WorkersTypeOK, RowsConsistent, Worker, Task
<1>1. ASSUME NEW w \in Workers, NEW u \in Tasks, DequeueSQL(w, u)
      PROVE  RowsConsistent' /\ ClaimsDistinct'
  <2>1. /\ worker[w].pc = "idle" /\ tasks[u].status = "PENDING"
        /\ tasks' = [tasks EXCEPT ![u] = [tasks[u] EXCEPT !.status = "RUNNING",
                       !.worker = ProcOf[w], !.claimEpoch = tasks[u].claimEpoch + 1]]
        /\ worker' = [worker EXCEPT ![w] = [worker[w] EXCEPT !.pc = "claimed", !.task = u,
                       !.epoch = tasks[u].claimEpoch + 1]]
    BY <1>1, <1>t DEF DequeueSQL, Task, Worker
  <2>2. RowsConsistent'
    BY <1>t, <2>1 DEF RowsConsistent, RowConsistent, Task
  <2>3. /\ tasks'[u].claimEpoch = tasks[u].claimEpoch + 1
        /\ \A x \in Tasks \ {u} : tasks'[x].claimEpoch = tasks[x].claimEpoch
        /\ worker'[w].task = u /\ worker'[w].epoch = tasks[u].claimEpoch + 1
        /\ \A v \in Workers \ {w} : worker'[v] = worker[v]
    BY <1>t, <2>1 DEF Task, Worker
  <2>4. ClaimsDistinct'
    BY <1>t, <2>3 DEF ClaimsDistinct, Busy
  <2> QED BY <2>2, <2>4
<1>2. ASSUME RowsConsistent', EpochsKept, ThreadsKept PROVE ClaimsDistinct'
  BY <1>2, <1>t DEF ClaimsDistinct, EpochsKept, ThreadsKept, Busy
<1> QED BY <1>1, <1>2, <1>t, OnlyDequeueClaims DEF ClaimInv

\* At the start no thread is busy and no row has been claimed
LEMMA ClaimInvInit == Init => ClaimInv
<1> SUFFICES ASSUME Init PROVE RowsConsistent /\ ClaimsDistinct
  BY InitType DEF ClaimInv
<1>1. \A t \in Tasks : tasks[t] = NoTask \/ \E p \in Items : tasks[t] = NewTask(p)
  BY DEF Init, InitFresh, InitIndexed, InitAbandoned
<1>2. RowsConsistent
  <2>1. RowConsistent(NoTask)
    BY DEF RowConsistent, NoTask
  <2>2. \A p \in Items : RowConsistent(NewTask(p))
    BY DEF RowConsistent, NewTask, NoTask
  <2> QED BY <1>1, <2>1, <2>2 DEF RowsConsistent
<1>3. ClaimsDistinct
  BY DEF Init, WorkersInit, IdleWorker, ClaimsDistinct, Busy
<1> QED BY <1>2, <1>3

\* In every behaviour, no two threads of any process hold the same claim of a
\* task, and no thread holds a claim the task row has not given out.
THEOREM ClaimsAreDistinct == Spec => []ClaimsDistinct
<1>1. ClaimInv => ClaimsDistinct
  BY DEF ClaimInv
<1> QED BY <1>1, ClaimInvInit, ClaimInvStep, PTL DEF Spec

\* Hence the fence admits at most one writer per task, whatever recovery, retry
\* and dequeue did before: the claims of the others carry an older epoch.
THEOREM OneWriter == Spec => []OneWriterPerTask
<1>1. ClaimInv => OneWriterPerTask
  BY DEF ClaimInv, ClaimsDistinct, OneWriterPerTask, StillClaimed, HoldsClaim
<1> QED BY <1>1, ClaimInvInit, ClaimInvStep, PTL DEF Spec

\* A retry time is only ever set on a FAILED task, and a checksum only ever
\* counts as verified on a COMPLETED one.
THEOREM RowsStayConsistent == Spec => [](RetryOnlyWhenFailed /\ VerifiedOnlyWhenCompleted)
<1>1. ClaimInv => RetryOnlyWhenFailed /\ VerifiedOnlyWhenCompleted
  BY DEF ClaimInv, RowsConsistent, RowConsistent, RetryOnlyWhenFailed, VerifiedOnlyWhenCompleted
<1> QED BY <1>1, ClaimInvInit, ClaimInvStep, PTL DEF Spec

-----------------------------------------------------------------------------
(* Verification passes: the same argument, one level up.  Only               *)
(* ClaimMigrationVerification counts verification_generation up.             *)

GenerationKept == mig'.verificationGeneration = mig.verificationGeneration

PassesKept ==
    \A p \in Procs : verifier'[p].pc # "idle" =>
        verifier[p].pc # "idle" /\ verifier'[p].generation = verifier[p].generation

\* The rows the other statements write keep verification_generation
LEMMA RowsKeepGeneration ==
    ASSUME mig \in Migration
    PROVE  /\ mig' \in {IndexingFailed, IndexingCompleted, Resumed, mig} => GenerationKept
           /\ \A i : mig' = IndexingToRunning(i) => GenerationKept
           /\ \A s : ReconcileMigrationProgress(s) => GenerationKept
           /\ \A st : UpdateMigrationStatus(st) => GenerationKept
           /\ \A st, x : mig' = [mig EXCEPT !.status = st, !.indexingLease = x] => GenerationKept
           /\ \A x : mig' = [mig EXCEPT !.indexingLease = x] => GenerationKept
           /\ \A x : mig' = [mig EXCEPT !.verificationLease = x] => GenerationKept
<1>1. IndexingFailed.verificationGeneration = mig.verificationGeneration
  BY DEF Migration, IndexingFailed
<1>2. IndexingCompleted.verificationGeneration = mig.verificationGeneration
  BY DEF Migration, IndexingCompleted
<1>3. \A i : IndexingToRunning(i).verificationGeneration = mig.verificationGeneration
  BY DEF Migration, IndexingToRunning
<1>4. Resumed.verificationGeneration = mig.verificationGeneration
  BY DEF Migration, Resumed
<1>5. \A s : ReconcileMigrationProgress(s) => GenerationKept
  BY DEF ReconcileMigrationProgress, GenerationKept, Migration
<1>6. \A st : UpdateMigrationStatus(st) => GenerationKept
  BY DEF UpdateMigrationStatus, GenerationKept, Migration
<1>7. /\ \A st, x : mig' = [mig EXCEPT !.status = st, !.indexingLease = x] => GenerationKept
      /\ \A x : mig' = [mig EXCEPT !.indexingLease = x] => GenerationKept
      /\ \A x : mig' = [mig EXCEPT !.verificationLease = x] => GenerationKept
  BY DEF GenerationKept, Migration
<1> QED BY <1>1, <1>2, <1>3, <1>4, <1>5, <1>6, <1>7 DEF GenerationKept

\* Only ClaimMigrationVerification starts a pass or changes the generation
LEMMA OnlyClaimsStartPasses ==
    ASSUME TypeOK, [Next]_vars, ~\E p \in Procs : ClaimMigrationVerification(p)
    PROVE  GenerationKept /\ PassesKept
<1>t. mig \in Migration /\ verifier \in [Procs -> Verifier]
  BY DEF TypeOK, StoreTypeOK, VerificationTypeOK
<1>m. UNCHANGED mig => GenerationKept
  BY DEF GenerationKept
<1>v. UNCHANGED verifier => PassesKept
  BY DEF PassesKept
<1>1. CASE DiscoveryNext /\ UNCHANGED <<schedule, controlVars, workersVars, verifier>>
  <2>1. ASSUME NEW i \in Indexers, IndexerReconcile(i) PROVE GenerationKept
    BY <2>1, <1>t, RowsKeepGeneration DEF IndexerReconcile
  <2>2. ASSUME NEW i \in Indexers, IndexerDecide(i) \/ IndexerFail(i) PROVE GenerationKept
    BY <2>2, <1>t, RowsKeepGeneration DEF IndexerDecide, IndexerFail
  <2>3. ASSUME NEW i \in Indexers, IndexerClaimLease(i) \/ IndexerHeartbeat(i) PROVE GenerationKept
    BY <2>3, <1>t, <1>m, RowsKeepGeneration DEF IndexerClaimLease, IndexerHeartbeat
  <2>4. \/ \E i \in Indexers : \/ IndexerReconcile(i) \/ IndexerDecide(i) \/ IndexerFail(i)
                               \/ IndexerClaimLease(i) \/ IndexerHeartbeat(i)
        \/ UNCHANGED mig
    BY <1>1 DEF DiscoveryNext, IndexerStep, IndexerLoad, IndexerLoadKeys, IndexerSkipItem,
       IndexerInterrupted, IndexerInsert, IndexerInsertCommit, IndexerRecordErrors,
       IndexerTotals, IndexerReconcileSnapshot, IndexerCrash, storeVars
  <2> QED BY <1>1, <1>m, <1>v, <2>1, <2>2, <2>3, <2>4
<1>2. CASE ControlNext /\ UNCHANGED <<schedule, workersVars, verifier>>
  <2>1. ASSUME NEW h \in Handlers, PauseWrite(h) \/ CancelMigration(h) PROVE GenerationKept
    BY <2>1, <1>t, RowsKeepGeneration DEF PauseWrite, CancelMigration
  <2>2. ASSUME Resume \/ RecoverConnectionLostMigration PROVE GenerationKept
    BY <2>2, <1>t, RowsKeepGeneration DEF Resume, RecoverConnectionLostMigration
  <2>3. ASSUME RetryFailed PROVE GenerationKept
    BY <2>3, <1>t DEF RetryFailed, GenerationKept, Migration
  <2>4. ASSUME NEW h \in Handlers, ReindexWrite(h) PROVE GenerationKept
    BY <2>4, <1>t DEF ReindexWrite, GenerationKept, Migration
  <2>5. ASSUME NEW n, SetThreads(n) PROVE GenerationKept
    BY <2>5, <1>t DEF SetThreads, GenerationKept, Migration
  <2>6. \/ \E h \in Handlers : PauseWrite(h) \/ CancelMigration(h) \/ ReindexWrite(h)
        \/ Resume \/ RecoverConnectionLostMigration \/ RetryFailed
        \/ \E n \in 1..MaxThreads : SetThreads(n)
        \/ UNCHANGED mig
    BY <1>2 DEF ControlNext, PauseRead, ReindexRead, CancelPendingTasks, storeVars
  <2> QED BY <1>2, <1>m, <1>v, <2>1, <2>2, <2>3, <2>4, <2>5, <2>6
<1>3. CASE WorkersNext /\ UNCHANGED <<indexer, schedule, controlVars, verifier>>
  <2>1. ASSUME NEW w \in Workers, HandleConnLossEscalate(w) PROVE GenerationKept
    BY <2>1, <1>t, <1>m, RowsKeepGeneration
       DEF HandleConnLossEscalate, PauseMigrationForConnectionLoss
  <2>2. ASSUME NEW w \in Workers, HandleAuthFailure(w) PROVE GenerationKept
    BY <2>2, <1>t DEF HandleAuthFailure, GenerationKept, Migration
  <2>3. ASSUME NEW w \in Workers, Settle(w) PROVE GenerationKept
    BY <2>3, <1>t, RowsKeepGeneration DEF Settle
  <2>4. ASSUME NEW p \in Procs, Reconcile(p) PROVE GenerationKept
    BY <2>4, <1>t, RowsKeepGeneration DEF Reconcile
  <2>5. ASSUME NEW p \in Procs, RetryFailedOnce(p) PROVE GenerationKept
    BY <2>5, <1>t, ZenonT(40) DEF RetryFailedOnce, MaybeRetryFailedMigrationTasks, GenerationKept, Migration
  <2>6. \/ \E w \in Workers : HandleConnLossEscalate(w) \/ HandleAuthFailure(w) \/ Settle(w)
        \/ \E p \in Procs : Reconcile(p) \/ RetryFailedOnce(p)
        \/ UNCHANGED mig
    BY <1>3, ZenonT(40) DEF WorkersNext, WorkerStep, Reconciling, Requeueing, DequeueSQL, LoadMigration, ReturnTask,
       MarkRunning, CompleteTask, SkipTask, TransferFails, TransferCancelled, HandleFailure,
       HandleCancelledMigration, HandleCancelledContext, HandleConnLossRetry,
       RequeueAfterPause, HandleAuthRefreshed, HandleTransient, HandleFinal, SettleSnapshot,
       RecoverAbandonedTasks, SelectActiveMigration, ReconcileSnapshot, RequeueFailedTasks,
       RequeueOrphanedRunningTasks, storeVars
  <2> QED BY <1>3, <1>m, <1>v, <2>1, <2>2, <2>3, <2>4, <2>5, <2>6
<1>4. CASE VerificationNext /\ UNCHANGED <<indexer, schedule, controlVars, workersVars>>
  <2>1. GenerationKept
    <3>1. ASSUME NEW p \in Procs, FinishPass(p) PROVE GenerationKept
      BY <3>1, <1>t, <1>m, RowsKeepGeneration DEF FinishPass
    <3>2. ASSUME NEW p \in Procs, ReleaseVerificationLease(p) PROVE GenerationKept
      BY <3>2, <1>t, <1>m, RowsKeepGeneration DEF ReleaseVerificationLease
    <3>3. CASE VerificationLeaseExpires
      BY <3>3, <1>t, RowsKeepGeneration DEF VerificationLeaseExpires
    <3>4. \/ \E p \in Procs : FinishPass(p) \/ ReleaseVerificationLease(p)
          \/ VerificationLeaseExpires \/ UNCHANGED mig
      BY <1>4 DEF VerificationNext, VerifierStep, AbandonClaim, RenewVerificationLease,
         PassFails, ListUnverifiedTasks, MarkVerified, MarkMismatch, LeaveUnverified,
         PassCancelled, FinishSnapshot, storeVars
    <3> QED BY <1>m, <3>1, <3>2, <3>3, <3>4
  <2>2. PassesKept
    <3>1. ASSUME NEW p \in Procs, EndPass(p), verifier[p].pc # "idle" PROVE PassesKept
      BY <3>1, <1>t DEF EndPass, PassesKept, Verifier
    <3>2. ASSUME NEW p \in Procs, verifier' = [verifier EXCEPT ![p] = IdleVerifier]
          PROVE  PassesKept
      BY <3>2, <1>t DEF IdleVerifier, PassesKept
    <3>3. ASSUME NEW p \in Procs, AbandonClaim(p) \/ ReleaseVerificationLease(p) PROVE PassesKept
      BY <3>3, <3>2 DEF AbandonClaim, ReleaseVerificationLease
    <3>4. ASSUME NEW p \in Procs, PassFails(p) \/ PassCancelled(p) \/ FinishPass(p)
          PROVE  PassesKept
      BY <3>4, <3>1 DEF PassFails, PassCancelled, FinishPass
    <3>5. ASSUME NEW p \in Procs, RenewVerificationLease(p) PROVE PassesKept
      BY <3>5, <3>1, <1>t DEF RenewVerificationLease, PassesKept, Verifier
    <3>6. ASSUME NEW p \in Procs, ListUnverifiedTasks(p) \/ FinishSnapshot(p) PROVE PassesKept
      <4>1. CASE ListUnverifiedTasks(p)
        BY <4>1, <1>t DEF ListUnverifiedTasks, PassesKept, Verifier
      <4>2. CASE FinishSnapshot(p)
        BY <4>2, <1>t DEF FinishSnapshot, PassesKept, Verifier
      <4> QED BY <3>6, <4>1, <4>2
    <3>7. ASSUME NEW p \in Procs, NEW u \in Tasks,
                 MarkVerified(p, u) \/ MarkMismatch(p, u) \/ LeaveUnverified(p, u)
          PROVE  PassesKept
      BY <3>7, <1>t DEF MarkVerified, MarkMismatch, LeaveUnverified, PassesKept, Verifier
    <3>8. CASE VerificationLeaseExpires
      BY <3>8, <1>v DEF VerificationLeaseExpires
    <3> QED BY <1>4, <3>3, <3>4, <3>5, <3>6, <3>7, <3>8 DEF VerificationNext, VerifierStep
  <2> QED BY <2>1, <2>2
<1>5. ASSUME NEW p \in Procs, Crash(p) PROVE GenerationKept /\ PassesKept
  BY <1>5, <1>t, <1>m DEF Crash, WorkerCrash, VerifierCrash, IdleVerifier, PassesKept
<1>6. CASE UNCHANGED vars
  BY <1>6, <1>m, <1>v DEF vars, storeVars
<1>7. CASE SchedulerNext /\ UNCHANGED <<controlVars, workersVars, verifier>>
  <2>1. CASE triggerMigration
    BY <2>1, <1>7, <1>t, <1>m, <1>v DEF triggerMigration, ScheduleClaimed, GenerationKept, Migration
  <2>2. CASE recoverScheduledMigrations \/ FailStaleIndexingMigration
    BY <2>2, <1>7, <1>t, <1>v DEF recoverScheduledMigrations, FailStaleIndexingMigration,
       GenerationKept, Migration
  <2>3. CASE IndexingLeaseExpires
    BY <2>3, <1>7, <1>t, <1>v, RowsKeepGeneration DEF IndexingLeaseExpires
  <2>4. CASE DueSchedule \/ DeactivateSchedule \/ ReactivateSchedule
    BY <2>4, <1>7, <1>m, <1>v DEF DueSchedule, DeactivateSchedule, ReactivateSchedule, storeVars
  <2> QED BY <1>7, <2>1, <2>2, <2>3, <2>4 DEF SchedulerNext, TickStep, RecoveryStep
<1>8. CASE ApiCrash
  BY <1>8, <1>m, <1>v DEF ApiCrash, SchedulerCrash
<1>9. ASSUME NEW p \in Procs, Restart(p) PROVE GenerationKept /\ PassesKept
  BY <1>9, <1>m, <1>v DEF Restart, Start
<1> QED BY <1>1, <1>2, <1>3, <1>4, <1>5, <1>6, <1>7, <1>8, <1>9 DEF Next

\* No two verification passes of any process hold the same generation, so the
\* generation in every write of a pass names one pass.
THEOREM PassesAreDistinct == Spec => []PassesDistinct
<1>1. Init => PassesDistinct
  BY DEF Init, VerificationInit, IdleVerifier, PassesDistinct
<1>2. TypeOK /\ PassesDistinct /\ [Next]_vars => PassesDistinct'
  <2> SUFFICES ASSUME TypeOK, PassesDistinct, [Next]_vars PROVE PassesDistinct'
    OBVIOUS
  <2>t. /\ mig \in Migration /\ verifier \in [Procs -> Verifier]
        /\ mig.verificationGeneration \in Nat
    BY DEF TypeOK, StoreTypeOK, VerificationTypeOK, Migration
  <2>1. ASSUME NEW p \in Procs, ClaimMigrationVerification(p) PROVE PassesDistinct'
    <3>1. /\ mig'.verificationGeneration = mig.verificationGeneration + 1
          /\ verifier'[p].generation = mig.verificationGeneration + 1
          /\ \A q \in Procs \ {p} : verifier'[q] = verifier[q]
      BY <2>1, <2>t DEF ClaimMigrationVerification, Migration, Verifier
    <3> QED BY <2>t, <3>1 DEF PassesDistinct
  <2>2. ASSUME GenerationKept, PassesKept PROVE PassesDistinct'
    BY <2>2, <2>t DEF PassesDistinct, GenerationKept, PassesKept
  <2> QED BY <2>1, <2>2, OnlyClaimsStartPasses
<1> QED BY <1>1, <1>2, TypeCorrect, PTL DEF Spec

-----------------------------------------------------------------------------
(***************************************************************************)
(* The task queue implements FencedClaim, step by step: DequeueSQL claims, *)
(* the write of COMPLETED or SKIPPED by the thread with the newest epoch   *)
(* finishes, every other step gives claims up, takes them away, throws     *)
(* results away, or changes nothing a client of the queue can see.         *)
(***************************************************************************)


\* Where a row stands in the life of a claim
Place(status) ==
    CASE status = "RUNNING" -> "held"
      [] status \in {"COMPLETED", "SKIPPED"} -> "done"
      [] OTHER -> "free"

Was(t) == Place(tasks[t].status)
Is(t) == Place(tasks'[t].status)

\* Claims end without a result, or nothing happens
ClaimsEnd == \A t \in Tasks : Is(t) = Was(t) \/ (Was(t) = "held" /\ Is(t) = "free")

\* Rows are thrown back, and no thread moves
RowsReopen == worker' = worker /\ \A t \in Tasks : Is(t) = Was(t) \/ Is(t) = "free"

\* The thread with the newest claim of its task finishes it
ThreadFinishes(w) ==
    /\ Busy(w) /\ StillClaimed(w) /\ Is(worker[w].task) = "done"
    /\ \A t \in Tasks \ {worker[w].task} : tasks'[t] = tasks[t]
    /\ \A v \in Workers \ {w} : worker'[v] = worker[v]

LEMMA Places ==
    /\ Place("RUNNING") = "held" /\ Place("COMPLETED") = "done" /\ Place("SKIPPED") = "done"
    /\ \A s \in {"NONE", "PENDING", "FAILED", "CANCELLED", "DELETED"} : Place(s) = "free"
BY DEF Place

LEMMA SamePlaces == ASSUME UNCHANGED tasks PROVE ClaimsEnd
BY DEF ClaimsEnd, Is, Was

LEMMA PlacesKept ==
    ASSUME tasks \in [Tasks -> Task],
           \A t \in Tasks : \/ tasks'[t] = tasks[t]
                            \/ tasks'[t].status = tasks[t].status
                            \/ /\ tasks[t].status \in {"NONE", "PENDING", "FAILED", "CANCELLED", "DELETED"}
                               /\ tasks'[t].status \in {"NONE", "PENDING", "FAILED", "CANCELLED", "DELETED"}
                            \/ /\ tasks[t].status = "RUNNING"
                               /\ tasks'[t].status \in {"NONE", "PENDING", "FAILED", "CANCELLED", "DELETED"}
    PROVE  ClaimsEnd
BY Places DEF ClaimsEnd, Is, Was

\* What a fenced write of a thread does to its row
LEMMA FencedWrite ==
    ASSUME tasks \in [Tasks -> Task], NEW w \in Workers, worker[w].task \in Tasks, NEW row \in Task,
           UpdateClaimedTaskStatus(worker[w].task, worker[w].epoch, row), row.status # "RUNNING"
    PROVE  \/ ClaimsEnd
           \/ /\ StillClaimed(w) /\ Is(worker[w].task) = "done"
              /\ \A t \in Tasks \ {worker[w].task} : tasks'[t] = tasks[t]
<1>1. CASE ~HoldsClaim(worker[w].task, worker[w].epoch)
  BY <1>1, SamePlaces DEF UpdateClaimedTaskStatus
<1>2. CASE HoldsClaim(worker[w].task, worker[w].epoch)
  <2>1. tasks' = [tasks EXCEPT ![worker[w].task] = row] /\ tasks[worker[w].task].status = "RUNNING"
    BY <1>2 DEF UpdateClaimedTaskStatus, HoldsClaim
  <2>2. tasks'[worker[w].task] = row /\ \A t \in Tasks \ {worker[w].task} : tasks'[t] = tasks[t]
    BY <2>1
  <2>3. row.status \in TaskStatus BY DEF Task
  <2>4. CASE row.status \in {"COMPLETED", "SKIPPED"}
    BY <1>2, <2>2, <2>4, Places DEF StillClaimed, Is
  <2>5. CASE row.status \in {"NONE", "PENDING", "FAILED", "CANCELLED", "DELETED"}
    BY <2>1, <2>2, <2>5, PlacesKept
  <2> QED BY <2>3, <2>4, <2>5 DEF TaskStatus
<1> QED BY <1>1, <1>2

\* Steps of a thread
LEMMA ThreadSteps ==
    ASSUME StoreTypeOK, WorkersTypeOK, NEW w \in Workers, WorkerStep(w),
           ~\E t \in Tasks : DequeueSQL(w, t)
    PROVE  ClaimsEnd \/ ThreadFinishes(w)
<1> DEFINE t == worker[w].task
<1>t. /\ t \in Tasks /\ MyTask(w) = tasks[t] /\ tasks[t] \in Task
      /\ worker \in [Workers -> Worker] /\ tasks \in [Tasks -> Task]
  BY DEF StoreTypeOK, WorkersTypeOK, Worker, MyTask
<1>m. /\ Rest(w) => \A v \in Workers \ {w} : worker'[v] = worker[v]
      /\ \A e : Errs(w, e) => \A v \in Workers \ {w} : worker'[v] = worker[v]
      /\ \A p : Goto(w, p) => \A v \in Workers \ {w} : worker'[v] = worker[v]
  BY <1>t DEF Rest, Errs, Goto
<1>f. ASSUME NEW row \in Task, row.status # "RUNNING", UpdateClaimedTaskStatus(t, worker[w].epoch, row),
             Busy(w), Rest(w) \/ (\E e : Errs(w, e)) \/ (\E p : Goto(w, p))
      PROVE  ClaimsEnd \/ ThreadFinishes(w)
  <2>1. \/ ClaimsEnd
        \/ /\ StillClaimed(w) /\ Is(t) = "done"
           /\ \A u \in Tasks \ {t} : tasks'[u] = tasks[u]
    BY <1>f, <1>t, FencedWrite
  <2> QED BY <1>f, <1>m, <2>1 DEF ThreadFinishes
<1>l. ASSUME NEW row \in Task, row.status # "RUNNING", WriteClaimed(w, row),
             Busy(w), Rest(w) \/ (\E e : Errs(w, e)) \/ (\E p : Goto(w, p))
      PROVE  ClaimsEnd \/ ThreadFinishes(w)
  <2>1. CASE UpdateClaimedTaskStatus(t, worker[w].epoch, row)
    BY <2>1, <1>l, <1>f
  <2>2. CASE UNCHANGED tasks
    BY <2>2, SamePlaces
  <2> QED BY <1>l, <2>1, <2>2 DEF WriteClaimed, Logged
<1>r. /\ \A st \in TaskStatus : [tasks[t] EXCEPT !.status = st] \in Task
      /\ \A st \in TaskStatus : [tasks[t] EXCEPT !.status = st, !.worker = NoProc] \in Task
      /\ \A v \in BOOLEAN : [tasks[t] EXCEPT !.status = "COMPLETED", !.worker = NoProc,
                                       !.checksumVerified = v] \in Task
      /\ \A st \in TaskStatus : [tasks[t] EXCEPT !.status = st].status = st
      /\ \A st \in TaskStatus : [tasks[t] EXCEPT !.status = st, !.worker = NoProc].status = st
      /\ \A v \in BOOLEAN : [tasks[t] EXCEPT !.status = "COMPLETED", !.worker = NoProc,
                                       !.checksumVerified = v].status = "COMPLETED"
  BY <1>t, RowTypes, ZenonT(40) DEF Task
<1>q. /\ \A x \in BOOLEAN : [tasks[t] EXCEPT !.status = "FAILED", !.retry = x, !.attempts = Bump(@)] \in Task
      /\ [tasks[t] EXCEPT !.status = "PENDING", !.attempts = Bump(@)] \in Task
  BY <1>t, RowTypes
<1>s. /\ \A x \in BOOLEAN : [tasks[t] EXCEPT !.status = "FAILED", !.retry = x, !.attempts = Bump(@)].status = "FAILED"
      /\ [tasks[t] EXCEPT !.status = "PENDING", !.attempts = Bump(@)].status = "PENDING"
  <2> DEFINE n == Bump(tasks[t].attempts)
  <2>1. /\ \A x \in BOOLEAN : [tasks[t] EXCEPT !.status = "FAILED", !.retry = x, !.attempts = n].status = "FAILED"
        /\ [tasks[t] EXCEPT !.status = "PENDING", !.attempts = n].status = "PENDING"
    <3> HIDE DEF n
    <3> QED BY <1>t DEF Task
  <2> QED BY <2>1
<1>e. {"PENDING", "RUNNING", "COMPLETED", "SKIPPED", "FAILED", "CANCELLED"} \subseteq TaskStatus
  BY DEF TaskStatus
<1> HIDE DEF t
<1>1. CASE ReturnTask(w)
  <2>1. Unrunnable(worker[w].seen) \in {"SKIPPED", "CANCELLED", "PENDING"} BY DEF Unrunnable
  <2>2. Busy(w) /\ (Rest(w) \/ \E e : Errs(w, e)) BY <1>1 DEF ReturnTask, Busy
  <2>3. CASE TransitionClaimedTask(t, worker[w].epoch, Unrunnable(worker[w].seen))
    BY <1>e, <1>f, <1>r, <2>1, <2>2, <2>3 DEF TransitionClaimedTask
  <2>4. CASE UNCHANGED tasks BY <2>4, SamePlaces
  <2> QED BY <1>1, <2>3, <2>4 DEF ReturnTask, Logged, t
<1>2. ASSUME NEW v \in BOOLEAN, CompleteTask(w, v) PROVE ClaimsEnd \/ ThreadFinishes(w)
  <2>1. Busy(w) /\ (Rest(w) \/ (\E e : Errs(w, e)) \/ (\E p : Goto(w, p))) BY <1>2 DEF CompleteTask, Busy
  <2>2. UpdateClaimedTaskStatus(t, worker[w].epoch, [tasks[t] EXCEPT !.status = "COMPLETED", !.worker = NoProc,
                           !.checksumVerified = v])
    BY <1>2, <1>t DEF CompleteTask, UpdateMigrationTaskAndProgress, t
  <2> QED BY <1>f, <1>r, <2>1, <2>2
<1>3. ASSUME NEW k \in {0, 1}, SkipTask(w, k) PROVE ClaimsEnd \/ ThreadFinishes(w)
  <2>1. Busy(w) /\ (Rest(w) \/ \E e : Errs(w, e)) BY <1>3 DEF SkipTask, Busy
  <2>2. UpdateClaimedTaskStatus(t, worker[w].epoch, [tasks[t] EXCEPT !.status = "SKIPPED"])
    BY <1>3, <1>t DEF SkipTask, UpdateMigrationTaskAndProgress, t
  <2> QED BY <1>e, <1>f, <1>r, <2>1, <2>2
<1>4. CASE HandleCancelledMigration(w) \/ HandleCancelledContext(w)
  <2>1. Busy(w) /\ Rest(w) BY <1>4 DEF HandleCancelledMigration, HandleCancelledContext, Handling, Busy
  <2>2. WriteClaimed(w, [tasks[t] EXCEPT !.status = "CANCELLED"]) \/ WriteClaimed(w, [tasks[t] EXCEPT !.status = "PENDING"])
    BY <1>4, <1>t DEF HandleCancelledMigration, HandleCancelledContext
  <2> QED BY <1>e, <1>l, <1>r, <2>1, <2>2
<1>5. CASE RequeueAfterPause(w)
  <2>1. Busy(w) /\ Rest(w) BY <1>5 DEF RequeueAfterPause, Busy
  <2>2. WriteClaimed(w, [tasks[t] EXCEPT !.status = "PENDING", !.attempts = Bump(@)])
    BY <1>5, <1>t DEF RequeueAfterPause
  <2> QED BY <1>l, <1>q, <1>s, <2>1, <2>2
<1>6. CASE HandleConnLossRetry(w) \/ HandleAuthRefreshed(w) \/ HandleFinal(w)
  <2>1. Busy(w) /\ (Rest(w) \/ \E p : Goto(w, p))
    BY <1>6 DEF HandleConnLossRetry, HandleAuthRefreshed, HandleFinal, Handling, Busy
  <2>2. \E x \in BOOLEAN : WriteClaimed(w, [tasks[t] EXCEPT !.status = "FAILED", !.retry = x, !.attempts = Bump(@)])
    BY <1>6, <1>t DEF HandleConnLossRetry, HandleAuthRefreshed, HandleFinal, FailedRow
  <2> QED BY <1>l, <1>q, <1>s, <2>1, <2>2
<1>7. CASE HandleTransient(w)
  <2>1. Busy(w) /\ Rest(w) BY <1>7 DEF HandleTransient, Handling, Busy
  <2>2. \/ UNCHANGED tasks
        \/ UpdateClaimedTaskStatus(t, worker[w].epoch,
               [tasks[t] EXCEPT !.status = "FAILED", !.retry = TRUE, !.attempts = Bump(@)])
    BY <1>7, <1>t DEF HandleTransient, FailedRow, UpdateMigrationTaskAndProgress, t
  <2>3. CASE UNCHANGED tasks BY <2>3, SamePlaces
  <2>4. CASE UpdateClaimedTaskStatus(t, worker[w].epoch,
               [tasks[t] EXCEPT !.status = "FAILED", !.retry = TRUE, !.attempts = Bump(@)])
    BY <1>f, <1>q, <1>s, <2>1, <2>4
  <2> QED BY <2>2, <2>3, <2>4
<1>8. CASE HandleAuthFailure(w)
  <2>1. CASE AuthFailureApplies(w) /\ tasks' = AuthFailedTasks(w)
    <3>1. ASSUME NEW u \in Tasks
          PROVE  \/ tasks'[u] = tasks[u]
                 \/ /\ tasks[u].status \in {"RUNNING", "PENDING"}
                    /\ tasks'[u].status \in {"FAILED", "CANCELLED"}
      <4>1. tasks[u] \in Task /\ tasks[t].status = "RUNNING"
        BY <1>t, <2>1 DEF AuthFailureApplies, StillClaimed, HoldsClaim, t
      <4> QED BY <2>1, <4>1 DEF AuthFailedTasks, Task, t
    <3> QED BY <1>t, <3>1, PlacesKept, SMTT(40)
  <2>2. CASE UNCHANGED tasks BY <2>2, SamePlaces
  <2> QED BY <1>8, <2>1, <2>2 DEF HandleAuthFailure
<1>9. CASE LoadMigration(w) \/ MarkRunning(w) \/ TransferCancelled(w) \/ HandleFailure(w)
           \/ HandleConnLossEscalate(w) \/ SettleSnapshot(w) \/ Settle(w) \/ \E e \in Failure : TransferFails(w, e)
  BY <1>9, SamePlaces DEF LoadMigration, MarkRunning, TransferCancelled, HandleFailure,
     HandleConnLossEscalate, SettleSnapshot, Settle, TransferFails, ReconcileMigrationProgress, storeVars
<1> QED BY <1>1, <1>2, <1>3, <1>4, <1>5, <1>6, <1>7, <1>8, <1>9 DEF WorkerStep

\* Every step that is no claim ends claims, reopens rows or is one finish
LEMMA StepKinds ==
    ASSUME TypeOK, [Next]_vars, ~\E w \in Workers, t \in Tasks : DequeueSQL(w, t)
    PROVE  ClaimsEnd \/ RowsReopen \/ \E w \in Workers : ThreadFinishes(w)
<1>t. /\ tasks \in [Tasks -> Task] /\ StoreTypeOK /\ WorkersTypeOK
      /\ \A u \in Tasks : tasks[u] \in Task
  BY DEF TypeOK, StoreTypeOK
<1>b. ASSUME NEW S, BackToPending(S), S \subseteq WithStatus({"RUNNING"}) PROVE ClaimsEnd
  <2>1. ASSUME NEW u \in Tasks
        PROVE  tasks'[u] = tasks[u] \/ (tasks[u].status = "RUNNING" /\ tasks'[u].status = "PENDING")
    BY <1>b, <1>t DEF BackToPending, WithStatus, Task
  <2> QED BY <1>t, <2>1, PlacesKept
<1>1. CASE DiscoveryNext /\ UNCHANGED <<schedule, controlVars, workersVars, verifier>>
  <2>1. ASSUME NEW i \in Indexers, IndexerInsertCommit(i) PROVE ClaimsEnd
    <3>1. PICK u \in WithStatus({"NONE"}) : tasks' = [tasks EXCEPT ![u] = NewTask(indexer[i].item)]
      BY <2>1 DEF IndexerInsertCommit
    <3>2. u \in Tasks /\ tasks[u].status = "NONE" BY DEF WithStatus
    <3>3. NewTask(indexer[i].item).status = "PENDING" BY DEF NewTask, NoTask
    <3>4. ASSUME NEW x \in Tasks
          PROVE  tasks'[x] = tasks[x] \/ (tasks[x].status = "NONE" /\ tasks'[x].status = "PENDING")
      BY <1>t, <3>1, <3>2, <3>3
    <3> QED BY <1>t, <3>4, PlacesKept
  <2>2. (~\E i \in Indexers : IndexerInsertCommit(i)) => UNCHANGED tasks
    BY <1>1, ZenonT(40) DEF DiscoveryNext, IndexerStep, IndexerLoad, IndexerClaimLease, IndexerHeartbeat,
       IndexerLoadKeys, IndexerSkipItem, IndexerInterrupted, IndexerInsert,
       IndexerRecordErrors, IndexerTotals, IndexerDecide, IndexerReconcileSnapshot,
       IndexerReconcile, IndexerFail, IndexerCrash, ReconcileMigrationProgress, storeVars
  <2> QED BY <2>1, <2>2, SamePlaces
<1>2. CASE ControlNext /\ UNCHANGED <<schedule, workersVars, verifier>>
  <2>w. worker' = worker BY <1>2 DEF workersVars
  <2>1. CASE RetryFailed
    <3>1. ASSUME NEW u \in Tasks
          PROVE  \/ tasks'[u] = tasks[u]
                 \/ tasks[u].status \in {"FAILED", "CANCELLED"} /\ tasks'[u].status = "PENDING"
      BY <1>t, <2>1 DEF RetryFailed, Retried, WithStatus, Task
    <3> QED BY <1>t, <3>1, PlacesKept
  <2>2. ASSUME NEW h \in Handlers, ReindexWrite(h) PROVE RowsReopen
    <3>1. ASSUME NEW u \in Tasks PROVE tasks'[u] = tasks[u] \/ tasks'[u].status = "DELETED"
      BY <2>2 DEF ReindexWrite, DeletedTask, NoTask
    <3> QED BY <2>w, <3>1, Places DEF RowsReopen, Is, Was
  <2>3. ASSUME NEW h \in Handlers, CancelPendingTasks(h) PROVE ClaimsEnd
    <3>1. ASSUME NEW u \in Tasks
          PROVE  tasks'[u] = tasks[u] \/ (tasks[u].status = "PENDING" /\ tasks'[u].status = "CANCELLED")
      BY <1>t, <2>3 DEF CancelPendingTasks, Task
    <3> QED BY <1>t, <3>1, PlacesKept
  <2>4. \/ RetryFailed \/ \E h \in Handlers : ReindexWrite(h) \/ CancelPendingTasks(h)
        \/ UNCHANGED tasks
    BY <1>2 DEF ControlNext, PauseRead, PauseWrite, ReindexRead, CancelMigration, Resume,
       RecoverConnectionLostMigration, SetThreads, storeVars
  <2> QED BY <2>1, <2>2, <2>3, <2>4, SamePlaces
<1>3. CASE WorkersNext /\ UNCHANGED <<indexer, schedule, controlVars, verifier>>
  <2>1. ASSUME NEW w \in Workers, WorkerStep(w) PROVE ClaimsEnd \/ ThreadFinishes(w)
    BY <2>1, <1>t, ThreadSteps
  <2>2. ASSUME NEW p \in Procs, NEW S, RecoverAbandonedTasks(p, S) PROVE ClaimsEnd
    BY <2>2, <1>b DEF RecoverAbandonedTasks, RunningOf, WithStatus
  <2>3. ASSUME NEW p \in Procs, RetryFailedOnce(p) PROVE ClaimsEnd
    <3> DEFINE again(u) == [tasks[u] EXCEPT !.status = "PENDING", !.attempts = 0,
                                !.worker = NoProc, !.checksumVerified = FALSE]
    <3>1. \A u \in FinallyFailed : tasks[u].status = "FAILED" /\ again(u).status = "PENDING"
      BY <1>t DEF Task, FinallyFailed
    <3>2. \/ UNCHANGED tasks
          \/ tasks' = [u \in Tasks |-> IF u \in FinallyFailed THEN again(u) ELSE tasks[u]]
      BY <2>3, Zenon DEF RetryFailedOnce, MaybeRetryFailedMigrationTasks
    <3> HIDE DEF again
    <3>3. \A u \in Tasks : tasks'[u] = tasks[u] \/ (tasks[u].status = "FAILED" /\ tasks'[u].status = "PENDING")
      BY <3>1, <3>2
    <3> QED BY <1>t, <3>3, PlacesKept
  <2>4. ASSUME NEW S \in SUBSET Retryable, RequeueFailedTasks(S) PROVE ClaimsEnd
    <3>1. ASSUME NEW u \in Tasks
          PROVE  tasks'[u] = tasks[u] \/ (tasks[u].status = "FAILED" /\ tasks'[u].status = "PENDING")
      BY <1>t, <2>4 DEF RequeueFailedTasks, Retryable, Task
    <3> QED BY <1>t, <3>1, PlacesKept
  <2>5. ASSUME NEW S, RequeueOrphanedRunningTasks(S) PROVE ClaimsEnd
    BY <2>5, <1>b DEF RequeueOrphanedRunningTasks
  <2>6. ASSUME NEW p \in Procs,
               SelectActiveMigration(p) \/ ReconcileSnapshot(p) \/ Reconcile(p)
        PROVE  ClaimsEnd
    BY <2>6, SamePlaces DEF SelectActiveMigration, ReconcileSnapshot, Reconcile,
       ReconcileMigrationProgress, storeVars
  <2> QED BY <1>3, <2>1, <2>2, <2>3, <2>4, <2>5, <2>6 DEF WorkersNext, Reconciling, Requeueing
<1>4. CASE VerificationNext /\ UNCHANGED <<indexer, schedule, controlVars, workersVars>>
  <2>w. worker' = worker BY <1>4 DEF workersVars
  <2>1. ASSUME NEW p \in Procs, NEW u \in Tasks, MarkVerified(p, u) PROVE ClaimsEnd
    <3>1. \A x \in Tasks : tasks'[x].status = tasks[x].status
      BY <1>t, <2>1 DEF MarkVerified, Task
    <3> QED BY <1>t, <3>1, PlacesKept
  <2>2. ASSUME NEW p \in Procs, NEW u \in Tasks, MarkMismatch(p, u) PROVE RowsReopen
    <3>1. ASSUME NEW x \in Tasks PROVE tasks'[x] = tasks[x] \/ tasks'[x].status = "FAILED"
      BY <1>t, <2>2, SMTT(40) DEF MarkMismatch, Task
    <3> QED BY <2>w, <3>1, Places DEF RowsReopen, Is, Was
  <2>3. \/ \E p \in Procs, u \in Tasks : MarkVerified(p, u) \/ MarkMismatch(p, u)
        \/ UNCHANGED tasks
    BY <1>4 DEF VerificationNext, VerifierStep, ClaimMigrationVerification, AbandonClaim,
       RenewVerificationLease, PassFails, ListUnverifiedTasks, LeaveUnverified,
       PassCancelled, FinishSnapshot, FinishPass, ReleaseVerificationLease,
       VerificationLeaseExpires, ReconcileMigrationProgress, storeVars
  <2> QED BY <2>1, <2>2, <2>3, SamePlaces
<1>5. ASSUME NEW p \in Procs, Crash(p) PROVE ClaimsEnd
  BY <1>5, SamePlaces DEF Crash, WorkerCrash
<1>6. CASE UNCHANGED vars
  BY <1>6, SamePlaces DEF vars, storeVars
<1>7. CASE SchedulerNext /\ UNCHANGED <<controlVars, workersVars, verifier>>
  <2>1. UNCHANGED tasks
    BY <1>7 DEF SchedulerNext, TickStep, RecoveryStep, DueSchedule, triggerMigration,
       DeactivateSchedule, IndexingLeaseExpires, recoverScheduledMigrations,
       ReactivateSchedule, FailStaleIndexingMigration, storeVars
  <2> QED BY <2>1, SamePlaces
<1>8. CASE ApiCrash
  BY <1>8, SamePlaces DEF ApiCrash, SchedulerCrash
<1>9. ASSUME NEW p \in Procs, Restart(p) PROVE ClaimsEnd
  <2>1. PICK S \in SUBSET RunningOf(p) : Start(p, S) BY <1>9 DEF Restart
  <2>2. S \subseteq WithStatus({"RUNNING"}) BY DEF RunningOf, WithStatus
  <2> QED BY <2>1, <2>2, <1>b DEF Start
<1> QED BY <1>1, <1>2, <1>3, <1>4, <1>5, <1>6, <1>7, <1>8, <1>9 DEF Next

-----------------------------------------------------------------------------
(* The refinement mapping. *)

StateOf == [t \in Tasks |-> Place(tasks[t].status)]
EpochOf == [t \in Tasks |-> tasks[t].claimEpoch]
TokenOf == [w \in Workers |-> IF Busy(w) THEN {<<worker[w].task, worker[w].epoch>>} ELSE {}]

\* The steps of FencedClaim under the mapping
LEMMA MappedSteps ==
    /\ \A w \in Workers, t \in Tasks : Claims!Claim(w, t) <=>
         /\ TokenOf[w] = {} /\ StateOf[t] = "free"
         /\ StateOf' = [StateOf EXCEPT ![t] = "held"]
         /\ EpochOf' = [EpochOf EXCEPT ![t] = @ + 1]
         /\ TokenOf' = [TokenOf EXCEPT ![w] = {<<t, EpochOf[t] + 1>>}]
    /\ \A w \in Workers, t \in Tasks : Claims!Finish(w, t) <=>
         /\ StateOf[t] = "held" /\ TokenOf[w] = {<<t, EpochOf[t]>>}
         /\ StateOf' = [StateOf EXCEPT ![t] = "done"]
         /\ TokenOf' \in {TokenOf, [TokenOf EXCEPT ![w] = {}]}
         /\ EpochOf' = EpochOf
    /\ \A S \in SUBSET Tasks : Claims!Withdraw(S) <=>
         /\ \A t \in S : StateOf[t] = "held"
         /\ StateOf' = [t \in Tasks |-> IF t \in S THEN "free" ELSE StateOf[t]]
         /\ \A w \in Workers : TokenOf'[w] \in {TokenOf[w], {}}
         /\ EpochOf' = EpochOf
    /\ \A S \in SUBSET Tasks : Claims!Reopen(S) <=>
         /\ StateOf' = [t \in Tasks |-> IF t \in S THEN "free" ELSE StateOf[t]]
         /\ EpochOf' = EpochOf /\ TokenOf' = TokenOf
BY DEF Claims!Claim, Claims!Finish, Claims!Withdraw, Claims!Forgets, Claims!Reopen, StateOf, EpochOf, TokenOf, Place

\* What the mapped variables are, before and after a step
LEMMA MappedValues ==
    /\ \A t \in Tasks : /\ StateOf[t] = Was(t) /\ StateOf'[t] = Is(t)
                        /\ EpochOf[t] = tasks[t].claimEpoch /\ EpochOf'[t] = tasks'[t].claimEpoch
    /\ \A w \in Workers :
         /\ TokenOf[w] = IF worker[w].pc # "idle" THEN {<<worker[w].task, worker[w].epoch>>} ELSE {}
         /\ TokenOf'[w] = IF worker'[w].pc # "idle" THEN {<<worker'[w].task, worker'[w].epoch>>} ELSE {}
    /\ StateOf = [t \in Tasks |-> StateOf[t]] /\ StateOf' = [t \in Tasks |-> StateOf'[t]]
    /\ EpochOf = [t \in Tasks |-> EpochOf[t]] /\ EpochOf' = [t \in Tasks |-> EpochOf'[t]]
    /\ TokenOf = [w \in Workers |-> TokenOf[w]] /\ TokenOf' = [w \in Workers |-> TokenOf'[w]]
BY DEF StateOf, EpochOf, TokenOf, Was, Is, Busy

\* A step that keeps epochs and gives no thread a claim: tokens stay or go
LEMMA TokensForgotten ==
    ASSUME EpochsKept, ThreadsKept
    PROVE  EpochOf' = EpochOf /\ \A w \in Workers : TokenOf'[w] \in {TokenOf[w], {}}
<1>1. EpochOf' = EpochOf BY MappedValues DEF EpochsKept
<1>2. \A w \in Workers : TokenOf'[w] \in {TokenOf[w], {}} BY MappedValues, ZenonT(40) DEF ThreadsKept
<1> QED BY <1>1, <1>2

\* A dequeue is a claim
LEMMA DequeueClaims ==
    ASSUME TypeOK, NEW w \in Workers, NEW t \in Tasks, DequeueSQL(w, t)
    PROVE  Claims!Claim(w, t)
<1>t. /\ tasks \in [Tasks -> Task] /\ worker \in [Workers -> Worker]
      /\ tasks[t] \in Task /\ worker[w] \in Worker /\ tasks[t].claimEpoch \in Nat
  BY DEF TypeOK, StoreTypeOK, WorkersTypeOK, Task
<1> DEFINE n == tasks[t].claimEpoch + 1
<1>n. n \in Nat BY <1>t
<1>1. /\ worker[w].pc = "idle" /\ tasks[t].status = "PENDING"
      /\ tasks' = [tasks EXCEPT ![t] = [tasks[t] EXCEPT !.status = "RUNNING",
                     !.worker = ProcOf[w], !.claimEpoch = n]]
      /\ worker' = [worker EXCEPT ![w] = [worker[w] EXCEPT !.pc = "claimed", !.task = t, !.epoch = n]]
  BY <1>t DEF DequeueSQL, Task, Worker
<1>e. n = EpochOf[t] + 1 BY MappedValues
<1> HIDE DEF n
<1>2. /\ tasks'[t].status = "RUNNING" /\ tasks'[t].claimEpoch = n
      /\ \A x \in Tasks \ {t} : tasks'[x] = tasks[x]
      /\ worker'[w].pc = "claimed" /\ worker'[w].task = t /\ worker'[w].epoch = n
      /\ \A v \in Workers \ {w} : worker'[v] = worker[v]
  BY <1>1, <1>t DEF Task, Worker
<1>3. TokenOf[w] = {} /\ StateOf[t] = "free"
  BY <1>1, MappedValues, Places DEF Was
<1>4. \A x \in Tasks : StateOf'[x] = IF x = t THEN "held" ELSE StateOf[x]
  BY <1>2, MappedValues, Places DEF Was, Is
<1>5. StateOf' = [StateOf EXCEPT ![t] = "held"]
  BY <1>4, MappedValues
<1>6. EpochOf' = [EpochOf EXCEPT ![t] = n]
  BY <1>2, MappedValues
<1>7. TokenOf' = [TokenOf EXCEPT ![w] = {<<t, n>>}]
  <2>1. \A v \in Workers : TokenOf'[v] = IF v = w THEN {<<t, n>>} ELSE TokenOf[v]
    <3>1. TokenOf'[w] = {<<t, n>>}
      <4>1. TokenOf'[w] = IF worker'[w].pc # "idle" THEN {<<worker'[w].task, worker'[w].epoch>>} ELSE {}
        BY MappedValues, Zenon
      <4> QED BY <1>2, <4>1
    <3>2. ASSUME NEW v \in Workers \ {w} PROVE TokenOf'[v] = TokenOf[v]
      <4>1. worker'[v] = worker[v] BY <1>2
      <4>2. /\ TokenOf[v] = IF worker[v].pc # "idle" THEN {<<worker[v].task, worker[v].epoch>>} ELSE {}
            /\ TokenOf'[v] = IF worker'[v].pc # "idle" THEN {<<worker'[v].task, worker'[v].epoch>>} ELSE {}
        BY MappedValues, Zenon
      <4> QED BY <4>1, <4>2, Zenon
    <3> QED BY <3>1, <3>2
  <2> QED BY <2>1, MappedValues
<1> QED BY <1>3, <1>5, <1>6, <1>7, <1>e, MappedSteps

\* Claims that end are withdrawn
LEMMA EndsWithdraw ==
    ASSUME ClaimsEnd, EpochsKept, ThreadsKept
    PROVE  \E S \in SUBSET Tasks : Claims!Withdraw(S)
<1> DEFINE S == {t \in Tasks : Was(t) = "held" /\ Is(t) = "free"}
<1>1. \A t \in S : StateOf[t] = "held" BY MappedValues
<1>2. \A t \in Tasks : StateOf'[t] = IF t \in S THEN "free" ELSE StateOf[t]
  BY MappedValues DEF ClaimsEnd
<1>3. PICK R \in SUBSET Tasks : R = S OBVIOUS
<1>4. StateOf' = [t \in Tasks |-> IF t \in R THEN "free" ELSE StateOf[t]]
  BY <1>2, <1>3, MappedValues
<1>5. \A t \in R : StateOf[t] = "held" BY <1>1, <1>3
<1> QED BY <1>4, <1>5, TokensForgotten, MappedSteps

\* Rows that are thrown back are reopened
LEMMA ReopensReopen ==
    ASSUME RowsReopen, EpochsKept
    PROVE  \E S \in SUBSET Tasks : Claims!Reopen(S)
<1> DEFINE S == {t \in Tasks : Is(t) = "free"}
<1>1. \A t \in Tasks : StateOf'[t] = IF t \in S THEN "free" ELSE StateOf[t]
  BY MappedValues DEF RowsReopen
<1>2. PICK R \in SUBSET Tasks : R = S OBVIOUS
<1>3. StateOf' = [t \in Tasks |-> IF t \in R THEN "free" ELSE StateOf[t]]
  BY <1>1, <1>2, MappedValues
<1>4. EpochOf' = EpochOf BY MappedValues DEF EpochsKept
<1>5. TokenOf' = TokenOf BY DEF RowsReopen, TokenOf, Busy
<1> QED BY <1>3, <1>4, <1>5, MappedSteps

\* The thread with the newest epoch finishes its resource
LEMMA ThreadsFinish ==
    ASSUME NEW w \in Workers, NEW t \in Tasks, t = worker[w].task,
           ThreadFinishes(w), EpochsKept, ThreadsKept
    PROVE  Claims!Finish(w, t)
<1>2. /\ worker[w].pc # "idle" /\ tasks[t].status = "RUNNING" /\ tasks[t].claimEpoch = worker[w].epoch
      /\ Is(t) = "done" /\ \A x \in Tasks \ {t} : tasks'[x] = tasks[x]
      /\ \A v \in Workers \ {w} : worker'[v] = worker[v]
  BY DEF ThreadFinishes, StillClaimed, HoldsClaim, Busy
<1>3. StateOf[t] = "held" BY <1>2, MappedValues, Places DEF Was
<1>4. TokenOf[w] = {<<t, EpochOf[t]>>} BY <1>2, MappedValues
<1>5. \A x \in Tasks : StateOf'[x] = IF x = t THEN "done" ELSE StateOf[x]
  BY <1>2, MappedValues DEF Was, Is
<1>6. StateOf' = [StateOf EXCEPT ![t] = "done"] BY <1>5, MappedValues
<1>7. ASSUME NEW v \in Workers \ {w} PROVE TokenOf'[v] = TokenOf[v]
  <2>1. worker'[v] = worker[v] BY <1>2
  <2> QED BY <2>1, MappedValues, ZenonT(40)
<1>8. TokenOf' \in {TokenOf, [TokenOf EXCEPT ![w] = {}]}
  <2>1. CASE TokenOf'[w] = TokenOf[w] BY <2>1, <1>7, MappedValues
  <2>2. CASE TokenOf'[w] = {} BY <2>2, <1>7, MappedValues
  <2> QED BY <2>1, <2>2, TokensForgotten
<1> QED BY <1>3, <1>4, <1>6, <1>8, TokensForgotten, MappedSteps

\* At the start no row is claimed and no thread is busy
LEMMA StartsFree == Init => Claims!ClaimInit
<1> SUFFICES ASSUME Init PROVE Claims!ClaimInit OBVIOUS
<1>1. \A t \in Tasks : tasks[t] = NoTask \/ \E p \in Items : tasks[t] = NewTask(p)
  BY DEF Init, InitFresh, InitIndexed, InitAbandoned
<1>2. \A t \in Tasks : tasks[t].status \in {"NONE", "PENDING"} /\ tasks[t].claimEpoch = 0
  <2>1. NoTask.status = "NONE" /\ NoTask.claimEpoch = 0 BY DEF NoTask
  <2>2. \A p : NewTask(p).status = "PENDING" /\ NewTask(p).claimEpoch = 0 BY DEF NoTask, NewTask
  <2> QED BY <1>1, <2>1, <2>2
<1>3. \A w \in Workers : ~Busy(w)
  BY DEF Init, WorkersInit, IdleWorker, Busy
<1> QED BY <1>2, <1>3 DEF Claims!ClaimInit

\* Every step of the system is a step of FencedClaim or changes nothing of it
LEMMA StepsAreClaims ==
    ASSUME TypeOK, RowsConsistent, [Next]_vars PROVE Claims!ClaimNext
<1>t. \A w \in Workers : worker[w].task \in Tasks
  BY DEF TypeOK, WorkersTypeOK, Worker
<1>1. ASSUME NEW w \in Workers, NEW t \in Tasks, DequeueSQL(w, t) PROVE Claims!ClaimNext
  BY <1>1, DequeueClaims DEF Claims!ClaimNext
<1>2. CASE ~\E w \in Workers, t \in Tasks : DequeueSQL(w, t)
  <2>k. EpochsKept /\ ThreadsKept BY <1>2, OnlyDequeueClaims
  <2>1. CASE ClaimsEnd BY <2>1, <2>k, EndsWithdraw DEF Claims!ClaimNext
  <2>2. CASE RowsReopen BY <2>2, <2>k, ReopensReopen DEF Claims!ClaimNext
  <2>3. ASSUME NEW w \in Workers, ThreadFinishes(w) PROVE Claims!ClaimNext
    <3>1. PICK t \in Tasks : t = worker[w].task BY <1>t
    <3>2. Claims!Finish(w, t) BY <2>3, <2>k, <3>1, ThreadsFinish
    <3> QED BY <3>2 DEF Claims!ClaimNext
  <2> QED BY <1>2, <2>1, <2>2, <2>3, StepKinds
<1> QED BY <1>1, <1>2

-----------------------------------------------------------------------------
\* The queue of tasks is a fenced claim: a row belongs to one thread at a time,
\* every claim has a number of its own, and only the thread with the newest
\* number makes a row COMPLETED or SKIPPED, however DequeueSQL, recovery after a
\* crash, retries, pauses, deletions and verification interleave.
THEOREM TasksRefineClaims == Spec => TasksAreFencedClaims
<1>1. ClaimInv /\ [Next]_vars => [Claims!ClaimNext]_Claims!claimVars
  BY StepsAreClaims DEF ClaimInv
<1> QED BY <1>1, StartsFree, ClaimInvInit, ClaimInvStep, PTL
        DEF Spec, TasksAreFencedClaims, Claims!ClaimSpec

-----------------------------------------------------------------------------
(***************************************************************************)
(* What becomes of a row.  Only an insert creates one, only a re-index     *)
(* removes one, nothing gives it another path, and a COMPLETED row is      *)
(* taken back by the mark of a verification pass only.                     *)
(***************************************************************************)
SamePath(t) == tasks'[t].path = tasks[t].path

RowMoves(t) ==
    \/ tasks'[t].status = tasks[t].status /\ SamePath(t)
    \/ tasks'[t].status = "DELETED"
    \/ tasks[t].status \notin {"NONE", "DELETED", "COMPLETED"} /\ SamePath(t)

RowsMove == \A t \in Tasks : RowMoves(t)

LEMMA SameRowsMove == ASSUME UNCHANGED tasks PROVE RowsMove
BY DEF RowsMove, RowMoves, SamePath

\* What a fenced write may put into a claimed row
KeepsPath(t, row) == row.path = tasks[t].path

\* A fenced write finds the row RUNNING
LEMMA ClaimedRowMoves ==
    ASSUME tasks \in [Tasks -> Task], NEW t \in Tasks, NEW e, NEW row,
           UpdateClaimedTaskStatus(t, e, row), KeepsPath(t, row)
    PROVE  RowsMove
<1>1. CASE ~HoldsClaim(t, e) BY <1>1, SameRowsMove DEF UpdateClaimedTaskStatus
<1>2. CASE HoldsClaim(t, e)
  <2>1. tasks' = [tasks EXCEPT ![t] = row] /\ tasks[t].status = "RUNNING"
    BY <1>2 DEF UpdateClaimedTaskStatus, HoldsClaim
  <2> QED BY <2>1 DEF RowsMove, RowMoves, SamePath, KeepsPath
<1> QED BY <1>1, <1>2

\* The rows the workers write keep the path
LEMMA PathsOfRows ==
    ASSUME tasks \in [Tasks -> Task], NEW t \in Tasks
    PROVE  /\ \A st : KeepsPath(t, [tasks[t] EXCEPT !.status = st])
           /\ \A st : KeepsPath(t, [tasks[t] EXCEPT !.status = st, !.worker = NoProc])
           /\ \A v : KeepsPath(t, [tasks[t] EXCEPT !.status = "COMPLETED", !.worker = NoProc,
                                                   !.checksumVerified = v])
           /\ \A st, x : KeepsPath(t, [tasks[t] EXCEPT !.status = st, !.retry = x])
           /\ \A x : KeepsPath(t, [tasks[t] EXCEPT !.status = "FAILED", !.retry = x, !.attempts = Bump(@)])
           /\ KeepsPath(t, [tasks[t] EXCEPT !.status = "PENDING", !.attempts = Bump(@)])
<1>1. tasks[t] \in Task OBVIOUS
<1> DEFINE n == Bump(tasks[t].attempts)
<1>2. /\ \A x : KeepsPath(t, [tasks[t] EXCEPT !.status = "FAILED", !.retry = x, !.attempts = n])
      /\ KeepsPath(t, [tasks[t] EXCEPT !.status = "PENDING", !.attempts = n])
  <2> HIDE DEF n
  <2> QED BY <1>1 DEF KeepsPath, Task
<1>3. /\ \A st : KeepsPath(t, [tasks[t] EXCEPT !.status = st])
      /\ \A st : KeepsPath(t, [tasks[t] EXCEPT !.status = st, !.worker = NoProc])
      /\ \A v : KeepsPath(t, [tasks[t] EXCEPT !.status = "COMPLETED", !.worker = NoProc,
                                              !.checksumVerified = v])
      /\ \A st, x : KeepsPath(t, [tasks[t] EXCEPT !.status = st, !.retry = x])
  BY <1>1 DEF KeepsPath, Task
<1> QED BY <1>2, <1>3

\* Steps of a thread
LEMMA ThreadRowsMove ==
    ASSUME StoreTypeOK, WorkersTypeOK, NEW w \in Workers, WorkerStep(w)
    PROVE  RowsMove
<1> DEFINE t == worker[w].task
<1>t. /\ t \in Tasks /\ MyTask(w) = tasks[t] /\ tasks[t] \in Task /\ tasks \in [Tasks -> Task]
  BY DEF StoreTypeOK, WorkersTypeOK, Worker, MyTask
<1>w. ASSUME NEW row, UpdateClaimedTaskStatus(t, worker[w].epoch, row), KeepsPath(t, row) PROVE RowsMove
  BY <1>t, <1>w, ClaimedRowMoves
<1>l. ASSUME NEW row, WriteClaimed(w, row), KeepsPath(t, row) PROVE RowsMove
  BY <1>l, <1>w, SameRowsMove DEF WriteClaimed, Logged
<1> HIDE DEF t
<1>1. ASSUME NEW u \in Tasks, DequeueSQL(w, u) PROVE RowsMove
  <2>1. tasks[u].status = "PENDING" /\ \A x \in Tasks : x # u => tasks'[x] = tasks[x]
    BY <1>1, <1>t DEF DequeueSQL
  <2>2. tasks'[u].path = tasks[u].path BY <1>1, <1>t DEF DequeueSQL, Task
  <2> QED BY <2>1, <2>2 DEF RowsMove, RowMoves, SamePath
<1>2. CASE ReturnTask(w)
  <2>1. CASE UNCHANGED tasks BY <2>1, SameRowsMove
  <2>2. CASE TransitionClaimedTask(t, worker[w].epoch, Unrunnable(worker[w].seen))
    BY <2>2, <1>t, <1>w, PathsOfRows DEF TransitionClaimedTask
  <2> QED BY <1>2, <2>1, <2>2 DEF ReturnTask, Logged, t
<1>3. ASSUME NEW v \in BOOLEAN, CompleteTask(w, v) PROVE RowsMove
  BY <1>3, <1>t, <1>w, PathsOfRows DEF CompleteTask, UpdateMigrationTaskAndProgress, t
<1>4. ASSUME NEW k \in {0, 1}, SkipTask(w, k) PROVE RowsMove
  BY <1>4, <1>t, <1>w, PathsOfRows DEF SkipTask, UpdateMigrationTaskAndProgress, t
<1>5. CASE HandleCancelledMigration(w) \/ HandleCancelledContext(w) \/ RequeueAfterPause(w)
  BY <1>5, <1>t, <1>l, PathsOfRows DEF HandleCancelledMigration, HandleCancelledContext, RequeueAfterPause
<1>6. CASE HandleConnLossRetry(w) \/ HandleAuthRefreshed(w) \/ HandleFinal(w)
  BY <1>6, <1>t, <1>l, PathsOfRows DEF HandleConnLossRetry, HandleAuthRefreshed, HandleFinal, FailedRow
<1>7. CASE HandleTransient(w)
  <2>1. CASE UNCHANGED tasks BY <2>1, SameRowsMove
  <2>2. CASE UpdateClaimedTaskStatus(t, worker[w].epoch, FailedRow(w, TRUE))
    BY <2>2, <1>t, <1>w, PathsOfRows DEF FailedRow
  <2> QED BY <1>7, <2>1, <2>2 DEF HandleTransient, UpdateMigrationTaskAndProgress, t
<1>8. CASE HandleAuthFailure(w)
  <2>1. CASE UNCHANGED tasks BY <2>1, SameRowsMove
  <2>2. CASE AuthFailureApplies(w) /\ tasks' = AuthFailedTasks(w)
    <3>1. ASSUME NEW u \in Tasks PROVE RowMoves(u)
      <4>1. tasks[u] \in Task /\ tasks[t].status = "RUNNING"
        BY <1>t, <2>2 DEF AuthFailureApplies, StillClaimed, HoldsClaim, t
      <4>2. tasks'[u] = IF u = t THEN [tasks[u] EXCEPT !.status = "FAILED", !.retry = FALSE]
                        ELSE IF tasks[u].status \in {"PENDING", "RUNNING"}
                             THEN [tasks[u] EXCEPT !.status = "CANCELLED", !.retry = FALSE] ELSE tasks[u]
        BY <2>2 DEF AuthFailedTasks, t
      <4> QED BY <1>t, <4>1, <4>2, PathsOfRows DEF RowMoves, SamePath, KeepsPath
    <3> QED BY <3>1 DEF RowsMove
  <2> QED BY <1>8, <2>1, <2>2 DEF HandleAuthFailure
<1>9. CASE \/ LoadMigration(w) \/ MarkRunning(w) \/ TransferCancelled(w) \/ HandleFailure(w)
           \/ HandleConnLossEscalate(w) \/ SettleSnapshot(w) \/ Settle(w)
           \/ \E e \in Failure \ {"none"} : TransferFails(w, e)
  BY <1>9, SameRowsMove DEF LoadMigration, MarkRunning, TransferCancelled, HandleFailure,
     HandleConnLossEscalate, SettleSnapshot, Settle, TransferFails, ReconcileMigrationProgress, storeVars
<1> QED BY <1>1, <1>2, <1>3, <1>4, <1>5, <1>6, <1>7, <1>8, <1>9 DEF WorkerStep

Inserts == \E i \in Indexers : IndexerInsertCommit(i) /\ UNCHANGED <<schedule, controlVars, workersVars, verifier>>

Marks == \E p \in Procs, t \in Tasks : MarkMismatch(p, t) /\ UNCHANGED <<indexer, schedule, controlVars, workersVars>>

\* Every step that inserts no row and marks no mismatch moves rows along
LEMMA OtherRowsMove ==
    ASSUME TypeOK, [Next]_vars
    PROVE  RowsMove \/ Inserts \/ Marks
<1>t. /\ tasks \in [Tasks -> Task] /\ StoreTypeOK /\ WorkersTypeOK /\ \A u \in Tasks : tasks[u] \in Task
  BY DEF TypeOK, StoreTypeOK
<1>b. ASSUME NEW S, BackToPending(S), S \subseteq WithStatus({"RUNNING"}) PROVE RowsMove
  <2>1. ASSUME NEW u \in Tasks PROVE RowMoves(u)
    BY <1>b, <1>t, PathsOfRows DEF BackToPending, WithStatus, RowMoves, SamePath, KeepsPath
  <2> QED BY <2>1 DEF RowsMove
<1>1. CASE DiscoveryNext /\ UNCHANGED <<schedule, controlVars, workersVars, verifier>>
  <2>1. (~\E i \in Indexers : IndexerInsertCommit(i)) => UNCHANGED tasks
    BY <1>1, ZenonT(40) DEF DiscoveryNext, IndexerStep, IndexerLoad, IndexerClaimLease, IndexerHeartbeat,
       IndexerLoadKeys, IndexerSkipItem, IndexerInterrupted, IndexerInsert,
       IndexerRecordErrors, IndexerTotals, IndexerDecide, IndexerReconcileSnapshot,
       IndexerReconcile, IndexerFail, IndexerCrash, ReconcileMigrationProgress, storeVars
  <2> QED BY <1>1, <2>1, SameRowsMove DEF Inserts
<1>2. CASE ControlNext /\ UNCHANGED <<schedule, workersVars, verifier>>
  <2>1. CASE RetryFailed
    <3>1. ASSUME NEW u \in Tasks
          PROVE  \/ tasks'[u] = tasks[u]
                 \/ tasks[u].status \in {"FAILED", "CANCELLED"} /\ tasks'[u].path = tasks[u].path
      BY <1>t, <2>1 DEF RetryFailed, Retried, WithStatus, Task
    <3> QED BY <3>1 DEF RowsMove, RowMoves, SamePath
  <2>2. ASSUME NEW h \in Handlers, ReindexWrite(h) PROVE RowsMove
    <3>1. ASSUME NEW u \in Tasks PROVE tasks'[u] = tasks[u] \/ tasks'[u].status = "DELETED"
      BY <2>2 DEF ReindexWrite, DeletedTask, NoTask
    <3> QED BY <3>1 DEF RowsMove, RowMoves, SamePath
  <2>3. ASSUME NEW h \in Handlers, CancelPendingTasks(h) PROVE RowsMove
    <3>1. ASSUME NEW u \in Tasks
          PROVE  tasks'[u] = tasks[u] \/ (tasks[u].status = "PENDING" /\ tasks'[u].path = tasks[u].path)
      BY <1>t, <2>3 DEF CancelPendingTasks, Task
    <3> QED BY <3>1 DEF RowsMove, RowMoves, SamePath
  <2>4. \/ RetryFailed \/ \E h \in Handlers : ReindexWrite(h) \/ CancelPendingTasks(h)
        \/ UNCHANGED tasks
    BY <1>2 DEF ControlNext, PauseRead, PauseWrite, ReindexRead, CancelMigration, Resume,
       RecoverConnectionLostMigration, SetThreads, storeVars
  <2> QED BY <2>1, <2>2, <2>3, <2>4, SameRowsMove
<1>3. CASE WorkersNext /\ UNCHANGED <<indexer, schedule, controlVars, verifier>>
  <2>1. ASSUME NEW w \in Workers, WorkerStep(w) PROVE RowsMove
    BY <2>1, <1>t, ThreadRowsMove
  <2>2. ASSUME NEW p \in Procs, NEW S, RecoverAbandonedTasks(p, S) PROVE RowsMove
    BY <2>2, <1>b DEF RecoverAbandonedTasks, RunningOf, WithStatus
  <2>3. ASSUME NEW p \in Procs, RetryFailedOnce(p) PROVE RowsMove
    <3> DEFINE again(u) == [tasks[u] EXCEPT !.status = "PENDING", !.attempts = 0,
                                !.worker = NoProc, !.checksumVerified = FALSE]
    <3>1. \A u \in FinallyFailed : tasks[u].status = "FAILED" /\ again(u).path = tasks[u].path
      BY <1>t DEF Task, FinallyFailed
    <3>2. \/ UNCHANGED tasks
          \/ tasks' = [u \in Tasks |-> IF u \in FinallyFailed THEN again(u) ELSE tasks[u]]
      BY <2>3, Zenon DEF RetryFailedOnce, MaybeRetryFailedMigrationTasks
    <3> HIDE DEF again
    <3>3. \A u \in Tasks : tasks'[u] = tasks[u] \/ (tasks[u].status = "FAILED" /\ tasks'[u].path = tasks[u].path)
      BY <3>1, <3>2
    <3> QED BY <3>3 DEF RowsMove, RowMoves, SamePath
  <2>4. ASSUME NEW S \in SUBSET Retryable, RequeueFailedTasks(S) PROVE RowsMove
    <3>1. ASSUME NEW u \in Tasks
          PROVE  tasks'[u] = tasks[u] \/ (tasks[u].status = "FAILED" /\ tasks'[u].path = tasks[u].path)
      BY <1>t, <2>4 DEF RequeueFailedTasks, Retryable, Task
    <3> QED BY <3>1 DEF RowsMove, RowMoves, SamePath
  <2>5. ASSUME NEW S, RequeueOrphanedRunningTasks(S) PROVE RowsMove
    BY <2>5, <1>b DEF RequeueOrphanedRunningTasks
  <2>6. ASSUME NEW p \in Procs,
               SelectActiveMigration(p) \/ ReconcileSnapshot(p) \/ Reconcile(p)
        PROVE  RowsMove
    BY <2>6, SameRowsMove DEF SelectActiveMigration, ReconcileSnapshot, Reconcile,
       ReconcileMigrationProgress, storeVars
  <2> QED BY <1>3, <2>1, <2>2, <2>3, <2>4, <2>5, <2>6 DEF WorkersNext, Reconciling, Requeueing
<1>4. CASE VerificationNext /\ UNCHANGED <<indexer, schedule, controlVars, workersVars>>
  <2>1. ASSUME NEW p \in Procs, NEW u \in Tasks, MarkVerified(p, u) PROVE RowsMove
    <3>1. \A x \in Tasks : tasks'[x].status = tasks[x].status /\ tasks'[x].path = tasks[x].path
      BY <1>t, <2>1 DEF MarkVerified, Task
    <3> QED BY <3>1 DEF RowsMove, RowMoves, SamePath
  <2>2. \/ \E p \in Procs, u \in Tasks : MarkVerified(p, u) \/ MarkMismatch(p, u)
        \/ UNCHANGED tasks
    BY <1>4 DEF VerificationNext, VerifierStep, ClaimMigrationVerification, AbandonClaim,
       RenewVerificationLease, PassFails, ListUnverifiedTasks, LeaveUnverified,
       PassCancelled, FinishSnapshot, FinishPass, ReleaseVerificationLease,
       VerificationLeaseExpires, ReconcileMigrationProgress, storeVars
  <2> QED BY <1>4, <2>1, <2>2, SameRowsMove DEF Marks
<1>5. ASSUME NEW p \in Procs, Crash(p) PROVE RowsMove
  BY <1>5, SameRowsMove DEF Crash, WorkerCrash
<1>6. CASE UNCHANGED vars
  BY <1>6, SameRowsMove DEF vars, storeVars
<1>7. CASE SchedulerNext /\ UNCHANGED <<controlVars, workersVars, verifier>>
  <2>1. UNCHANGED tasks
    BY <1>7 DEF SchedulerNext, TickStep, RecoveryStep, DueSchedule, triggerMigration,
       DeactivateSchedule, IndexingLeaseExpires, recoverScheduledMigrations,
       ReactivateSchedule, FailStaleIndexingMigration, storeVars
  <2> QED BY <2>1, SameRowsMove
<1>8. CASE ApiCrash
  BY <1>8, SameRowsMove DEF ApiCrash, SchedulerCrash
<1>9. ASSUME NEW p \in Procs, Restart(p) PROVE RowsMove
  <2>1. PICK S \in SUBSET RunningOf(p) : Start(p, S) BY <1>9 DEF Restart
  <2>2. S \subseteq WithStatus({"RUNNING"}) BY DEF RunningOf, WithStatus
  <2> QED BY <2>1, <2>2, <1>b DEF Start
<1> QED BY <1>1, <1>2, <1>3, <1>4, <1>5, <1>6, <1>7, <1>8, <1>9 DEF Next

-----------------------------------------------------------------------------
(***************************************************************************)
(* A pass and the tasks it has listed.  As long as the generation is that  *)
(* of the pass, each of them is still COMPLETED or was deleted: nothing    *)
(* takes a COMPLETED row back but the pass itself, which has then done     *)
(* with it, and a new pass raises the generation.                          *)
(***************************************************************************)
RestInv ==
    \A p \in Procs :
        verifier[p].pc = "checking" /\ verifier[p].generation = mig.verificationGeneration =>
            \A t \in verifier[p].todo : tasks[t].status \in {"COMPLETED", "DELETED"}

\* A pass goes on with what is left of its list
ListShrinks(p) ==
    verifier'[p].pc = "checking" =>
        /\ verifier[p].pc = "checking"
        /\ verifier'[p].generation = verifier[p].generation
        /\ verifier'[p].todo \subseteq verifier[p].todo

LEMMA ListsShrink ==
    ASSUME TypeOK, [Next]_vars, NEW p \in Procs, ~ListUnverifiedTasks(p)
    PROVE  ListShrinks(p)
<1>t. verifier \in [Procs -> Verifier] BY DEF TypeOK, VerificationTypeOK
<1>u. UNCHANGED verifier => ListShrinks(p) BY DEF ListShrinks
<1>o. ASSUME NEW q \in Procs, p # q, NEW v, verifier' = [verifier EXCEPT ![q] = v] PROVE ListShrinks(p)
  BY <1>o, <1>t DEF ListShrinks
<1>1. ASSUME NEW q \in Procs, VerifierStep(q) PROVE ListShrinks(p)
  <2>o. CASE p # q
    <3>1. verifier'[p] = verifier[p]
      BY <1>1, <1>t, <2>o, ZenonT(40) DEF VerifierStep, ClaimMigrationVerification, AbandonClaim, RenewVerificationLease,
         PassFails, ListUnverifiedTasks, MarkVerified, MarkMismatch, LeaveUnverified, PassCancelled,
         FinishSnapshot, FinishPass, ReleaseVerificationLease, EndPass
    <3> QED BY <3>1 DEF ListShrinks
  <2>s. CASE p = q
    <3>1. CASE ClaimMigrationVerification(p)
      BY <3>1, <1>t DEF ClaimMigrationVerification, ListShrinks, Verifier
    <3>2. CASE AbandonClaim(p) \/ ReleaseVerificationLease(p)
      BY <3>2, <1>t DEF AbandonClaim, ReleaseVerificationLease, IdleVerifier, ListShrinks, Verifier
    <3>3. ASSUME EndPass(p) PROVE ListShrinks(p)
      BY <3>3, <1>t DEF EndPass, ListShrinks, Verifier
    <3>4. CASE PassFails(p) \/ PassCancelled(p) \/ FinishPass(p)
      BY <3>4, <3>3 DEF PassFails, PassCancelled, FinishPass
    <3>5. CASE RenewVerificationLease(p)
      BY <3>5, <3>3, <1>t DEF RenewVerificationLease, ListShrinks, Verifier
    <3>6. CASE FinishSnapshot(p)
      BY <3>6, <1>t DEF FinishSnapshot, ListShrinks, Verifier
    <3>7. ASSUME NEW u \in Tasks, MarkVerified(p, u) \/ MarkMismatch(p, u) \/ LeaveUnverified(p, u)
          PROVE  ListShrinks(p)
      BY <3>7, <1>t DEF MarkVerified, MarkMismatch, LeaveUnverified, ListShrinks, Verifier
    <3> QED BY <1>1, <2>s, <3>1, <3>2, <3>4, <3>5, <3>6, <3>7 DEF VerifierStep
  <2> QED BY <2>o, <2>s
<1>2. CASE VerificationNext
  BY <1>1, <1>2, <1>u DEF VerificationNext, VerificationLeaseExpires
<1>3. ASSUME NEW q \in Procs, Crash(q) PROVE ListShrinks(p)
  BY <1>3, <1>t DEF Crash, VerifierCrash, IdleVerifier, ListShrinks
<1>4. \/ VerificationNext \/ \E q \in Procs : Crash(q) \/ UNCHANGED verifier
  BY DEF Next, vars, ApiCrash, Restart
<1> QED BY <1>2, <1>3, <1>4, <1>u

LEMMA RestInvStep ==
    ASSUME TypeOK, PassesDistinct, RestInv, [Next]_vars
    PROVE  RestInv'
<1>t. /\ verifier \in [Procs -> Verifier] /\ tasks \in [Tasks -> Task] /\ mig \in Migration
      /\ mig.verificationGeneration \in Nat
  BY DEF TypeOK, StoreTypeOK, VerificationTypeOK, Migration
<1> SUFFICES ASSUME NEW p \in Procs, verifier'[p].pc = "checking",
                    verifier'[p].generation = mig'.verificationGeneration,
                    NEW t \in verifier'[p].todo
             PROVE  tasks'[t].status \in {"COMPLETED", "DELETED"}
  BY DEF RestInv
<1>1. CASE ListUnverifiedTasks(p)
  <2>1. tasks' = tasks /\ verifier'[p].todo = Completed(FALSE)
    BY <1>1, <1>t DEF ListUnverifiedTasks, storeVars, Verifier
  <2> QED BY <2>1 DEF Completed
<1>2. CASE ~ListUnverifiedTasks(p)
  <2>1. /\ verifier[p].pc = "checking" /\ verifier'[p].generation = verifier[p].generation
        /\ t \in verifier[p].todo /\ t \in Tasks
    <3>1. ListShrinks(p) BY <1>2, ListsShrink
    <3>2. verifier[p].todo \subseteq Tasks BY <1>t DEF Verifier
    <3> QED BY <3>1, <3>2 DEF ListShrinks
  <2>2. ~\E q \in Procs : ClaimMigrationVerification(q)
    <3> SUFFICES ASSUME NEW q \in Procs, ClaimMigrationVerification(q) PROVE FALSE OBVIOUS
    <3>1. mig'.verificationGeneration = mig.verificationGeneration + 1
      BY <1>t DEF ClaimMigrationVerification, Migration
    <3>2. verifier[p].generation \in 1..mig.verificationGeneration BY <2>1 DEF PassesDistinct
    <3>3. verifier[p].generation = mig.verificationGeneration + 1 BY <2>1, <3>1
    <3> QED BY <1>t, <3>2, <3>3
  <2>3. verifier[p].generation = mig.verificationGeneration
    BY <2>1, <2>2, OnlyClaimsStartPasses DEF GenerationKept
  <2>4. tasks[t].status \in {"COMPLETED", "DELETED"} BY <2>1, <2>3 DEF RestInv
  <2>5. CASE RowsMove BY <2>1, <2>4, <2>5 DEF RowsMove, RowMoves
  <2>6. CASE Inserts
    <3>1. PICK u \in WithStatus({"NONE"}) : \E x : tasks' = [tasks EXCEPT ![u] = x]
      BY <2>6 DEF Inserts, IndexerInsertCommit
    <3>2. u # t BY <2>4 DEF WithStatus
    <3> QED BY <1>t, <2>1, <2>4, <3>1, <3>2
  <2>7. ASSUME NEW q \in Procs, NEW u \in Tasks, MarkMismatch(q, u)
        PROVE  tasks'[t].status \in {"COMPLETED", "DELETED"}
    <3>1. CASE ~CanMark(q, u) BY <2>4, <2>7, <3>1 DEF MarkMismatch
    <3>2. CASE CanMark(q, u)
      <4>1. p = q
        BY <2>1, <2>3, <2>7, <3>2 DEF MarkMismatch, CanMark, OwnsVerification, PassesDistinct
      <4>2. u \notin verifier'[p].todo BY <1>t, <2>7, <4>1 DEF MarkMismatch, Verifier
      <4>3. tasks'[t] = tasks[t] BY <1>t, <2>1, <2>7, <3>2, <4>2 DEF MarkMismatch
      <4> QED BY <2>4, <4>3
    <3> QED BY <3>1, <3>2
  <2> QED BY <2>5, <2>6, <2>7, OtherRowsMove DEF Marks
<1> QED BY <1>1, <1>2

\* No task that a verification pass has listed and may still mark is waiting or
\* being copied again, whatever threads, retries, requeues, handlers and other
\* passes do between the listing and the mark (CheckedTasksAreAtRest).
THEOREM CheckedTasksRest == Spec => []CheckedTasksAreAtRest
<1>1. Init => RestInv
  BY DEF Init, VerificationInit, IdleVerifier, RestInv
<1>2. RestInv => CheckedTasksAreAtRest
  BY DEF RestInv, CheckedTasksAreAtRest, OwnsVerification
<1>3. TypeOK /\ PassesDistinct /\ RestInv /\ [Next]_vars => RestInv'
  BY RestInvStep
<1> QED BY <1>1, <1>2, <1>3, TypeCorrect, PassesAreDistinct, PTL DEF Spec

-----------------------------------------------------------------------------
(***************************************************************************)
(* Discovery inserts a path once, as long as one goroutine walks at a      *)
(* time: what it has still to do is disjoint from what the table holds,    *)
(* from the moment it has loaded the keys.  Two goroutines that walk       *)
(* together insert a path twice: the insert tests the generation, not the  *)
(* path.                                                                   *)
(***************************************************************************)
Walks == {"walking", "inserting"}

OneWalk == \A i, j \in Indexers : indexer[i].pc \in Walks /\ indexer[j].pc \in Walks => i = j

TodoIsNew ==
    \A i \in Indexers : indexer[i].pc \in Walks =>
        /\ \A t \in Rows : tasks[t].path \notin indexer[i].todo
        /\ indexer[i].pc = "inserting" => indexer[i].item \in indexer[i].todo

PathsInv == EachPathOnce /\ TodoIsNew

\* A goroutine goes on with what is left of its traversal
WalkShrinks(i) ==
    indexer'[i].pc \in Walks =>
        /\ indexer[i].pc \in Walks
        /\ indexer'[i].todo \subseteq indexer[i].todo
        /\ \/ indexer'[i].pc = "inserting" => indexer'[i].item \in indexer'[i].todo
           \/ indexer'[i] = indexer[i]

LEMMA WalksShrink ==
    ASSUME TypeOK, [Next]_vars, NEW i \in Indexers, ~IndexerLoadKeys(i)
    PROVE  WalkShrinks(i)
<1>t. indexer \in [Indexers -> Indexer] BY DEF TypeOK, DiscoveryTypeOK
<1>u. indexer'[i] = indexer[i] => WalkShrinks(i) BY DEF WalkShrinks
<1>r. ASSUME NEW j \in Indexers, Retire(j) PROVE WalkShrinks(i)
  BY <1>r, <1>t, <1>u DEF Retire, IdleIndexer, WalkShrinks, Walks
<1>s. ASSUME NEW b \in BOOLEAN, SpawnWhen(b) \/ Spawn PROVE WalkShrinks(i)
  <2>1. CASE Spawn
    <3>1. PICK j \in Indexers : indexer' = [indexer EXCEPT ![j] = Started] BY <2>1 DEF Spawn
    <3>2. Started.pc = "spawned" BY DEF Started, IdleIndexer
    <3> QED BY <1>t, <1>u, <3>1, <3>2 DEF WalkShrinks, Walks
  <2> QED BY <1>s, <1>u, <2>1 DEF SpawnWhen
<1>1. ASSUME NEW j \in Indexers, IndexerStep(j) PROVE WalkShrinks(i)
  <2>1. CASE IndexerLoad(j) \/ IndexerClaimLease(j) \/ IndexerHeartbeat(j)
    <3>1. \/ Retire(j) \/ UNCHANGED indexer
          \/ /\ indexer[j].pc \in {"spawned", "loaded"}
             /\ \/ indexer' = [indexer EXCEPT ![j].pc = "loaded", ![j].generation = mig.discoveryGeneration]
                \/ indexer' = [indexer EXCEPT ![j].pc = "connecting"]
      BY <2>1, Zenon DEF IndexerLoad, IndexerClaimLease, IndexerHeartbeat
    <3> QED BY <1>r, <1>t, <1>u, <3>1 DEF WalkShrinks, Walks, Indexer
  <2>2. ASSUME NEW p \in Items, IndexerSkipItem(j, p) PROVE WalkShrinks(i)
    BY <2>2, <1>t, <1>u DEF IndexerSkipItem, WalkShrinks, Walks, Indexer
  <2>3. ASSUME NEW p \in Items, IndexerInsert(j, p) PROVE WalkShrinks(i)
    <3>1. CASE Retire(j) BY <1>r, <3>1
    <3>2. CASE indexer' = [indexer EXCEPT ![j].pc = "inserting", ![j].item = p]
      BY <2>3, <3>2, <1>t, <1>u DEF IndexerInsert, WalkShrinks, Walks, Indexer
    <3> QED BY <2>3, <3>1, <3>2 DEF IndexerInsert
  <2>4. CASE IndexerInterrupted(j) \/ IndexerInsertCommit(j)
    <3>1. CASE IndexerInterrupted(j)
      BY <3>1, <1>t, <1>u DEF IndexerInterrupted, WalkShrinks, Walks, Indexer
    <3>2. CASE IndexerInsertCommit(j)
      BY <3>2, <1>t, <1>u DEF IndexerInsertCommit, WalkShrinks, Walks, Indexer
    <3> QED BY <2>4, <3>1, <3>2
  <2>5. CASE IndexerRecordErrors(j) \/ IndexerReconcileSnapshot(j)
    BY <2>5, <1>t, <1>u DEF IndexerRecordErrors, IndexerReconcileSnapshot, WalkShrinks, Walks, Indexer
  <2>6. CASE IndexerTotals(j)
    <3>1. CASE Retire(j) BY <1>r, <3>1
    <3>2. CASE indexer' = [indexer EXCEPT ![j].pc = "deciding", ![j].total = Cardinality(Rows)]
      BY <3>2, <1>t, <1>u DEF WalkShrinks, Walks, Indexer
    <3> QED BY <2>6, <3>1, <3>2 DEF IndexerTotals
  <2>7. CASE IndexerDecide(j)
    <3>1. Retire(j) \/ indexer' = [indexer EXCEPT ![j].pc = "reconciling"]
      BY <2>7, Zenon DEF IndexerDecide
    <3> QED BY <1>r, <1>t, <1>u, <3>1 DEF WalkShrinks, Walks, Indexer
  <2>8. CASE IndexerReconcile(j) \/ IndexerFail(j) \/ IndexerCrash(j)
    BY <2>8, <1>r DEF IndexerReconcile, IndexerFail, IndexerCrash
  <2>9. CASE IndexerLoadKeys(j)
    BY <2>9, <1>t, <1>u DEF IndexerLoadKeys
  <2> QED BY <1>1, <2>1, <2>2, <2>3, <2>4, <2>5, <2>6, <2>7, <2>8, <2>9 DEF IndexerStep
<1>2. CASE ControlNext
  <2>1. CASE Resume \/ RecoverConnectionLostMigration
    BY <2>1, <1>s, <1>t DEF Resume, RecoverConnectionLostMigration
  <2>2. ASSUME NEW h \in Handlers, ReindexWrite(h) PROVE WalkShrinks(i)
    BY <2>2, <1>s DEF ReindexWrite
  <2>3. \/ Resume \/ RecoverConnectionLostMigration \/ \E h \in Handlers : ReindexWrite(h)
        \/ UNCHANGED indexer
    BY <1>2, ZenonT(40) DEF ControlNext, PauseRead, PauseWrite, ReindexRead, CancelMigration, CancelPendingTasks,
       RetryFailed, SetThreads
  <2> QED BY <1>u, <2>1, <2>2, <2>3
<1>3. CASE SchedulerNext
  <2>1. Spawn \/ UNCHANGED indexer
    BY <1>3, ZenonT(40) DEF SchedulerNext, TickStep, RecoveryStep, DueSchedule, triggerMigration, DeactivateSchedule,
       IndexingLeaseExpires, recoverScheduledMigrations, ReactivateSchedule, FailStaleIndexingMigration
  <2> QED BY <1>s, <1>u, <2>1
<1>4. CASE ApiCrash
  BY <1>4 DEF ApiCrash, SchedulerCrash, IdleIndexer, WalkShrinks, Walks
<1>5. \/ DiscoveryNext \/ SchedulerNext \/ ControlNext \/ ApiCrash \/ UNCHANGED indexer
  BY Zenon DEF Next, vars, Crash, Restart
<1> QED BY <1>1, <1>2, <1>3, <1>4, <1>5, <1>u DEF DiscoveryNext

LEMMA PathsInvStep ==
    ASSUME TypeOK, OneWalk, PathsInv, [Next]_vars
    PROVE  PathsInv'
<1>t. indexer \in [Indexers -> Indexer] /\ tasks \in [Tasks -> Task]
  BY DEF TypeOK, StoreTypeOK, DiscoveryTypeOK
<1>w. ASSUME NEW i \in Indexers, indexer'[i].pc \in Walks, ~IndexerLoadKeys(i)
      PROVE  /\ indexer[i].pc \in Walks /\ indexer'[i].todo \subseteq indexer[i].todo
             /\ indexer'[i].pc = "inserting" => indexer'[i].item \in indexer'[i].todo
  BY <1>w, WalksShrink DEF WalkShrinks, PathsInv, TodoIsNew
<1>1. ASSUME \A t \in Rows' : t \in Rows /\ tasks'[t].path = tasks[t].path
      PROVE  PathsInv'
  <2>1. EachPathOnce' BY <1>1 DEF PathsInv, EachPathOnce
  <2>2. ASSUME NEW i \in Indexers, indexer'[i].pc \in Walks
        PROVE  /\ \A t \in Rows' : tasks'[t].path \notin indexer'[i].todo
               /\ indexer'[i].pc = "inserting" => indexer'[i].item \in indexer'[i].todo
    <3>1. CASE IndexerLoadKeys(i)
      <4>1. /\ indexer'[i].pc = "walking"
            /\ indexer'[i].todo = mig.selected \ {tasks[t].path : t \in Rows}
        BY <1>t, <3>1 DEF IndexerLoadKeys, Indexer
      <4> QED BY <1>1, <4>1
    <3>2. CASE ~IndexerLoadKeys(i)
      BY <1>1, <1>w, <2>2, <3>2 DEF PathsInv, TodoIsNew
    <3> QED BY <3>1, <3>2
  <2> QED BY <2>1, <2>2 DEF PathsInv, TodoIsNew
<1>2. CASE RowsMove
  BY <1>1, <1>2 DEF RowsMove, RowMoves, SamePath, Rows
<1>3. CASE Marks
  <2>1. \A t \in Tasks : tasks'[t].path = tasks[t].path /\ (t \in Rows' => t \in Rows)
    <3>1. PICK q \in Procs, u \in Tasks : MarkMismatch(q, u) BY <1>3 DEF Marks
    <3>2. tasks'[u].path = tasks[u].path BY <1>t, <3>1 DEF MarkMismatch, Task
    <3>3. \A x \in Tasks : x # u => tasks'[x] = tasks[x] BY <1>t, <3>1 DEF MarkMismatch
    <3>4. tasks'[u] = tasks[u] \/ u \in Rows BY <3>1 DEF MarkMismatch, CanMark, Rows
    <3> QED BY <3>2, <3>3, <3>4 DEF Rows
  <2> QED BY <1>1, <2>1 DEF Rows
<1>4. CASE Inserts
  <2>1. PICK i \in Indexers : IndexerInsertCommit(i) BY <1>4 DEF Inserts
  <2> DEFINE x == indexer[i].item
  <2>2. PICK u \in WithStatus({"NONE"}) : tasks' = [tasks EXCEPT ![u] = NewTask(x)]
    BY <2>1 DEF IndexerInsertCommit
  <2>3. /\ u \in Tasks /\ tasks'[u] = NewTask(x) /\ NewTask(x).path = x
        /\ \A v \in Tasks : v # u => tasks'[v] = tasks[v]
    BY <1>t, <2>2 DEF WithStatus, NewTask, NoTask
  <2>4. /\ \A j \in Indexers : indexer'[j].pc \in Walks => j = i
        /\ indexer'[i].pc = "walking" /\ indexer'[i].todo = indexer[i].todo \ {x}
        /\ indexer[i].pc = "inserting"
    <3>1. \A j \in Indexers : j # i => indexer'[j] = indexer[j]
      BY <1>t, <2>1 DEF IndexerInsertCommit
    <3>2. /\ indexer'[i].pc = "walking" /\ indexer'[i].todo = indexer[i].todo \ {x}
          /\ indexer[i].pc = "inserting"
      BY <1>t, <2>1 DEF IndexerInsertCommit, Indexer
    <3> QED BY <3>1, <3>2 DEF OneWalk, Walks
  <2>5. x \in indexer[i].todo /\ \A t \in Rows : tasks[t].path # x /\ tasks[t].path \notin indexer[i].todo
    BY <2>4 DEF PathsInv, TodoIsNew, Walks
  <2>6. \A t \in Rows' : t # u => t \in Rows /\ tasks'[t].path = tasks[t].path
    BY <2>3 DEF Rows
  <2> HIDE DEF x
  <2>7. EachPathOnce' BY <2>3, <2>5, <2>6 DEF EachPathOnce, PathsInv
  <2>8. TodoIsNew' BY <2>3, <2>4, <2>5, <2>6 DEF TodoIsNew, Walks
  <2> QED BY <2>7, <2>8 DEF PathsInv
<1> QED BY <1>2, <1>3, <1>4, OtherRowsMove

LEMMA PathsInvInit == ASSUME Init PROVE PathsInv
<1>1. CASE InitFresh
  <2>1. tasks = [t \in Tasks |-> NoTask] BY <1>1 DEF InitFresh
  <2>2. Rows = {} BY <2>1 DEF Rows, NoTask
  <2>3. \A i \in Indexers : indexer[i] \in {Started, IdleIndexer}
    BY <1>1, Zenon DEF InitFresh
  <2>4. \A i \in Indexers : indexer[i].pc \notin Walks
    BY <2>3 DEF Started, IdleIndexer, Walks
  <2> QED BY <2>2, <2>4 DEF PathsInv, EachPathOnce, TodoIsNew
<1>2. CASE InitIndexed \/ InitAbandoned
  <2>1. /\ tasks \in [Tasks -> {NoTask} \cup {NewTask(p) : p \in Items}]
        /\ \A p \in Items : Cardinality({t \in Tasks : tasks[t] = NewTask(p)}) \in {0, 1}
        /\ indexer = [i \in Indexers |-> IdleIndexer]
    BY <1>2 DEF InitIndexed, InitAbandoned
  <2>2. TodoIsNew BY <2>1 DEF TodoIsNew, IdleIndexer, Walks
  <2>3. EachPathOnce
    <3> SUFFICES ASSUME NEW t \in Rows, NEW u \in Rows, tasks[t].path = tasks[u].path PROVE t = u
      BY DEF EachPathOnce
    <3>p. \A p : NewTask(p).path = p BY DEF NewTask, NoTask
    <3>1. t \in Tasks /\ u \in Tasks /\ tasks[t] # NoTask /\ tasks[u] # NoTask
      BY DEF Rows, NoTask
    <3>2. PICK p \in Items : tasks[t] = NewTask(p) BY <2>1, <3>1
    <3>3. PICK q \in Items : tasks[u] = NewTask(q) BY <2>1, <3>1
    <3>4. p = q BY <3>p, <3>2, <3>3
    <3> DEFINE S == {x \in Tasks : tasks[x] = NewTask(p)}
    <3>5. t \in S /\ u \in S /\ Cardinality(S) \in {0, 1} /\ S \subseteq Tasks
      BY <2>1, <3>1, <3>2, <3>3, <3>4
    <3> HIDE DEF S
    <3>6. IsFiniteSet(S) BY <3>5, FS_Subset, StoreAssumption
    <3>8. Cardinality(S) = 1 BY <3>5, <3>6, FS_EmptySet
    <3>7. \E x : S = {x} BY <3>6, <3>8, FS_Singleton
    <3> QED BY <3>5, <3>7
  <2> QED BY <2>2, <2>3 DEF PathsInv
<1> QED BY <1>1, <1>2 DEF Init

\* As long as no two indexers traverse the source at the same time, no two rows
\* carry the same path, however often discovery is interrupted, resumed, taken
\* over by the scheduler or started again by a re-index (EachPathOnce).
THEOREM PathsOnce == Spec /\ []OneWalk => []EachPathOnce
<1>1. Init => PathsInv BY PathsInvInit
<1>2. TypeOK /\ OneWalk /\ PathsInv /\ [Next]_vars => PathsInv' BY PathsInvStep
<1>3. PathsInv => EachPathOnce BY DEF PathsInv
<1> QED BY <1>1, <1>2, <1>3, TypeCorrect, PTL DEF Spec

-----------------------------------------------------------------------------
(***************************************************************************)
(* A cancelled migration.  Every statement that leaves or enters CANCELLED *)
(* is one of the API handlers: the others test the status in the statement *)
(* that changes it.  Pause and re-index do not, but they read a status     *)
(* that allows them first: what was read before the cancel can still be    *)
(* written after it, and nothing else can.                                 *)
(***************************************************************************)
CancelKept == mig'.status = "CANCELLED" <=> mig.status = "CANCELLED"

\* The rows the other statements write
LEMMA RowsKeepCancel ==
    ASSUME mig \in Migration
    PROVE  /\ \A s : ReconcileMigrationProgress(s) => CancelKept
           /\ mig.status = "INDEXING" /\ mig' \in {IndexingFailed, IndexingCompleted} => CancelKept
           /\ \A i : mig.status = "INDEXING" /\ mig' = IndexingToRunning(i) => CancelKept
           /\ mig.status \in Paused /\ mig' = Resumed => CancelKept
<1>1. ASSUME NEW s, ReconcileMigrationProgress(s) PROVE CancelKept
  <2>1. mig'.status = ReconciledStatus(s) BY <1>1 DEF ReconcileMigrationProgress, Migration
  <2>2. ReconciledStatus(s) = mig.status \/ (mig.status # "CANCELLED" /\ ReconciledStatus(s) # "CANCELLED")
    <3>1. CASE mig.status \in Sticky BY <3>1 DEF ReconciledStatus
    <3>2. CASE mig.status \notin Sticky
      BY <3>2 DEF ReconciledStatus, Sticky
    <3> QED BY <3>1, <3>2
  <2> QED BY <2>1, <2>2 DEF CancelKept
<1>2. ASSUME mig.status = "INDEXING", NEW i,
             mig' \in {IndexingFailed, IndexingCompleted, IndexingToRunning(i)}
      PROVE  CancelKept
  BY <1>2 DEF IndexingFailed, IndexingCompleted, IndexingToRunning, CancelKept, Migration
<1>3. ASSUME mig.status \in Paused, mig' = Resumed PROVE CancelKept
  BY <1>3 DEF Resumed, Paused, CancelKept, Migration
<1> QED BY <1>1, <1>2, <1>3

\* Only a handler takes a migration to CANCELLED or away from it
LEMMA StatusMoves ==
    ASSUME TypeOK, [Next]_vars
    PROVE  CancelKept \/ \E h \in Handlers : PauseWrite(h) \/ ReindexWrite(h) \/ CancelMigration(h)
<1>t. mig \in Migration
  BY DEF TypeOK, StoreTypeOK
<1>m. UNCHANGED mig => CancelKept
  BY DEF CancelKept
<1>1. CASE DiscoveryNext /\ UNCHANGED <<schedule, controlVars, workersVars, verifier>>
  <2>1. ASSUME NEW i \in Indexers, IndexerReconcile(i) PROVE CancelKept
    BY <2>1, <1>t, RowsKeepCancel DEF IndexerReconcile
  <2>2. ASSUME NEW i \in Indexers, IndexerDecide(i) PROVE CancelKept
    <3>1. \/ UNCHANGED mig
          \/ mig.status = "INDEXING" /\ mig' \in {IndexingFailed, IndexingCompleted}
          \/ mig.status = "INDEXING" /\ mig' = IndexingToRunning(i)
      BY <2>2 DEF IndexerDecide, OwnsDiscovery
    <3> QED BY <1>t, <1>m, <3>1, RowsKeepCancel
  <2>3. ASSUME NEW i \in Indexers, IndexerFail(i) PROVE CancelKept
    <3>1. UNCHANGED mig \/ (mig.status = "INDEXING" /\ mig' = IndexingFailed)
      BY <2>3 DEF IndexerFail, MayFailMigration, OwnsDiscovery
    <3> QED BY <1>t, <1>m, <3>1, RowsKeepCancel
  <2>4. ASSUME NEW i \in Indexers, IndexerClaimLease(i) \/ IndexerHeartbeat(i) PROVE CancelKept
    BY <2>4, <1>t, <1>m DEF IndexerClaimLease, IndexerHeartbeat, CancelKept, Migration
  <2>5. \/ \E i \in Indexers : \/ IndexerReconcile(i) \/ IndexerDecide(i) \/ IndexerFail(i)
                               \/ IndexerClaimLease(i) \/ IndexerHeartbeat(i)
        \/ UNCHANGED mig
    BY <1>1 DEF DiscoveryNext, IndexerStep, IndexerLoad, IndexerLoadKeys, IndexerSkipItem,
       IndexerInterrupted, IndexerInsert, IndexerInsertCommit, IndexerRecordErrors,
       IndexerTotals, IndexerReconcileSnapshot, IndexerCrash, storeVars
  <2> QED BY <1>m, <2>1, <2>2, <2>3, <2>4, <2>5
<1>2. CASE ControlNext /\ UNCHANGED <<schedule, workersVars, verifier>>
  <2>1. ASSUME Resume \/ RecoverConnectionLostMigration PROVE CancelKept
    <3>1. mig.status \in Paused /\ mig' = Resumed
      BY <2>1 DEF Resume, RecoverConnectionLostMigration, Paused
    <3> QED BY <1>t, <3>1, RowsKeepCancel
  <2>2. ASSUME RetryFailed PROVE CancelKept
    BY <2>2, <1>t DEF RetryFailed, Terminal, CancelKept, Migration
  <2>3. ASSUME NEW n, SetThreads(n) PROVE CancelKept
    BY <2>3, <1>t DEF SetThreads, CancelKept, Migration
  <2>4. \/ \E h \in Handlers : PauseWrite(h) \/ CancelMigration(h) \/ ReindexWrite(h)
        \/ Resume \/ RecoverConnectionLostMigration \/ RetryFailed
        \/ \E n \in 1..MaxThreads : SetThreads(n)
        \/ UNCHANGED mig
    BY <1>2 DEF ControlNext, PauseRead, ReindexRead, CancelPendingTasks, storeVars
  <2> QED BY <1>m, <2>1, <2>2, <2>3, <2>4
<1>3. CASE WorkersNext /\ UNCHANGED <<indexer, schedule, controlVars, verifier>>
  <2>1. ASSUME NEW w \in Workers, HandleConnLossEscalate(w) PROVE CancelKept
    <3>1. PauseMigrationForConnectionLoss \/ UNCHANGED mig BY <2>1 DEF HandleConnLossEscalate
    <3>2. CASE PauseMigrationForConnectionLoss
      BY <3>2, <1>t DEF PauseMigrationForConnectionLoss, CanPauseForConnectionLoss, Working, CancelKept, Migration
    <3> QED BY <1>m, <3>1, <3>2
  <2>2. ASSUME NEW w \in Workers, HandleAuthFailure(w) PROVE CancelKept
    <3>1. \/ UNCHANGED mig
          \/ /\ mig.status \in Working
             /\ mig' = [mig EXCEPT !.status = "FAILED", !.notificationGeneration = @ + 1]
      BY <2>2 DEF HandleAuthFailure, AuthFailureApplies
    <3> QED BY <1>t, <1>m, <3>1 DEF Working, CancelKept, Migration
  <2>3. ASSUME NEW w \in Workers, Settle(w) PROVE CancelKept
    BY <2>3, <1>t, RowsKeepCancel DEF Settle
  <2>4. ASSUME NEW p \in Procs, Reconcile(p) PROVE CancelKept
    BY <2>4, <1>t, RowsKeepCancel DEF Reconcile
  <2>5. ASSUME NEW p \in Procs, RetryFailedOnce(p) PROVE CancelKept
    <3>1. UNCHANGED mig \/ mig' = [mig EXCEPT !.failedRetryDone = TRUE]
      BY <2>5, Zenon DEF RetryFailedOnce, MaybeRetryFailedMigrationTasks
    <3> QED BY <1>t, <1>m, <3>1 DEF CancelKept, Migration
  <2>6. \/ \E w \in Workers : HandleConnLossEscalate(w) \/ HandleAuthFailure(w) \/ Settle(w)
        \/ \E p \in Procs : Reconcile(p) \/ RetryFailedOnce(p)
        \/ UNCHANGED mig
    BY <1>3, ZenonT(40) DEF WorkersNext, WorkerStep, Reconciling, Requeueing, DequeueSQL, LoadMigration, ReturnTask,
       MarkRunning, CompleteTask, SkipTask, TransferFails, TransferCancelled, HandleFailure,
       HandleCancelledMigration, HandleCancelledContext, HandleConnLossRetry,
       RequeueAfterPause, HandleAuthRefreshed, HandleTransient, HandleFinal, SettleSnapshot,
       RecoverAbandonedTasks, SelectActiveMigration, ReconcileSnapshot, RequeueFailedTasks,
       RequeueOrphanedRunningTasks, storeVars
  <2> QED BY <1>m, <2>1, <2>2, <2>3, <2>4, <2>5, <2>6
<1>4. CASE VerificationNext /\ UNCHANGED <<indexer, schedule, controlVars, workersVars>>
  <2>1. ASSUME NEW p \in Procs, FinishPass(p) PROVE CancelKept
    BY <2>1, <1>t, <1>m, RowsKeepCancel DEF FinishPass
  <2>2. ASSUME NEW p \in Procs, ReleaseVerificationLease(p) \/ ClaimMigrationVerification(p) PROVE CancelKept
    BY <2>2, <1>t, <1>m DEF ReleaseVerificationLease, ClaimMigrationVerification, CancelKept, Migration
  <2>3. CASE VerificationLeaseExpires
    BY <2>3, <1>t DEF VerificationLeaseExpires, CancelKept, Migration
  <2>4. \/ \E p \in Procs : FinishPass(p) \/ ReleaseVerificationLease(p) \/ ClaimMigrationVerification(p)
        \/ VerificationLeaseExpires \/ UNCHANGED mig
    BY <1>4 DEF VerificationNext, VerifierStep, AbandonClaim, RenewVerificationLease,
       PassFails, ListUnverifiedTasks, MarkVerified, MarkMismatch, LeaveUnverified,
       PassCancelled, FinishSnapshot, storeVars
  <2> QED BY <1>m, <2>1, <2>2, <2>3, <2>4
<1>5. CASE SchedulerNext /\ UNCHANGED <<controlVars, workersVars, verifier>>
  <2>1. CASE triggerMigration
    BY <2>1, <1>t, <1>m DEF triggerMigration, ScheduleClaimed, CancelKept, Migration
  <2>2. CASE recoverScheduledMigrations \/ FailStaleIndexingMigration
    BY <2>2, <1>t DEF recoverScheduledMigrations, FailStaleIndexingMigration, StaleDiscovery,
       CancelKept, Migration
  <2>3. CASE IndexingLeaseExpires
    BY <2>3, <1>t DEF IndexingLeaseExpires, CancelKept, Migration
  <2>4. CASE DueSchedule \/ DeactivateSchedule \/ ReactivateSchedule
    BY <2>4, <1>m DEF DueSchedule, DeactivateSchedule, ReactivateSchedule, storeVars
  <2> QED BY <1>5, <2>1, <2>2, <2>3, <2>4 DEF SchedulerNext, TickStep, RecoveryStep
<1>6. ASSUME NEW p \in Procs, Crash(p) PROVE CancelKept
  BY <1>6, <1>m DEF Crash, WorkerCrash
<1>7. CASE ApiCrash
  BY <1>7, <1>m DEF ApiCrash, SchedulerCrash
<1>8. CASE UNCHANGED vars
  BY <1>8, <1>m DEF vars, storeVars
<1>9. ASSUME NEW p \in Procs, Restart(p) PROVE CancelKept
  BY <1>9, <1>m DEF Restart, Start
<1> QED BY <1>1, <1>2, <1>3, <1>4, <1>5, <1>6, <1>7, <1>8, <1>9 DEF Next

\* A handler comes to pause or re-index by reading a status that allows it
LEMMA HandlersRead ==
    ASSUME TypeOK, [Next]_vars, NEW h \in Handlers, handler'[h] \in {"pausing", "reindexing"}
    PROVE  handler[h] = handler'[h] \/ PauseRead(h) \/ ReindexRead(h)
<1>t. handler \in [Handlers -> HandlerPC] BY DEF TypeOK, ControlTypeOK
<1>1. CASE ControlNext
  <2>1. ASSUME NEW g \in Handlers, PauseRead(g) \/ ReindexRead(g)
        PROVE  handler[h] = handler'[h] \/ PauseRead(h) \/ ReindexRead(h)
    <3>1. \E pc : handler' = [handler EXCEPT ![g] = pc] BY <2>1 DEF PauseRead, ReindexRead, Serve
    <3> QED BY <2>1, <3>1, <1>t
  <2>2. ASSUME NEW g \in Handlers, NEW pc \in {"idle", "cancelling"}, handler' = [handler EXCEPT ![g] = pc]
        PROVE  handler[h] = handler'[h]
    BY <2>2, <1>t
  <2>3. \/ \E g \in Handlers : \/ PauseRead(g) \/ ReindexRead(g)
                               \/ \E pc \in {"idle", "cancelling"} : handler' = [handler EXCEPT ![g] = pc]
        \/ UNCHANGED handler
    BY <1>1, ZenonT(40) DEF ControlNext, PauseWrite, ReindexWrite, CancelMigration, CancelPendingTasks, Resume,
       RecoverConnectionLostMigration, RetryFailed, SetThreads, Serve, Served, controlVars
  <2> QED BY <2>1, <2>2, <2>3
<1>2. CASE ApiCrash
  BY <1>2 DEF ApiCrash, HandlersCrash
<1>3. ControlNext \/ ApiCrash \/ UNCHANGED handler
  BY Zenon DEF Next, vars, Crash, Restart, controlVars
<1> QED BY <1>1, <1>2, <1>3

\* For any number of requests at the same time: once no pause or re-index that
\* has read an earlier status is on its way, neither a worker, an indexer, a
\* verifier, a scheduler nor any later request makes a CANCELLED migration
\* anything else, nor comes to a point where it could (CancelledIsFinal).
THEOREM CancelledStays == Spec => CancelledIsFinal
<1> DEFINE A == mig.status = "CANCELLED" /\ Unfinished = {}
                  => mig'.status = "CANCELLED" /\ Unfinished' = {}
<1>1. TypeOK /\ [Next]_vars => [A]_vars
  <2> SUFFICES ASSUME TypeOK, [Next]_vars, mig.status = "CANCELLED", Unfinished = {}
               PROVE  mig'.status = "CANCELLED" /\ Unfinished' = {}
    OBVIOUS
  <2>1. mig'.status = "CANCELLED"
    <3>1. CASE CancelKept BY <3>1 DEF CancelKept
    <3>2. ASSUME NEW h \in Handlers, PauseWrite(h) \/ ReindexWrite(h) PROVE FALSE
      BY <3>2 DEF PauseWrite, ReindexWrite, Served, Unfinished
    <3>3. ASSUME NEW h \in Handlers, CancelMigration(h) PROVE mig'.status = "CANCELLED"
      BY <3>3 DEF CancelMigration, UpdateMigrationStatus, TypeOK, StoreTypeOK, Migration
    <3> QED BY <3>1, <3>2, <3>3, StatusMoves
  <2>2. ASSUME NEW h \in Handlers, handler'[h] \in {"pausing", "reindexing"} PROVE FALSE
    <3>1. ~PauseRead(h) /\ ~ReindexRead(h) BY DEF PauseRead, ReindexRead, Working
    <3>2. handler[h] = handler'[h] BY <2>2, <3>1, HandlersRead
    <3> QED BY <2>2, <3>2 DEF Unfinished
  <2> QED BY <2>1, <2>2 DEF Unfinished
<1> HIDE DEF A
<1>2. Spec => [][A]_vars
  BY <1>1, TypeCorrect, PTL DEF Spec
<1> QED BY <1>2 DEF A, CancelledIsFinal

=============================================================================

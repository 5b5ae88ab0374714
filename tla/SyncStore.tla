------------------------------ MODULE SyncStore -----------------------------
(***************************************************************************)
(* db/sync.go and the statements on sync tasks in db/tasks.go and          *)
(* db/verification.go: the row of one sync job, its settings, its          *)
(* baseline, the tasks of its passes and its schedule.                     *)
(*                                                                         *)
(* The tasks of a pass are those of one file and its directory, so a kind  *)
(* names a task.  A new pass replaces the rows of the one before it.       *)
(***************************************************************************)
EXTENDS SyncDelta, FiniteSets

CONSTANTS Configs,      \* the settings an owner chooses from
          MaxGen,       \* passes
          MaxAttempts,  \* how often a task is claimed
          MaxEvents,    \* crashes, failing calls, requests and edits, together
          SlowWorkers   \* a transfer may go on after its claim was taken away, and
                        \* a task may wait for a worker longer than ten minutes

ASSUME SyncBoundsAssumption ==
    /\ MaxGen \in Nat /\ MaxAttempts \in Nat /\ MaxEvents \in Nat
    /\ Configs \subseteq Settings /\ SlowWorkers \in BOOLEAN

VARIABLES job, cfg, sched, tasks, base, events

rowVars == <<job, cfg, sched, tasks, base>>

Gens == 1..MaxGen
Working == {"INDEXING", "RUNNING", "VERIFYING"}
Statuses == Working \cup {"IDLE", "FAILED", "PAUSED", "PAUSED_CONNECTION_LOSS", "GONE"}
Outcomes == {"SUCCESS", "PARTIAL", "FAILED"}

\* lease: a verifier holds the verification lease.  last: last_run_status.
Job == [st : Statuses, gen : 0..MaxGen, lease : BOOLEAN, last : Outcomes \cup {"none"}]

\* RETRY is FAILED with next_retry_at set.  lost: its worker process is gone.
TaskStatuses == {"NONE", "PENDING", "RUNNING", "RETRY", "FAILED", "COMPLETED", "SKIPPED", "CANCELLED"}
Task == [st : TaskStatuses, gen : 0..MaxGen, epoch : 0..MaxAttempts, to : Sides, verified : BOOLEAN, lost : BOOLEAN]

NoTask == [st |-> "NONE", gen |-> 0, epoch |-> 0, to |-> "target", verified |-> FALSE, lost |-> FALSE]

\* due: next_run_at has come.  changed: another statement set next_run_at since
\* the tick read it.
Schedule == [active : BOOLEAN, due : BOOLEAN, changed : BOOLEAN,
             tick : {"idle", "triggering", "claiming", "advancing", "deactivating"}]

StoreTypeOK ==
    /\ job \in Job /\ cfg \in Configs /\ Configs \subseteq Settings
    /\ sched \in Schedule
    /\ tasks \in [Kinds -> Task]
    /\ base \in [Sides -> Listing]
    /\ events \in 0..MaxEvents

\* Something from outside: a crash, a call that fails, a request, an edit.
Event == events < MaxEvents /\ events' = events + 1

-----------------------------------------------------------------------------
(* The life of a pass *)

InPass(g, statuses) == job.gen = g /\ job.st \in statuses

CanClaim == job.st \in {"IDLE", "FAILED"} /\ job.gen < MaxGen

ClaimSyncJobPass == CanClaim /\ job' = [job EXCEPT !.st = "INDEXING", !.gen = @ + 1]

ReleaseUnstartedSyncPass(g) ==
    job' = IF InPass(g, {"INDEXING"}) THEN [job EXCEPT !.st = "IDLE"] ELSE job

TransitionSyncJobToRunning(g) ==
    job' = IF InPass(g, {"INDEXING"}) THEN [job EXCEPT !.st = "RUNNING"] ELSE job

TransitionSyncJobToVerifying(g) ==
    job' = IF InPass(g, {"RUNNING"}) THEN [job EXCEPT !.st = "VERIFYING", !.lease = FALSE] ELSE job

AbortSyncJobVerification(g) ==
    job' = IF InPass(g, {"VERIFYING"}) THEN [job EXCEPT !.st = "RUNNING", !.lease = FALSE] ELSE job

FailSyncJobPass(g) ==
    job' = IF InPass(g, Working) THEN [job EXCEPT !.st = "FAILED", !.lease = FALSE, !.last = "FAILED"] ELSE job

\* The outcome, the baseline and IDLE in one transaction, or none of them.
FinalizeSyncJobPass(g, statuses, outcome, baseline) ==
    IF InPass(g, statuses)
    THEN /\ job' = [job EXCEPT !.st = "IDLE", !.lease = FALSE, !.last = outcome]
         /\ base' = baseline
    ELSE UNCHANGED <<job, base>>

\* Fenced by the generation only: a status set since is overwritten.
UpdateSyncJobStatusForGeneration(g, status) ==
    job' = IF job.gen = g /\ job.st # "GONE" THEN [job EXCEPT !.st = status, !.lease = FALSE] ELSE job

-----------------------------------------------------------------------------
(* Pause, resume, recovery, scope *)

Cancelled(t, g) ==
    IF t.gen = g /\ t.st \in {"PENDING", "RETRY"} THEN [t EXCEPT !.st = "CANCELLED"] ELSE t

PauseSyncJobAndDeactivateSchedules ==
    /\ job.st \in Working \cup {"IDLE"}
    /\ job' = [job EXCEPT !.st = "PAUSED", !.lease = FALSE]
    /\ sched' = [sched EXCEPT !.active = FALSE]
    /\ tasks' = [k \in Kinds |-> Cancelled(tasks[k], job.gen)]

ResumeSyncJobAndReactivateSchedules ==
    /\ job.st = "PAUSED"
    /\ job' = [job EXCEPT !.st = "IDLE"]
    /\ sched' = [sched EXCEPT !.active = TRUE, !.due = TRUE, !.changed = TRUE]

RecoverConnectionLostSyncJob ==
    /\ job.st = "PAUSED_CONNECTION_LOSS"
    /\ job' = [job EXCEPT !.st = "IDLE"]
    /\ sched' = IF sched.active THEN [sched EXCEPT !.due = TRUE, !.changed = TRUE] ELSE sched

UpdateSyncJobInterval ==
    /\ job.st # "GONE"
    /\ sched' = [sched EXCEPT !.due = FALSE, !.changed = TRUE]

\* A new scope or new settings start from no baseline; the providers stay.
UpdateSyncJobScope(c) ==
    /\ job.st \notin Working \cup {"GONE"}
    /\ c.by = cfg.by
    /\ cfg' = c
    /\ base' = [s \in Sides |-> Nothing]

DeleteSyncJobCascade ==
    /\ job.st # "GONE"
    /\ job' = [job EXCEPT !.st = "GONE", !.lease = FALSE]
    /\ tasks' = [k \in Kinds |-> NoTask]
    /\ base' = [s \in Sides |-> Nothing]
    /\ sched' = [sched EXCEPT !.active = FALSE, !.due = FALSE]

\* SuspendUser also takes the tasks of running workers away.
SuspendSyncs ==
    /\ job.st # "GONE"
    /\ sched' = [sched EXCEPT !.active = FALSE]
    /\ IF job.st \in Working \cup {"PAUSED_CONNECTION_LOSS"}
       THEN /\ job' = [job EXCEPT !.st = "PAUSED"]
            /\ tasks' = [k \in Kinds |-> IF tasks[k].st \in {"PENDING", "RUNNING", "RETRY"}
                                         THEN [tasks[k] EXCEPT !.st = "CANCELLED"] ELSE tasks[k]]
       ELSE UNCHANGED <<job, tasks>>

-----------------------------------------------------------------------------
(* Tasks *)

Open(g, k) == tasks[k].gen = g /\ tasks[k].st \in {"PENDING", "RUNNING", "RETRY"}
Unverified(g, k) == tasks[k].gen = g /\ tasks[k].st = "COMPLETED" /\ ~tasks[k].verified
AnyRunning == \E k \in Kinds : tasks[k].st = "RUNNING"

\* BulkCreateSyncTasks, after the DELETE of what earlier passes left.
BulkCreateSyncTasks(g, planned) ==
    tasks' = [k \in Kinds |->
                IF \E s \in Sides : <<k, s>> \in planned
                THEN [NoTask EXCEPT !.st = "PENDING", !.gen = g, !.to = CHOOSE s \in Sides : <<k, s>> \in planned]
                ELSE IF tasks[k].st = "RUNNING" THEN tasks[k] ELSE NoTask]

ClearOldTasks == tasks' = [k \in Kinds |-> IF tasks[k].st = "RUNNING" THEN tasks[k] ELSE NoTask]

\* A conflict copy that ended without success skips the upload that waits for it.
SkipDependents ==
    [k \in Kinds |-> IF k = "move" /\ tasks[k].st = "PENDING"
                        /\ tasks["copy"].gen = tasks[k].gen /\ tasks["copy"].st \in {"CANCELLED", "SKIPPED", "FAILED"}
                     THEN [tasks[k] EXCEPT !.st = "SKIPPED"] ELSE tasks[k]]

\* Mutant: the upload waits for the conflict copy to end, however it ends.
PrerequisiteEnded(ts, k) == k = "move" /\ ts["copy"].gen = ts[k].gen => ts["copy"].st # "RUNNING"

PrerequisiteMet(ts, k) == k = "move" /\ ts["copy"].gen = ts[k].gen => ts["copy"].st \in {"NONE", "COMPLETED"}

Claimable(ts, k) ==
    ts[k].st = "PENDING" /\ ts[k].epoch < MaxAttempts /\ PrerequisiteMet(ts, k) /\ job.st = "RUNNING" /\ ts[k].gen = job.gen

ClaimTask(ts, k) == [ts EXCEPT ![k].st = "RUNNING", ![k].epoch = @ + 1, ![k].lost = FALSE]

Owns(k, g, e) == tasks[k].st = "RUNNING" /\ tasks[k].gen = g /\ tasks[k].epoch = e

\* UpdateClaimedSyncTaskStatus
UpdateClaimedSyncTaskStatus(k, g, e, status) ==
    tasks' = IF Owns(k, g, e) THEN [tasks EXCEPT ![k].st = status] ELSE tasks

\* UpdateSyncTaskStatusAndIncrementProgress rolls back for a job in another
\* generation; a job that left RUNNING in this one only keeps its counters.
MayAcknowledge(k, g, e) == Owns(k, g, e) /\ job.gen = g /\ job.st # "GONE"

\* A task that waits for its retry is not cancelled.
CancelRemainingPendingSyncTasksForGeneration(ts, g) ==
    [k \in Kinds |-> IF ts[k].gen = g /\ ts[k].st = "PENDING"
                     THEN [ts[k] EXCEPT !.st = "CANCELLED"] ELSE ts[k]]

\* requeueFailedTasks, when next_retry_at has come
Retryable(k) == tasks[k].st = "RETRY" /\ tasks[k].gen = job.gen /\ job.st \in Working

\* RecoverAbandonedTasks asks for nothing but a dead worker; requeueOrphanedRunningTasks
\* for a job at work, in whatever generation.
Recoverable(k, abandoned) ==
    tasks[k].st = "RUNNING" /\ (tasks[k].lost \/ (abandoned /\ job.st \in {"RUNNING", "INDEXING"}))

Requeue(k) == tasks' = [tasks EXCEPT ![k].st = "PENDING", ![k].lost = FALSE]

-----------------------------------------------------------------------------
(* Verification *)

ClaimSyncJobVerification == job.st = "VERIFYING" /\ ~job.lease /\ job' = [job EXCEPT !.lease = TRUE]

MayVerify(g, k) == InPass(g, {"VERIFYING"}) /\ job.lease /\ Unverified(g, k)

MarkSyncTaskChecksumVerified(g, k) == MayVerify(g, k) /\ tasks' = [tasks EXCEPT ![k].verified = TRUE]
MarkSyncTaskChecksumMismatch(g, k) == MayVerify(g, k) /\ tasks' = [tasks EXCEPT ![k].st = "FAILED"]
=============================================================================

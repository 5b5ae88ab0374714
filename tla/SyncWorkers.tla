---------------------------- MODULE SyncWorkers -----------------------------
(***************************************************************************)
(* processor/sync_task.go and the parts of processor.go and schedulers.go  *)
(* that serve sync tasks: workers claim a task, read, write, record the    *)
(* result, and decide what a failure means for the task and for the job.   *)
(*                                                                         *)
(* A write is one step: staging and the promotion of an upload are those   *)
(* of a migration.  Counts of attempts, backoffs and deadlines are left to *)
(* chance: a failed task may be retried or be given up.                    *)
(***************************************************************************)
EXTENDS SyncEngine

CONSTANTS Workers,
          Errors  \* what provider calls fail with, of "network", "auth", "other"

ASSUME SyncErrorsAssumption == Errors \subseteq {"network", "auth", "other"}

VARIABLES worker,
          cancelled, \* the generations for which a cancel event was published
          verifier   \* a worker process runs the verifier

workerVars == <<worker, cancelled, verifier>>
signalVars == <<cancelled, verifier>>

NoWork == [pc |-> "idle", kind |-> "move", gen |-> 0, epoch |-> 0, buf |-> Absent, err |-> "none"]

Worker ==
    [pc : {"idle", "start", "read", "write", "ack", "fail", "escalate", "requeue", "stopJob", "stopTasks"},
     kind : Kinds, gen : 0..MaxGen, epoch : 0..MaxAttempts, buf : 0..MaxVersion,
     err : {"none", "network", "auth", "other", "cancel"}]

WorkerTypeOK == worker \in [Workers -> Worker] /\ cancelled \subseteq Gens /\ verifier \in BOOLEAN

At(w, pc) == worker[w].pc = pc
Proceed(w, pc) == worker' = [worker EXCEPT ![w].pc = pc]
Rest(w) == worker' = [worker EXCEPT ![w] = NoWork]
Fails(w, err) == worker' = [worker EXCEPT ![w].pc = "fail", ![w].err = err]

Holds(w) == Owns(worker[w].kind, worker[w].gen, worker[w].epoch)
Attended(k) == \E w \in Workers : worker[w].pc # "idle" /\ worker[w].kind = k /\ Holds(w)

\* The heartbeat of a transfer ends one whose claim was taken away; a deletion, a
\* new directory and a conflict copy have none.
MayAct(w) == SlowWorkers \/ worker[w].kind # "move" \/ Holds(w)

Other(s) == IF s = "source" THEN "target" ELSE "source"
Destination(w) == tasks[worker[w].kind].to

Record(w, status) == UpdateClaimedSyncTaskStatus(worker[w].kind, worker[w].gen, worker[w].epoch, status)

-----------------------------------------------------------------------------
(* Claiming *)

Dequeue(w) ==
    /\ At(w, "idle")
    /\ \E k \in Kinds :
         /\ Claimable(SkipDependents, k)
         /\ tasks' = ClaimTask(SkipDependents, k)
         /\ worker' = [worker EXCEPT ![w] = [NoWork EXCEPT !.pc = "start", !.kind = k,
                                                           !.gen = tasks'[k].gen, !.epoch = tasks'[k].epoch]]
    /\ UNCHANGED <<job, cfg, sched, base, engineVars, signalVars, events>>

DequeueNothing(w) ==
    /\ At(w, "idle") /\ job.st = "RUNNING"
    /\ SkipDependents # tasks
    /\ \A k \in Kinds : ~Claimable(SkipDependents, k)
    /\ tasks' = SkipDependents
    /\ UNCHANGED <<job, cfg, sched, base, engineVars, workerVars, events>>

\* The head of processSyncTask: a pass that moved on leaves the row RUNNING.
ProcessSyncTask(w) ==
    /\ At(w, "start")
    /\ CASE job.st = "GONE" \/ job.gen # worker[w].gen -> Rest(w) /\ UNCHANGED tasks
         [] job.gen = worker[w].gen /\ job.st \in {"PAUSED", "PAUSED_CONNECTION_LOSS"} ->
              Record(w, "CANCELLED") /\ Rest(w)
         [] job.gen = worker[w].gen /\ job.st = "FAILED" -> Record(w, "SKIPPED") /\ Rest(w)
         [] OTHER -> Proceed(w, IF worker[w].kind = "move" THEN "read" ELSE "write") /\ UNCHANGED tasks
    /\ UNCHANGED <<job, cfg, sched, base, engineVars, signalVars, events>>

-----------------------------------------------------------------------------
(* Transfer *)

ReadFile(w) ==
    /\ At(w, "read") /\ MayAct(w)
    /\ LET v == disk[Other(Destination(w))].file
       IN IF v = Absent THEN Fails(w, "other")
          ELSE worker' = [worker EXCEPT ![w].pc = "write", ![w].buf = v]
    /\ UNCHANGED <<rowVars, engineVars, signalVars, events>>

\* Upload or download: the parents are created, the file replaced.
WriteFile(w) ==
    /\ worker[w].kind = "move"
    /\ disk' = [disk EXCEPT ![Destination(w)] = [file |-> worker[w].buf, dir |-> TRUE]]
    /\ Proceed(w, "ack")
    /\ UNCHANGED copies

DeleteFile(w) ==
    /\ worker[w].kind = "del"
    /\ disk' = [disk EXCEPT ![Destination(w)].file = Absent]
    /\ Proceed(w, "ack")
    /\ UNCHANGED copies

CreateDirectory(w) ==
    /\ worker[w].kind = "mkdir"
    /\ disk' = [disk EXCEPT ![Destination(w)].dir = TRUE]
    /\ Proceed(w, "ack")
    /\ UNCHANGED copies

\* The version on the target is renamed aside.
ConflictCopy(w) ==
    /\ worker[w].kind = "copy"
    /\ IF disk["target"].file = Absent THEN Fails(w, "other") /\ UNCHANGED <<disk, copies>>
       ELSE /\ copies' = copies \cup {disk["target"].file}
            /\ disk' = [disk EXCEPT !["target"].file = Absent]
            /\ Proceed(w, "ack")

Write(w) ==
    /\ At(w, "write") /\ MayAct(w)
    /\ WriteFile(w) \/ DeleteFile(w) \/ CreateDirectory(w) \/ ConflictCopy(w)
    /\ UNCHANGED <<rowVars, coord, lock, signalVars, events>>

\* An upload or download may still have to be verified.
Acknowledge(w) ==
    /\ At(w, "ack")
    /\ LET k == worker[w].kind
       IN IF MayAcknowledge(k, worker[w].gen, worker[w].epoch)
          THEN /\ \E verified \in (IF k = "move" THEN BOOLEAN ELSE {TRUE}) :
                    tasks' = [tasks EXCEPT ![k].st = "COMPLETED", ![k].verified = verified]
               /\ Rest(w)
          ELSE Fails(w, "other") /\ UNCHANGED tasks
    /\ UNCHANGED <<job, cfg, sched, base, engineVars, signalVars, events>>

CallFails(w) ==
    /\ worker[w].pc \in {"start", "read", "write", "ack"} /\ Event
    /\ \E err \in Errors : Fails(w, err)
    /\ UNCHANGED <<rowVars, engineVars, signalVars>>

\* The cancel event of a pause, suspension or deletion, or a claim the heartbeat
\* finds lost.
CancelWork(w) ==
    /\ worker[w].pc \in {"start", "read", "write", "ack"}
    /\ worker[w].gen \in cancelled \/ (worker[w].kind = "move" /\ ~Holds(w))
    /\ Fails(w, "cancel")
    /\ UNCHANGED <<rowVars, engineVars, signalVars, events>>

-----------------------------------------------------------------------------
(* handleSyncTaskFailure *)

MayRetry(w) == worker[w].epoch < MaxAttempts

\* Retried later, or given up: a failure that is recorded for good.
RetryOrGiveUp(w) ==
    LET k == worker[w].kind
    IN \/ MayRetry(w) /\ Record(w, "RETRY")
       \/ tasks' = IF MayAcknowledge(k, worker[w].gen, worker[w].epoch)
                   THEN [tasks EXCEPT ![k].st = "FAILED"] ELSE tasks

HandleSyncTaskFailure(w) ==
    /\ At(w, "fail")
    /\ CASE job.st = "GONE" \/ job.gen # worker[w].gen -> Rest(w) /\ UNCHANGED tasks
         [] job.gen = worker[w].gen /\ job.st \in {"PAUSED", "PAUSED_CONNECTION_LOSS"} ->
              Record(w, "CANCELLED") /\ Rest(w)
         [] OTHER ->
              \/ worker[w].err = "cancel" /\ Record(w, "PENDING") /\ Rest(w)
              \/ worker[w].err \in {"network", "auth"} /\ MayRetry(w) /\ Record(w, "RETRY") /\ Rest(w)
              \/ worker[w].err = "network" /\ Proceed(w, "escalate") /\ UNCHANGED tasks
              \/ worker[w].err = "auth" /\ Proceed(w, "stopJob") /\ UNCHANGED tasks
              \/ worker[w].err = "other" /\ RetryOrGiveUp(w) /\ Rest(w)
    /\ UNCHANGED <<job, cfg, sched, base, engineVars, signalVars, events>>

\* Too many connection losses pause the job; the task goes back to the queue.
Escalate(w) ==
    /\ At(w, "escalate")
    /\ UpdateSyncJobStatusForGeneration(worker[w].gen, "PAUSED_CONNECTION_LOSS")
    /\ Proceed(w, "requeue")
    /\ UNCHANGED <<cfg, sched, tasks, base, engineVars, signalVars, events>>

RequeueOwn(w) ==
    /\ At(w, "requeue")
    /\ Record(w, "PENDING") /\ Rest(w)
    /\ UNCHANGED <<job, cfg, sched, base, engineVars, signalVars, events>>

\* Refused credentials fail the job, the task and what is still waiting.
StopJob(w) ==
    /\ At(w, "stopJob")
    /\ UpdateSyncJobStatusForGeneration(worker[w].gen, "FAILED")
    /\ Proceed(w, "stopTasks")
    /\ UNCHANGED <<cfg, sched, tasks, base, engineVars, signalVars, events>>

StopTasks(w) ==
    /\ At(w, "stopTasks")
    /\ LET k == worker[w].kind
           g == worker[w].gen
       IN tasks' = IF MayAcknowledge(k, g, worker[w].epoch)
                   THEN CancelRemainingPendingSyncTasksForGeneration([tasks EXCEPT ![k].st = "FAILED"], g)
                   ELSE tasks
    /\ Rest(w)
    /\ UNCHANGED <<job, cfg, sched, base, engineVars, signalVars, events>>

WorkerCrash(w) ==
    /\ ~At(w, "idle") /\ Event
    /\ tasks' = IF Holds(w) THEN [tasks EXCEPT ![worker[w].kind].lost = TRUE] ELSE tasks
    /\ Rest(w)
    /\ UNCHANGED <<job, cfg, sched, base, engineVars, signalVars>>

WorkerStep(w) ==
    \/ Dequeue(w) \/ DequeueNothing(w) \/ ProcessSyncTask(w) \/ ReadFile(w) \/ Write(w) \/ Acknowledge(w)
    \/ HandleSyncTaskFailure(w) \/ Escalate(w) \/ RequeueOwn(w) \/ StopJob(w) \/ StopTasks(w)

WorkerFault(w) == CallFails(w) \/ CancelWork(w) \/ WorkerCrash(w)

-----------------------------------------------------------------------------
(* The schedulers of the worker process, and the verifier *)

requeueFailedTasks(k) ==
    /\ Retryable(k) /\ tasks' = [tasks EXCEPT ![k].st = "PENDING", ![k].verified = FALSE]
    /\ UNCHANGED <<job, cfg, sched, base, engineVars, workerVars, events>>

\* A row nobody attends turns stale; without a heartbeat, also one in work.
requeueRunningTasks(k) ==
    /\ Recoverable(k, SlowWorkers \/ ~Attended(k)) /\ Requeue(k)
    /\ UNCHANGED <<job, cfg, sched, base, engineVars, workerVars, events>>

recoverPausedSyncJobs ==
    /\ RecoverConnectionLostSyncJob
    /\ UNCHANGED <<cfg, tasks, base, engineVars, workerVars, events>>

\* Every ten seconds, also when nothing is left to verify: the row stays fresh.
VerifierClaims ==
    /\ verifier /\ ClaimSyncJobVerification
    /\ UNCHANGED <<cfg, sched, tasks, base, engineVars, workerVars, events>>

VerifierMarks(k) ==
    /\ MarkSyncTaskChecksumVerified(job.gen, k)
    /\ UNCHANGED <<job, cfg, sched, base, engineVars, workerVars, events>>

VerifierRefuses(k) ==
    /\ MarkSyncTaskChecksumMismatch(job.gen, k) /\ Event
    /\ UNCHANGED <<job, cfg, sched, base, engineVars, workerVars>>

VerifierReleases ==
    /\ job.lease /\ \A k \in Kinds : ~MayVerify(job.gen, k)
    /\ job' = [job EXCEPT !.lease = FALSE]
    /\ UNCHANGED <<cfg, sched, tasks, base, engineVars, workerVars, events>>

\* It dies, and its lease lapses.
VerifierCrash ==
    /\ verifier /\ Event
    /\ verifier' = FALSE
    /\ job' = [job EXCEPT !.lease = FALSE]
    /\ UNCHANGED <<cfg, sched, tasks, base, engineVars, worker, cancelled>>

Background ==
    \/ \E k \in Kinds : requeueFailedTasks(k) \/ requeueRunningTasks(k) \/ VerifierMarks(k)
    \/ recoverPausedSyncJobs \/ VerifierClaims \/ VerifierReleases

Misfortune == (\E k \in Kinds : VerifierRefuses(k)) \/ VerifierCrash
=============================================================================

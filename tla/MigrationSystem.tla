--------------------------- MODULE MigrationSystem ---------------------------
(***************************************************************************)
(* One migration and everything that acts on it: API handlers, scheduler,  *)
(* indexers, worker processes with their threads, periodic jobs and        *)
(* verifiers.  They share the rows of MigrationStore and nothing else.     *)
(***************************************************************************)
EXTENDS MigrationControl, Scheduler, TransferWorkers, Verification

\* "fresh": just created.  "indexed": discovery has finished.  "abandoned": the
\* API process stopped during the first discovery.
CONSTANT Boots

ASSUME BootAssumption == Boots \subseteq {"fresh", "indexed", "abandoned"}

vars == <<storeVars, up, indexer, schedule, controlVars, workersVars, verifier>>

\* Every column and every piece of process memory keeps its type
TypeOK ==
    /\ StoreTypeOK
    /\ up \subseteq Procs
    /\ DiscoveryTypeOK
    /\ SchedulerTypeOK
    /\ ControlTypeOK
    /\ WorkersTypeOK
    /\ VerificationTypeOK

-----------------------------------------------------------------------------

\* createMigrationQuery with the column defaults of schema.sql
NewMigration(status, selected) ==
    [ status |-> status, selected |-> selected, threads |-> MaxThreads,
      discoveryComplete |-> FALSE, discoveryGeneration |-> 1, indexingLease |-> FALSE,
      failedRetryDone |-> FALSE, verificationGeneration |-> 0,
      verificationLease |-> FALSE, notificationGeneration |-> 0, unlisted |-> {} ]

\* handleStart: SCHEDULED with a schedule, or INDEXING and an indexer
InitFresh ==
    /\ \E S \in SUBSET Items :
         mig = NewMigration(IF HasSchedule THEN "SCHEDULED" ELSE "INDEXING", S)
    /\ tasks = [t \in Tasks |-> NoTask]
    /\ progress = NoProgress
    /\ IF HasSchedule
       THEN indexer = [i \in Indexers |-> IdleIndexer]
       ELSE \E i \in Indexers :
              indexer = [j \in Indexers |-> IF j = i THEN Started ELSE IdleIndexer]

\* The state discovery leaves behind: one task per selected path
InitIndexed ==
    /\ mig = [NewMigration("RUNNING", Items) EXCEPT !.discoveryComplete = TRUE]
    /\ tasks \in [Tasks -> {NoTask} \cup {NewTask(p) : p \in Items}]
    /\ \A p \in Items : Cardinality({t \in Tasks : tasks[t] = NewTask(p)}) = 1
    /\ progress = [NoProgress EXCEPT !.total = Cardinality(Items)]
    /\ indexer = [i \in Indexers |-> IdleIndexer]

\* A prefix of the work is inserted, and nobody goes on
InitAbandoned ==
    /\ mig = [NewMigration("INDEXING", Items) EXCEPT !.indexingLease = TRUE]
    /\ tasks \in [Tasks -> {NoTask} \cup {NewTask(p) : p \in Items}]
    /\ \A p \in Items : Cardinality({t \in Tasks : tasks[t] = NewTask(p)}) \in {0, 1}
    /\ progress = NoProgress
    /\ indexer = [i \in Indexers |-> IdleIndexer]

Init ==
    /\ \/ "fresh" \in Boots /\ InitFresh
       \/ "indexed" \in Boots /\ InitIndexed
       \/ "abandoned" \in Boots /\ InitAbandoned
    /\ indexErrors = {}
    /\ events = {}
    /\ faults = MaxFaults
    /\ up = Procs
    /\ SchedulerInit
    /\ ControlInit
    /\ WorkersInit
    /\ VerificationInit

\* A worker process dies with its threads, its loops and its verification pass
Crash(p) ==
    WorkerCrash(p) /\ VerifierCrash(p) /\ UNCHANGED <<indexer, schedule, controlVars>>

Restart(p) ==
    /\ \E S \in SUBSET RunningOf(p) : Start(p, S)
    /\ UNCHANGED <<indexer, schedule, controlVars, verifier>>

ApiCrash == SchedulerCrash /\ HandlersCrash /\ UNCHANGED <<up, workersVars, verifier>>

Next ==
    \/ DiscoveryNext /\ UNCHANGED <<up, schedule, controlVars, workersVars, verifier>>
    \/ SchedulerNext /\ UNCHANGED <<up, controlVars, workersVars, verifier>>
    \/ ControlNext /\ UNCHANGED <<up, schedule, workersVars, verifier>>
    \/ WorkersNext /\ UNCHANGED <<up, indexer, schedule, controlVars, verifier>>
    \/ VerificationNext /\ UNCHANGED <<up, indexer, schedule, controlVars, workersVars>>
    \/ \E p \in Procs : Crash(p) \/ Restart(p)
    \/ ApiCrash

Spec == Init /\ [][Next]_vars

\* Threads, indexers, passes and periodic jobs go on as long as they can, leases
\* without an owner expire, lost providers come back, and a process that died is
\* started again.  User requests, failures and crashes are never owed.
Fairness ==
    LET Worker_(A) == A /\ UNCHANGED <<faults, up, indexer, schedule, controlVars, verifier>>
        Indexer_(A) == A /\ UNCHANGED <<faults, up, schedule, controlVars, workersVars, verifier>>
        Scheduler_(A) == A /\ UNCHANGED <<faults, up, controlVars, workersVars, verifier>>
        Verifier_(A) == A /\ UNCHANGED <<faults, up, indexer, schedule, controlVars, workersVars>>
    IN  /\ \A w \in Workers : WF_vars(Worker_(WorkerStep(w)))
        /\ \A p \in Procs : WF_vars(Worker_(Reconciling(p)))
        /\ \A p \in Procs : WF_vars(Verifier_(VerifierStep(p)))
        /\ WF_vars(Worker_(Requeueing))
        /\ \A i \in Indexers : WF_vars(Indexer_(IndexerStep(i)))
        /\ WF_vars(Scheduler_(TickStep))
        /\ WF_vars(Scheduler_(RecoveryStep))
        /\ WF_vars(Scheduler_(IndexingLeaseExpires))
        /\ WF_vars(Verifier_(VerificationLeaseExpires))
        /\ WF_vars(RecoverConnectionLostMigration
                     /\ UNCHANGED <<up, schedule, workersVars, verifier>>)
        /\ \A p \in Procs : WF_vars(Restart(p))

FairSpec == Spec /\ Fairness

-----------------------------------------------------------------------------
(* Claims on tasks *)

\* A thread's epoch is one it was given, and no two threads hold the same claim
\* of the same task: DequeueSQL counts claim_epoch up inside the row lock.
ClaimsDistinct ==
    /\ \A w \in Workers : Busy(w) => worker[w].epoch \in 1..tasks[worker[w].task].claimEpoch
    /\ \A v, w \in Workers :
         /\ Busy(v) /\ Busy(w)
         /\ worker[v].task = worker[w].task
         /\ worker[v].epoch = worker[w].epoch
         => v = w

\* At most one thread can still write a task, however many were given it by
\* recovery, retry and dequeue since.
OneWriterPerTask ==
    \A v, w \in Workers :
      /\ Busy(v) /\ StillClaimed(v)
      /\ Busy(w) /\ StillClaimed(w)
      /\ worker[v].task = worker[w].task
      => v = w

Claims == INSTANCE FencedClaim WITH
    Resources <- Tasks,
    Clients   <- Workers,
    state     <- [t \in Tasks |-> CASE tasks[t].status = "RUNNING" -> "held"
                                    [] tasks[t].status \in {"COMPLETED", "SKIPPED"} -> "done"
                                    [] OTHER -> "free"],
    epoch     <- [t \in Tasks |-> tasks[t].claimEpoch],
    token     <- [w \in Workers |-> IF Busy(w) THEN {<<worker[w].task, worker[w].epoch>>}
                                    ELSE {}]

\* The task queue is a fenced claim: a task becomes COMPLETED or SKIPPED only
\* by the thread with the newest claim_epoch, across crash, requeue and retry.
TasksAreFencedClaims == Claims!ClaimSpec

\* A retry time belongs to a FAILED task only.  Anything else would be requeued
\* by the retry scheduler, or would keep the migration RUNNING for ever.
RetryOnlyWhenFailed == \A t \in Tasks : tasks[t].retry => tasks[t].status = "FAILED"

\* checksum_verified belongs to a COMPLETED task only: a row that is to be
\* transferred again must not still count as verified.
VerifiedOnlyWhenCompleted ==
    \A t \in Tasks : tasks[t].checksumVerified => tasks[t].status = "COMPLETED"

-----------------------------------------------------------------------------
(* Outcome of a migration *)

Arrived(p) ==
    \E t \in Tasks :
       /\ tasks[t].path = p
       /\ \/ tasks[t].status = "SKIPPED"
          \/ tasks[t].status = "COMPLETED" /\ tasks[t].checksumVerified

\* COMPLETED, without errors, means every selected path was transferred and
\* verified or was skipped: nothing is lost between listing and verification.
\* The exception is a path that could not be listed while that error could not be
\* recorded either, which indexer.Start only logs (CompletedHoldsEverything below).
CompletedLosesNothing ==
    mig.status = "COMPLETED" => \A p \in mig.selected \ mig.unlisted : Arrived(p)

\* Two tasks never transfer the same path into the target
EachPathOnce ==
    \A t, u \in Rows : tasks[t].path = tasks[u].path => t = u

\* The requests that may still overwrite a CANCELLED row read it before
Unfinished == {h \in Handlers : handler[h] \in {"pausing", "reindexing"}}

\* CANCELLED is final once the pauses and re-indexes that were on their way have
\* been served: neither a worker, an indexer, a verifier, a scheduler nor any later
\* request revives the migration.  (Those on their way do: handlePause and
\* handleReindex write without testing the status again.)
CancelledIsFinal ==
    [][mig.status = "CANCELLED" /\ Unfinished = {}
         => mig'.status = "CANCELLED" /\ Unfinished' = {}]_vars

\* A migration that nobody pauses or cancels ends, with no thread left behind:
\* requeue, retry, restart, lease expiry and reconciliation undo every crash and
\* failure, and behind COMPLETED no task is left over.  (Behind FAILED and
\* COMPLETED_WITH_ERRORS one may be: NothingIsLeftOver below.)
Settles == <>[](/\ mig.status \in Terminal
                /\ mig.status = "COMPLETED" => Active = {}
                /\ \A w \in Workers : ~Busy(w))

-----------------------------------------------------------------------------
(* Verification *)

\* No task that a pass has listed and may still mark is being copied again: the
\* mark would vouch for a file that was not there when the pass read the target
CheckedTasksAreAtRest ==
    \A p \in Procs : verifier[p].pc = "checking" /\ OwnsVerification(p) =>
        \A t \in verifier[p].todo : tasks[t].status \notin {"PENDING", "RUNNING"}

\* No two passes hold the same generation, and no pass holds a future one
PassesDistinct ==
    /\ \A p \in Procs : verifier[p].pc # "idle" =>
          verifier[p].generation \in 1..mig.verificationGeneration
    /\ \A p, q \in Procs :
          /\ verifier[p].pc # "idle" /\ verifier[q].pc # "idle"
          /\ verifier[p].generation = verifier[q].generation
          => p = q

-----------------------------------------------------------------------------
(* What comments and documents say and what the code does not do.  No run     *)
(* checks these formulas; the README gives the constants under which TLC      *)
(* finds a counterexample.                                                    *)

Finished == mig.status \in {"COMPLETED", "COMPLETED_WITH_ERRORS"}

\* migrations.go, reconcileMigrationProgress: once a migration has finished no
\* task is waiting, running or to be retried.  A statement that waited for the
\* row decides by older counts.
FinishedIsQuiescent == Finished => Active = {}

\* The same for every selected path, those whose listing error went unrecorded
\* included (indexer.go, RecordIndexingErrors)
CompletedHoldsEverything == mig.status = "COMPLETED" => \A p \in mig.selected : Arrived(p)

\* queue.go, RecoverAbandonedTasks "resets tasks for a dead worker": once the
\* migration is over no row stays RUNNING for ever
NothingIsLeftOver == <>[](mig.status \in Terminal /\ WithStatus({"RUNNING"}) = {})

\* 02-backend.md: "stale scheduled migrations are made due for a fresh SCHEDULED
\* attempt": a SCHEDULED migration does not stay SCHEDULED
ScheduledIsTriggered == mig.status = "SCHEDULED" ~> mig.status # "SCHEDULED"

\* verifier.go: a task with a wrong checksum is marked "FAILED for automatic
\* re-copy".  Of the FAILED tasks of a migration in VERIFYING those are the
\* ones without a failed transfer attempt.
MismatchIsRecopied ==
    \A t \in Tasks :
        (mig.status = "VERIFYING" /\ tasks[t].status = "FAILED" /\ tasks[t].attempts = 0)
            ~> tasks[t].status # "FAILED"

=============================================================================

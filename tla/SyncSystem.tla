----------------------------- MODULE SyncSystem -----------------------------
(***************************************************************************)
(* A sync job as a whole: its coordinators and workers, the API handlers   *)
(* of its owner, the schedule that starts its passes, the recovery of      *)
(* passes whose coordinator is gone, and the user who edits files on both  *)
(* sides meanwhile.                                                        *)
(***************************************************************************)
EXTENDS SyncWorkers

VARIABLES api,          \* the request in progress that has a second step
          made,         \* versions so far
          superseded,   \* versions the user replaced or deleted
          raced,        \* versions made while a pass that had already looked was at work
          held          \* an owner's pause or a suspension is in force

userVars == <<made, superseded, raced>>
vars == <<rowVars, engineVars, workerVars, api, userVars, held, events>>

\* A new job, its first pass due, over what the two sides hold: a file on one
\* of them, or one on each.
Init ==
    /\ job = [st |-> "IDLE", gen |-> 0, lease |-> FALSE, last |-> "none"]
    /\ cfg \in Configs
    /\ sched = [active |-> TRUE, due |-> TRUE, changed |-> FALSE, tick |-> "idle"]
    /\ tasks = [k \in Kinds |-> NoTask]
    /\ base = [s \in Sides |-> Nothing]
    /\ coord = [g \in Gens |-> NoCoordinator]
    /\ lock = 0
    /\ \E src \in {Absent, 1}, tgt \in {Absent, 2} :
         /\ src # Absent \/ tgt # Absent
         /\ disk = [s \in Sides |-> IF s = "source" THEN [file |-> src, dir |-> TRUE]
                                    ELSE [file |-> tgt, dir |-> tgt # Absent]]
    /\ copies = {}
    /\ worker = [w \in Workers |-> NoWork]
    /\ cancelled = {} /\ verifier = TRUE
    /\ api = "idle"
    /\ made = 2 /\ superseded = {} /\ raced = {} /\ held = FALSE /\ events = 0

KeepHistory == UNCHANGED userVars
KeepUser == UNCHANGED <<userVars, held>>

\* The versions that are anywhere.
Live == ({disk[s].file : s \in Sides} \cup copies) \ {Absent}

-----------------------------------------------------------------------------
(* Handlers *)

\* StartSyncPass
StartSyncPass ==
    /\ ClaimSyncJobPass
    /\ coord' = [coord EXCEPT ![job.gen + 1].pc = "lock"]

HandleStartSync ==
    /\ Event /\ StartSyncPass
    /\ UNCHANGED <<cfg, sched, tasks, base, lock, disk, copies, workerVars, api, held>> /\ KeepHistory

HandlePauseSync ==
    /\ Event /\ PauseSyncJobAndDeactivateSchedules
    /\ cancelled' = cancelled \cup ({job.gen} \ {0})
    /\ held' = TRUE
    /\ UNCHANGED <<cfg, base, engineVars, worker, verifier, api>> /\ KeepHistory

\* WaitForPassDrain, the transaction, then a first attempt to start.
HandleResumeSync ==
    /\ Event /\ api = "idle" /\ lock = 0
    /\ ResumeSyncJobAndReactivateSchedules
    /\ api' = "resuming" /\ held' = FALSE
    /\ UNCHANGED <<cfg, tasks, base, engineVars, workerVars>> /\ KeepHistory

ResumeStarts ==
    /\ api = "resuming" /\ api' = "idle"
    /\ IF CanClaim THEN StartSyncPass ELSE UNCHANGED <<job, coord>>
    /\ UNCHANGED <<cfg, sched, tasks, base, lock, disk, copies, workerVars, events>> /\ KeepUser

\* The passes are cancelled before the rows go.
HandleDeleteSync ==
    /\ Event /\ api = "idle" /\ job.st # "GONE"
    /\ api' = "deleting" /\ cancelled' = cancelled \cup 1..job.gen
    /\ UNCHANGED <<rowVars, engineVars, worker, verifier, held>> /\ KeepHistory

DeleteRows ==
    /\ api = "deleting" /\ api' = "idle"
    /\ DeleteSyncJobCascade
    /\ UNCHANGED <<cfg, engineVars, workerVars, events>> /\ KeepUser

\* What is there when the settings change is at the mercy of both.
HandleUpdateSyncScope ==
    /\ Event /\ \E c \in Configs : UpdateSyncJobScope(c)
    /\ superseded' = IF cfg' = cfg THEN superseded ELSE superseded \cup Live
    /\ UNCHANGED <<job, sched, tasks, engineVars, workerVars, api, held, made, raced>>

HandleUpdateSyncSchedule ==
    /\ Event /\ UpdateSyncJobInterval
    /\ UNCHANGED <<job, cfg, tasks, base, engineVars, workerVars, api, held>> /\ KeepHistory

SuspendUser ==
    /\ Event /\ SuspendSyncs
    /\ cancelled' = cancelled \cup 1..job.gen
    /\ held' = (job'.st = "PAUSED" \/ held)
    /\ UNCHANGED <<cfg, base, engineVars, worker, verifier, api>> /\ KeepHistory

Handlers ==
    \/ HandleStartSync \/ HandlePauseSync \/ HandleResumeSync \/ HandleDeleteSync
    \/ HandleUpdateSyncScope \/ HandleUpdateSyncSchedule \/ SuspendUser

\* CancelPass, CancelPassForGeneration: the coordinator's context ends.
DeliverCancel(g) ==
    /\ g \in cancelled /\ Registered(g) /\ ~coord[g].stop
    /\ coord' = Stopped({g})
    /\ UNCHANGED <<rowVars, lock, disk, copies, workerVars, api, events>> /\ KeepUser

-----------------------------------------------------------------------------
(* The schedule *)

isJobActiveStatus == job.st \in Working \cup {"PAUSED_CONNECTION_LOSS"}

Tick(from, to) == sched.tick = from /\ sched' = [sched EXCEPT !.tick = to]
KeepRest == UNCHANGED <<cfg, tasks, base, lock, disk, copies, workerVars, api, events>> /\ KeepUser

TickReads ==
    /\ sched.tick = "idle" /\ sched.active /\ sched.due /\ job.gen < MaxGen
    /\ sched' = [sched EXCEPT !.tick = IF isJobActiveStatus THEN "advancing" ELSE "triggering", !.changed = FALSE]
    /\ UNCHANGED <<job, coord>> /\ KeepRest

TriggerSync ==
    /\ Tick("triggering", IF isJobActiveStatus THEN "advancing"
                          ELSE IF job.st \in {"IDLE", "FAILED"} THEN "claiming" ELSE "deactivating")
    /\ UNCHANGED <<job, coord>> /\ KeepRest

TriggerClaims ==
    /\ Tick("claiming", "advancing")
    /\ IF CanClaim THEN StartSyncPass ELSE UNCHANGED <<job, coord>>
    /\ KeepRest

\* UpdateNextRunAtIfUnchanged
TickAdvances ==
    /\ sched.tick = "advancing"
    /\ sched' = [sched EXCEPT !.tick = "idle", !.due = IF sched.changed THEN @ ELSE FALSE]
    /\ UNCHANGED <<job, coord>> /\ KeepRest

DeactivateSchedule ==
    /\ sched.tick = "deactivating"
    /\ sched' = [sched EXCEPT !.tick = "idle", !.active = FALSE]
    /\ UNCHANGED <<job, coord>> /\ KeepRest

\* A bound: the next run comes up between passes.
IntervalPasses ==
    /\ sched.active /\ ~sched.due /\ job.st \notin Working
    /\ sched' = [sched EXCEPT !.due = TRUE]
    /\ UNCHANGED <<job, coord>> /\ KeepRest

ScheduleStep == TickReads \/ TriggerSync \/ TriggerClaims \/ TickAdvances \/ DeactivateSchedule

\* Nobody has touched an open task for ten minutes.
Neglected(k) ==
    /\ ~Attended(k)
    /\ SlowWorkers \/ ~(Claimable(tasks, k) \/ Retryable(k) \/ tasks[k].st = "RUNNING" \/ SkipDependents[k] # tasks[k])

\* recoverOrphanedSyncJobs, half an hour after the row last changed.  A pass
\* that indexes ends by its own deadline; one that still waits for the lock, or
\* for tasks nobody touches, does not.  A verifier that runs touches the row of
\* a pass in verification whenever it claims the lease.
Stale ==
    \/ job.st = "INDEXING" /\ coord[job.gen].pc \in (IF lock = 0 THEN {"done"} ELSE {"done", "lock"})
    \/ job.st = "RUNNING" /\ \A k \in Kinds : tasks[k].st \in {"PENDING", "RUNNING", "RETRY"} => Neglected(k)
    \/ job.st = "VERIFYING" /\ ~job.lease /\ ~verifier

recoverOrphanedSyncJobs ==
    /\ Stale
    /\ job' = [job EXCEPT !.st = "IDLE", !.lease = FALSE]
    /\ sched' = IF sched.active THEN [sched EXCEPT !.due = TRUE, !.changed = TRUE] ELSE sched
    /\ UNCHANGED coord /\ KeepRest

\* The API process dies with its coordinators, their locks and its scheduler.
ApiCrash ==
    /\ Event
    /\ coord' = [g \in Gens |-> IF coord[g].pc = "none" THEN coord[g] ELSE [NoCoordinator EXCEPT !.pc = "done"]]
    /\ lock' = 0
    /\ sched' = [sched EXCEPT !.tick = "idle"]
    /\ api' = "idle"
    /\ UNCHANGED <<job, cfg, tasks, base, disk, copies, workerVars>> /\ KeepUser

\* It shuts down: every coordinator's context ends first.
ApiShutdown ==
    /\ Event
    /\ coord' = Stopped(Gens)
    /\ coord' # coord
    /\ UNCHANGED <<rowVars, lock, disk, copies, workerVars, api>> /\ KeepUser

-----------------------------------------------------------------------------
(* The user's files *)

AtWork(s) ==
    \/ \E g \in Gens : Scanned(g, s)
    \/ \E w \in Workers : worker[w].pc # "idle"
    \/ job.st = "RUNNING" /\ \E k \in Kinds : Open(job.gen, k)
KeepSystem == UNCHANGED <<rowVars, coord, lock, workerVars, api, held>>

EditFile(s) ==
    /\ Event /\ made < MaxVersion
    /\ made' = made + 1
    /\ disk' = [disk EXCEPT ![s] = [file |-> made', dir |-> TRUE]]
    /\ superseded' = superseded \cup {disk[s].file}
    /\ raced' = IF AtWork(s) THEN raced \cup {made'} ELSE raced
    /\ UNCHANGED copies /\ KeepSystem

DeleteFileOf(s) ==
    /\ Event /\ disk[s].file # Absent
    /\ disk' = [disk EXCEPT ![s].file = Absent]
    /\ superseded' = superseded \cup {disk[s].file}
    /\ UNCHANGED <<copies, made, raced>> /\ KeepSystem

DeleteDirectoryOf(s) ==
    /\ Event /\ disk[s].dir /\ disk[s].file = Absent /\ (s = "target" => copies = {})
    /\ disk' = [disk EXCEPT ![s].dir = FALSE]
    /\ UNCHANGED <<copies, made, superseded, raced>> /\ KeepSystem

UserEdits == \E s \in Sides : EditFile(s) \/ DeleteFileOf(s) \/ DeleteDirectoryOf(s)

-----------------------------------------------------------------------------
KeepApi == UNCHANGED api /\ KeepUser
CoordinatorNext(g) == CoordinatorStep(g) /\ UNCHANGED workerVars /\ KeepApi
WorkerNext(w) == WorkerStep(w) /\ KeepApi

Next ==
    \/ \E g \in Gens : CoordinatorNext(g) \/ DeliverCancel(g)
    \/ \E w \in Workers : WorkerNext(w) \/ (WorkerFault(w) /\ KeepApi)
    \/ (Background \/ Misfortune) /\ KeepApi
    \/ Handlers \/ ResumeStarts \/ DeleteRows
    \/ ScheduleStep \/ IntervalPasses \/ recoverOrphanedSyncJobs
    \/ ApiCrash \/ ApiShutdown \/ UserEdits

Spec == Init /\ [][Next]_vars

\* Coordinators, workers, the periodic jobs and the scheduler keep running, a
\* cancelled context is noticed, and a verifier decides about every task.
FairSpec ==
    /\ Spec
    /\ \A g \in Gens : WF_vars(CoordinatorNext(g)) /\ WF_vars(DeliverCancel(g))
    /\ \A w \in Workers : WF_vars(WorkerNext(w)) /\ WF_vars(CancelWork(w) /\ KeepApi)
    /\ \A k \in Kinds : WF_vars((requeueFailedTasks(k) \/ requeueRunningTasks(k) \/ VerifierMarks(k)) /\ KeepApi)
    /\ WF_vars(recoverPausedSyncJobs /\ KeepApi) /\ WF_vars(VerifierClaims /\ KeepApi) /\ WF_vars(recoverOrphanedSyncJobs)
    /\ WF_vars(ScheduleStep) /\ WF_vars(ResumeStarts) /\ WF_vars(DeleteRows)

-----------------------------------------------------------------------------
\* Rows, baseline, coordinators, workers and the two sides keep their types.
TypeOK ==
    /\ StoreTypeOK /\ EngineTypeOK /\ WorkerTypeOK
    /\ api \in {"idle", "resuming", "deleting"}
    /\ made \in 0..MaxVersion
    /\ superseded \subseteq 0..MaxVersion /\ raced \subseteq 0..MaxVersion /\ held \in BOOLEAN

\* The versions that size and time do not tell from every other one.
Mistakable == {p[1] : p \in {q \in Alike : q[1] # q[2]}}

\* The same version, or two that a chain of comparisons by size and time took
\* for one.
Same(by, u, v) ==
    \/ u = v
    \/ by = "times" /\ \A class \in SUBSET (0..MaxVersion) :
                         u \in class /\ (\A p \in Alike : p[1] \in class => p[2] \in class) => v \in class

(***************************************************************************)
(* A two-way sync that renames conflicts loses no version: one that was on *)
(* a side and is nowhere any more was replaced or deleted by the user, or  *)
(* had been made while a pass that had already looked was at work, or is   *)
(* one of two of equal size and time between providers that show no more.  *)
(* Failed tasks, crashes, cancelled passes, workers that lost their claim  *)
(* and stale baselines do not change that (the delta loop of runSyncPass,  *)
(* conflict_copy in processSyncTask).                                      *)
(***************************************************************************)
NoEditLost ==
    [][cfg.two /\ cfg.strategy = "RENAME" =>
         Live \ Live' \subseteq superseded' \cup raced \cup (IF cfg.by = "times" THEN Mistakable ELSE {})]_vars

(***************************************************************************)
(* A directory that a pass skips because its ETag is current holds what    *)
(* the baseline says: also after a task failed, was skipped or could not   *)
(* be reconciled, when the baseline keeps an older version                 *)
(* (listFiles, invalidateProtectedPathDirectoryETags).                     *)
(***************************************************************************)
CachedSubtreeIsTrue ==
    \A s \in Sides : disk[s].dir /\ base[s].dir /\ base[s].tag = disk[s].file => base[s].file = disk[s].file

(***************************************************************************)
(* While a pass looks at the two sides and acts on what it saw, no worker  *)
(* that holds its claim still reads or writes for an earlier pass          *)
(* (drainRemainingTasks: "the predecessor cannot change the target after   *)
(* this pass observes it").  A worker whose claim was taken away, by a     *)
(* suspension, a deletion or a recovery, is not waited for: a transfer     *)
(* ends at its next heartbeat, another task may still write.               *)
(***************************************************************************)
PassesDoNotOverlap ==
    \A g \in Gens, w \in Workers :
        Scanned(g, "source") /\ worker[w].pc \in {"read", "write"} /\ Holds(w) => worker[w].gen = g

(***************************************************************************)
(* The baseline of a two-way sync that renames conflicts never holds two   *)
(* versions of a file that its comparisons tell apart: such a difference   *)
(* would count as seen and never be carried over (readFinalTaskOutcomes,   *)
(* syncStateChanges, isFileMatchingTarget).                                *)
(***************************************************************************)
BaselineAgrees ==
    cfg.two /\ cfg.strategy = "RENAME" /\ raced = {} /\ Absent \notin {base[s].file : s \in Sides} =>
        Same(cfg.by, base["source"].file, base["target"].file)

-----------------------------------------------------------------------------
(* What comments and documents say and what the code does not do.  No run  *)
(* checks these formulas; the README gives the constants under which TLC   *)
(* finds a counterexample.                                                 *)

(***************************************************************************)
(* While a pass acts on what it saw, nobody works for an earlier one,      *)
(* whatever became of the claim (drainRemainingTasks: "the predecessor     *)
(* cannot change the target after this pass observes it").                 *)
(***************************************************************************)
NobodyWorksForAnEarlierPass ==
    \A g \in Gens, w \in Workers :
        Scanned(g, "source") /\ worker[w].pc \in {"read", "write"} /\ MayAct(w) => worker[w].gen = g

(***************************************************************************)
(* A job that its owner paused, or that was paused with the account, stays *)
(* paused until it is resumed (PauseSyncJobAndDeactivateSchedules; for     *)
(* SuspendUser, "recovery must not automatically resume this job").        *)
(***************************************************************************)
PauseIsKept == held => job.st \in {"PAUSED", "GONE"}

(***************************************************************************)
(* A claimed pass gets its turn: its coordinator does not wait for ever    *)
(* for the lock of an earlier pass (lockPass; a recovered pass begins      *)
(* within a scheduler interval plus claiming and indexing).                *)
(***************************************************************************)
ClaimedPassGetsItsTurn == \A g \in Gens : coord[g].pc = "lock" ~> coord[g].pc # "lock"

(***************************************************************************)
(* A pass does not stay at work for ever: when its coordinator dies, in    *)
(* whatever phase, recovery puts the job back to IDLE                      *)
(* (recoverOrphanedSyncJobs).                                              *)
(***************************************************************************)
PassEnds == job.st \in Working ~> job.st \notin Working
=============================================================================

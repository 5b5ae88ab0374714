---------------------------- MODULE BackupSystem ----------------------------
(***************************************************************************)
(* A backup job with its coordinators, its repository, the API, the        *)
(* scheduler and the restores that read from it.                           *)
(***************************************************************************)
EXTENDS BackupControl

vars == <<storeVars, coordVars, controlVars>>

Init == StoreInit /\ CoordInit /\ ControlInit

\* Steps of the coordinators leave the bounds and the scheduler alone.
CoordinatorStep(c) == (RunNext(c) \/ MaintNext(c) \/ Heartbeat(c) \/ Crash(c)) /\ UNCHANGED controlVars

TimePasses ==
    /\ \/ \E g \in Gens : RunGoesSilent(g)
       \/ \E m \in MaintIds : CheckGoesSilent(m) \/ \E p \in PackIds : TargetLapses(m, p)
    /\ UNCHANGED controlVars

Users ==
    \/ HandleRunBackup \/ HandlePauseBackup \/ HandleResumeBackup \/ HandleDeleteBackup
    \/ HandleCreateBackupVerify \/ HandleCancelBackupVerify \/ SuspendUser \/ ReactivateUser

SchedulerStep(s) == ProcessSchedule(s) \/ TriggerBackup(s) \/ AdvanceSchedule(s) \/ DeactivateSchedule(s)

Environment == ScheduleBecomesDue \/ PlanRestore \/ FinishRestore \/ SourceChanges \/ PackDestroyed

Next ==
    \/ \E c \in Coords : CoordinatorStep(c)
    \/ TimePasses
    \/ Users
    \/ \E s \in Schedulers : SchedulerStep(s) \/ SchedulerDies(s)
    \/ Environment

Spec == Init /\ [][Next]_vars

\* Run loops of a live worker never stop, ten minutes pass for a silent run,
\* and the scheduler loop of an API process goes on.
FairSpec ==
    /\ Spec
    /\ \A c \in Coords : WF_vars((RunNext(c) \/ MaintNext(c)) /\ UNCHANGED controlVars)
    /\ \A g \in Gens : WF_vars(~Executing(g) /\ RunGoesSilent(g) /\ UNCHANGED controlVars)
    /\ \A s \in Schedulers : WF_vars(SchedulerStep(s))

-----------------------------------------------------------------------------
\* Rows, repository objects, coordinator memory and schedule keep their types.
TypeOK == StoreTypeOK /\ CoordTypeOK /\ ControlTypeOK

(***************************************************************************)
(* A run that is queued or at work is the run of the job's current         *)
(* generation and the job shows its state: claiming, pausing, deleting,    *)
(* suspending and recovery move both rows together, so two runs are never  *)
(* open for one job (ClaimBackupJobPassContext).                           *)
(***************************************************************************)
OpenRunIsCurrent ==
    \A g \in Gens : runs[g].state \in Queueing => job.gen = g /\ job.status = runs[g].state

(***************************************************************************)
(* Every block of a snapshot the user can see is stored in a READY pack    *)
(* whose object exists, unless somebody else destroyed the object, or a    *)
(* retention that deleted it never came to mark the row (applyRetention):  *)
(* deduplication, retention, compaction and crashes anywhere else never    *)
(* break a published snapshot.                                             *)
(***************************************************************************)
VisibleSnapshotsReadable ==
    \A g \in Gens : snaps[g].state \in Visible =>
        \A b \in Linked(g) : /\ blocks[b] # NoPack /\ packs[blocks[b]] = "READY"
                             /\ blocks[b] \in remote \cup lost \cup unmarked

(***************************************************************************)
(* A visible snapshot was published by its own run and has everything the  *)
(* run found, or says that it is PARTIAL: a run that was paused, cancelled *)
(* or recovered publishes nothing (PublishBackupSnapshotAndFinalize).      *)
(***************************************************************************)
PublishedIsComplete ==
    \A g \in Gens : snaps[g].state \in Visible =>
        /\ runs[g].state = IF snaps[g].state = "PARTIAL" THEN "PARTIAL" ELSE "COMPLETED"
        /\ snaps[g].state = "READY" => snaps[g].links = snaps[g].scanned

(***************************************************************************)
(* A run that ended keeps the outcome it was given: a coordinator whose    *)
(* run was paused, cancelled with its job, suspended or recovered cannot   *)
(* finish, fail or publish it later (completeBackupRunContext,             *)
(* PublishBackupSnapshotAndFinalizeContext).                               *)
(***************************************************************************)
OutcomeIsFinal ==
    [][\A g \in Gens : runs[g].state \notin Queueing \cup {"NONE"} =>
                       runs'[g].state = runs[g].state \/ job'.status = "GONE"]_vars

(***************************************************************************)
(* A run that was claimed ends: whatever crashes, a queued or executing    *)
(* run reaches a terminal state and no longer blocks the job.              *)
(***************************************************************************)
EveryRunEnds == \A g \in Gens : runs[g].state \in Queueing ~> runs[g].state \notin Queueing

(***************************************************************************)
(* A schedule that is due is served: the row is advanced or switched off,  *)
(* and its job does not stay due for ever (processSchedule).               *)
(***************************************************************************)
DueScheduleIsServed == schedule.active /\ schedule.due ~> ~(schedule.active /\ schedule.due)

-----------------------------------------------------------------------------
(* What comments and documents say and what the code does not do.  The     *)
(* first formula has a run of its own, which finds it violated; for the    *)
(* others the README gives the constants under which TLC finds a           *)
(* counterexample.                                                         *)

(***************************************************************************)
(* A snapshot the user can see has the objects of its packs, unless        *)
(* somebody else destroyed them: it stays PUBLISHING until its packs are   *)
(* verified (docs/service_comparison.md:51), and retention unlinks         *)
(* orphaned packs only (docs/01-architecture.md:134).                      *)
(***************************************************************************)
ReadableUnlessDestroyed ==
    \A g \in Gens : snaps[g].state \in Visible => SnapshotPacks(g) \subseteq remote \cup lost

(***************************************************************************)
(* While a restore is running, the packs it has pinned stay on the target  *)
(* (comment of PlanRestoreRunContext; docs/06-database.md).                *)
(***************************************************************************)
PinnedPacksStay == pins \subseteq remote \cup lost

(***************************************************************************)
(* A snapshot is marked DAMAGED only when one of its packs really is gone  *)
(* or broken (MarkBackupPackDamagedContext).                               *)
(***************************************************************************)
DamageIsConfirmed ==
    \A g \in Gens : snaps[g].state = "DAMAGED" => SnapshotPacks(g) \ remote # {}

(***************************************************************************)
(* A repository check that is COMPLETED has looked at every pack it copied *)
(* (ClaimNextBackupVerifyTargetContext).                                   *)
(***************************************************************************)
CompletedCheckLookedAtAll ==
    \A m \in MaintIds : maint[m].kind = "VERIFY" /\ maint[m].state = "COMPLETED" =>
        \A p \in PackIds : targets[m][p] \notin {"PENDING", "RUNNING", "LAPSED"}
=============================================================================

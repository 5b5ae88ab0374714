--------------------------- MODULE BackupControl ---------------------------
(***************************************************************************)
(* What starts and stops backup work from outside the coordinator: the API *)
(* handlers of backup_handlers.go, the scheduler's backup branch, the      *)
(* suspension of the owner, and the plan and the end of a restore, which   *)
(* pin packs of the repository.                                            *)
(***************************************************************************)
EXTENDS BackupMaintenance

CONSTANTS
    Schedulers,   \* API processes, each with a scheduler loop
    MaxRequests,  \* bound: requests of users in one behaviour
    MaxTicks,     \* bound: times the schedule becomes due
    MaxChanges    \* bound: changes of the source tree

ASSUME ControlAssumption == MaxRequests \in Nat /\ MaxTicks \in Nat /\ MaxChanges \in Nat

VARIABLES
    sched,      \* the local state of each scheduler loop
    suspended,  \* users.active is FALSE for the owner
    requests,   \* requests left (a bound)
    ticks,      \* times left the schedule may become due (a bound)
    changes     \* changes left of the source (a bound)

controlVars == <<sched, suspended, requests, ticks, changes>>

SchedulerLoop == [pc : {"idle", "trigger", "advance", "deactivate"}, key : Nat]

ControlTypeOK ==
    /\ sched \in [Schedulers -> SchedulerLoop] /\ suspended \in BOOLEAN
    /\ requests \in 0..MaxRequests /\ ticks \in 0..MaxTicks /\ changes \in 0..MaxChanges

ControlInit ==
    /\ sched = [s \in Schedulers |-> [pc |-> "idle", key |-> 0]]
    /\ suspended = FALSE /\ requests = MaxRequests /\ ticks = MaxTicks /\ changes = MaxChanges

\* A request of the signed-in owner, who must not be suspended.
Request ==
    /\ requests > 0 /\ requests' = requests - 1 /\ ~suspended
    /\ UNCHANGED <<coordVars, sched, suspended, ticks, changes>>

CancelledRuns == [g \in Gens |-> IF runs[g].state \in Queueing
                                 THEN [runs[g] EXCEPT !.state = "CANCELLED"] ELSE runs[g]]

-----------------------------------------------------------------------------
(* API handlers *)

HandleRunBackup ==
    /\ Request
    /\ ClaimBackupJobPass(0)
    /\ UNCHANGED <<snaps, packs, blocks, maint, targets, pins, schedule, remote, source, lost, unmarked, events, faults>>

\* Mutant: pausing changes the job and leaves its run alone.
PauseJobOnly ==
    /\ Request
    /\ job.status \in Queueing \cup {"IDLE", "FAILED"}
    /\ job' = [job EXCEPT !.status = "PAUSED"]
    /\ schedule' = [schedule EXCEPT !.active = FALSE]
    /\ UNCHANGED <<runs, snaps, packs, blocks, maint, targets, pins, remote, source, lost, unmarked, events, faults>>

HandlePauseBackup ==
    /\ Request
    /\ job.status \in Queueing \cup {"IDLE", "FAILED"}
    /\ job' = [job EXCEPT !.status = "PAUSED"]
    /\ runs' = CancelledRuns
    /\ schedule' = [schedule EXCEPT !.active = FALSE]
    /\ UNCHANGED <<snaps, packs, blocks, maint, targets, pins, remote, source, lost, unmarked, events, faults>>

HandleResumeBackup ==
    /\ Request
    /\ job.status = "PAUSED"
    /\ job' = [job EXCEPT !.status = "IDLE"]
    /\ schedule' = [active |-> TRUE, due |-> FALSE, key |-> schedule.key + 1]
    /\ UNCHANGED <<runs, snaps, packs, blocks, maint, targets, pins, remote, source, lost, unmarked, events, faults>>

\* RequestBackupRepositoryDeletion
HandleDeleteBackup ==
    /\ Request
    /\ job.status # "GONE" /\ ~job.deleting /\ FreeMaint # {}
    /\ job' = [job EXCEPT !.status = "DELETING", !.deleting = TRUE]
    /\ schedule' = [schedule EXCEPT !.active = FALSE]
    /\ runs' = CancelledRuns
    /\ snaps' = [g \in Gens |-> IF snaps[g].state \in Visible \cup {"PUBLISHING"}
                                THEN [snaps[g] EXCEPT !.state = "EXPIRED"] ELSE snaps[g]]
    /\ maint' = Inserted("DELETE_REPOSITORY")
    /\ UNCHANGED <<packs, blocks, targets, pins, remote, source, lost, unmarked, events, faults>>

HandleCreateBackupVerify ==
    /\ Request
    /\ CreateBackupVerify
    /\ UNCHANGED <<job, runs, snaps, packs, blocks, targets, pins, schedule, remote, source, lost, unmarked, events, faults>>

HandleCancelBackupVerify ==
    /\ Request
    /\ \E m \in MaintIds : CancelBackupVerify(m)
    /\ UNCHANGED <<job, runs, snaps, packs, blocks, targets, pins, schedule, remote, source, lost, unmarked, events, faults>>

\* An administrator suspends the owner: SuspendUser, and later UpdateUserActive.
SuspendUser ==
    /\ requests > 0 /\ requests' = requests - 1
    /\ ~suspended /\ suspended' = TRUE
    /\ job' = [job EXCEPT !.status = IF @ \in Queueing THEN "PAUSED" ELSE @]
    /\ runs' = CancelledRuns
    /\ maint' = [m \in MaintIds |-> IF maint[m].state \in Open
                                    THEN [maint[m] EXCEPT !.state = "CANCELLED"] ELSE maint[m]]
    /\ pins' = {}
    /\ schedule' = [schedule EXCEPT !.active = FALSE]
    /\ UNCHANGED <<coordVars, sched, ticks, changes, snaps, packs, blocks, targets, remote, source, lost, unmarked, events, faults>>

ReactivateUser ==
    /\ suspended /\ suspended' = FALSE
    /\ schedule' = [schedule EXCEPT !.active = TRUE]
    /\ UNCHANGED <<coordVars, sched, requests, ticks, changes, job, runs, snaps, packs, blocks, maint, targets, pins,
                   remote, source, lost, unmarked, events, faults>>

-----------------------------------------------------------------------------
(* The scheduler *)

ScheduleBecomesDue ==
    /\ ticks > 0 /\ ticks' = ticks - 1
    /\ schedule.active /\ ~schedule.due
    /\ schedule' = [schedule EXCEPT !.due = TRUE]
    /\ UNCHANGED <<coordVars, sched, suspended, requests, changes, job, runs, snaps, packs, blocks, maint, targets, pins,
                   remote, source, lost, unmarked, events, faults>>

Step(s, pc, key) == sched' = [sched EXCEPT ![s] = [pc |-> pc, key |-> key]]

\* processSchedule reads a due row and skips a job that is at work.
ProcessSchedule(s) ==
    /\ sched[s].pc = "idle" /\ schedule.active /\ schedule.due
    /\ Step(s, IF job.status \in Queueing THEN "advance" ELSE "trigger", schedule.key)
    /\ UNCHANGED <<coordVars, suspended, requests, ticks, changes, storeVars>>

\* Mutant: a due time that already has its run is not treated as triggered.
TriggerRepeats(s) ==
    /\ sched[s].pc = "trigger"
    /\ \/ ClaimBackupJobPass(sched[s].key) /\ Step(s, "advance", sched[s].key)
       \/ /\ ~ClaimBlocked
          /\ ClaimOverlap \/ ClaimDuplicate(sched[s].key)
          /\ Step(s, "idle", 0) /\ UNCHANGED <<job, runs>>
       \/ ClaimBlocked /\ Step(s, "deactivate", sched[s].key) /\ UNCHANGED <<job, runs>>
    /\ UNCHANGED <<coordVars, suspended, requests, ticks, changes, snaps, packs, blocks, maint, targets, pins, schedule,
                   remote, source, lost, unmarked, events, faults>>

\* triggerBackup: a job that cannot run makes the caller switch the schedule
\* off; a claim that overlaps or repeats counts as triggered.
TriggerBackup(s) ==
    /\ sched[s].pc = "trigger"
    /\ \/ ClaimBackupJobPass(sched[s].key) /\ Step(s, "advance", sched[s].key)
       \/ /\ ClaimOverlap \/ ClaimDuplicate(sched[s].key)
          /\ ~ClaimBlocked
          /\ Step(s, "advance", sched[s].key) /\ UNCHANGED <<job, runs>>
       \/ ClaimBlocked /\ Step(s, "deactivate", sched[s].key) /\ UNCHANGED <<job, runs>>
    /\ UNCHANGED <<coordVars, suspended, requests, ticks, changes, snaps, packs, blocks, maint, targets, pins, schedule,
                   remote, source, lost, unmarked, events, faults>>

\* UpdateNextRunAtIfUnchanged
AdvanceSchedule(s) ==
    /\ sched[s].pc = "advance"
    /\ schedule' = IF schedule.key = sched[s].key
                   THEN [schedule EXCEPT !.due = FALSE, !.key = @ + 1] ELSE schedule
    /\ Step(s, "idle", 0)
    /\ UNCHANGED <<coordVars, suspended, requests, ticks, changes, job, runs, snaps, packs, blocks, maint, targets, pins,
                   remote, source, lost, unmarked, events, faults>>

DeactivateSchedule(s) ==
    /\ sched[s].pc = "deactivate"
    /\ schedule' = [schedule EXCEPT !.active = FALSE]
    /\ Step(s, "idle", 0)
    /\ UNCHANGED <<coordVars, suspended, requests, ticks, changes, job, runs, snaps, packs, blocks, maint, targets, pins,
                   remote, source, lost, unmarked, events, faults>>

\* The API process dies between the claim of a pass and the update of the row;
\* the row is still due when the process is back.
SchedulerDies(s) ==
    /\ sched[s].pc # "idle"
    /\ Fault
    /\ Step(s, "idle", 0)
    /\ UNCHANGED <<coordVars, suspended, requests, ticks, changes, job, runs, snaps, packs, blocks, maint, targets, pins,
                   schedule, remote, source, lost, unmarked, events>>

-----------------------------------------------------------------------------
(* Restores, as far as the repository sees them, and the environment *)

\* PlanRestoreRun locks the snapshot and the job and pins every pack it needs.
PlanRestore ==
    /\ pins = {} /\ requests > 0 /\ requests' = requests - 1
    /\ ~job.deleting /\ job.status # "GONE"
    /\ \E g \in Gens : /\ snaps[g].state \in Visible
                       /\ \A b \in Linked(g) : FindBackupBlock(b)
                       /\ SnapshotPacks(g) # {}
                       /\ pins' = SnapshotPacks(g)
    /\ UNCHANGED <<coordVars, sched, suspended, ticks, changes, job, runs, snaps, packs, blocks, maint, targets, schedule,
                   remote, source, lost, unmarked, events, faults>>

\* The restore run is finished and its pins are deleted.
FinishRestore ==
    /\ pins # {} /\ pins' = {}
    /\ UNCHANGED <<coordVars, controlVars, job, runs, snaps, packs, blocks, maint, targets, schedule,
                   remote, source, lost, unmarked, events, faults>>

\* The user edits, adds or deletes a file.
SourceChanges ==
    /\ changes > 0 /\ changes' = changes - 1
    /\ \E f \in Files, x \in Content : x # source[f] /\ source' = [source EXCEPT ![f] = x]
    /\ UNCHANGED <<coordVars, sched, suspended, requests, ticks, job, runs, snaps, packs, blocks, maint, targets, pins,
                   schedule, remote, lost, unmarked, events, faults>>

\* Someone other than Clumoove deletes or corrupts a pack on the target.
PackDestroyed ==
    /\ Fault
    /\ \E p \in remote : remote' = remote \ {p} /\ lost' = lost \cup {p}
    /\ UNCHANGED <<coordVars, controlVars, job, runs, snaps, packs, blocks, maint, targets, pins, schedule,
                   source, unmarked, events>>
=============================================================================

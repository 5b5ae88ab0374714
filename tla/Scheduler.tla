------------------------------ MODULE Scheduler ------------------------------
(***************************************************************************)
(* package scheduler, for the one-shot schedule of a migration: the        *)
(* minute tick that triggers a due schedule and then deactivates it, and   *)
(* the recovery loop for discoveries whose lease has run out.              *)
(*                                                                         *)
(* A Redis lock per schedule lets one API instance at a time run the tick, *)
(* and another lock one instance run recovery; neither excludes the other. *)
(* Both loops change the migrations row in one statement and the schedules *)
(* row in a later one.                                                     *)
(***************************************************************************)
EXTENDS Discovery

VARIABLE schedule

\* due: is_active and next_run_at has come.  triggering: the overlap check saw
\* no active job.  deactivating, reactivating: the schedules row is to follow.
Schedule == [ due      : BOOLEAN,
              tick     : {"idle", "triggering", "deactivating"},
              recovery : {"idle", "reactivating"} ]

SchedulerTypeOK == schedule \in Schedule

SchedulerInit == schedule = [due |-> HasSchedule, tick |-> "idle", recovery |-> "idle"]

-----------------------------------------------------------------------------
(* processSchedule *)

isJobActiveStatus(status) == status \in Working \cup {"VERIFYING", "PAUSED_CONNECTION_LOSS"}

\* The overlap check: a one-shot schedule of an active job is just deactivated
DueSchedule ==
    /\ schedule.tick = "idle"
    /\ schedule.due
    /\ schedule' = [schedule EXCEPT
                      !.tick = IF isJobActiveStatus(mig.status) THEN "deactivating"
                               ELSE "triggering"]
    /\ UNCHANGED <<storeVars, indexer>>

\* ClaimScheduledMigrationForIndexing tests the status again
ScheduleClaimed ==
    [mig EXCEPT !.status = "INDEXING", !.discoveryComplete = FALSE,
                !.discoveryGeneration = @ + 1, !.indexingLease = TRUE]

\* A failed claim (no longer SCHEDULED) deactivates the schedule all the same; an
\* error of the statement leaves it due for the next tick
triggerMigration ==
    /\ schedule.tick = "triggering"
    /\ \/ /\ mig.status = "SCHEDULED"
          /\ mig' = ScheduleClaimed
          /\ Spawn
          /\ schedule' = [schedule EXCEPT !.tick = "deactivating"]
          /\ UNCHANGED faults
       \/ /\ mig.status # "SCHEDULED"
          /\ schedule' = [schedule EXCEPT !.tick = "deactivating"]
          /\ UNCHANGED <<mig, indexer, faults>>
       \/ /\ Fault
          /\ schedule' = [schedule EXCEPT !.tick = "idle"]
          /\ UNCHANGED <<mig, indexer>>
    /\ UNCHANGED <<progress, tasks, indexErrors, events>>

DeactivateSchedule ==
    /\ schedule.tick = "deactivating"
    /\ \/ schedule' = [schedule EXCEPT !.tick = "idle", !.due = FALSE] /\ UNCHANGED faults
       \/ schedule' = [schedule EXCEPT !.tick = "idle"] /\ Fault
    /\ UNCHANGED <<mig, progress, tasks, indexErrors, events, indexer>>

-----------------------------------------------------------------------------
(* recoverOrphanedMigrationIndexing *)

\* Time passes.  With a live owner this takes a failing heartbeat: a fault.  A
\* lease (two minutes or more) outlasts a statement of the tick in flight.
IndexingLeaseExpires ==
    /\ mig.indexingLease
    /\ schedule.tick # "deactivating"
    /\ IF \E i \in Indexers : indexer[i].pc # "idle" THEN Fault ELSE UNCHANGED faults
    /\ mig' = [mig EXCEPT !.indexingLease = FALSE]
    /\ UNCHANGED <<progress, tasks, indexErrors, events, indexer, schedule>>

StaleDiscovery == mig.status = "INDEXING" /\ ~mig.indexingLease

recoverScheduledMigrations ==
    /\ HasSchedule
    /\ StaleDiscovery
    /\ schedule.recovery = "idle"
    /\ mig' = [mig EXCEPT !.status = "SCHEDULED"]
    /\ schedule' = [schedule EXCEPT !.recovery = "reactivating"]
    /\ UNCHANGED <<progress, tasks, indexErrors, events, faults, indexer>>

ReactivateSchedule ==
    /\ schedule.recovery = "reactivating"
    /\ \/ schedule' = [schedule EXCEPT !.recovery = "idle", !.due = TRUE] /\ UNCHANGED faults
       \/ schedule' = [schedule EXCEPT !.recovery = "idle"] /\ Fault
    /\ UNCHANGED <<mig, progress, tasks, indexErrors, events, indexer>>

FailStaleIndexingMigration ==
    /\ ~HasSchedule
    /\ StaleDiscovery
    /\ mig' = [mig EXCEPT !.status = "FAILED", !.notificationGeneration = @ + 1]
    /\ CreateEvent(mig'.notificationGeneration)
    /\ UNCHANGED <<progress, tasks, indexErrors, faults, indexer, schedule>>

\* The API process stops, with its indexers and both loops
SchedulerCrash ==
    /\ Fault
    /\ indexer' = [i \in Indexers |-> IdleIndexer]
    /\ schedule' = [schedule EXCEPT !.tick = "idle", !.recovery = "idle"]
    /\ UNCHANGED <<mig, progress, tasks, indexErrors, events>>

TickStep == DueSchedule \/ triggerMigration \/ DeactivateSchedule

RecoveryStep ==
    \/ recoverScheduledMigrations
    \/ ReactivateSchedule
    \/ FailStaleIndexingMigration

SchedulerNext == TickStep \/ IndexingLeaseExpires \/ RecoveryStep

=============================================================================

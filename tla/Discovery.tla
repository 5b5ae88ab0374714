------------------------------ MODULE Discovery ------------------------------
(***************************************************************************)
(* Discovery of a migration's tasks: indexer.Start, run as a goroutine by  *)
(* the API (start, resume, re-index), by the scheduler and by connection   *)
(* recovery.                                                               *)
(*                                                                         *)
(* A goroutine captures discovery_generation when it loads the row; every  *)
(* later statement of it is fenced by that generation and by INDEXING.     *)
(* A traversal is the set of selected paths not yet handled: folders,      *)
(* batches and the listing pool only decide how many rows one insert adds. *)
(* A selected path that yields no task (an empty folder, a file the target *)
(* cannot take) is not in mig.selected.                                    *)
(***************************************************************************)
EXTENDS MigrationStore

CONSTANTS
    Indexers,     \* bound: indexer goroutines alive at the same time
    HasSchedule   \* whether a schedules row belongs to this migration

ASSUME DiscoveryAssumption == HasSchedule \in BOOLEAN

VARIABLE indexer

\* spawned: go indexer.Start issued.  loaded: generation captured.
\* connecting: lease renewed.  walking: keys loaded, traversing.
\* inserting: an INSERT has passed its EXISTS test and is not committed.
\* totals, deciding: the terminal decision.  reconciling, applying: the
\* reconciliation that follows INDEXING -> RUNNING.
IndexerPC == {"idle", "spawned", "loaded", "connecting", "walking", "inserting",
              "totals", "deciding", "reconciling", "applying"}

Indexer ==
    [ pc         : IndexerPC,
      generation : Nat,
      todo       : SUBSET Items,          \* selected paths not handled yet
      item       : Items \cup {NoItem},   \* path of the insert in progress
      errors     : SUBSET Items,          \* indexErrors of this traversal
      total      : Nat,                   \* result of MigrationTaskTotals
      stats      : Stats ]

IdleIndexer ==
    [pc |-> "idle", generation |-> 0, todo |-> {}, item |-> NoItem,
     errors |-> {}, total |-> 0, stats |-> NoStats]

DiscoveryTypeOK == indexer \in [Indexers -> Indexer]

DiscoveryInit == indexer = [i \in Indexers |-> IdleIndexer]

-----------------------------------------------------------------------------

OwnsDiscovery(i) ==
    mig.status = "INDEXING" /\ mig.discoveryGeneration = indexer[i].generation

Started == [IdleIndexer EXCEPT !.pc = "spawned"]

\* go indexer.Start: whoever made the row INDEXING starts a goroutine for it
Spawn == \E i \in Indexers :
            /\ indexer[i].pc = "idle"
            /\ indexer' = [indexer EXCEPT ![i] = Started]

SpawnWhen(needed) == IF needed THEN Spawn ELSE UNCHANGED indexer

Retire(i) == indexer' = [indexer EXCEPT ![i] = IdleIndexer]

IndexerLoad(i) ==
    /\ indexer[i].pc = "spawned"
    /\ IF mig.status = "INDEXING" /\ ~mig.discoveryComplete
       THEN indexer' = [indexer EXCEPT ![i].pc = "loaded",
                                       ![i].generation = mig.discoveryGeneration]
       ELSE Retire(i)
    /\ UNCHANGED storeVars

IndexerClaimLease(i) ==
    /\ indexer[i].pc = "loaded"
    /\ IF OwnsDiscovery(i)
       THEN /\ mig' = [mig EXCEPT !.indexingLease = TRUE]
            /\ indexer' = [indexer EXCEPT ![i].pc = "connecting"]
       ELSE /\ Retire(i)
            /\ UNCHANGED mig
    /\ UNCHANGED <<progress, tasks, indexErrors, events, faults>>

Traversing(i) == indexer[i].pc \in {"connecting", "walking", "inserting", "totals", "deciding"}

\* The heartbeat extends the lease without testing whether it has expired
IndexerHeartbeat(i) ==
    /\ Traversing(i)
    /\ OwnsDiscovery(i)
    /\ ~mig.indexingLease
    /\ mig' = [mig EXCEPT !.indexingLease = TRUE]
    /\ UNCHANGED <<progress, tasks, indexErrors, events, faults, indexer>>

\* Mutant: a later generation starts from nothing
IndexerForgetsKeys(i) ==
    /\ indexer[i].pc = "connecting"
    /\ indexer' = [indexer EXCEPT ![i].pc = "walking", ![i].todo = mig.selected]
    /\ UNCHANGED storeVars

\* connected, and MigrationIndexedTaskKeys read: rows of an earlier generation
\* are not indexed again
IndexerLoadKeys(i) ==
    /\ indexer[i].pc = "connecting"
    /\ indexer' = [indexer EXCEPT ![i].pc = "walking",
                                  ![i].todo = mig.selected \ {tasks[t].path : t \in Rows}]
    /\ UNCHANGED storeVars

\* a path that cannot be inspected, listed or sized is recorded and skipped
IndexerSkipItem(i, p) ==
    /\ indexer[i].pc = "walking"
    /\ p \in indexer[i].todo
    /\ Fault
    /\ indexer' = [indexer EXCEPT ![i].todo = @ \ {p}, ![i].errors = @ \cup {p}]
    /\ UNCHANGED <<mig, progress, tasks, indexErrors, events>>

\* The heartbeat saw that the claim is lost, or indexingTimeout has passed: the
\* traversal's context is cancelled, and every path still open fails to be
\* inspected or listed and counts as an error
IndexerInterrupted(i) ==
    /\ indexer[i].pc = "walking"
    /\ indexer[i].todo # {}
    /\ IF OwnsDiscovery(i) THEN Fault ELSE UNCHANGED faults
    /\ indexer' = [indexer EXCEPT ![i].todo = {}, ![i].errors = @ \cup indexer[i].todo]
    /\ UNCHANGED <<mig, progress, tasks, indexErrors, events>>

\* INSERT ... WHERE EXISTS (migration INDEXING in my generation): the test
IndexerInsert(i, p) ==
    /\ indexer[i].pc = "walking"
    /\ p \in indexer[i].todo
    /\ IF OwnsDiscovery(i)
       THEN indexer' = [indexer EXCEPT ![i].pc = "inserting", ![i].item = p]
       ELSE Retire(i)
    /\ UNCHANGED storeVars

\* ... and its commit, which takes no lock on the migrations row
IndexerInsertCommit(i) ==
    /\ indexer[i].pc = "inserting"
    /\ \E t \in WithStatus({"NONE"}) :
         tasks' = [tasks EXCEPT ![t] = NewTask(indexer[i].item)]
    /\ indexer' = [indexer EXCEPT ![i].pc = "walking", ![i].item = NoItem,
                                  ![i].todo = @ \ {indexer[i].item}]
    /\ UNCHANGED <<mig, progress, indexErrors, events, faults>>

\* RecordIndexingErrors carries no fence, ignores the cancelled context, and is
\* only warned about when it fails
IndexerRecordErrors(i) ==
    /\ indexer[i].pc = "walking"
    /\ indexer[i].todo = {}
    /\ \/ indexErrors' = indexErrors \cup indexer[i].errors /\ UNCHANGED faults
       \/ indexer[i].errors # {} /\ Fault /\ UNCHANGED indexErrors
    /\ indexer' = [indexer EXCEPT ![i].pc = "totals"]
    /\ UNCHANGED <<mig, progress, tasks, events>>

\* MigrationTaskTotals and UpdateMigrationTotalsWhileIndexingClaim
IndexerTotals(i) ==
    /\ indexer[i].pc = "totals"
    /\ IF OwnsDiscovery(i)
       THEN /\ progress' = [progress EXCEPT !.total = Cardinality(Rows)]
            /\ indexer' = [indexer EXCEPT ![i].pc = "deciding",
                                          ![i].total = Cardinality(Rows)]
       ELSE /\ Retire(i)
            /\ UNCHANGED progress
    /\ UNCHANGED <<mig, tasks, indexErrors, events, faults>>

\* The row FailMigrationWhileIndexingClaim writes
IndexingFailed == [mig EXCEPT !.status = "FAILED", !.indexingLease = FALSE,
                              !.notificationGeneration = @ + 1]

IndexingCompleted == [mig EXCEPT !.status = "COMPLETED", !.discoveryComplete = TRUE,
                                 !.notificationGeneration = @ + 1]

\* unlisted remembers the paths that were given up without a record of it:
\* RecordIndexingErrors failed, and only the log knows
IndexingToRunning(i) ==
    [mig EXCEPT !.status = "RUNNING", !.discoveryComplete = TRUE,
                !.failedRetryDone = FALSE, !.indexingLease = FALSE,
                !.unlisted = indexer[i].errors \ indexErrors]

\* the switch at the end of Start
IndexerDecide(i) ==
    /\ indexer[i].pc = "deciding"
    /\ \/ /\ ~OwnsDiscovery(i)
          /\ Retire(i)
          /\ UNCHANGED <<mig, events>>
       \/ /\ OwnsDiscovery(i)
          /\ indexer[i].total = 0
          /\ mig' = IF indexer[i].errors # {} THEN IndexingFailed ELSE IndexingCompleted
          /\ CreateEvent(mig'.notificationGeneration)
          /\ Retire(i)
       \/ /\ OwnsDiscovery(i)
          /\ indexer[i].total > 0
          /\ mig' = IndexingToRunning(i)
          /\ indexer' = [indexer EXCEPT ![i].pc = "reconciling"]
          /\ UNCHANGED events
    /\ UNCHANGED <<progress, tasks, indexErrors, faults>>

IndexerReconcileSnapshot(i) ==
    /\ indexer[i].pc = "reconciling"
    /\ indexer' = [indexer EXCEPT ![i].pc = "applying", ![i].stats = TaskStats]
    /\ UNCHANGED storeVars

IndexerReconcile(i) ==
    /\ indexer[i].pc = "applying"
    /\ ReconcileMigrationProgress(indexer[i].stats)
    /\ Retire(i)
    /\ UNCHANGED faults

\* failMigration: a database, credential, connection or listing error.  Before
\* the row is loaded the goroutine has no generation, and this is not fenced.
MayFailMigration(i) ==
    OwnsDiscovery(i) \/ (indexer[i].pc = "spawned" /\ mig.status = "INDEXING")

IndexerFail(i) ==
    /\ Traversing(i) \/ indexer[i].pc = "spawned"
    /\ Fault
    /\ IF MayFailMigration(i)
       THEN mig' = IndexingFailed /\ CreateEvent(mig'.notificationGeneration)
       ELSE UNCHANGED <<mig, events>>
    /\ Retire(i)
    /\ UNCHANGED <<progress, tasks, indexErrors>>

\* The process running the goroutine stops: an open insert rolls back
IndexerCrash(i) ==
    /\ indexer[i].pc # "idle"
    /\ Fault
    /\ Retire(i)
    /\ UNCHANGED <<mig, progress, tasks, indexErrors, events>>

IndexerStep(i) ==
    \/ IndexerLoad(i)
    \/ IndexerClaimLease(i)
    \/ IndexerHeartbeat(i)
    \/ IndexerLoadKeys(i)
    \/ \E p \in Items : IndexerSkipItem(i, p) \/ IndexerInsert(i, p)
    \/ IndexerInterrupted(i)
    \/ IndexerInsertCommit(i)
    \/ IndexerRecordErrors(i)
    \/ IndexerTotals(i)
    \/ IndexerDecide(i)
    \/ IndexerReconcileSnapshot(i)
    \/ IndexerReconcile(i)
    \/ IndexerFail(i)
    \/ IndexerCrash(i)

DiscoveryNext == \E i \in Indexers : IndexerStep(i)

=============================================================================

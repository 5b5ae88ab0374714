------------------------- MODULE BackupCoordinator -------------------------
(***************************************************************************)
(* The backup coordinator of a worker process (backup/coordinator.go): its *)
(* poll loop and the execution of one backup run.  Every step is one       *)
(* database statement or one remote operation of PollOnce and execute.     *)
(***************************************************************************)
EXTENDS BackupStore

VARIABLES
    coord,  \* the local state of each coordinator
    lock    \* the coordinator that holds the job's pg_advisory_lock

coordVars == <<coord, lock>>

RunSteps == {"lock", "connect", "scan", "start", "draft", "previous", "files", "upload", "record",
             "catalog", "items", "verify", "transit", "sample", "publish", "fail", "cancel"}

MaintSteps == {"maintLock", "dispatch", "expire", "list", "remove", "mark", "enqueue",
               "compact", "replace", "retire", "retireMark", "finalize",
               "targets", "claim", "check", "damaged", "advance", "verified",
               "complete", "retry"}

Coordinator ==
    [ pc      : {"idle", "polled"} \cup RunSteps \cup MaintSteps,
      prefer  : BOOLEAN,               \* preferMaintenance
      gen     : 0..MaxRuns,            \* the claimed run
      st      : Active \cup {"NONE"},  \* run.State as the coordinator remembers it
      todo    : SUBSET Files,          \* scanned files still to be read
      tree    : Tree,                  \* the result of the scan
      prev    : Tree,                  \* the catalog of the previous snapshot
      got     : Tree,                  \* files whose blocks are known
      pend    : SUBSET Blocks,         \* the entries of the pack builder
      carry   : SUBSET Blocks,         \* the entry that made the builder flush
      partial : BOOLEAN,               \* a file kept changing and was left out
      maint   : 0..MaxMaint,           \* the claimed maintenance row
      list    : SUBSET PackIds,        \* packs still to be deleted
      pack    : PackIds \cup {NoPack}, \* the pack at hand
      live    : SUBSET Blocks ]        \* its live blocks

Idle(prefer) ==
    [ pc |-> "idle", prefer |-> prefer, gen |-> 0, st |-> "NONE", todo |-> {}, tree |-> Nothing,
      prev |-> Nothing, got |-> Nothing, pend |-> {}, carry |-> {}, partial |-> FALSE,
      maint |-> 0, list |-> {}, pack |-> NoPack, live |-> {} ]

CoordTypeOK == coord \in [Coords -> Coordinator] /\ lock \in Coords \cup {NoCoord}

CoordInit == coord = [c \in Coords |-> Idle(FALSE)] /\ lock = NoCoord

At(c, pc) == coord[c].pc = pc

Goto(c, pc) == coord' = [coord EXCEPT ![c].pc = pc]

\* The deferred unlock and the end of PollOnce.
Return(c) ==
    /\ coord' = [coord EXCEPT ![c] = Idle(coord[c].prefer)]
    /\ lock' = IF lock = c THEN NoCoord ELSE lock

\* A provider or database call of this step fails.
Breaks(c, pc) == Fault /\ Goto(c, pc)

-----------------------------------------------------------------------------
(* PollOnce *)

PollRecover(c) ==
    /\ At(c, "idle")
    /\ RecoverStaleBackupRuns
    /\ Goto(c, "polled")
    /\ UNCHANGED <<lock, packs, blocks, maint, targets, pins, schedule, remote, source, lost, unmarked, events, faults>>

\* preferMaintenance alternates, so neither queue starves the other.
PollRun(c) ==
    /\ At(c, "polled")
    /\ ~coord[c].prefer \/ Claimable = {}
    /\ \E g \in Gens :
         /\ ClaimNextQueuedBackupRun(g)
         /\ coord' = [coord EXCEPT ![c] = [Idle(TRUE) EXCEPT !.pc = "lock", !.gen = g, !.st = "SCANNING"]]
    /\ UNCHANGED <<lock, snaps, packs, blocks, maint, targets, pins, schedule, remote, source, lost, unmarked, events, faults>>

NothingQueued == ~\E g \in Gens : runs[g].state = "QUEUED" /\ job.status = "QUEUED" /\ job.gen = g /\ ~job.deleting

PollMaintenance(c) ==
    /\ At(c, "polled")
    /\ coord[c].prefer \/ NothingQueued
    /\ \E m \in MaintIds :
         /\ ClaimNextMaintenance(m)
         /\ coord' = [coord EXCEPT ![c] = [Idle(~coord[c].prefer) EXCEPT !.pc = "maintLock", !.maint = m]]
    /\ UNCHANGED <<lock, job, runs, snaps, packs, blocks, targets, pins, schedule, remote, source, lost, unmarked, events, faults>>

PollNothing(c) ==
    /\ At(c, "polled")
    /\ NothingQueued /\ Claimable = {}
    /\ coord' = [coord EXCEPT ![c] = Idle(TRUE)]
    /\ UNCHANGED <<lock, storeVars>>

\* pg_advisory_lock waits; when it fails the run fails with it.
LockRun(c) ==
    /\ At(c, "lock")
    /\ \/ lock = NoCoord /\ lock' = c /\ Goto(c, "connect") /\ UNCHANGED faults
       \/ Breaks(c, "fail") /\ UNCHANGED lock
    /\ UNCHANGED <<job, runs, snaps, packs, blocks, maint, targets, pins, schedule, remote, source, lost, unmarked, events>>

-----------------------------------------------------------------------------
(* execute *)

\* Both sides are connected, and the target directory must hold this repository
\* and nothing else (ensureDedicatedTarget, ensureFormat).
OpenRepository(c) ==
    /\ At(c, "connect")
    /\ \/ Goto(c, "scan") /\ UNCHANGED faults
       \/ Breaks(c, "fail")
    /\ UNCHANGED <<lock, job, runs, snaps, packs, blocks, maint, targets, pins, schedule, remote, source, lost, unmarked, events>>

ScanFiles(c) ==
    /\ At(c, "scan")
    /\ \/ /\ coord' = [coord EXCEPT ![c].pc = "start", ![c].tree = source,
                                    ![c].todo = {f \in Files : source[f] # NoBlock}]
          /\ UNCHANGED faults
       \/ Breaks(c, "fail")
       \/ Breaks(c, "cancel")
    /\ UNCHANGED <<lock, job, runs, snaps, packs, blocks, maint, targets, pins, schedule, remote, source, lost, unmarked, events>>

\* A lost claim goes through fail, which then changes nothing.
StartTransfer(c) ==
    /\ At(c, "start")
    /\ IF CanTransition(coord[c].gen, "SCANNING")
       THEN /\ TransitionBackupRun(coord[c].gen, "SCANNING", "RUNNING")
            /\ coord' = [coord EXCEPT ![c].pc = "draft", ![c].st = "RUNNING"]
       ELSE Goto(c, "fail") /\ UNCHANGED <<job, runs>>
    /\ UNCHANGED <<lock, snaps, packs, blocks, maint, targets, pins, schedule, remote, source, lost, unmarked, events, faults>>

CreateDraft(c) ==
    /\ At(c, "draft")
    /\ IF snaps[coord[c].gen].state = "NONE" /\ runs[coord[c].gen].state # "NONE"
       THEN CreateSnapshotDraft(coord[c].gen, coord[c].tree) /\ Goto(c, "previous")
       ELSE Goto(c, "fail") /\ UNCHANGED snaps
    /\ UNCHANGED <<lock, job, runs, packs, blocks, maint, targets, pins, schedule, remote, source, lost, unmarked, events, faults>>

LoadPrevious(c) ==
    /\ At(c, "previous")
    /\ \/ coord' = [coord EXCEPT ![c].pc = "files", ![c].prev = SnapshotFileCatalog(LatestValidSnapshot)]
          /\ UNCHANGED faults
       \/ Breaks(c, "fail")
    /\ UNCHANGED <<lock, job, runs, snaps, packs, blocks, maint, targets, pins, schedule, remote, source, lost, unmarked, events>>

\* runActive: a run that lost its claim drops its draft and stops.
Superseded(c) ==
    /\ coord[c].pc \in {"files", "catalog", "verify"}
    /\ ~BackupRunActive(coord[c].gen)
    /\ DiscardSnapshotDraft(coord[c].gen)
    /\ Return(c)
    /\ UNCHANGED <<job, runs, packs, blocks, maint, targets, pins, schedule, remote, source, lost, unmarked, events, faults>>

\* The file is what the previous snapshot holds: its blocks are taken over
\* once the source has been looked at again.
Reusable(c, f) == coord[c].prev[f] = coord[c].tree[f] /\ source[f] = coord[c].tree[f]

\* The content is in a pack, or will be when the builder is flushed.
Known(c, f) == coord[c].tree[f] \in coord[c].pend \/ FindBackupBlock(coord[c].tree[f])

\* Two attempts find a file that keeps changing; it is left out.
Unstable(c, f) == source[f] # coord[c].tree[f] /\ source[f] # NoBlock

NewContent(c, f) == source[f] = coord[c].tree[f] /\ ~Known(c, f) /\ ~Reusable(c, f)

\* The pack builder has no room for another block.
Full(c) == Cardinality(coord[c].pend) = MaxPackBlocks

\* Mutant: an unstable file is left out, and the snapshot does not say so.
FileOutcomeSilent(c, f) ==
    LET l == coord[c]
        b == l.tree[f]
    IN  CASE Reusable(c, f) \/ (source[f] = b /\ Known(c, f)) ->
               [l EXCEPT !.todo = @ \ {f}, !.got[f] = b]
          [] source[f] = NoBlock -> [l EXCEPT !.pc = "fail"]
          [] Unstable(c, f) -> [l EXCEPT !.todo = @ \ {f}]
          [] OTHER -> [l EXCEPT !.todo = @ \ {f}, !.got[f] = b, !.pend = @ \cup {b}]

FileOutcome(c, f) ==
    LET l == coord[c]
        b == l.tree[f]
    IN  CASE Reusable(c, f) \/ (source[f] = b /\ Known(c, f)) ->
               [l EXCEPT !.todo = @ \ {f}, !.got[f] = b]
          [] source[f] = NoBlock -> [l EXCEPT !.pc = "fail"]
          [] Unstable(c, f) -> [l EXCEPT !.todo = @ \ {f}, !.partial = TRUE]
          [] NewContent(c, f) /\ Full(c) ->
               [l EXCEPT !.todo = @ \ {f}, !.got[f] = b, !.carry = {b}, !.pc = "upload"]
          [] NewContent(c, f) /\ ~Full(c) ->
               [l EXCEPT !.todo = @ \ {f}, !.got[f] = b, !.pend = @ \cup {b}]

BackupFile(c) ==
    /\ At(c, "files") /\ BackupRunActive(coord[c].gen)
    /\ \/ \E f \in coord[c].todo : coord' = [coord EXCEPT ![c] = FileOutcome(c, f)] /\ UNCHANGED faults
       \/ coord[c].todo # {} /\ Breaks(c, "fail")
       \/ coord[c].todo # {} /\ Breaks(c, "cancel")
    /\ UNCHANGED <<lock, job, runs, snaps, packs, blocks, maint, targets, pins, schedule, remote, source, lost, unmarked, events>>

FilesDone(c) ==
    /\ At(c, "files") /\ coord[c].todo = {} /\ BackupRunActive(coord[c].gen)
    /\ Goto(c, IF coord[c].pend = {} THEN "catalog" ELSE "upload")
    /\ UNCHANGED <<lock, storeVars>>

\* flush: the object is written, confirmed and read back.
FlushUpload(c) ==
    /\ At(c, "upload")
    /\ \/ remote' = remote \cup {coord[c].pend} /\ lost' = lost \ {coord[c].pend}
          /\ unmarked' = unmarked \ {coord[c].pend}
          /\ Goto(c, "record") /\ UNCHANGED faults
       \/ Breaks(c, "fail") /\ UNCHANGED <<remote, lost, unmarked>>
       \/ Breaks(c, "cancel") /\ UNCHANGED <<remote, lost, unmarked>>
    /\ UNCHANGED <<lock, job, runs, snaps, packs, blocks, maint, targets, pins, schedule, source, events>>

FlushRecord(c) ==
    /\ At(c, "record")
    /\ IF CanRecordPack(coord[c].pend) /\ job.status # "GONE"
       THEN /\ RecordPackAndBlocks(coord[c].pend)
            /\ coord' = [coord EXCEPT ![c].pend = coord[c].carry, ![c].carry = {},
                                      ![c].pc = IF coord[c].carry = {} THEN "catalog" ELSE "files"]
       ELSE Goto(c, "fail") /\ UNCHANGED <<packs, blocks>>
    /\ UNCHANGED <<lock, job, runs, snaps, maint, targets, pins, schedule, remote, source, lost, unmarked, events, faults>>

\* runActive finds the claim intact before the catalog is written and again
\* before verification; the statement that follows is a step of its own.
StillActive(c) ==
    /\ coord[c].pc \in {"catalog", "verify"}
    /\ BackupRunActive(coord[c].gen)
    /\ Goto(c, IF At(c, "catalog") THEN "items" ELSE "transit")
    /\ UNCHANGED <<lock, storeVars>>

WriteCatalog(c) ==
    /\ At(c, "items")
    /\ \/ /\ CanCreateItems(coord[c].gen, coord[c].got)
          /\ BatchCreateSnapshotItems(coord[c].gen, coord[c].got)
          /\ Goto(c, "verify") /\ UNCHANGED faults
       \/ /\ ~CanCreateItems(coord[c].gen, coord[c].got)
          /\ Goto(c, "fail") /\ UNCHANGED <<snaps, faults>>
       \/ Breaks(c, "fail") /\ UNCHANGED snaps
    /\ UNCHANGED <<lock, job, runs, packs, blocks, maint, targets, pins, schedule, remote, source, lost, unmarked, events>>

StartVerify(c) ==
    /\ At(c, "transit")
    /\ IF CanTransition(coord[c].gen, "RUNNING")
       THEN /\ TransitionBackupRun(coord[c].gen, "RUNNING", "VERIFYING")
            /\ coord' = [coord EXCEPT ![c].pc = "sample", ![c].st = "VERIFYING"]
       ELSE Goto(c, "fail") /\ UNCHANGED <<job, runs>>
    /\ UNCHANGED <<lock, snaps, packs, blocks, maint, targets, pins, schedule, remote, source, lost, unmarked, events, faults>>

Intact(p) == packs[p] = "READY" /\ p \in remote

\* verifySnapshotSample reads at least one pack, and others while the budget of
\* 64 MiB lasts.  A pack that fails the check, and just as well a provider
\* call that fails, marks the pack damaged.
VerifySample(c) ==
    /\ At(c, "sample")
    /\ LET sampled == SnapshotPacks(coord[c].gen) IN
         \/ /\ sampled = {} \/ \E p \in sampled : Intact(p)
            /\ Goto(c, "publish") /\ UNCHANGED <<packs, snaps, faults>>
         \/ \E p \in sampled : ~Intact(p) /\ MarkPackDamaged(p) /\ Goto(c, "fail") /\ UNCHANGED faults
         \/ \E p \in sampled : Breaks(c, "fail") /\ MarkPackDamaged(p)
    /\ UNCHANGED <<lock, job, runs, blocks, maint, targets, pins, schedule, remote, source, lost, unmarked, events>>

PublishSnapshot(c) ==
    /\ At(c, "publish")
    /\ IF CanPublish(coord[c].gen)
       THEN PublishSnapshotAndFinalize(coord[c].gen, coord[c].partial) /\ Return(c)
       ELSE Goto(c, "fail") /\ UNCHANGED <<job, runs, snaps, maint, events, lock>>
    /\ UNCHANGED <<packs, blocks, targets, pins, schedule, remote, source, lost, unmarked, faults>>

FailRun(c) ==
    /\ At(c, "fail")
    /\ CompleteBackupRun(coord[c].gen, coord[c].st, "FAILED", "FAILED")
    /\ Return(c)
    /\ UNCHANGED <<snaps, packs, blocks, maint, targets, pins, schedule, remote, source, lost, unmarked, faults>>

\* finishOrFail when the process is told to stop.
CancelRun(c) ==
    /\ At(c, "cancel")
    /\ CompleteBackupRun(coord[c].gen, coord[c].st, "CANCELLED", "IDLE")
    /\ Return(c)
    /\ UNCHANGED <<snaps, packs, blocks, maint, targets, pins, schedule, remote, source, lost, unmarked, faults>>

-----------------------------------------------------------------------------
(* Heartbeats and crashes *)

\* heartbeatRun renews the run while it executes.
Heartbeat(c) ==
    /\ coord[c].pc \in RunSteps \ {"lock"}
    /\ ~runs[coord[c].gen].fresh
    /\ TouchBackupRun(coord[c].gen)
    /\ UNCHANGED <<coordVars, job, snaps, packs, blocks, maint, targets, pins, schedule, remote, source, lost, unmarked, events, faults>>

Executing(g) == \E c \in Coords : coord[c].gen = g /\ coord[c].pc \in RunSteps \ {"lock"}

\* Ten minutes pass without a heartbeat.  A run nobody executes yet (its
\* coordinator waits for the lock) or any more has none; otherwise the
\* heartbeats have to fail.
RunGoesSilent(g) ==
    /\ runs[g].state \in Active /\ runs[g].fresh
    /\ IF Executing(g) THEN Fault ELSE UNCHANGED faults
    /\ runs' = [runs EXCEPT ![g].fresh = FALSE]
    /\ UNCHANGED <<coordVars, job, snaps, packs, blocks, maint, targets, pins, schedule, remote, source, lost, unmarked, events>>

\* The process dies; its connection closes and the server frees the lock.
Crash(c) ==
    /\ coord[c].pc \notin {"idle", "polled"}
    /\ Fault
    /\ coord' = [coord EXCEPT ![c] = Idle(FALSE)]
    /\ lock' = IF lock = c THEN NoCoord ELSE lock
    /\ unmarked' = IF At(c, "mark") THEN unmarked \cup {coord[c].pack} ELSE unmarked
    /\ UNCHANGED <<job, runs, snaps, packs, blocks, maint, targets, pins, schedule, remote, source, lost, events>>

RunNext(c) ==
    \/ PollRecover(c) \/ PollRun(c) \/ PollMaintenance(c) \/ PollNothing(c)
    \/ LockRun(c) \/ OpenRepository(c) \/ ScanFiles(c) \/ StartTransfer(c) \/ CreateDraft(c) \/ LoadPrevious(c)
    \/ Superseded(c) \/ BackupFile(c) \/ FilesDone(c) \/ FlushUpload(c) \/ FlushRecord(c)
    \/ StillActive(c) \/ WriteCatalog(c) \/ StartVerify(c) \/ VerifySample(c) \/ PublishSnapshot(c)
    \/ FailRun(c) \/ CancelRun(c)
=============================================================================

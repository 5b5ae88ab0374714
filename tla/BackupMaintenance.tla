------------------------- MODULE BackupMaintenance -------------------------
(***************************************************************************)
(* The maintenance half of the backup coordinator: retention, compaction,  *)
(* repository deletion and repository checks.  Each holds the advisory     *)
(* lock of the job from maintLock to its last step.                        *)
(***************************************************************************)
EXTENDS BackupCoordinator

Kind(c) == maint[coord[c].maint].kind

LockMaintenance(c) ==
    /\ At(c, "maintLock")
    /\ \/ lock = NoCoord /\ lock' = c /\ Goto(c, "dispatch") /\ UNCHANGED faults
       \/ Breaks(c, "retry") /\ UNCHANGED lock
    /\ UNCHANGED <<job, runs, snaps, packs, blocks, maint, targets, pins, schedule, remote, source, lost, unmarked, events>>

\* The job is loaded and the target connected before the kind is looked at.
ExecuteMaintenance(c) ==
    /\ At(c, "dispatch")
    /\ \/ /\ Goto(c, CASE Kind(c) = "RETENTION" -> "expire"
                       [] Kind(c) = "COMPACTION" -> "compact"
                       [] Kind(c) = "DELETE_REPOSITORY" -> "list"
                       [] Kind(c) = "VERIFY" -> "targets"
                       [] OTHER -> "retry")
          /\ UNCHANGED faults
       \/ Breaks(c, "retry")
    /\ UNCHANGED <<lock, job, runs, snaps, packs, blocks, maint, targets, pins, schedule, remote, source, lost, unmarked, events>>

-----------------------------------------------------------------------------
(* Retention and repository deletion *)

ApplyExpiry(c) ==
    /\ At(c, "expire")
    /\ ExpireSnapshots
    /\ Goto(c, "list")
    /\ UNCHANGED <<lock, job, runs, packs, blocks, maint, targets, pins, schedule, remote, source, lost, unmarked, events, faults>>

ListPacks(c) ==
    /\ At(c, "list")
    /\ coord' = [coord EXCEPT ![c].pc = "remove",
                   ![c].list = IF Kind(c) = "RETENTION" THEN ListReclaimablePacks ELSE ListPacksForDeletion]
    /\ UNCHANGED <<lock, storeVars>>

\* deleteRemotePack: the object goes before its row says so.
RemovePack(c) ==
    /\ At(c, "remove")
    /\ \/ \E p \in coord[c].list :
            /\ remote' = remote \ {p}
            /\ coord' = [coord EXCEPT ![c].pc = "mark", ![c].pack = p]
            /\ UNCHANGED faults
       \/ coord[c].list # {} /\ Breaks(c, "retry") /\ UNCHANGED remote
       \/ /\ coord[c].list = {}
          /\ Goto(c, IF Kind(c) = "RETENTION" THEN "enqueue" ELSE "finalize")
          /\ UNCHANGED <<remote, faults>>
    /\ UNCHANGED <<lock, job, runs, snaps, packs, blocks, maint, targets, pins, schedule, source, lost, unmarked, events>>

MarkRemoved(c) ==
    /\ At(c, "mark")
    /\ IF CanMarkDeleted(coord[c].pack)
       THEN /\ MarkPackDeleted(coord[c].pack)
            /\ coord' = [coord EXCEPT ![c].pc = "remove", ![c].list = @ \ {coord[c].pack}, ![c].pack = NoPack]
            /\ UNCHANGED unmarked
       ELSE /\ Goto(c, "retry") /\ unmarked' = unmarked \cup {coord[c].pack}
            /\ UNCHANGED <<snaps, packs, blocks>>
    /\ UNCHANGED <<lock, job, runs, maint, targets, pins, schedule, remote, source, lost, events, faults>>

EnqueueCompaction(c) ==
    /\ At(c, "enqueue")
    /\ IF CompactionCandidates = {} THEN UNCHANGED maint ELSE EnqueueMaintenance("COMPACTION")
    /\ Goto(c, "complete")
    /\ UNCHANGED <<lock, job, runs, snaps, packs, blocks, targets, pins, schedule, remote, source, lost, unmarked, events, faults>>

\* The format file is deleted, then the job when every pack is.
FinalizeDeletion(c) ==
    /\ At(c, "finalize")
    /\ \/ CanDeleteJob /\ DeleteJobAfterCleanup /\ Return(c) /\ UNCHANGED faults
       \/ /\ ~CanDeleteJob /\ Goto(c, "retry")
          /\ UNCHANGED <<lock, job, runs, snaps, packs, blocks, maint, targets, faults>>
       \/ Breaks(c, "retry") /\ UNCHANGED <<lock, job, runs, snaps, packs, blocks, maint, targets>>
    /\ UNCHANGED <<pins, schedule, remote, source, lost, unmarked, events>>

-----------------------------------------------------------------------------
(* Compaction *)

\* The live blocks of a candidate are read from its object and uploaded as a
\* pack of their own.
CompactOnePack(c) ==
    /\ At(c, "compact")
    /\ \/ \E p \in CompactionCandidates :
            LET live == {b \in InPack(p) : Live(b)} IN
            /\ p \in remote
            /\ remote' = remote \cup {live} /\ lost' = lost \ {live} /\ unmarked' = unmarked \ {live}
            /\ coord' = [coord EXCEPT ![c].pc = "replace", ![c].pack = p, ![c].live = live]
            /\ UNCHANGED faults
       \/ /\ \E p \in CompactionCandidates : p \notin remote
          /\ Goto(c, "retry") /\ UNCHANGED <<remote, lost, unmarked, faults>>
       \/ /\ CompactionCandidates = {}
          /\ Goto(c, "complete") /\ UNCHANGED <<remote, lost, unmarked, faults>>
       \/ Breaks(c, "retry") /\ UNCHANGED <<remote, lost, unmarked>>
    /\ UNCHANGED <<lock, job, runs, snaps, packs, blocks, maint, targets, pins, schedule, source, events>>

ReplacePack(c) ==
    /\ At(c, "replace")
    /\ IF CanReplacePack(coord[c].pack, coord[c].live)
       THEN ReplacePackLocators(coord[c].pack, coord[c].live) /\ Goto(c, "retire")
       ELSE Goto(c, "retry") /\ UNCHANGED <<snaps, packs, blocks>>
    /\ UNCHANGED <<lock, job, runs, maint, targets, pins, schedule, remote, source, lost, unmarked, events, faults>>

RetirePack(c) ==
    /\ At(c, "retire")
    /\ \/ remote' = remote \ {coord[c].pack} /\ Goto(c, "retireMark") /\ UNCHANGED faults
       \/ Breaks(c, "retry") /\ UNCHANGED remote
    /\ UNCHANGED <<lock, job, runs, snaps, packs, blocks, maint, targets, pins, schedule, source, lost, unmarked, events>>

MarkRetired(c) ==
    /\ At(c, "retireMark")
    /\ IF CanMarkDeleted(coord[c].pack)
       THEN MarkPackDeleted(coord[c].pack) /\ Goto(c, "enqueue")
       ELSE Goto(c, "retry") /\ UNCHANGED <<snaps, packs, blocks>>
    /\ UNCHANGED <<lock, job, runs, maint, targets, pins, schedule, remote, source, lost, unmarked, events, faults>>

-----------------------------------------------------------------------------
(* Repository checks *)

CopyTargets(c) ==
    /\ At(c, "targets")
    /\ SnapshotVerifyTargets(coord[c].maint)
    /\ Goto(c, "claim")
    /\ UNCHANGED <<lock, job, runs, snaps, packs, blocks, maint, pins, schedule, remote, source, lost, unmarked, events, faults>>

ClaimTarget(c) ==
    /\ At(c, "claim")
    /\ \/ \E p \in PackIds :
            /\ ClaimNextVerifyTarget(coord[c].maint, p)
            /\ coord' = [coord EXCEPT ![c].pc = "check", ![c].pack = p]
       \/ OpenTargets(coord[c].maint) = {} /\ Goto(c, "verified") /\ UNCHANGED targets
    /\ UNCHANGED <<lock, job, runs, snaps, packs, blocks, maint, pins, schedule, remote, source, lost, unmarked, events, faults>>

\* The claim is released when the check is cancelled, when its time or byte
\* budget is used up, and when the provider fails; otherwise the object is
\* looked at, and read in full unless the mode is METADATA.
CheckTarget(c) ==
    LET m == coord[c].maint
        p == coord[c].pack
    IN
    /\ At(c, "check")
    /\ \/ /\ maint[m].state = "CANCELLING"
          /\ SetTarget(m, p, "PENDING") /\ Goto(c, "complete") /\ UNCHANGED faults
       \/ /\ maint[m].state # "CANCELLING"
          /\ \/ SetTarget(m, p, "PENDING") /\ Breaks(c, "retry")
             \/ /\ p \in remote
                /\ SetTarget(m, p, "COMPLETED") /\ Goto(c, "advance") /\ UNCHANGED faults
             \/ /\ p \notin remote
                /\ SetTarget(m, p, "MISSING") /\ Goto(c, "damaged") /\ UNCHANGED faults
    /\ UNCHANGED <<lock, job, runs, snaps, packs, blocks, maint, pins, schedule, remote, source, lost, unmarked, events>>

MarkTargetDamaged(c) ==
    /\ At(c, "damaged")
    /\ MarkPackDamaged(coord[c].pack)
    /\ Goto(c, "advance")
    /\ UNCHANGED <<lock, job, runs, blocks, maint, targets, pins, schedule, remote, source, lost, unmarked, events, faults>>

AdvanceCursor(c) ==
    /\ At(c, "advance")
    /\ maint' = [maint EXCEPT ![coord[c].maint].lease = @ \/ maint[coord[c].maint].state = "RUNNING"]
    /\ Goto(c, "claim")
    /\ UNCHANGED <<lock, job, runs, snaps, packs, blocks, targets, pins, schedule, remote, source, lost, unmarked, events, faults>>

\* CompleteBackupVerify, after which the generic completion finds nothing.
CompleteVerify(c) ==
    /\ At(c, "verified")
    /\ IF maint[coord[c].maint].state \in {"RUNNING", "CANCELLING"}
       THEN CompleteMaintenance(coord[c].maint) /\ Return(c)
       ELSE Goto(c, "retry") /\ UNCHANGED <<maint, lock>>
    /\ UNCHANGED <<job, runs, snaps, packs, blocks, targets, pins, schedule, remote, source, lost, unmarked, events, faults>>

-----------------------------------------------------------------------------
FinishMaintenance(c) ==
    /\ \/ At(c, "complete") /\ CompleteMaintenance(coord[c].maint)
       \/ At(c, "retry") /\ RetryMaintenance(coord[c].maint)
    /\ Return(c)
    /\ UNCHANGED <<job, runs, snaps, packs, blocks, targets, pins, schedule, remote, source, lost, unmarked, events, faults>>

WorksOn(m) == \E c \in Coords : coord[c].maint = m

\* Two minutes without progress.  The lease is only renewed between packs, so
\* a slow pack loses it just as a dead coordinator does.
CheckGoesSilent(m) ==
    /\ maint[m].kind = "VERIFY" /\ maint[m].lease
    /\ maint[m].state \in {"RUNNING", "CANCELLING"}
    /\ IF WorksOn(m) THEN Fault ELSE UNCHANGED faults
    /\ maint' = [maint EXCEPT ![m].lease = FALSE]
    /\ UNCHANGED <<coordVars, job, runs, snaps, packs, blocks, targets, pins, schedule, remote, source, lost, unmarked, events>>

\* Ten minutes pass after the claim of a target whose coordinator is gone.
TargetLapses(m, p) ==
    /\ targets[m][p] = "RUNNING" /\ ~WorksOn(m)
    /\ targets' = [targets EXCEPT ![m][p] = "LAPSED"]
    /\ UNCHANGED <<coordVars, job, runs, snaps, packs, blocks, maint, pins, schedule, remote, source, lost, unmarked, events, faults>>

MaintNext(c) ==
    \/ LockMaintenance(c) \/ ExecuteMaintenance(c) \/ ApplyExpiry(c) \/ ListPacks(c)
    \/ RemovePack(c) \/ MarkRemoved(c) \/ EnqueueCompaction(c) \/ FinalizeDeletion(c)
    \/ CompactOnePack(c) \/ ReplacePack(c) \/ RetirePack(c) \/ MarkRetired(c)
    \/ CopyTargets(c) \/ ClaimTarget(c) \/ CheckTarget(c) \/ MarkTargetDamaged(c)
    \/ AdvanceCursor(c) \/ CompleteVerify(c) \/ FinishMaintenance(c)
=============================================================================

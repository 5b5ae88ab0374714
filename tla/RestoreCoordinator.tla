------------------------- MODULE RestoreCoordinator -------------------------
(***************************************************************************)
(* The restore coordinator of a worker process (restore/coordinator.go).   *)
(* PollOnce runs its statements in a fixed order; here each of them may be *)
(* next whenever it has something to do, which allows every order the code *)
(* has.  restoreItem, restoreDirectory and promoteRestoreUpload are        *)
(* followed call by call.                                                  *)
(***************************************************************************)
EXTENDS RestoreStore

VARIABLE worker  \* the local state of each coordinator

FileSteps == {"open", "connect", "reserve", "inspect", "rename", "upload", "dropBackup", "setAside", "swapIn",
              "putBack", "dropAside", "verify", "complete", "metadata"}
DirSteps == {"dirInspect", "dirReplace", "dirRename", "dirCreate", "dirComplete"}
ItemSteps == FileSteps \cup DirSteps \cup {"retry", "fail"}

Worker ==
    [ pc    : {"idle", "preview", "previewReady", "previewFailed", "plan", "failPlan"} \cup ItemSteps,
      run   : 0..MaxRuns,
      item  : Items \cup {NoItem},
      epoch : 0..MaxGen,
      root  : 0..MaxSuffix,   \* item.TargetPath, as the worker knows it
      sfx   : 0..MaxSuffix,
      over  : BOOLEAN,        \* overwriteExisting
      prev  : 0..MaxPreviews,
      gen   : 0..MaxGen ]

Idle == [pc |-> "idle", run |-> 0, item |-> NoItem, epoch |-> 0, root |-> 0, sfx |-> 0, over |-> FALSE,
         prev |-> 0, gen |-> 0]

WorkerTypeOK == worker \in [Workers -> Worker]
WorkerInit == worker = [w \in Workers |-> Idle]

At(w, pc) == worker[w].pc = pc
Goto(w, pc) == worker' = [worker EXCEPT ![w].pc = pc]
Return(w) == worker' = [worker EXCEPT ![w] = Idle]

\* The item at hand, where it goes, and the two paths next to it, named after its row.
It(w) == worker[w].item
Row(w) == items[worker[w].run][It(w)]
Dest(w) == PathOf(It(w), worker[w].root, worker[w].sfx)
Key(w) == <<worker[w].run, It(w), Dest(w)>>

\* A call fails: the item is tried again later, or the error is permanent.
Breaks(w) == Fault /\ (Goto(w, "retry") \/ Goto(w, "fail"))

rest == <<previews, runs, reserved, pins, notices, snapshot, strategy, atomic>>

-----------------------------------------------------------------------------
(* PollOnce *)

PollRecoverItems(w) ==
    /\ At(w, "idle")
    /\ \E r \in RunIds, i \in Items : Stale(r, i)
    /\ RecoverStaleRestoreItems
    /\ UNCHANGED <<worker, rest, targetVars, faults>>

PollExpire(w) ==
    /\ At(w, "idle")
    /\ \E p \in PreviewIds : previews[p].st = "READY" /\ ~previews[p].fresh
    /\ ExpireRestorePreviews
    /\ UNCHANGED <<worker, runs, items, reserved, pins, notices, snapshot, strategy, atomic, targetVars, faults>>

PollRecoverPlanning(w) ==
    /\ At(w, "idle")
    /\ \/ \E p \in PreviewIds : previews[p].st = "RUNNING" /\ ~previews[p].fresh
       \/ \E r \in RunIds : runs[r].st = "PLANNING" /\ ~runs[r].fresh
    /\ RecoverStaleRestorePlanning
    /\ UNCHANGED <<worker, items, reserved, pins, notices, snapshot, strategy, atomic, targetVars, faults>>

PollPreview(w) ==
    /\ At(w, "idle")
    /\ \E p \in PreviewIds :
         /\ ClaimNextRestorePreview(p)
         /\ worker' = [worker EXCEPT ![w].pc = "preview", ![w].prev = p, ![w].gen = previews[p].gen + 1]
    /\ UNCHANGED <<runs, items, reserved, pins, notices, snapshot, strategy, atomic, targetVars, faults>>

\* previewTarget and enumeratePreviewTargetTree only read, the catalog and the
\* target; a lost lease cancels them, which is an error like any other.
CountPreview(w) ==
    /\ At(w, "preview")
    /\ \/ Goto(w, "previewReady") /\ UNCHANGED faults
       \/ Goto(w, "previewFailed") /\ Fault
       \/ Goto(w, "previewFailed") /\ ~OwnsPreview(worker[w].prev, worker[w].gen) /\ UNCHANGED faults
    /\ UNCHANGED <<items, rest, targetVars>>

FinishPreview(w) ==
    /\ \/ At(w, "previewReady") /\ CompleteRestorePreview(worker[w].prev, worker[w].gen)
       \/ At(w, "previewFailed") /\ FailRestorePreview(worker[w].prev, worker[w].gen)
    /\ Return(w)
    /\ UNCHANGED <<runs, items, reserved, pins, notices, snapshot, strategy, atomic, targetVars, faults>>

PollRun(w) ==
    /\ At(w, "idle")
    /\ \E r \in RunIds :
         /\ ClaimNextQueuedRestoreRun(r)
         /\ worker' = [worker EXCEPT ![w].pc = "plan", ![w].run = r]
    /\ UNCHANGED <<previews, items, reserved, pins, notices, snapshot, strategy, atomic, targetVars, faults>>

Plan(w) ==
    /\ At(w, "plan")
    /\ \/ CanPlan(worker[w].run) /\ PlanRestoreRun(worker[w].run) /\ Return(w) /\ UNCHANGED faults
       \/ ~CanPlan(worker[w].run) /\ Goto(w, "failPlan") /\ UNCHANGED <<items, runs, pins, faults>>
       \/ Fault /\ Goto(w, "failPlan") /\ UNCHANGED <<items, runs, pins>>
    /\ UNCHANGED <<previews, reserved, notices, snapshot, strategy, atomic, targetVars>>

FailPlan(w) ==
    /\ At(w, "failPlan")
    /\ FailRestoreRunPlanning(worker[w].run)
    /\ Return(w)
    /\ UNCHANGED <<previews, items, reserved, pins, snapshot, strategy, atomic, targetVars, faults>>

PollSkipBlocked(w) ==
    /\ At(w, "idle")
    /\ \E r \in RunIds, i \in Items : SkippedWithParent(r, i)
    /\ SkipBlockedRestoreItems
    /\ UNCHANGED <<worker, rest, targetVars, faults>>

PollItem(w) ==
    /\ At(w, "idle")
    /\ \E r \in RunIds, i \in Items :
         /\ ClaimNextRestoreItem(r, i)
         /\ worker' = [worker EXCEPT ![w] = [Idle EXCEPT !.pc = "open", !.run = r, !.item = i,
                          !.epoch = items[r][i].epoch + 1, !.root = items[r][i].root, !.sfx = items[r][i].sfx]]
    /\ UNCHANGED <<rest, targetVars, faults>>

PollFinalize(w) ==
    /\ At(w, "idle")
    /\ \E r \in RunIds : Drained(r)
    /\ FinalizeCompletedRestoreRuns
    /\ UNCHANGED <<worker, previews, items, reserved, snapshot, strategy, atomic, targetVars, faults>>

PollFinalizeCancelling(w) ==
    /\ At(w, "idle")
    /\ \E r \in RunIds : runs[r].st = "CANCELLING" /\ InState(r, {"RUNNING"}) = {}
    /\ FinalizeCancellingRestoreRuns
    /\ UNCHANGED <<worker, previews, items, reserved, notices, snapshot, strategy, atomic, targetVars, faults>>

-----------------------------------------------------------------------------
(* restoreItem *)

\* The credentials are those of the run; a closed run has none.
LoadTarget(w) ==
    /\ At(w, "open")
    /\ Goto(w, IF runs[worker[w].run].creds THEN "connect" ELSE "retry")
    /\ UNCHANGED <<items, rest, targetVars, faults>>

\* Both sides are connected, and a new session is stored with the run.
ConnectTarget(w) ==
    /\ At(w, "connect")
    /\ \/ Goto(w, "reserve") /\ StoreSession(worker[w].run) /\ UNCHANGED faults
       \/ Breaks(w) /\ UNCHANGED runs
    /\ UNCHANGED <<previews, items, reserved, pins, notices, snapshot, strategy, atomic, targetVars>>

\* reserveRestoreTargetPath: the first suffix nobody else has reserved.
FreeSuffixes(w) ==
    {s \in worker[w].sfx..MaxSuffix : FreeFor(worker[w].run, It(w), PathOf(It(w), worker[w].root, s))}

Least(S) == CHOOSE s \in S : \A t \in S : s <= t

\* The new path of a directory is persisted with its descendants and refused
\* when the claim is lost; for a file the lost claim goes unnoticed.
TakePath(w, s, next) ==
    /\ worker' = [worker EXCEPT ![w].sfx = s, ![w].pc = next]
    /\ IF s = worker[w].sfx THEN UNCHANGED items
       ELSE IF It(w) \in Dirs THEN SetRestoreDirectoryTargetPath(worker[w].run, It(w), s)
       ELSE SetRestoreItemTargetPath(worker[w].run, It(w), worker[w].epoch, s)

Refused(w, s) ==
    It(w) \in Dirs /\ s # worker[w].sfx /\ ~OwnsItem(worker[w].run, It(w), worker[w].epoch)

ReservePath(w) ==
    /\ At(w, "reserve")
    /\ \/ /\ FreeSuffixes(w) # {}
          /\ LET s == Least(FreeSuffixes(w)) IN
               /\ ReserveRestoreTargetPath(worker[w].run, It(w), PathOf(It(w), worker[w].root, s))
               /\ IF Refused(w, s) THEN Goto(w, "retry") /\ UNCHANGED items
                  ELSE TakePath(w, s, IF It(w) \in Dirs THEN "dirInspect" ELSE "inspect")
       \/ FreeSuffixes(w) = {} /\ Goto(w, "retry") /\ UNCHANGED <<items, reserved>>
    /\ UNCHANGED <<previews, runs, pins, notices, snapshot, strategy, atomic, targetVars, faults>>

Exists(w) == target[Dest(w)] # "none"

\* What the conflict strategy makes of a file or directory that is there.
InspectTarget(w) ==
    /\ At(w, "inspect")
    /\ CASE ~Exists(w) -> Goto(w, "upload") /\ UNCHANGED items
         [] Exists(w) /\ strategy = "SKIP" ->
              SkipRestoreItem(worker[w].run, It(w), worker[w].epoch) /\ Return(w)
         [] Exists(w) /\ strategy = "RENAME" -> Goto(w, "rename") /\ UNCHANGED items
         [] Exists(w) /\ strategy = "OVERWRITE" /\ target[Dest(w)] = "dir" -> Goto(w, "fail") /\ UNCHANGED items
         [] OTHER -> worker' = [worker EXCEPT ![w].over = TRUE, ![w].pc = "upload"] /\ UNCHANGED items
    /\ UNCHANGED <<rest, targetVars, faults>>

\* The suffixes whose path neither exists nor is reserved by another item.
RenameSuffixes(w) ==
    {s \in (worker[w].sfx + 1)..MaxSuffix :
        LET p == PathOf(It(w), worker[w].root, s)
        IN  target[p] = "none" /\ FreeFor(worker[w].run, It(w), p)}

RenameTarget(w) ==
    /\ worker[w].pc \in {"rename", "dirRename"}
    /\ \/ /\ RenameSuffixes(w) # {}
          /\ LET s == Least(RenameSuffixes(w)) IN
               /\ MoveRestoreTargetReservation(worker[w].run, It(w), PathOf(It(w), worker[w].root, s))
               /\ IF Refused(w, s) THEN Goto(w, "retry") /\ UNCHANGED items
                  ELSE TakePath(w, s, IF At(w, "rename") THEN "upload" ELSE "dirCreate")
       \/ RenameSuffixes(w) = {} /\ Goto(w, "retry") /\ UNCHANGED <<items, reserved>>
    /\ UNCHANGED <<previews, runs, pins, notices, snapshot, strategy, atomic, targetVars, faults>>

\* The stream ends without an error only when every block and the whole file
\* match their hashes; damage in the repository is permanent.
ReconstructFails(w) == Fault /\ Goto(w, "fail")

\* The reconstructed file is uploaded: to a staging path where the target
\* can rename, else in place.  A failed upload in place may leave a part.
Upload(w) ==
    /\ At(w, "upload")
    /\ \/ /\ atomic /\ stage' = stage \cup {Key(w)}
          /\ Goto(w, IF worker[w].over THEN "dropBackup" ELSE "swapIn")
          /\ UNCHANGED <<target, faults>>
       \/ ~atomic /\ target' = [target EXCEPT ![Dest(w)] = It(w)] /\ Goto(w, "verify") /\ UNCHANGED <<stage, faults>>
       \/ atomic /\ (Breaks(w) \/ ReconstructFails(w)) /\ stage' = stage \ {Key(w)} /\ UNCHANGED target
       \/ ~atomic /\ (Breaks(w) \/ ReconstructFails(w)) /\ target' \in {target, [target EXCEPT ![Dest(w)] = "part"]} /\ UNCHANGED stage
    /\ UNCHANGED <<items, rest, aside>>

\* promoteRestoreUpload.  What an earlier attempt moved aside is removed first.
DropBackup(w) ==
    /\ At(w, "dropBackup")
    /\ \/ aside' = [aside EXCEPT ![Key(w)] = "none"] /\ Goto(w, "setAside") /\ UNCHANGED faults
       \/ Breaks(w) /\ UNCHANGED aside
    /\ UNCHANGED <<items, rest, target, stage>>

SetAside(w) ==
    /\ At(w, "setAside")
    /\ \/ /\ Exists(w)
          /\ aside' = [aside EXCEPT ![Key(w)] = target[Dest(w)]]
          /\ target' = [target EXCEPT ![Dest(w)] = "none"]
          /\ Goto(w, "swapIn") /\ UNCHANGED faults
       \/ ~Exists(w) /\ Goto(w, "retry") /\ UNCHANGED <<target, aside, faults>>
       \/ Breaks(w) /\ UNCHANGED <<target, aside>>
    /\ UNCHANGED <<items, rest, stage>>

\* The staged file takes the place.  When that fails it is deleted.
SwapIn(w) ==
    /\ At(w, "swapIn")
    /\ \/ /\ Key(w) \in stage
          /\ target' = [target EXCEPT ![Dest(w)] = It(w)]
          /\ stage' = stage \ {Key(w)}
          /\ Goto(w, IF worker[w].over THEN "dropAside" ELSE "verify") /\ UNCHANGED faults
       \/ /\ IF Key(w) \in stage THEN Fault ELSE UNCHANGED faults
          /\ stage' \in {stage, stage \ {Key(w)}} /\ UNCHANGED target
          /\ Goto(w, IF worker[w].over THEN "putBack" ELSE "retry")
    /\ UNCHANGED <<items, rest, aside>>

\* Mutant: the file moved aside is left where it is.
PutBackForgotten(w) ==
    /\ At(w, "putBack")
    /\ Goto(w, "retry")
    /\ aside' = [aside EXCEPT ![Key(w)] = "none"]
    /\ UNCHANGED <<items, rest, target, stage, faults>>

\* The file moved aside comes back; the result is ignored.
PutBack(w) ==
    /\ At(w, "putBack")
    /\ Goto(w, "retry")
    /\ IF aside[Key(w)] # "none"
       THEN \/ /\ target' = [target EXCEPT ![Dest(w)] = aside[Key(w)]]
               /\ aside' = [aside EXCEPT ![Key(w)] = "none"] /\ UNCHANGED faults
            \/ Fault /\ UNCHANGED <<target, aside>>
       ELSE UNCHANGED <<target, aside, faults>>
    /\ UNCHANGED <<items, rest, stage>>

DropAside(w) ==
    /\ At(w, "dropAside")
    /\ \/ aside' = [aside EXCEPT ![Key(w)] = "none"] /\ Goto(w, "verify") /\ UNCHANGED faults
       \/ Breaks(w) /\ UNCHANGED aside
    /\ UNCHANGED <<items, rest, target, stage>>

\* Size, and the hash where the target has one: another file may pass.
VerifyTarget(w) ==
    /\ At(w, "verify")
    /\ \/ target[Dest(w)] \in Files \cup {"orig"} /\ Goto(w, "complete") /\ UNCHANGED faults
       \/ target[Dest(w)] # It(w) /\ Goto(w, "retry") /\ UNCHANGED faults
       \/ Breaks(w)
    /\ UNCHANGED <<items, rest, targetVars>>

Complete(w) ==
    /\ worker[w].pc \in {"complete", "dirComplete"}
    /\ CompleteRestoreItem(worker[w].run, It(w), worker[w].epoch)
    /\ CASE At(w, "complete") -> Goto(w, "metadata")
         [] ~OwnsItem(worker[w].run, It(w), worker[w].epoch) -> Goto(w, "retry")
         [] OTHER -> Return(w)
    /\ UNCHANGED <<rest, targetVars, faults>>

\* Modification time and metadata, best effort.
ApplyMetadata(w) ==
    /\ At(w, "metadata")
    /\ \/ UNCHANGED <<items, faults>>
       \/ Fault /\ WarnRestoreItem(worker[w].run, It(w), worker[w].epoch)
    /\ Return(w)
    /\ UNCHANGED <<rest, targetVars>>

-----------------------------------------------------------------------------
(* restoreDirectory *)

InspectDirectory(w) ==
    /\ At(w, "dirInspect")
    /\ CASE ~Exists(w) -> Goto(w, "dirCreate") /\ UNCHANGED items
         [] target[Dest(w)] = "dir" -> Goto(w, "dirComplete") /\ UNCHANGED items
         [] Exists(w) /\ target[Dest(w)] # "dir" /\ strategy = "SKIP" ->
              SkipRestoreItem(worker[w].run, It(w), worker[w].epoch) /\ Return(w)
         [] OTHER -> Goto(w, IF strategy = "RENAME" THEN "dirRename" ELSE "dirReplace") /\ UNCHANGED items
    /\ UNCHANGED <<rest, targetVars, faults>>

\* OVERWRITE deletes the file that is in the way.
ReplaceByDirectory(w) ==
    /\ At(w, "dirReplace")
    /\ \/ target' = [target EXCEPT ![Dest(w)] = "none"] /\ Goto(w, "dirCreate") /\ UNCHANGED faults
       \/ Breaks(w) /\ UNCHANGED target
    /\ UNCHANGED <<items, rest, stage, aside>>

CreateDirectory(w) ==
    /\ At(w, "dirCreate")
    /\ \/ target' = [target EXCEPT ![Dest(w)] = "dir"] /\ Goto(w, "dirComplete") /\ UNCHANGED faults
       \/ Breaks(w) /\ UNCHANGED target
    /\ UNCHANGED <<items, rest, stage, aside>>

-----------------------------------------------------------------------------
(* Errors, heartbeats and crashes *)

Retry(w) ==
    /\ At(w, "retry")
    /\ RetryRestoreItem(worker[w].run, It(w), worker[w].epoch)
    /\ Return(w)
    /\ UNCHANGED <<rest, targetVars, faults>>

\* isPermanentRestoreError
FailItem(w) ==
    /\ At(w, "fail")
    /\ FailRestoreItem(worker[w].run, It(w), worker[w].epoch)
    /\ Return(w)
    /\ UNCHANGED <<rest, targetVars, faults>>

WorkerNext(w) ==
    \/ PollRecoverItems(w) \/ PollExpire(w) \/ PollRecoverPlanning(w) \/ PollPreview(w) \/ CountPreview(w) \/ FinishPreview(w)
    \/ PollRun(w) \/ Plan(w) \/ FailPlan(w) \/ PollSkipBlocked(w) \/ PollItem(w)
    \/ PollFinalize(w) \/ PollFinalizeCancelling(w)
    \/ LoadTarget(w) \/ ConnectTarget(w) \/ ReservePath(w) \/ InspectTarget(w) \/ RenameTarget(w) \/ Upload(w)
    \/ DropBackup(w) \/ SetAside(w) \/ SwapIn(w) \/ PutBack(w) \/ DropAside(w)
    \/ VerifyTarget(w) \/ Complete(w) \/ ApplyMetadata(w)
    \/ InspectDirectory(w) \/ ReplaceByDirectory(w) \/ CreateDirectory(w)
    \/ Retry(w) \/ FailItem(w)

\* A heartbeat renews what its worker still owns.
HeartbeatItem(w) ==
    /\ worker[w].pc \in ItemSteps /\ ~Row(w).fresh
    /\ HeartbeatRestoreItem(worker[w].run, It(w), worker[w].epoch)
    /\ UNCHANGED <<worker, rest, targetVars, faults>>

HeartbeatPreview(w) ==
    /\ At(w, "preview") /\ OwnsPreview(worker[w].prev, worker[w].gen) /\ ~previews[worker[w].prev].fresh
    /\ previews' = [previews EXCEPT ![worker[w].prev].fresh = TRUE]
    /\ UNCHANGED <<worker, runs, items, reserved, pins, notices, snapshot, strategy, atomic, targetVars, faults>>

Crash(w) ==
    /\ worker[w].pc # "idle"
    /\ Fault /\ Return(w)
    /\ UNCHANGED <<rowVars, snapshot, strategy, atomic, targetVars>>

WorksOnItem(r, i) ==
    \E w \in Workers : worker[w].pc \in ItemSteps /\ worker[w].run = r /\ It(w) = i /\ worker[w].epoch = items[r][i].epoch

\* Two minutes pass without a heartbeat: nobody is there, or a live worker's
\* heartbeats do not get through.
ItemLapses(r, i) ==
    /\ items[r][i].st = "RUNNING" /\ items[r][i].fresh
    /\ IF WorksOnItem(r, i) THEN SlowWorkers /\ Fault ELSE UNCHANGED faults
    /\ items' = [items EXCEPT ![r][i].fresh = FALSE]
    /\ UNCHANGED <<worker, rest, targetVars>>

Planning(r) == \E w \in Workers : worker[w].pc \in {"plan", "failPlan"} /\ worker[w].run = r

RunLapses(r) ==
    /\ runs[r].st = "PLANNING" /\ runs[r].fresh
    /\ runs' = [runs EXCEPT ![r].fresh = FALSE]
    /\ IF Planning(r) THEN SlowWorkers /\ Fault ELSE UNCHANGED faults
    /\ UNCHANGED <<worker, previews, items, reserved, pins, notices, snapshot, strategy, atomic, targetVars>>

Previewing(p) ==
    \E w \in Workers : worker[w].pc \in {"preview", "previewReady", "previewFailed"} /\ worker[w].prev = p

\* The lease of a preview at work, or the lifetime of a READY one, runs out.
PreviewLapses(p) ==
    /\ previews[p].st \in {"RUNNING", "READY"} /\ previews[p].fresh
    /\ previews' = [previews EXCEPT ![p].fresh = FALSE]
    /\ IF Previewing(p) /\ previews[p].st = "RUNNING" THEN SlowWorkers /\ Fault ELSE UNCHANGED faults
    /\ UNCHANGED <<worker, runs, items, reserved, pins, notices, snapshot, strategy, atomic, targetVars>>
=============================================================================

--------------------------- MODULE RestoreSystem ----------------------------
(***************************************************************************)
(* A restore job with its coordinators, the API handlers of its owner and  *)
(* the repository it reads from.                                           *)
(***************************************************************************)
EXTENDS RestoreCoordinator

VARIABLE requests  \* how many requests the owner has made

vars == <<storeVars, worker, requests>>

Init == StoreInit /\ WorkerInit /\ requests = 0

Request == requests < MaxRequests /\ requests' = requests + 1

others == <<worker, snapshot, strategy, atomic, targetVars, faults, notices>>

-----------------------------------------------------------------------------
(* Handlers *)

\* A retry needs a job whose runs have all ended.
HandleCreateRestorePreview ==
    /\ Request /\ snapshot
    /\ \E p \in PreviewIds :
         /\ previews[p].st = "NONE" /\ \A q \in PreviewIds : q < p => previews[q].st # "NONE"
         /\ \E retry \in BOOLEAN :
              /\ retry => JobExists /\ ~HasOpenRun
              /\ CreateRestorePreview(p, retry)
    /\ UNCHANGED <<runs, items, reserved, pins, others>>

HandleCancelRestorePreview ==
    /\ Request /\ \E p \in PreviewIds : CancelRestorePreview(p)
    /\ UNCHANGED <<runs, items, reserved, pins, others>>

HandleConsumeRestorePreview ==
    /\ Request /\ \E p \in PreviewIds, r \in RunIds : ConsumeRestorePreview(p, r)
    /\ UNCHANGED <<items, reserved, pins, others>>

HandleCancelRestoreRun ==
    /\ Request /\ \E r \in RunIds : CancelRestoreRun(r)
    /\ UNCHANGED <<previews, reserved, others>>

HandleDeleteRestoreJob ==
    /\ Request /\ DeleteRestoreJob
    /\ UNCHANGED <<previews, others>>

\* An administrator suspends the owner (SuspendUser).
SuspendUser ==
    /\ Request /\ SuspendRestores
    /\ UNCHANGED <<reserved, others>>

\* Retention or confirmed damage takes the snapshot, or the backup job is deleted.
SnapshotGoes ==
    /\ snapshot /\ Boot = "new"
    /\ snapshot' = FALSE
    /\ UNCHANGED <<worker, rowVars, strategy, atomic, targetVars, faults, requests>>

Users ==
    \/ HandleCreateRestorePreview \/ HandleCancelRestorePreview \/ HandleConsumeRestorePreview
    \/ HandleCancelRestoreRun \/ HandleDeleteRestoreJob \/ SuspendUser

TimePasses ==
    /\ \/ \E r \in RunIds : RunLapses(r) \/ \E i \in Items : ItemLapses(r, i)
       \/ \E p \in PreviewIds : PreviewLapses(p)
    /\ UNCHANGED requests

WorkerStep(w) == (WorkerNext(w) \/ HeartbeatItem(w) \/ HeartbeatPreview(w) \/ Crash(w)) /\ UNCHANGED requests

Next == (\E w \in Workers : WorkerStep(w)) \/ TimePasses \/ Users \/ SnapshotGoes

Spec == Init /\ [][Next]_vars

-----------------------------------------------------------------------------
\* Rows, target, worker memory and the number of requests keep their types.
TypeOK == StoreTypeOK /\ WorkerTypeOK /\ requests \in 0..MaxRequests

(***************************************************************************)
(* A run that ended, however it ended, keeps no credentials, no pinned     *)
(* packs and no item at work, and a preview that ended keeps no            *)
(* credentials: not even when a worker connects, and stores its session,   *)
(* while the run is being cancelled (FinalizeCompletedRestoreRunsContext,  *)
(* CancelRestoreRunForOwnerContext, UpdateRestoreRunMegaSessionContext).   *)
(***************************************************************************)
ClosedRunHoldsNothing ==
    /\ \A r \in RunIds : runs[r].st \in Closed => ~runs[r].creds /\ r \notin pins /\ InState(r, {"RUNNING"}) = {}
    /\ \A p \in PreviewIds : previews[p].st \notin OpenPreview => ~previews[p].creds

(***************************************************************************)
(* The outcome of a run is what its items say: COMPLETED restored all of   *)
(* them, PARTIAL some, FAILED none, and exactly one notification was       *)
(* created for it (FinalizeCompletedRestoreRunsContext).                   *)
(***************************************************************************)
OutcomeMatchesItems ==
    \A r \in RunIds :
        /\ runs[r].st = "COMPLETED" => InState(r, Done) = Items
        /\ runs[r].st = "PARTIAL" => InState(r, Done) # {} /\ InState(r, Imperfect) # {}
        /\ runs[r].st = "FAILED" => InState(r, Done) = {}
        /\ runs[r].st # "GONE" => notices[r] = (IF runs[r].st \in {"COMPLETED", "PARTIAL", "FAILED"} THEN 1 ELSE 0)

(***************************************************************************)
(* An item that is COMPLETED or has a WARNING is there: its target path    *)
(* holds its content, or the directory.  Crashes, retries, renames of the  *)
(* directory above and two items with names that differ in case only do    *)
(* not change that (restoreItem, promoteRestoreUpload).                    *)
(***************************************************************************)
RestoredHere(r, i) ==
    target[PathOf(i, items[r][i].root, items[r][i].sfx)] = (IF i \in Dirs THEN "dir" ELSE i)

LastRun(r) == runs[r].st \notin {"NONE", "GONE"} /\ \A q \in RunIds : q > r => runs[q].st = "NONE"

CompletedIsRestored ==
    \A r \in RunIds, i \in Items : LastRun(r) /\ items[r][i].st \in Done => RestoredHere(r, i)

(***************************************************************************)
(* A file of the user that is in the way is never touched by SKIP and      *)
(* RENAME, and with OVERWRITE on a target that can rename it exists, in    *)
(* place or aside, until the restored file is there (promoteRestoreUpload: *)
(* "a transient provider error cannot turn an overwrite into data loss").  *)
(***************************************************************************)
HasOriginal(p) == target[p] = "orig" \/ \E r \in RunIds, i \in Items : aside[<<r, i, p>>] = "orig"
HasRestored(p) == target[p] \in Items \/ \E r \in RunIds, i \in Items : aside[<<r, i, p>>] \in Items

OriginalSurvives ==
    [][\A p \in Paths : HasOriginal(p) =>
        \/ HasOriginal(p)'
        \/ strategy = "OVERWRITE" /\ (~atomic \/ HasRestored(p)' \/ \E d \in Dirs : p[1] = Name[d])]_vars

(***************************************************************************)
(* A run that ended stays as it ended: a worker that was still at work     *)
(* when the run was cancelled or its owner suspended restores nothing more *)
(* in its name.  Three late changes remain: the warning of an item that    *)
(* was completed; and an item whose retry was noted while the run was      *)
(* being cancelled is skipped with its directory, or cancelled when the    *)
(* owner is suspended.                                                     *)
(***************************************************************************)
ClosedRunIsFrozen ==
    [][\A r \in RunIds : runs[r].st \in Closed =>
        \/ runs'[r].st = "GONE"
        \/ /\ runs'[r] = runs[r]
           /\ \A i \in Items : \/ items'[r][i].st = items[r][i].st
                               \/ items[r][i].st = "COMPLETED" /\ items'[r][i].st = "WARNING"
                               \/ items[r][i].st = "PENDING" /\ items'[r][i].st \in {"SKIPPED", "CANCELLED"}]_vars

-----------------------------------------------------------------------------
(* What comments and documents say and what the code does not do.  No run  *)
(* checks these formulas; the README gives the constants under which TLC   *)
(* finds a counterexample.                                                 *)

(***************************************************************************)
(* A warning counts as imperfect: a run with one is PARTIAL and never      *)
(* COMPLETED (FinalizeCompletedRestoreRunsContext).                        *)
(***************************************************************************)
WarningIsPartial ==
    \A r \in RunIds : runs[r].st = "COMPLETED" => InState(r, Imperfect) = {}

=============================================================================

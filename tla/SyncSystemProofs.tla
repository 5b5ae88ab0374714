-------------------------- MODULE SyncSystemProofs --------------------------
(***************************************************************************)
(* Proofs about a sync job, for any number of passes, workers, attempts,   *)
(* versions and outside events, and any set of settings.                   *)
(*                                                                         *)
(* Four invariants build on each other.  Typed is the type invariant.      *)
(* Ordered is the discipline of the passes: the advisory lock, the drain   *)
(* and the generation on tasks and workers.  TagsAreTrue says that a       *)
(* stored ETag describes the file stored with it.  Agreed says what a pass *)
(* knows about both sides while nothing was edited under it, from its      *)
(* first listing to the baseline it commits.                               *)
(*                                                                         *)
(* Most steps of workers, handlers, schedule and recovery do to the state  *)
(* what Quiet describes; each is shown to be Quiet once, and Ordered and   *)
(* Agreed follow from that.                                                *)
(***************************************************************************)
EXTENDS SyncSystem, TLAPS

USE DEF rowVars, engineVars, workerVars, signalVars, userVars, KeepHistory, KeepUser, KeepSystem, KeepRest, KeepApi

-----------------------------------------------------------------------------
(* Types *)

(* The initial rows, coordinators and workers have their types.            *)
LEMMA InitTyped == Init => TypeOK
  <1> USE SyncVersionsAssumption, SyncBoundsAssumption
  <1> SUFFICES ASSUME Init PROVE TypeOK
    OBVIOUS
  <1>1. StoreTypeOK
    BY DEF Init, StoreTypeOK, Job, Statuses, Working, Outcomes, Schedule, Task, TaskStatuses, NoTask, Sides, Kinds, Listing, Nothing, NoTag, Absent
  <1>2. EngineTypeOK
    <2>1. NoCoordinator \in Coordinator
      BY DEF Coordinator, NoCoordinator, Settings, Outcomes, Listing, Nothing, NoTag, Absent, Sides
    <2>2. disk \in [Sides -> Disk]
      BY DEF Init, Disk, Sides, Absent
    <2>3. coord \in [Gens -> Coordinator]
      BY <2>1 DEF Init
    <2>4. lock \in 0..MaxGen /\ copies \subseteq 1..MaxVersion
      BY DEF Init
    <2> QED  BY <2>2, <2>3, <2>4 DEF EngineTypeOK
  <1>3. WorkerTypeOK
    BY DEF Init, WorkerTypeOK, Worker, NoWork, Kinds, Absent
  <1>4. /\ api \in {"idle", "resuming", "deleting"} /\ made \in 0..MaxVersion
        /\ superseded \subseteq 0..MaxVersion /\ raced \subseteq 0..MaxVersion /\ held \in BOOLEAN
    <2>1. made \in 0..MaxVersion /\ superseded \subseteq 0..MaxVersion /\ raced \subseteq 0..MaxVersion
      BY DEF Init
    <2> QED  BY <2>1, Zenon DEF Init
  <1> QED  BY <1>1, <1>2, <1>3, <1>4 DEF TypeOK

(* The type invariant as one conjunction.                                  *)
Typed ==
    /\ job \in Job /\ cfg \in Configs /\ sched \in Schedule
    /\ tasks \in [Kinds -> Task] /\ base \in [Sides -> Listing] /\ events \in 0..MaxEvents
    /\ coord \in [Gens -> Coordinator] /\ lock \in 0..MaxGen
    /\ disk \in [Sides -> Disk] /\ copies \subseteq 1..MaxVersion
    /\ worker \in [Workers -> Worker] /\ cancelled \subseteq Gens /\ verifier \in BOOLEAN
    /\ api \in {"idle", "resuming", "deleting"} /\ made \in 0..MaxVersion
    /\ superseded \subseteq 0..MaxVersion /\ raced \subseteq 0..MaxVersion /\ held \in BOOLEAN

LEMMA TypedIsTypeOK == Typed <=> TypeOK
  BY SyncBoundsAssumption DEF Typed, TypeOK, StoreTypeOK, EngineTypeOK, WorkerTypeOK

LEMMA NoCoordinatorTyped == NoCoordinator \in Coordinator
  BY SyncVersionsAssumption DEF Coordinator, NoCoordinator, Settings, Outcomes, Listing, Nothing, NoTag, Absent, Sides

LEMMA NoCoordinatorDone == [NoCoordinator EXCEPT !.pc = "done"] \in Coordinator
  BY NoCoordinatorTyped DEF Coordinator

(* Replacing one coordinator keeps the type.                               *)
LEMMA CoordinatorAt ==
    ASSUME coord \in [Gens -> Coordinator], NEW g \in Gens, NEW c \in Coordinator
    PROVE  [coord EXCEPT ![g] = c] \in [Gens -> Coordinator]
  OBVIOUS

(* What a scan returns is a listing.                                       *)
LEMMA ListedTyped ==
    ASSUME Typed, NEW s \in Sides, NEW l \in Listing
    PROVE  ListFiles(s, l) \in Listing
  BY SyncVersionsAssumption DEF ListFiles, Listing, Typed, Disk, NoTag

(* Reconciling, invalidating and pruning keep listings listings.           *)
LEMMA ListingsTyped ==
    ASSUME Typed, NEW l \in [Sides -> Listing], NEW m \in [Sides -> Listing], NEW done, NEW p, NEW removed
    PROVE  /\ Reconciled(l, done, disk) \in [Sides -> Listing]
           /\ Invalidated(l, p) \in [Sides -> Listing]
           /\ NextBaseline(l, m, p) \in [Sides -> Listing]
           /\ Pruned(l, removed) \in [Sides -> Listing]
  <1> USE SyncVersionsAssumption DEF Listing, NoTag, Absent
  <1>1. Reconciled(l, done, disk) \in [Sides -> Listing]
    BY DEF Reconciled, Typed, Disk
  <1>2. Invalidated(l, p) \in [Sides -> Listing]
    BY DEF Invalidated
  <1>3. NextBaseline(l, m, p) \in [Sides -> Listing]
    BY DEF NextBaseline
  <1>4. Pruned(l, removed) \in [Sides -> Listing]
    <2>1. ASSUME NEW x \in Listing PROVE [x EXCEPT !.dir = FALSE, !.tag = NoTag] \in Listing
      <3>1. NoTag \in NoTag..MaxVersion
        OBVIOUS
      <3> HIDE DEF NoTag
      <3> QED  BY <3>1
    <2> HIDE DEF Listing
    <2> QED  BY <2>1 DEF Pruned
  <1> QED  BY <1>1, <1>2, <1>3, <1>4

(* T_A: the step A keeps the types.                                        *)
LEMMA T_LockPass ==
    ASSUME Typed, NEW g \in Gens, LockPass(g), UNCHANGED <<workerVars, api, userVars, held>>
    PROVE  Typed'
  <1> USE SyncVersionsAssumption, SyncBoundsAssumption
  <1>1. coord' \in [Gens -> Coordinator]
    <2>1. [coord[g] EXCEPT !.pc = "drain", !.c = cfg] \in Coordinator
      BY ZenonT(60) DEF Typed, Coordinator
    <2> QED  BY <2>1, NoCoordinatorDone, CoordinatorAt DEF Typed, LockPass, Finish
  <1>2. lock' \in 0..MaxGen
    BY DEF Typed, LockPass, Finish, InPass, Gens
  <1> QED  BY <1>1, <1>2, Zenon DEF Typed, LockPass, Finish, InPass, Event

LEMMA T_LockFails ==
    ASSUME Typed, NEW g \in Gens, LockFails(g), UNCHANGED <<workerVars, api, userVars, held>>
    PROVE  Typed'
  <1> USE SyncVersionsAssumption, SyncBoundsAssumption
  <1>1. job' \in Job
    BY DEF Typed, LockFails, ReleaseUnstartedSyncPass, InPass, Finish, Job, Statuses, Working, Outcomes
  <1>2. coord' \in [Gens -> Coordinator]
    BY NoCoordinatorTyped DEF Typed, LockFails, ReleaseUnstartedSyncPass, InPass, Finish, Coordinator, Gens
  <1>3. lock' \in 0..MaxGen
    BY DEF Typed, LockFails, ReleaseUnstartedSyncPass, InPass, Finish, Gens
  <1>4. events' \in 0..MaxEvents
    BY DEF Typed, LockFails, ReleaseUnstartedSyncPass, InPass, Finish, Event
  <1> QED  BY <1>1, <1>2, <1>3, <1>4, Zenon DEF Typed, LockFails, ReleaseUnstartedSyncPass, InPass, Finish, Event

LEMMA T_Drained ==
    ASSUME Typed, NEW g \in Gens, Drained(g), UNCHANGED <<workerVars, api, userVars, held>>
    PROVE  Typed'
  <1> USE SyncVersionsAssumption, SyncBoundsAssumption
  <1>1. coord' \in [Gens -> Coordinator]
    <2>1. [coord[g] EXCEPT !.pc = "scanSource", !.prev = base] \in Coordinator
      BY ZenonT(60) DEF Typed, Coordinator
    <2> QED  BY <2>1, CoordinatorAt DEF Typed, Drained
  <1> QED  BY <1>1, Zenon DEF Typed, Drained, Event

LEMMA T_Interrupted ==
    ASSUME Typed, NEW g \in Gens, Interrupted(g), UNCHANGED <<workerVars, api, userVars, held>>
    PROVE  Typed'
  <1> USE SyncVersionsAssumption, SyncBoundsAssumption
  <1>1. coord' \in [Gens -> Coordinator]
    BY NoCoordinatorTyped DEF Typed, Interrupted, Finish, Coordinator, Gens
  <1>2. lock' \in 0..MaxGen
    BY DEF Typed, Interrupted, Finish, Gens
  <1> QED  BY <1>1, <1>2, Zenon DEF Typed, Interrupted, Finish, Event

LEMMA T_FailSync ==
    ASSUME Typed, NEW g \in Gens, FailSync(g), UNCHANGED <<workerVars, api, userVars, held>>
    PROVE  Typed'
  <1> USE SyncVersionsAssumption, SyncBoundsAssumption
  <1>1. job' \in Job
    BY DEF Typed, FailSync, FailSyncJobPass, InPass, Finish, Job, Statuses, Working, Outcomes
  <1>2. coord' \in [Gens -> Coordinator]
    BY NoCoordinatorTyped DEF Typed, FailSync, FailSyncJobPass, InPass, Finish, Coordinator, Gens
  <1>3. lock' \in 0..MaxGen
    BY DEF Typed, FailSync, FailSyncJobPass, InPass, Finish, Gens
  <1>4. events' \in 0..MaxEvents
    BY DEF Typed, FailSync, FailSyncJobPass, InPass, Finish, Event
  <1> QED  BY <1>1, <1>2, <1>3, <1>4, Zenon DEF Typed, FailSync, FailSyncJobPass, InPass, Finish, Event

LEMMA T_ScanSource ==
    ASSUME Typed, NEW g \in Gens, ScanSource(g), UNCHANGED <<workerVars, api, userVars, held>>
    PROVE  Typed'
  <1> USE SyncVersionsAssumption, SyncBoundsAssumption
  <1>1. coord' \in [Gens -> Coordinator]
    <2>1. PICK l \in Listing : l = ListFiles("source", coord[g].prev["source"])
      BY ListedTyped DEF Typed, Coordinator, Sides
    <2>2. [coord[g] EXCEPT !.pc = "scanTarget", !.seen["source"] = l] \in Coordinator
      BY <2>1, ZenonT(60) DEF Typed, Coordinator
    <2> QED  BY <2>1, <2>2, CoordinatorAt DEF Typed, ScanSource, Scan
  <1> QED  BY <1>1, Zenon DEF Typed, ScanSource, Scan, Event

LEMMA T_ScanTarget ==
    ASSUME Typed, NEW g \in Gens, ScanTarget(g), UNCHANGED <<workerVars, api, userVars, held>>
    PROVE  Typed'
  <1> USE SyncVersionsAssumption, SyncBoundsAssumption
  <1>1. coord' \in [Gens -> Coordinator]
    <2>1. PICK l \in Listing : l = ListFiles("target", coord[g].prev["target"])
      BY ListedTyped DEF Typed, Coordinator, Sides
    <2>2. [coord[g] EXCEPT !.pc = "plan", !.seen["target"] = l] \in Coordinator
      BY <2>1, ZenonT(60) DEF Typed, Coordinator
    <2> QED  BY <2>1, <2>2, CoordinatorAt DEF Typed, ScanTarget, Scan
  <1> QED  BY <1>1, Zenon DEF Typed, ScanTarget, Scan, Event

LEMMA T_Plan ==
    ASSUME Typed, NEW g \in Gens, Plan(g), UNCHANGED <<workerVars, api, userVars, held>>
    PROVE  Typed'
  <1> USE SyncVersionsAssumption, SyncBoundsAssumption
  <1> DEFINE planned == Delta(coord[g].c, coord[g].seen, coord[g].prev)
             pruned == Cleanup(coord[g].c, coord[g].seen, coord[g].prev)
  <1>p. pruned \subseteq Sides
    BY DEF Cleanup, CleanupCandidates, Sides
  <1>f. [k \in Kinds |-> IF tasks[k].st = "RUNNING" THEN tasks[k] ELSE NoTask] \in [Kinds -> Task]
    BY DEF Typed, Task, TaskStatuses, NoTask, Sides
  <1>c. ClearOldTasks => tasks' \in [Kinds -> Task]
    BY <1>f DEF ClearOldTasks
  <1> HIDE DEF planned, pruned
  <1>e. UNCHANGED <<cfg, sched, base, disk, copies, events>>
    BY DEF Plan
  <1>1. CASE planned = {}
    <2>1. [coord[g] EXCEPT !.pc = "prune", !.prune = pruned, !.empty = TRUE] \in Coordinator
      BY <1>p, ZenonT(60) DEF Typed, Coordinator
    <2>2. /\ ClearOldTasks
          /\ coord' = [coord EXCEPT ![g].pc = "prune", ![g].prune = pruned, ![g].empty = TRUE]
          /\ UNCHANGED <<job, lock>>
      BY <1>1 DEF Plan, planned, pruned
    <2>3. coord' \in [Gens -> Coordinator]
      BY <2>1, <2>2, CoordinatorAt DEF Typed
    <2> QED  BY <1>c, <1>e, <2>2, <2>3 DEF Typed
  <1>2. CASE planned # {} /\ coord[g].stop
    <2>1. ClearOldTasks /\ FailSyncJobPass(g) /\ Finish(g)
      BY <1>2 DEF Plan, planned, pruned
    <2>2. coord' \in [Gens -> Coordinator] /\ lock' \in 0..MaxGen
      BY <2>1, NoCoordinatorDone, CoordinatorAt DEF Typed, Finish
    <2>3. job' \in Job
      BY <2>1 DEF Typed, FailSyncJobPass, InPass, Job, Statuses, Working, Outcomes
    <2> QED  BY <1>c, <1>e, <2>1, <2>2, <2>3 DEF Typed
  <1>3. CASE planned # {} /\ ~coord[g].stop
    <2>1. [coord[g] EXCEPT !.pc = "start", !.prune = pruned] \in Coordinator
      BY <1>p, ZenonT(60) DEF Typed, Coordinator
    <2>2. /\ BulkCreateSyncTasks(g, planned)
          /\ coord' = [coord EXCEPT ![g].pc = "start", ![g].prune = pruned]
          /\ UNCHANGED <<job, lock>>
      BY <1>3 DEF Plan, planned, pruned
    <2>3. coord' \in [Gens -> Coordinator]
      BY <2>1, <2>2, CoordinatorAt DEF Typed
    <2>4. tasks' \in [Kinds -> Task]
      <3>2. NoTask \in Task
        BY DEF Task, TaskStatuses, NoTask, Sides
      <3>1. ASSUME NEW k \in Kinds, NEW s \in Sides
            PROVE  [NoTask EXCEPT !.st = "PENDING", !.gen = g, !.to = s] \in Task
        <4>1. g \in 0..MaxGen
          BY DEF Gens
        <4> QED  BY <3>2, <4>1 DEF Task, TaskStatuses
      <3>3. ASSUME NEW k \in Kinds, \E s \in Sides : <<k, s>> \in planned
            PROVE  (CHOOSE s \in Sides : <<k, s>> \in planned) \in Sides
        BY <3>3
      <3> QED  BY <2>2, <3>1, <3>2, <3>3, Zenon DEF Typed, BulkCreateSyncTasks
    <2> QED  BY <1>e, <2>2, <2>3, <2>4 DEF Typed
  <1> QED  BY <1>1, <1>2, <1>3

LEMMA T_StartTasks ==
    ASSUME Typed, NEW g \in Gens, StartTasks(g), UNCHANGED <<workerVars, api, userVars, held>>
    PROVE  Typed'
  <1> USE SyncVersionsAssumption, SyncBoundsAssumption
  <1>1. job' \in Job
    BY DEF Typed, StartTasks, TransitionSyncJobToRunning, InPass, Goto, Finish, Job, Statuses, Working, Outcomes
  <1>2. coord' \in [Gens -> Coordinator]
    <2>1. [coord[g] EXCEPT !.pc = "poll"] \in Coordinator
      BY ZenonT(60) DEF Typed, Coordinator
    <2> QED  BY <2>1, NoCoordinatorDone, CoordinatorAt DEF Typed, StartTasks, Goto, Finish
  <1>3. lock' \in 0..MaxGen
    BY DEF Typed, StartTasks, TransitionSyncJobToRunning, InPass, Goto, Finish, Gens
  <1> QED  BY <1>1, <1>2, <1>3, Zenon DEF Typed, StartTasks, TransitionSyncJobToRunning, InPass, Goto, Finish, Event

LEMMA T_PollStopped ==
    ASSUME Typed, NEW g \in Gens, PollStopped(g), UNCHANGED <<workerVars, api, userVars, held>>
    PROVE  Typed'
  <1> USE SyncVersionsAssumption, SyncBoundsAssumption
  <1>1. coord' \in [Gens -> Coordinator]
    BY NoCoordinatorTyped DEF Typed, PollStopped, Finish, Coordinator, Gens
  <1>2. lock' \in 0..MaxGen
    BY DEF Typed, PollStopped, Finish, Gens
  <1> QED  BY <1>1, <1>2, Zenon DEF Typed, PollStopped, Finish, Event

LEMMA T_PollDone ==
    ASSUME Typed, NEW g \in Gens, PollDone(g), UNCHANGED <<workerVars, api, userVars, held>>
    PROVE  Typed'
  <1> USE SyncVersionsAssumption, SyncBoundsAssumption
  <1>1. job' \in Job
    BY DEF Typed, PollDone, TransitionSyncJobToVerifying, InPass, Goto, Finish, Job, Statuses, Working, Outcomes
  <1>2. coord' \in [Gens -> Coordinator]
    <2>1. [coord[g] EXCEPT !.pc = "verify"] \in Coordinator
      BY ZenonT(60) DEF Typed, Coordinator
    <2>2. [coord[g] EXCEPT !.pc = "final"] \in Coordinator
      BY ZenonT(60) DEF Typed, Coordinator
    <2> QED  BY <2>1, <2>2, NoCoordinatorDone, CoordinatorAt DEF Typed, PollDone, Goto, Finish
  <1>3. lock' \in 0..MaxGen
    BY DEF Typed, PollDone, TransitionSyncJobToVerifying, InPass, Goto, Finish, Gens
  <1> QED  BY <1>1, <1>2, <1>3, Zenon DEF Typed, PollDone, TransitionSyncJobToVerifying, InPass, Goto, Finish, Event

LEMMA T_VerifyDone ==
    ASSUME Typed, NEW g \in Gens, VerifyDone(g), UNCHANGED <<workerVars, api, userVars, held>>
    PROVE  Typed'
  <1> USE SyncVersionsAssumption, SyncBoundsAssumption
  <1>1. coord' \in [Gens -> Coordinator]
    <2>1. [coord[g] EXCEPT !.pc = "final"] \in Coordinator
      BY DEF Typed, Coordinator
    <2> QED  BY <2>1, CoordinatorAt DEF Typed, VerifyDone, Goto
  <1> QED  BY <1>1, Zenon DEF Typed, VerifyDone, Goto, Event

LEMMA T_VerifyStopped ==
    ASSUME Typed, NEW g \in Gens, VerifyStopped(g), UNCHANGED <<workerVars, api, userVars, held>>
    PROVE  Typed'
  <1> USE SyncVersionsAssumption, SyncBoundsAssumption
  <1>1. job' \in Job
    BY DEF Typed, VerifyStopped, AbortSyncJobVerification, InPass, Goto, Job, Statuses, Working, Outcomes
  <1>2. coord' \in [Gens -> Coordinator]
    <2>1. [coord[g] EXCEPT !.pc = "final"] \in Coordinator
      BY DEF Typed, Coordinator
    <2> QED  BY <2>1, CoordinatorAt DEF Typed, VerifyStopped, Goto
  <1> QED  BY <1>1, <1>2, Zenon DEF Typed, VerifyStopped, AbortSyncJobVerification, InPass, Goto, Event

LEMMA T_Final ==
    ASSUME Typed, NEW g \in Gens, Final(g), UNCHANGED <<workerVars, api, userVars, held>>
    PROVE  Typed'
  <1> USE SyncVersionsAssumption, SyncBoundsAssumption
  <1>e. UNCHANGED <<cfg, sched, tasks, base, disk, copies, events>>
    BY DEF Final
  <1>1. CASE ~InPass(g, {"RUNNING", "VERIFYING"}) \/ coord[g].stop
    <2>1. Finish(g) /\ (UNCHANGED job \/ FailSyncJobPass(g))
      BY <1>1 DEF Final
    <2>2. coord' \in [Gens -> Coordinator] /\ lock' \in 0..MaxGen
      BY <2>1, NoCoordinatorDone, CoordinatorAt DEF Typed, Finish
    <2>3. job' \in Job
      BY <2>1 DEF Typed, FailSyncJobPass, InPass, Job, Statuses, Working, Outcomes
    <2> QED  BY <1>e, <2>2, <2>3 DEF Typed
  <1>2. CASE InPass(g, {"RUNNING", "VERIFYING"}) /\ ~coord[g].stop
    <2>1. PICK seen \in [Sides -> Listing] :
             /\ coord' = [coord EXCEPT ![g].pc = "prune", ![g].out = Outcome(g), ![g].seen = seen]
             /\ UNCHANGED <<job, lock>>
      <3>1. PICK done, undone, p :
               /\ coord' = [coord EXCEPT ![g].pc = "prune", ![g].out = Outcome(g),
                      ![g].seen = NextBaseline(Invalidated(Reconciled(coord[g].seen, done, disk), p), coord[g].prev, p)]
               /\ UNCHANGED <<job, lock>>
        BY <1>2, Zenon DEF Final
      <3>2. coord[g].seen \in [Sides -> Listing] /\ coord[g].prev \in [Sides -> Listing]
        BY DEF Typed, Coordinator
      <3>3. Reconciled(coord[g].seen, done, disk) \in [Sides -> Listing]
        BY <3>2, ListingsTyped
      <3>4. Invalidated(Reconciled(coord[g].seen, done, disk), p) \in [Sides -> Listing]
        BY <3>3, ListingsTyped
      <3>5. NextBaseline(Invalidated(Reconciled(coord[g].seen, done, disk), p), coord[g].prev, p) \in [Sides -> Listing]
        BY <3>2, <3>4, ListingsTyped
      <3> QED  BY <3>1, <3>5
    <2>2. Outcome(g) \in Outcomes
      BY DEF Outcome, Outcomes
    <2>3. [coord[g] EXCEPT !.pc = "prune", !.out = Outcome(g), !.seen = seen] \in Coordinator
      BY <2>2, ZenonT(60) DEF Typed, Coordinator
    <2>4. coord' \in [Gens -> Coordinator]
      BY <2>1, <2>3, CoordinatorAt DEF Typed
    <2> QED  BY <1>e, <2>1, <2>4 DEF Typed
  <1> QED  BY <1>1, <1>2

LEMMA T_Prune ==
    ASSUME Typed, NEW g \in Gens, Prune(g), UNCHANGED <<workerVars, api, userVars, held>>
    PROVE  Typed'
  <1>1. PICK pc \in {"commit", "remove"}, empty \in SUBSET Sides :
           coord' = [coord EXCEPT ![g].pc = pc, ![g].prune = empty]
    <2>1. coord[g].prune \subseteq Sides
      BY DEF Typed, Coordinator
    <2> QED  BY <2>1 DEF Prune
  <1>2. [coord[g] EXCEPT !.pc = pc, !.prune = empty] \in Coordinator
    BY ZenonT(60) DEF Typed, Coordinator
  <1>3. coord' \in [Gens -> Coordinator]
    BY <1>1, <1>2, CoordinatorAt DEF Typed
  <1> QED  BY <1>3 DEF Typed, Prune

LEMMA T_Remove ==
    ASSUME Typed, NEW g \in Gens, Remove(g), UNCHANGED <<workerVars, api, userVars, held>>
    PROVE  Typed'
  <1> USE SyncVersionsAssumption, SyncBoundsAssumption
  <1>1. PICK removed \in SUBSET coord[g].prune :
         /\ disk' = [s \in Sides |-> IF s \in removed THEN [file |-> Absent, dir |-> FALSE] ELSE disk[s]]
         /\ copies' = IF "target" \in removed THEN {} ELSE copies
         /\ coord' = [coord EXCEPT ![g].pc = "commit", ![g].seen = Pruned(coord[g].seen, removed)]
    BY DEF Remove, Typed
  <1>2. [coord[g] EXCEPT !.pc = "commit", !.seen = Pruned(coord[g].seen, removed)] \in Coordinator
    <2>1. Pruned(coord[g].seen, removed) \in [Sides -> Listing]
      BY ListingsTyped DEF Typed, Coordinator
    <2> QED  BY <2>1, ZenonT(60) DEF Typed, Coordinator
  <1>3. coord' \in [Gens -> Coordinator]
    BY <1>1, <1>2, CoordinatorAt DEF Typed
  <1>4. disk' \in [Sides -> Disk]
    BY <1>1 DEF Typed, Disk, Absent
  <1>5. copies' \subseteq 1..MaxVersion
    BY <1>1 DEF Typed
  <1> QED  BY <1>3, <1>4, <1>5 DEF Typed, Remove

LEMMA T_Commit ==
    ASSUME Typed, NEW g \in Gens, Commit(g), UNCHANGED <<workerVars, api, userVars, held>>
    PROVE  Typed'
  <1> USE SyncVersionsAssumption, SyncBoundsAssumption
  <1>1. job' \in Job
    BY DEF Typed, Commit, FinalizeSyncJobPass, InPass, Job, Statuses, Working, Coordinator
  <1>2. base' \in [Sides -> Listing]
    BY DEF Typed, Commit, FinalizeSyncJobPass, Coordinator
  <1>3. coord' \in [Gens -> Coordinator]
    BY NoCoordinatorTyped DEF Typed, Commit, FinalizeSyncJobPass, InPass, Finish, Coordinator, Gens
  <1>4. lock' \in 0..MaxGen
    BY DEF Typed, Commit, FinalizeSyncJobPass, InPass, Finish, Gens
  <1> QED  BY <1>1, <1>2, <1>3, <1>4, Zenon DEF Typed, Commit, FinalizeSyncJobPass, InPass, Finish, Event

-----------------------------------------------------------------------------
LEMMA NoTaskTyped == NoTask \in Task
  BY SyncBoundsAssumption DEF Task, TaskStatuses, NoTask, Sides

LEMMA NoWorkTyped == NoWork \in Worker
  BY SyncVersionsAssumption, SyncBoundsAssumption DEF Worker, NoWork, Kinds, Absent

(* A task that gets another status stays a task.                           *)
LEMMA StatusTyped ==
    ASSUME NEW t \in Task, NEW st \in TaskStatuses
    PROVE  [t EXCEPT !.st = st] \in Task
  BY DEF Task

LEMMA TaskAt ==
    ASSUME NEW ts \in [Kinds -> Task], NEW k \in Kinds, NEW t \in Task
    PROVE  [ts EXCEPT ![k] = t] \in [Kinds -> Task]
  OBVIOUS

(* A worker's fenced UPDATE keeps the task rows.                           *)
LEMMA RecordTyped ==
    ASSUME Typed, NEW k \in Kinds, NEW st \in TaskStatuses
    PROVE  [tasks EXCEPT ![k].st = st] \in [Kinds -> Task]
  BY StatusTyped, TaskAt DEF Typed

LEMMA WorkerKind == ASSUME Typed, NEW w \in Workers PROVE worker[w].kind \in Kinds
  BY DEF Typed, Worker

LEMMA RecordedTyped ==
    ASSUME Typed, NEW w \in Workers, NEW st \in TaskStatuses, Record(w, st)
    PROVE  tasks' \in [Kinds -> Task]
  BY RecordTyped, WorkerKind DEF Typed, Record, UpdateClaimedSyncTaskStatus

(* Skipping what waits for a failed conflict copy keeps the task rows.     *)
LEMMA SkippedTyped ==
    ASSUME Typed PROVE SkipDependents \in [Kinds -> Task]
  <1>1. \A k \in Kinds : [tasks[k] EXCEPT !.st = "SKIPPED"] \in Task
    BY StatusTyped DEF Typed, TaskStatuses
  <1> QED  BY <1>1, Zenon DEF SkipDependents, Typed

LEMMA WorkerAt ==
    ASSUME Typed, NEW w \in Workers, NEW r \in Worker
    PROVE  [worker EXCEPT ![w] = r] \in [Workers -> Worker]
  BY DEF Typed

LEMMA T_Dequeue ==
    ASSUME Typed, NEW w \in Workers, Dequeue(w), UNCHANGED <<api, userVars, held>>
    PROVE  Typed'
  <1> USE SyncVersionsAssumption, SyncBoundsAssumption
  <1>1. PICK k \in Kinds :
         /\ Claimable(SkipDependents, k)
         /\ tasks' = ClaimTask(SkipDependents, k)
         /\ worker' = [worker EXCEPT ![w] = [NoWork EXCEPT !.pc = "start", !.kind = k,
                                                           !.gen = tasks'[k].gen, !.epoch = tasks'[k].epoch]]
    BY DEF Dequeue
  <1>2. PICK t \in Task : t = SkipDependents[k]
    BY SkippedTyped
  <1>3. t.epoch < MaxAttempts
    BY <1>1, <1>2 DEF Claimable
  <1>4. [t EXCEPT !.st = "RUNNING", !.epoch = t.epoch + 1, !.lost = FALSE] \in Task
    <2> DEFINE n == t.epoch + 1
    <2>1. n \in 0..MaxAttempts
      BY <1>3 DEF Task
    <2> HIDE DEF n
    <2>2. [t EXCEPT !.st = "RUNNING", !.epoch = n, !.lost = FALSE] \in Task
      BY <2>1 DEF Task, TaskStatuses
    <2> QED  BY <2>2 DEF n
  <1>5. tasks' = [SkipDependents EXCEPT ![k] = [t EXCEPT !.st = "RUNNING", !.epoch = t.epoch + 1, !.lost = FALSE]]
    BY <1>1, <1>2, SkippedTyped DEF ClaimTask
  <1>6. tasks' \in [Kinds -> Task]
    BY <1>4, <1>5, SkippedTyped
  <1>7. [NoWork EXCEPT !.pc = "start", !.kind = k, !.gen = tasks'[k].gen, !.epoch = tasks'[k].epoch] \in Worker
    <2>1. tasks'[k].gen \in 0..MaxGen /\ tasks'[k].epoch \in 0..MaxAttempts
      BY <1>6 DEF Task
    <2> QED  BY <2>1, NoWorkTyped DEF Worker
  <1>8. worker' \in [Workers -> Worker]
    BY <1>1, <1>7, WorkerAt
  <1> QED  BY <1>6, <1>8, Zenon DEF Typed, Dequeue

LEMMA T_DequeueNothing ==
    ASSUME Typed, NEW w \in Workers, DequeueNothing(w), UNCHANGED <<api, userVars, held>>
    PROVE  Typed'
  BY SkippedTyped, Zenon DEF Typed, DequeueNothing

LEMMA T_ProcessSyncTask ==
    ASSUME Typed, NEW w \in Workers, ProcessSyncTask(w), UNCHANGED <<api, userVars, held>>
    PROVE  Typed'
  <1> USE SyncVersionsAssumption, SyncBoundsAssumption
  <1>1. tasks' \in [Kinds -> Task]
    <2>1. UNCHANGED tasks \/ Record(w, "CANCELLED") \/ Record(w, "SKIPPED")
      BY Zenon DEF ProcessSyncTask
    <2> QED  BY <2>1, RecordedTyped DEF Typed, TaskStatuses
  <1>2. worker' \in [Workers -> Worker]
    <2>1. [worker[w] EXCEPT !.pc = "read"] \in Worker
      BY DEF Typed, Worker
    <2>2. [worker[w] EXCEPT !.pc = "write"] \in Worker
      BY DEF Typed, Worker
    <2> QED  BY <2>1, <2>2, WorkerAt, NoWorkTyped DEF Typed, ProcessSyncTask, Rest, Proceed
  <1> QED  BY <1>1, <1>2, Zenon DEF Typed, ProcessSyncTask, Record, UpdateClaimedSyncTaskStatus, Rest, Proceed, Event

LEMMA T_ReadFile ==
    ASSUME Typed, NEW w \in Workers, ReadFile(w), UNCHANGED <<api, userVars, held>>
    PROVE  Typed'
  <1> USE SyncVersionsAssumption, SyncBoundsAssumption
  <1>1. Other(Destination(w)) \in Sides
    BY DEF Other, Sides
  <1>2. PICK v \in 0..MaxVersion : v = disk[Other(Destination(w))].file
    BY <1>1 DEF Typed, Disk
  <1>3. [worker[w] EXCEPT !.pc = "fail", !.err = "other"] \in Worker
    BY ZenonT(60) DEF Typed, Worker
  <1>4. [worker[w] EXCEPT !.pc = "write", !.buf = v] \in Worker
    BY ZenonT(60) DEF Typed, Worker
  <1>5. worker' \in [Workers -> Worker]
    BY <1>2, <1>3, <1>4, WorkerAt DEF Typed, ReadFile, Fails
  <1> QED  BY <1>5, Zenon DEF Typed, ReadFile

LEMMA T_Write ==
    ASSUME Typed, NEW w \in Workers, Write(w), UNCHANGED <<api, userVars, held>>
    PROVE  Typed'
  <1> USE SyncVersionsAssumption, SyncBoundsAssumption
  <1>1. [worker[w] EXCEPT !.pc = "fail", !.err = "other"] \in Worker /\ [worker[w] EXCEPT !.pc = "ack"] \in Worker
    BY DEF Typed, Worker
  <1>2. worker' \in [Workers -> Worker]
    BY <1>1, WorkerAt DEF Typed, Write, WriteFile, DeleteFile, CreateDirectory, ConflictCopy, Fails, Proceed
  <1>3. Destination(w) \in Sides
    BY WorkerKind DEF Typed, Task, Destination
  <1>4. worker[w].buf \in 0..MaxVersion
    BY DEF Typed, Worker
  <1>5. disk' \in [Sides -> Disk]
    <2>1. CASE WriteFile(w)
      BY <1>3, <1>4, <2>1 DEF Typed, Disk, WriteFile
    <2>2. CASE DeleteFile(w)
      BY <1>3, <2>2 DEF Typed, Disk, DeleteFile, Absent
    <2>3. CASE CreateDirectory(w)
      BY <1>3, <2>3 DEF Typed, Disk, CreateDirectory
    <2>4. CASE ConflictCopy(w)
      BY <2>4 DEF Typed, Disk, ConflictCopy, Absent, Sides
    <2> QED  BY <2>1, <2>2, <2>3, <2>4 DEF Write
  <1>6. copies' \subseteq 1..MaxVersion
    BY DEF Typed, Write, WriteFile, DeleteFile, CreateDirectory, ConflictCopy, Disk, Absent, Sides
  <1> QED  BY <1>2, <1>5, <1>6, Zenon DEF Typed, Write

LEMMA T_Acknowledge ==
    ASSUME Typed, NEW w \in Workers, Acknowledge(w), UNCHANGED <<api, userVars, held>>
    PROVE  Typed'
  <1> USE SyncVersionsAssumption, SyncBoundsAssumption
  <1>1. tasks' \in [Kinds -> Task]
    <2>1. \A b \in BOOLEAN, k \in Kinds : [tasks[k] EXCEPT !.st = "COMPLETED", !.verified = b] \in Task
      BY DEF Typed, Task, TaskStatuses
    <2>2. PICK k \in Kinds : k = worker[w].kind
      BY WorkerKind
    <2>3. UNCHANGED tasks \/ \E b \in BOOLEAN : tasks' = [tasks EXCEPT ![k].st = "COMPLETED", ![k].verified = b]
      BY <2>2 DEF Acknowledge
    <2>4. CASE UNCHANGED tasks
      BY <2>4 DEF Typed
    <2>5. ASSUME NEW b \in BOOLEAN, tasks' = [tasks EXCEPT ![k].st = "COMPLETED", ![k].verified = b]
          PROVE  tasks' \in [Kinds -> Task]
      <3>1. PICK t \in Task : t = [tasks[k] EXCEPT !.st = "COMPLETED", !.verified = b]
        BY <2>1
      <3>2. tasks' = [tasks EXCEPT ![k] = t]
        BY <2>5, <3>1, Zenon
      <3> QED  BY <3>1, <3>2 DEF Typed
    <2> QED  BY <2>3, <2>4, <2>5
  <1>2. worker' \in [Workers -> Worker]
    <2>1. [worker[w] EXCEPT !.pc = "fail", !.err = "other"] \in Worker
      BY ZenonT(60) DEF Typed, Worker
    <2> QED  BY <2>1, NoWorkTyped, WorkerAt DEF Typed, Acknowledge, Rest, Fails
  <1> QED  BY <1>1, <1>2, Zenon DEF Typed, Acknowledge

LEMMA T_CallFails ==
    ASSUME Typed, NEW w \in Workers, CallFails(w), UNCHANGED <<api, userVars, held>>
    PROVE  Typed'
  <1> USE SyncVersionsAssumption, SyncBoundsAssumption, SyncErrorsAssumption
  <1>1. events' \in 0..MaxEvents
    BY DEF Typed, CallFails, Event
  <1>2. \A err \in Errors : [worker[w] EXCEPT !.pc = "fail", !.err = err] \in Worker
    BY ZenonT(60) DEF Typed, Worker
  <1>3. worker' \in [Workers -> Worker]
    <2>1. PICK err \in Errors : worker' = [worker EXCEPT ![w] = [worker[w] EXCEPT !.pc = "fail", !.err = err]]
      BY DEF CallFails, Fails, Typed
    <2> QED  BY <1>2, <2>1, WorkerAt
  <1> QED  BY <1>1, <1>3, Zenon DEF Typed, CallFails

LEMMA T_CancelWork ==
    ASSUME Typed, NEW w \in Workers, CancelWork(w), UNCHANGED <<api, userVars, held>>
    PROVE  Typed'
  <1> USE SyncVersionsAssumption, SyncBoundsAssumption
  <1>1. worker' \in [Workers -> Worker]
    <2>1. [worker[w] EXCEPT !.pc = "fail", !.err = "cancel"] \in Worker
      BY ZenonT(60) DEF Typed, Worker
    <2> QED  BY <2>1, WorkerAt DEF Typed, CancelWork, Fails
  <1> QED  BY <1>1, Zenon DEF Typed, CancelWork, Event

LEMMA T_HandleSyncTaskFailure ==
    ASSUME Typed, NEW w \in Workers, HandleSyncTaskFailure(w), UNCHANGED <<api, userVars, held>>
    PROVE  Typed'
  <1> USE SyncVersionsAssumption, SyncBoundsAssumption
  <1>1. tasks' \in [Kinds -> Task]
    <2>1. \/ UNCHANGED tasks \/ Record(w, "CANCELLED") \/ Record(w, "PENDING") \/ Record(w, "RETRY")
          \/ tasks' = [tasks EXCEPT ![worker[w].kind].st = "FAILED"]
      <3>1. RetryOrGiveUp(w) => \/ UNCHANGED tasks \/ Record(w, "RETRY")
                                \/ tasks' = [tasks EXCEPT ![worker[w].kind].st = "FAILED"]
        BY DEF RetryOrGiveUp
      <3> QED  BY <3>1, Zenon DEF HandleSyncTaskFailure
    <2>2. [tasks EXCEPT ![worker[w].kind].st = "FAILED"] \in [Kinds -> Task]
      BY RecordTyped, WorkerKind DEF TaskStatuses
    <2>3. tasks \in [Kinds -> Task] /\ {"CANCELLED", "PENDING", "RETRY"} \subseteq TaskStatuses
      BY DEF Typed, TaskStatuses
    <2> QED  BY <2>1, <2>2, <2>3, RecordedTyped, Zenon
  <1>2. worker' \in [Workers -> Worker]
    <2>1. [worker[w] EXCEPT !.pc = "escalate"] \in Worker
      BY DEF Typed, Worker
    <2>2. [worker[w] EXCEPT !.pc = "stopJob"] \in Worker
      BY DEF Typed, Worker
    <2> QED  BY <2>1, <2>2, WorkerAt, NoWorkTyped DEF Typed, HandleSyncTaskFailure, Rest, Proceed
  <1> QED  BY <1>1, <1>2, Zenon DEF Typed, HandleSyncTaskFailure, Record, UpdateClaimedSyncTaskStatus, Rest, Proceed, RetryOrGiveUp, Event

LEMMA T_Escalate ==
    ASSUME Typed, NEW w \in Workers, Escalate(w), UNCHANGED <<api, userVars, held>>
    PROVE  Typed'
  <1> USE SyncVersionsAssumption, SyncBoundsAssumption
  <1>1. job' \in Job
    BY DEF Typed, Escalate, UpdateSyncJobStatusForGeneration, Proceed, Job, Statuses, Working, Outcomes
  <1>2. worker' \in [Workers -> Worker]
    <2>1. [worker[w] EXCEPT !.pc = "requeue"] \in Worker
      BY DEF Typed, Worker
    <2> QED  BY <2>1, WorkerAt DEF Typed, Escalate, Proceed
  <1> QED  BY <1>1, <1>2, Zenon DEF Typed, Escalate, UpdateSyncJobStatusForGeneration, Proceed, Event

LEMMA T_RequeueOwn ==
    ASSUME Typed, NEW w \in Workers, RequeueOwn(w), UNCHANGED <<api, userVars, held>>
    PROVE  Typed'
  <1> USE SyncVersionsAssumption, SyncBoundsAssumption
  <1>1. tasks' \in [Kinds -> Task]
    BY RecordTyped, WorkerKind DEF Typed, RequeueOwn, Record, UpdateClaimedSyncTaskStatus, TaskStatuses
  <1>2. worker' \in [Workers -> Worker]
    <2> QED  BY WorkerAt, NoWorkTyped DEF Typed, RequeueOwn, Rest
  <1> QED  BY <1>1, <1>2, Zenon DEF Typed, RequeueOwn, Record, UpdateClaimedSyncTaskStatus, Rest, Event

LEMMA T_StopJob ==
    ASSUME Typed, NEW w \in Workers, StopJob(w), UNCHANGED <<api, userVars, held>>
    PROVE  Typed'
  <1> USE SyncVersionsAssumption, SyncBoundsAssumption
  <1>1. job' \in Job
    BY DEF Typed, StopJob, UpdateSyncJobStatusForGeneration, Proceed, Job, Statuses, Working, Outcomes
  <1>2. worker' \in [Workers -> Worker]
    <2>1. [worker[w] EXCEPT !.pc = "stopTasks"] \in Worker
      BY DEF Typed, Worker
    <2> QED  BY <2>1, WorkerAt DEF Typed, StopJob, Proceed
  <1> QED  BY <1>1, <1>2, Zenon DEF Typed, StopJob, UpdateSyncJobStatusForGeneration, Proceed, Event

LEMMA T_StopTasks ==
    ASSUME Typed, NEW w \in Workers, StopTasks(w), UNCHANGED <<api, userVars, held>>
    PROVE  Typed'
  <1> USE SyncVersionsAssumption, SyncBoundsAssumption
  <1>1. tasks' \in [Kinds -> Task]
    <2>1. PICK ts \in [Kinds -> Task] : ts = [tasks EXCEPT ![worker[w].kind].st = "FAILED"]
      BY RecordTyped, WorkerKind DEF TaskStatuses
    <2>2. \A k \in Kinds : [ts[k] EXCEPT !.st = "CANCELLED"] \in Task
      BY StatusTyped DEF TaskStatuses
    <2>3. CancelRemainingPendingSyncTasksForGeneration(ts, worker[w].gen) \in [Kinds -> Task]
      BY <2>2, Zenon DEF CancelRemainingPendingSyncTasksForGeneration
    <2> QED  BY <2>1, <2>3 DEF Typed, StopTasks
  <1>2. worker' \in [Workers -> Worker]
    <2> QED  BY WorkerAt, NoWorkTyped DEF Typed, StopTasks, Rest
  <1> QED  BY <1>1, <1>2, Zenon DEF Typed, StopTasks, Rest, Event

LEMMA T_WorkerCrash ==
    ASSUME Typed, NEW w \in Workers, WorkerCrash(w), UNCHANGED <<api, userVars, held>>
    PROVE  Typed'
  <1> USE SyncVersionsAssumption, SyncBoundsAssumption
  <1>1. tasks' \in [Kinds -> Task]
    <2>1. \A k \in Kinds : [tasks[k] EXCEPT !.lost = TRUE] \in Task
      BY DEF Typed, Task
    <2> QED  BY <2>1, TaskAt, WorkerKind DEF Typed, WorkerCrash
  <1>2. worker' \in [Workers -> Worker]
    <2> QED  BY WorkerAt, NoWorkTyped DEF Typed, WorkerCrash, Rest
  <1>3. events' \in 0..MaxEvents
    BY DEF Typed, WorkerCrash, Rest, Event
  <1> QED  BY <1>1, <1>2, <1>3, Zenon DEF Typed, WorkerCrash, Rest, Event

LEMMA T_requeueFailedTasks ==
    ASSUME Typed, NEW k \in Kinds, requeueFailedTasks(k), UNCHANGED <<api, userVars, held>>
    PROVE  Typed'
  <1> USE SyncVersionsAssumption, SyncBoundsAssumption
  <1>1. tasks' \in [Kinds -> Task]
    <2>1. [tasks[k] EXCEPT !.st = "PENDING", !.verified = FALSE] \in Task
      BY ZenonT(60) DEF Typed, Task, TaskStatuses
    <2> QED  BY <2>1, TaskAt DEF Typed, requeueFailedTasks
  <1> QED  BY <1>1, Zenon DEF Typed, requeueFailedTasks, Event

LEMMA T_requeueRunningTasks ==
    ASSUME Typed, NEW k \in Kinds, requeueRunningTasks(k), UNCHANGED <<api, userVars, held>>
    PROVE  Typed'
  <1> USE SyncVersionsAssumption, SyncBoundsAssumption
  <1>1. tasks' \in [Kinds -> Task]
    <2>1. [tasks[k] EXCEPT !.st = "PENDING", !.lost = FALSE] \in Task
      BY DEF Typed, Task, TaskStatuses
    <2> QED  BY <2>1, TaskAt DEF Typed, requeueRunningTasks, Requeue
  <1> QED  BY <1>1, Zenon DEF Typed, requeueRunningTasks, Event

LEMMA T_VerifierMarks ==
    ASSUME Typed, NEW k \in Kinds, VerifierMarks(k), UNCHANGED <<api, userVars, held>>
    PROVE  Typed'
  <1> USE SyncVersionsAssumption, SyncBoundsAssumption
  <1>1. tasks' \in [Kinds -> Task]
    <2>1. [tasks[k] EXCEPT !.verified = TRUE] \in Task
      BY DEF Typed, Task, TaskStatuses
    <2> QED  BY <2>1, TaskAt DEF Typed, VerifierMarks, MarkSyncTaskChecksumVerified
  <1> QED  BY <1>1, Zenon DEF Typed, VerifierMarks, Event

LEMMA T_VerifierRefuses ==
    ASSUME Typed, NEW k \in Kinds, VerifierRefuses(k), UNCHANGED <<api, userVars, held>>
    PROVE  Typed'
  <1> USE SyncVersionsAssumption, SyncBoundsAssumption
  <1>1. tasks' \in [Kinds -> Task]
    <2>1. [tasks[k] EXCEPT !.st = "FAILED"] \in Task
      BY DEF Typed, Task, TaskStatuses
    <2> QED  BY <2>1, TaskAt DEF Typed, VerifierRefuses, MarkSyncTaskChecksumMismatch
  <1>2. events' \in 0..MaxEvents
    BY DEF Typed, VerifierRefuses, Event
  <1> QED  BY <1>1, <1>2, Zenon DEF Typed, VerifierRefuses, Event

LEMMA T_recoverPausedSyncJobs ==
    ASSUME Typed, recoverPausedSyncJobs, UNCHANGED <<api, userVars, held>>
    PROVE  Typed'
  <1> USE SyncVersionsAssumption, SyncBoundsAssumption
  <1>1. job' \in Job
    BY DEF Typed, recoverPausedSyncJobs, RecoverConnectionLostSyncJob, Job, Statuses, Working, Outcomes
  <1>2. sched' \in Schedule
    BY DEF Typed, recoverPausedSyncJobs, RecoverConnectionLostSyncJob, Schedule
  <1> QED  BY <1>1, <1>2, Zenon DEF Typed, recoverPausedSyncJobs, RecoverConnectionLostSyncJob, Event

LEMMA T_VerifierClaims ==
    ASSUME Typed, VerifierClaims, UNCHANGED <<api, userVars, held>>
    PROVE  Typed'
  <1> USE SyncVersionsAssumption, SyncBoundsAssumption
  <1>1. job' \in Job
    BY DEF Typed, VerifierClaims, ClaimSyncJobVerification, Job, Statuses, Working, Outcomes
  <1> QED  BY <1>1, Zenon DEF Typed, VerifierClaims, ClaimSyncJobVerification, Event

LEMMA T_VerifierReleases ==
    ASSUME Typed, VerifierReleases, UNCHANGED <<api, userVars, held>>
    PROVE  Typed'
  <1> USE SyncVersionsAssumption, SyncBoundsAssumption
  <1>1. job' \in Job
    BY DEF Typed, VerifierReleases, Job, Statuses, Working, Outcomes
  <1> QED  BY <1>1, Zenon DEF Typed, VerifierReleases, Event

LEMMA T_VerifierCrash ==
    ASSUME Typed, VerifierCrash, UNCHANGED <<api, userVars, held>>
    PROVE  Typed'
  <1> USE SyncVersionsAssumption, SyncBoundsAssumption
  <1>1. job' \in Job
    BY DEF Typed, VerifierCrash, Job, Statuses, Working, Outcomes
  <1>2. verifier' \in BOOLEAN
    BY Zenon DEF Typed, VerifierCrash
  <1>3. events' \in 0..MaxEvents
    BY DEF Typed, VerifierCrash, Event
  <1> QED  BY <1>1, <1>2, <1>3, Zenon DEF Typed, VerifierCrash, Event

-----------------------------------------------------------------------------
(* A claimed pass has a coordinator.                                       *)
LEMMA ClaimTyped ==
    ASSUME Typed, StartSyncPass
    PROVE  job' \in Job /\ coord' \in [Gens -> Coordinator]
  <1> USE SyncBoundsAssumption
  <1> DEFINE n == job.gen + 1
  <1>1. n \in Gens /\ n \in 0..MaxGen
    BY DEF Typed, StartSyncPass, ClaimSyncJobPass, CanClaim, Job, Gens
  <1>2. job' = [job EXCEPT !.st = "INDEXING", !.gen = n] /\ coord' = [coord EXCEPT ![n].pc = "lock"]
    BY DEF StartSyncPass, ClaimSyncJobPass
  <1> HIDE DEF n
  <1>3. job' \in Job
    BY <1>1, <1>2 DEF Typed, Job, Statuses, Working
  <1>4. [coord[n] EXCEPT !.pc = "lock"] \in Coordinator
    BY <1>1, ZenonT(60) DEF Typed, Coordinator
  <1> QED  BY <1>1, <1>2, <1>3, <1>4, CoordinatorAt DEF Typed

LEMMA StoppedTyped ==
    ASSUME Typed, NEW gens
    PROVE  Stopped(gens) \in [Gens -> Coordinator]
  <1>1. \A g \in Gens : [coord[g] EXCEPT !.stop = TRUE] \in Coordinator
    BY ZenonT(60) DEF Typed, Coordinator
  <1> QED  BY <1>1, Zenon DEF Stopped, Typed

(* Versions that are anywhere are versions.                                *)
LEMMA VersionsTyped == ASSUME Typed PROVE Live \subseteq 0..MaxVersion /\ \A s \in Sides : disk[s].file \in 0..MaxVersion
  <1>1. \A s \in Sides : disk[s].file \in 0..MaxVersion
    BY DEF Typed, Disk
  <1>2. copies \subseteq 0..MaxVersion
    BY DEF Typed
  <1> QED  BY <1>1, <1>2 DEF Live

LEMMA T_HandleStartSync ==
    ASSUME Typed, HandleStartSync
    PROVE  Typed'
  <1> USE SyncVersionsAssumption, SyncBoundsAssumption
  <1>1. job' \in Job
    BY ClaimTyped DEF Typed, HandleStartSync
  <1>2. coord' \in [Gens -> Coordinator]
    BY ClaimTyped DEF Typed, HandleStartSync
  <1>3. events' \in 0..MaxEvents
    BY DEF Typed, HandleStartSync, Event
  <1> QED  BY <1>1, <1>2, <1>3, Zenon DEF Typed, HandleStartSync, Event

LEMMA T_HandlePauseSync ==
    ASSUME Typed, HandlePauseSync
    PROVE  Typed'
  <1> USE SyncVersionsAssumption, SyncBoundsAssumption
  <1>1. job' \in Job
    BY DEF Typed, HandlePauseSync, PauseSyncJobAndDeactivateSchedules, Job, Statuses, Working, Outcomes
  <1>2. sched' \in Schedule
    BY DEF Typed, HandlePauseSync, PauseSyncJobAndDeactivateSchedules, Schedule
  <1>3. cancelled' \subseteq Gens
    BY DEF Typed, HandlePauseSync, PauseSyncJobAndDeactivateSchedules, Gens, Job
  <1>4. events' \in 0..MaxEvents
    BY DEF Typed, HandlePauseSync, PauseSyncJobAndDeactivateSchedules, Event
  <1>5. held' \in BOOLEAN
    BY Zenon DEF Typed, HandlePauseSync, PauseSyncJobAndDeactivateSchedules
  <1>6. tasks' \in [Kinds -> Task]
    <2>1. \A k \in Kinds : [tasks[k] EXCEPT !.st = "CANCELLED"] \in Task
      BY StatusTyped DEF Typed, TaskStatuses
    <2>2. \A k \in Kinds : Cancelled(tasks[k], job.gen) \in Task
      BY <2>1 DEF Cancelled, Typed
    <2> QED  BY <2>2 DEF HandlePauseSync, PauseSyncJobAndDeactivateSchedules
  <1> QED  BY <1>1, <1>2, <1>3, <1>4, <1>5, <1>6, Zenon DEF Typed, HandlePauseSync, PauseSyncJobAndDeactivateSchedules, Event

LEMMA T_HandleResumeSync ==
    ASSUME Typed, HandleResumeSync
    PROVE  Typed'
  <1> USE SyncVersionsAssumption, SyncBoundsAssumption
  <1>1. job' \in Job
    BY DEF Typed, HandleResumeSync, ResumeSyncJobAndReactivateSchedules, Job, Statuses, Working, Outcomes
  <1>2. sched' \in Schedule
    BY DEF Typed, HandleResumeSync, ResumeSyncJobAndReactivateSchedules, Schedule
  <1>3. api' \in {"idle", "resuming", "deleting"}
    BY Zenon DEF Typed, HandleResumeSync, ResumeSyncJobAndReactivateSchedules
  <1>4. held' \in BOOLEAN
    BY Zenon DEF Typed, HandleResumeSync, ResumeSyncJobAndReactivateSchedules
  <1>5. events' \in 0..MaxEvents
    BY DEF Typed, HandleResumeSync, ResumeSyncJobAndReactivateSchedules, Event
  <1> QED  BY <1>1, <1>2, <1>3, <1>4, <1>5, Zenon DEF Typed, HandleResumeSync, ResumeSyncJobAndReactivateSchedules, Event

LEMMA T_ResumeStarts ==
    ASSUME Typed, ResumeStarts
    PROVE  Typed'
  <1> USE SyncVersionsAssumption, SyncBoundsAssumption
  <1>1. job' \in Job
    BY ClaimTyped DEF Typed, ResumeStarts
  <1>2. coord' \in [Gens -> Coordinator]
    BY ClaimTyped DEF Typed, ResumeStarts
  <1>3. api' \in {"idle", "resuming", "deleting"}
    BY Zenon DEF Typed, ResumeStarts
  <1> QED  BY <1>1, <1>2, <1>3, Zenon DEF Typed, ResumeStarts, Event

LEMMA T_HandleDeleteSync ==
    ASSUME Typed, HandleDeleteSync
    PROVE  Typed'
  <1> USE SyncVersionsAssumption, SyncBoundsAssumption
  <1>1. api' \in {"idle", "resuming", "deleting"}
    BY Zenon DEF Typed, HandleDeleteSync
  <1>2. cancelled' \subseteq Gens
    <2>1. job.gen \in 0..MaxGen
      BY DEF Typed, Job
    <2>2. 1..job.gen \subseteq Gens
      BY <2>1 DEF Gens
    <2> QED  BY <2>2 DEF Typed, HandleDeleteSync
  <1>3. events' \in 0..MaxEvents
    BY DEF Typed, HandleDeleteSync, Event
  <1> QED  BY <1>1, <1>2, <1>3, Zenon DEF Typed, HandleDeleteSync, Event

LEMMA T_DeleteRows ==
    ASSUME Typed, DeleteRows
    PROVE  Typed'
  <1> USE SyncVersionsAssumption, SyncBoundsAssumption
  <1>1. api' \in {"idle", "resuming", "deleting"}
    BY Zenon DEF Typed, DeleteRows, DeleteSyncJobCascade
  <1>2. job' \in Job
    BY DEF Typed, DeleteRows, DeleteSyncJobCascade, Job, Statuses, Working, Outcomes
  <1>3. tasks' \in [Kinds -> Task]
    BY NoTaskTyped DEF Typed, DeleteRows, DeleteSyncJobCascade, Task, TaskStatuses, NoTask, Kinds
  <1>4. base' \in [Sides -> Listing]
    BY DEF Typed, DeleteRows, DeleteSyncJobCascade, Listing, Sides, Nothing, Absent, NoTag
  <1>5. sched' \in Schedule
    BY DEF Typed, DeleteRows, DeleteSyncJobCascade, Schedule
  <1> QED  BY <1>1, <1>2, <1>3, <1>4, <1>5, Zenon DEF Typed, DeleteRows, DeleteSyncJobCascade, Event

LEMMA T_HandleUpdateSyncScope ==
    ASSUME Typed, HandleUpdateSyncScope
    PROVE  Typed'
  <1> USE SyncVersionsAssumption, SyncBoundsAssumption
  <1>1. cfg' \in Configs
    BY DEF Typed, HandleUpdateSyncScope, UpdateSyncJobScope
  <1>2. base' \in [Sides -> Listing]
    BY DEF Typed, HandleUpdateSyncScope, UpdateSyncJobScope, Listing, Sides, Nothing, Absent, NoTag
  <1>3. superseded' \subseteq 0..MaxVersion
    BY VersionsTyped DEF Typed, HandleUpdateSyncScope, UpdateSyncJobScope
  <1>4. events' \in 0..MaxEvents
    BY DEF Typed, HandleUpdateSyncScope, UpdateSyncJobScope, Event
  <1> QED  BY <1>1, <1>2, <1>3, <1>4, Zenon DEF Typed, HandleUpdateSyncScope, UpdateSyncJobScope, Event

LEMMA T_HandleUpdateSyncSchedule ==
    ASSUME Typed, HandleUpdateSyncSchedule
    PROVE  Typed'
  <1> USE SyncVersionsAssumption, SyncBoundsAssumption
  <1>1. sched' \in Schedule
    BY DEF Typed, HandleUpdateSyncSchedule, UpdateSyncJobInterval, Schedule
  <1>2. events' \in 0..MaxEvents
    BY DEF Typed, HandleUpdateSyncSchedule, UpdateSyncJobInterval, Event
  <1> QED  BY <1>1, <1>2, Zenon DEF Typed, HandleUpdateSyncSchedule, UpdateSyncJobInterval, Event

LEMMA T_SuspendUser ==
    ASSUME Typed, SuspendUser
    PROVE  Typed'
  <1> USE SyncVersionsAssumption, SyncBoundsAssumption
  <1>1. job' \in Job
    BY DEF Typed, SuspendUser, SuspendSyncs, Job, Statuses, Working, Outcomes
  <1>2. sched' \in Schedule
    BY DEF Typed, SuspendUser, SuspendSyncs, Schedule
  <1>3. cancelled' \subseteq Gens
    <2>1. job.gen \in 0..MaxGen
      BY DEF Typed, Job
    <2>2. 1..job.gen \subseteq Gens
      BY <2>1 DEF Gens
    <2> QED  BY <2>2 DEF Typed, SuspendUser
  <1>4. held' \in BOOLEAN
    BY Zenon DEF Typed, SuspendUser, SuspendSyncs
  <1>5. events' \in 0..MaxEvents
    BY DEF Typed, SuspendUser, SuspendSyncs, Event
  <1>6. tasks' \in [Kinds -> Task]
    <2>1. \A k \in Kinds : [tasks[k] EXCEPT !.st = "CANCELLED"] \in Task
      BY StatusTyped DEF Typed, TaskStatuses
    <2> QED  BY <2>1, Zenon DEF SuspendUser, SuspendSyncs, Typed
  <1> QED  BY <1>1, <1>2, <1>3, <1>4, <1>5, <1>6, Zenon DEF Typed, SuspendUser, SuspendSyncs, Event

LEMMA T_DeliverCancel ==
    ASSUME Typed, NEW g \in Gens, DeliverCancel(g)
    PROVE  Typed'
  <1> USE SyncVersionsAssumption, SyncBoundsAssumption
  <1>1. coord' \in [Gens -> Coordinator]
    BY StoppedTyped DEF DeliverCancel
  <1> QED  BY <1>1, Zenon DEF Typed, DeliverCancel, Event

LEMMA T_TickReads ==
    ASSUME Typed, TickReads
    PROVE  Typed'
  <1> USE SyncVersionsAssumption, SyncBoundsAssumption
  <1>1. sched' \in Schedule
    BY DEF Typed, TickReads, Tick, Schedule
  <1> QED  BY <1>1, Zenon DEF Typed, TickReads, Tick, Event

LEMMA T_TriggerSync ==
    ASSUME Typed, TriggerSync
    PROVE  Typed'
  <1> USE SyncVersionsAssumption, SyncBoundsAssumption
  <1>1. sched' \in Schedule
    BY DEF Typed, TriggerSync, Tick, Schedule
  <1> QED  BY <1>1, Zenon DEF Typed, TriggerSync, Tick, Event

LEMMA T_TickAdvances ==
    ASSUME Typed, TickAdvances
    PROVE  Typed'
  <1> USE SyncVersionsAssumption, SyncBoundsAssumption
  <1>1. sched' \in Schedule
    BY DEF Typed, TickAdvances, Tick, Schedule
  <1> QED  BY <1>1, Zenon DEF Typed, TickAdvances, Tick, Event

LEMMA T_DeactivateSchedule ==
    ASSUME Typed, DeactivateSchedule
    PROVE  Typed'
  <1> USE SyncVersionsAssumption, SyncBoundsAssumption
  <1>1. sched' \in Schedule
    BY DEF Typed, DeactivateSchedule, Tick, Schedule
  <1> QED  BY <1>1, Zenon DEF Typed, DeactivateSchedule, Tick, Event

LEMMA T_IntervalPasses ==
    ASSUME Typed, IntervalPasses
    PROVE  Typed'
  <1> USE SyncVersionsAssumption, SyncBoundsAssumption
  <1>1. sched' \in Schedule
    BY DEF Typed, IntervalPasses, Tick, Schedule
  <1> QED  BY <1>1, Zenon DEF Typed, IntervalPasses, Tick, Event

LEMMA T_TriggerClaims ==
    ASSUME Typed, TriggerClaims
    PROVE  Typed'
  <1> USE SyncVersionsAssumption, SyncBoundsAssumption
  <1>1. sched' \in Schedule
    BY DEF Typed, TriggerClaims, Tick, Schedule
  <1>2. job' \in Job
    BY ClaimTyped DEF Typed, TriggerClaims
  <1>3. coord' \in [Gens -> Coordinator]
    BY ClaimTyped DEF Typed, TriggerClaims
  <1> QED  BY <1>1, <1>2, <1>3, Zenon DEF Typed, TriggerClaims, Tick, Event

LEMMA T_recoverOrphanedSyncJobs ==
    ASSUME Typed, recoverOrphanedSyncJobs
    PROVE  Typed'
  <1> USE SyncVersionsAssumption, SyncBoundsAssumption
  <1>1. job' \in Job
    BY DEF Typed, recoverOrphanedSyncJobs, Job, Statuses, Working, Outcomes
  <1>2. sched' \in Schedule
    BY DEF Typed, recoverOrphanedSyncJobs, Schedule
  <1> QED  BY <1>1, <1>2, Zenon DEF Typed, recoverOrphanedSyncJobs, Event

LEMMA T_ApiCrash ==
    ASSUME Typed, ApiCrash
    PROVE  Typed'
  <1> USE SyncVersionsAssumption, SyncBoundsAssumption
  <1>1. coord' \in [Gens -> Coordinator]
    BY NoCoordinatorDone, Zenon DEF Typed, ApiCrash
  <1>2. lock' \in 0..MaxGen
    BY DEF Typed, ApiCrash
  <1>3. sched' \in Schedule
    BY DEF Typed, ApiCrash, Schedule
  <1>4. api' \in {"idle", "resuming", "deleting"}
    BY Zenon DEF Typed, ApiCrash
  <1>5. events' \in 0..MaxEvents
    BY DEF Typed, ApiCrash, Event
  <1> QED  BY <1>1, <1>2, <1>3, <1>4, <1>5, Zenon DEF Typed, ApiCrash, Event

LEMMA T_ApiShutdown ==
    ASSUME Typed, ApiShutdown
    PROVE  Typed'
  <1> USE SyncVersionsAssumption, SyncBoundsAssumption
  <1>1. coord' \in [Gens -> Coordinator]
    BY StoppedTyped DEF ApiShutdown
  <1>2. events' \in 0..MaxEvents
    BY DEF Typed, ApiShutdown, Event
  <1> QED  BY <1>1, <1>2, Zenon DEF Typed, ApiShutdown, Event

LEMMA T_EditFile ==
    ASSUME Typed, NEW s \in Sides, EditFile(s)
    PROVE  Typed'
  <1> USE SyncVersionsAssumption, SyncBoundsAssumption
  <1>1. made' \in 0..MaxVersion
    BY DEF Typed, EditFile
  <1>2. disk' \in [Sides -> Disk]
    BY DEF Typed, EditFile, Disk, Absent
  <1>3. superseded' \subseteq 0..MaxVersion
    BY VersionsTyped DEF Typed, EditFile
  <1>4. raced' \subseteq 0..MaxVersion
    BY DEF Typed, EditFile
  <1>5. events' \in 0..MaxEvents
    BY DEF Typed, EditFile, Event
  <1> QED  BY <1>1, <1>2, <1>3, <1>4, <1>5, Zenon DEF Typed, EditFile, Event

LEMMA T_DeleteFileOf ==
    ASSUME Typed, NEW s \in Sides, DeleteFileOf(s)
    PROVE  Typed'
  <1> USE SyncVersionsAssumption, SyncBoundsAssumption
  <1>1. disk' \in [Sides -> Disk]
    BY DEF Typed, DeleteFileOf, Disk, Absent
  <1>2. superseded' \subseteq 0..MaxVersion
    BY VersionsTyped DEF Typed, DeleteFileOf
  <1>3. events' \in 0..MaxEvents
    BY DEF Typed, DeleteFileOf, Event
  <1> QED  BY <1>1, <1>2, <1>3, Zenon DEF Typed, DeleteFileOf, Event

LEMMA T_DeleteDirectoryOf ==
    ASSUME Typed, NEW s \in Sides, DeleteDirectoryOf(s)
    PROVE  Typed'
  <1> USE SyncVersionsAssumption, SyncBoundsAssumption
  <1>1. disk' \in [Sides -> Disk]
    BY DEF Typed, DeleteDirectoryOf, Disk, Absent
  <1>2. events' \in 0..MaxEvents
    BY DEF Typed, DeleteDirectoryOf, Event
  <1> QED  BY <1>1, <1>2, Zenon DEF Typed, DeleteDirectoryOf, Event

(* Every step keeps the types.                                             *)
LEMMA TypeStep == TypeOK /\ [Next]_vars => TypeOK'
  <1> SUFFICES ASSUME Typed, [Next]_vars PROVE Typed'
    <2>1. (Typed <=> TypeOK) /\ (Typed <=> TypeOK)'
      BY TypedIsTypeOK, PTL
    <2> QED  BY <2>1
  <1> USE DEF KeepApi, KeepUser
  <1>1. ASSUME NEW g \in Gens, CoordinatorNext(g) \/ DeliverCancel(g) PROVE Typed'
    BY <1>1, T_LockPass, T_LockFails, T_Drained, T_ScanSource, T_ScanTarget, T_Interrupted, T_FailSync, T_Plan, T_StartTasks, T_PollStopped, T_PollDone, T_VerifyDone, T_VerifyStopped, T_Final, T_Prune, T_Remove, T_Commit, T_DeliverCancel, Zenon DEF CoordinatorNext, CoordinatorStep
  <1>2. ASSUME NEW w \in Workers, WorkerNext(w) \/ (WorkerFault(w) /\ KeepApi) PROVE Typed'
    BY <1>2, T_Dequeue, T_DequeueNothing, T_ProcessSyncTask, T_ReadFile, T_Write, T_Acknowledge, T_HandleSyncTaskFailure, T_Escalate, T_RequeueOwn, T_StopJob, T_StopTasks, T_CallFails, T_CancelWork, T_WorkerCrash, Zenon DEF WorkerNext, WorkerStep, WorkerFault
  <1>3. ASSUME (Background \/ Misfortune) /\ KeepApi PROVE Typed'
    BY <1>3, T_requeueFailedTasks, T_requeueRunningTasks, T_VerifierMarks, T_VerifierRefuses, T_recoverPausedSyncJobs, T_VerifierClaims, T_VerifierReleases, T_VerifierCrash, Zenon DEF Background, Misfortune
  <1>4. ASSUME Handlers \/ ResumeStarts \/ DeleteRows \/ ScheduleStep \/ IntervalPasses \/ recoverOrphanedSyncJobs \/ ApiCrash \/ ApiShutdown PROVE Typed'
    BY <1>4, T_HandleStartSync, T_HandlePauseSync, T_HandleResumeSync, T_HandleDeleteSync, T_HandleUpdateSyncScope, T_HandleUpdateSyncSchedule, T_SuspendUser, T_ResumeStarts, T_DeleteRows, T_TickReads, T_TriggerSync, T_TriggerClaims, T_TickAdvances, T_DeactivateSchedule, T_IntervalPasses, T_recoverOrphanedSyncJobs, T_ApiCrash, T_ApiShutdown, Zenon DEF Handlers, ScheduleStep
  <1>5. ASSUME UserEdits PROVE Typed'
    BY <1>5, T_EditFile, T_DeleteFileOf, T_DeleteDirectoryOf DEF UserEdits
  <1>6. ASSUME UNCHANGED vars PROVE Typed'
    BY <1>6, Zenon DEF Typed, vars, rowVars, engineVars, workerVars, userVars
  <1> QED  BY <1>1, <1>2, <1>3, <1>4, <1>5, <1>6 DEF Next

(***************************************************************************)
(* Rows, baseline, coordinators, workers and the two sides keep their      *)
(* types, for every value of the bounds.                                   *)
(***************************************************************************)
THEOREM SyncTypes == Spec => []TypeOK
  <1>1. Init => TypeOK
    BY InitTyped
  <1>2. TypeOK /\ [Next]_vars => TypeOK'
    BY TypeStep
  <1> QED  BY <1>1, <1>2, PTL DEF Spec


-----------------------------------------------------------------------------
(* The order of the passes *)

(* The coordinator has not created its tasks yet.                          *)
Early == {"none", "lock", "drain", "scanSource", "scanTarget", "plan"}

(* The row still is that of the pass, and the pass is at work.             *)
Current(g) == InPass(g, Working)

(* The coordinator has waited for every RUNNING task to end.               *)
HasDrained(g) == coord[g].pc \notin {"none", "lock", "drain", "done"}

(***************************************************************************)
(* Coordinators exist only for claimed generations; one of them at a time  *)
(* works, the one that has the lock; tasks and workers of a generation     *)
(* come after its plan; tasks are never newer than the pass that has the   *)
(* lock; once a pass has drained, only its own tasks run; and a pass that  *)
(* is current works with the settings of the row.                          *)
(***************************************************************************)
Ordered ==
    /\ \A g \in Gens : coord[g].pc # "none" => g =< job.gen
    /\ \A g \in Gens : Registered(g) => lock = g
    /\ \A k \in Kinds, g \in Gens : tasks[k].gen = g => coord[g].pc \notin Early
    /\ \A w \in Workers, g \in Gens : worker[w].gen = g => coord[g].pc \notin Early
    /\ \A k \in Kinds : lock # 0 => tasks[k].gen =< lock
    /\ \A g \in Gens, k \in Kinds : HasDrained(g) /\ tasks[k].st = "RUNNING" => tasks[k].gen = g
    /\ \A g \in Gens : Current(g) /\ Registered(g) => coord[g].c = cfg

(***************************************************************************)
(* A task row keeps its pass and its side, starts to run only in the       *)
(* current pass, and completes only for a worker that has written.         *)
(***************************************************************************)
TaskKept(k) ==
    /\ tasks'[k].gen = tasks[k].gen /\ tasks'[k].to = tasks[k].to
    /\ tasks'[k].st = "NONE" <=> tasks[k].st = "NONE"
    /\ tasks'[k].st = "RUNNING" => tasks[k].st = "RUNNING" \/ tasks[k].gen = job.gen
    /\ tasks'[k].st = "COMPLETED" =>
         \/ tasks[k].st = "COMPLETED"
         \/ \E w \in Workers : worker[w].pc = "ack" /\ worker[w].kind = k /\ worker[w].gen = tasks[k].gen

TasksKept == (\A k \in Kinds : TaskKept(k)) \/ (job'.st = "GONE" /\ tasks' = [k \in Kinds |-> NoTask])

(* No new pass begins, and a pass that has ended stays ended.              *)
JobKept == job'.gen = job.gen /\ (job'.st \in Working => job.st \in Working /\ cfg' = cfg)

(* A worker keeps its pass, returns, or takes a task of the tasks' pass.   *)
WorkersKept == \A w \in Workers : worker'[w].gen \in {0, worker[w].gen} \/ \E k \in Kinds : worker'[w].gen = tasks[k].gen

(* Coordinators and lock stay as they are, rows and workers move on.       *)
Quiet == UNCHANGED <<coord, lock>> /\ JobKept /\ TasksKept /\ WorkersKept

(* A quiet step keeps the order of the passes.                             *)
LEMMA QuietOrdered ==
    ASSUME Typed, Typed', Ordered, Quiet
    PROVE  Ordered'
  <1> USE SyncBoundsAssumption
  <1>0. /\ \A g \in Gens : g \in Nat /\ g # 0
        /\ job.gen \in Nat /\ lock \in Nat /\ \A k \in Kinds : tasks[k].gen \in Nat /\ tasks'[k].gen \in Nat
    BY DEF Typed, Gens, Job, Task
  <1>t. \A k \in Kinds : tasks'[k].gen \in {0, tasks[k].gen}
    BY DEF Quiet, TasksKept, TaskKept, NoTask
  <1>1. \A g \in Gens : coord'[g].pc # "none" => g =< job'.gen
    BY DEF Ordered, Quiet, JobKept
  <1>2. \A g \in Gens : Registered(g)' => lock' = g
    BY DEF Ordered, Quiet, Registered
  <1>3. \A k \in Kinds, g \in Gens : tasks'[k].gen = g => coord'[g].pc \notin Early
    BY <1>0, <1>t DEF Ordered, Quiet
  <1>4. \A w \in Workers, g \in Gens : worker'[w].gen = g => coord'[g].pc \notin Early
    BY <1>0 DEF Ordered, Quiet, WorkersKept
  <1>5. \A k \in Kinds : lock' # 0 => tasks'[k].gen =< lock'
    BY <1>0, <1>t DEF Ordered, Quiet
  <1>6. \A g \in Gens, k \in Kinds : HasDrained(g)' /\ tasks'[k].st = "RUNNING" => tasks'[k].gen = g
    <2> SUFFICES ASSUME NEW g \in Gens, NEW k \in Kinds, HasDrained(g), tasks'[k].st = "RUNNING"
                 PROVE  tasks'[k].gen = g
      BY DEF Quiet, HasDrained
    <2>1. TaskKept(k)
      BY DEF Quiet, TasksKept, NoTask
    <2>2. lock = g /\ g =< job.gen /\ tasks[k].gen =< g
      BY <1>0 DEF Ordered, HasDrained, Registered
    <2> QED  BY <1>0, <2>1, <2>2 DEF TaskKept, Ordered
  <1>7. \A g \in Gens : Current(g)' /\ Registered(g)' => coord'[g].c = cfg'
    BY DEF Ordered, Quiet, JobKept, Current, InPass, Registered
  <1> QED  BY <1>1, <1>2, <1>3, <1>4, <1>5, <1>6, <1>7 DEF Ordered

-----------------------------------------------------------------------------
(* Steps that leave coordinators and lock alone *)

LEMMA SameTasks == UNCHANGED tasks => TasksKept
  BY DEF TasksKept, TaskKept

LEMMA SameJob == UNCHANGED <<job, cfg>> => JobKept
  BY DEF JobKept

LEMMA SameWorkers == UNCHANGED worker => WorkersKept
  BY DEF WorkersKept

LEMMA WorkerRests == ASSUME Typed, NEW w \in Workers, Rest(w) PROVE WorkersKept
  BY DEF Rest, NoWork, WorkersKept, Typed

LEMMA WorkerProceeds == ASSUME Typed, NEW w \in Workers, NEW pc, Proceed(w, pc) PROVE WorkersKept
  BY DEF Proceed, Typed, Worker, WorkersKept

LEMMA WorkerFails == ASSUME Typed, NEW w \in Workers, NEW err, Fails(w, err) PROVE WorkersKept
  BY DEF Fails, Typed, Worker, WorkersKept

(* Giving a task another status, but RUNNING or COMPLETED, is quiet.       *)
LEMMA StatusKept ==
    ASSUME Typed, NEW k \in Kinds, NEW st, tasks[k].st # "NONE", st \notin {"NONE", "RUNNING", "COMPLETED"},
           tasks' = [tasks EXCEPT ![k].st = st]
    PROVE  TasksKept
  BY DEF TasksKept, TaskKept, Typed, Task

LEMMA RecordKept ==
    ASSUME Typed, NEW w \in Workers, NEW st, st \notin {"NONE", "RUNNING", "COMPLETED"}, Record(w, st)
    PROVE  TasksKept
  BY StatusKept, SameTasks, WorkerKind DEF Record, UpdateClaimedSyncTaskStatus, Owns

LEMMA SkippedKept ==
    ASSUME Typed, NEW k \in Kinds
    PROVE  /\ SkipDependents[k].gen = tasks[k].gen /\ SkipDependents[k].to = tasks[k].to
           /\ SkipDependents[k].epoch = tasks[k].epoch
           /\ SkipDependents[k].st = tasks[k].st \/ (tasks[k].st = "PENDING" /\ SkipDependents[k].st = "SKIPPED")
  BY DEF SkipDependents, Typed, Task

(* Q_A: the step A is quiet.                                               *)
LEMMA Q_Dequeue ==
    ASSUME Typed, NEW w \in Workers, Dequeue(w)
    PROVE  Quiet
  <1>1. JobKept
    BY SameJob DEF Dequeue
  <1>2. TasksKept
    <2>1. PICK k \in Kinds : Claimable(SkipDependents, k) /\ tasks' = ClaimTask(SkipDependents, k)
      BY DEF Dequeue
    <2>2. SkipDependents[k].st = "PENDING" /\ SkipDependents[k].gen = job.gen
      BY <2>1 DEF Claimable
    <2>3. \A j \in Kinds : SkipDependents[j] \in Task
      BY SkippedTyped
    <2>4. \A j \in Kinds : /\ tasks'[j].gen = SkipDependents[j].gen /\ tasks'[j].to = SkipDependents[j].to
                           /\ tasks'[j].st = IF j = k THEN "RUNNING" ELSE SkipDependents[j].st
      BY <2>1, <2>3, SkippedTyped DEF ClaimTask, Task
    <2>5. ASSUME NEW j \in Kinds PROVE TaskKept(j)
      BY <2>2, <2>4, SkippedKept DEF TaskKept
    <2> QED  BY <2>5 DEF TasksKept
  <1>3. WorkersKept
    <2>1. PICK k \in Kinds :
             /\ tasks' = ClaimTask(SkipDependents, k)
             /\ worker' = [worker EXCEPT ![w] = [NoWork EXCEPT !.pc = "start", !.kind = k,
                                                               !.gen = tasks'[k].gen, !.epoch = tasks'[k].epoch]]
      BY DEF Dequeue
    <2>2. SkipDependents[k] \in Task
      BY SkippedTyped
    <2>3. tasks'[k].gen = tasks[k].gen
      BY <2>1, <2>2, SkippedTyped, SkippedKept DEF ClaimTask, Task
    <2> QED  BY <2>1, <2>3 DEF WorkersKept, Typed, NoWork
  <1> QED  BY <1>1, <1>2, <1>3 DEF Quiet, Dequeue

LEMMA Q_DequeueNothing ==
    ASSUME Typed, NEW w \in Workers, DequeueNothing(w)
    PROVE  Quiet
  <1>1. JobKept
    BY SameJob DEF DequeueNothing
  <1>2. TasksKept
    BY SkippedKept DEF DequeueNothing, TasksKept, TaskKept
  <1>3. WorkersKept
    BY SameWorkers DEF DequeueNothing
  <1> QED  BY <1>1, <1>2, <1>3 DEF Quiet, DequeueNothing

LEMMA Q_ProcessSyncTask ==
    ASSUME Typed, NEW w \in Workers, ProcessSyncTask(w)
    PROVE  Quiet
  <1>1. JobKept
    BY SameJob DEF ProcessSyncTask
  <1>2. TasksKept
    <2>1. UNCHANGED tasks \/ Record(w, "CANCELLED") \/ Record(w, "SKIPPED")
      BY Zenon DEF ProcessSyncTask
    <2> QED  BY <2>1, RecordKept, SameTasks
  <1>3. WorkersKept
    <2>1. Rest(w) \/ \E pc : Proceed(w, pc)
      BY Zenon DEF ProcessSyncTask
    <2> QED  BY <2>1, WorkerRests, WorkerProceeds
  <1> QED  BY <1>1, <1>2, <1>3 DEF Quiet, ProcessSyncTask

LEMMA Q_ReadFile ==
    ASSUME Typed, NEW w \in Workers, ReadFile(w)
    PROVE  Quiet
  <1>1. JobKept
    BY SameJob DEF ReadFile
  <1>2. TasksKept
    BY SameTasks DEF ReadFile
  <1>3. WorkersKept
    BY WorkerFails DEF ReadFile, WorkersKept, Typed, Worker
  <1> QED  BY <1>1, <1>2, <1>3 DEF Quiet, ReadFile

LEMMA Q_Write ==
    ASSUME Typed, NEW w \in Workers, Write(w)
    PROVE  Quiet
  <1>1. JobKept
    BY SameJob DEF Write
  <1>2. TasksKept
    BY SameTasks DEF Write
  <1>3. WorkersKept
    BY WorkerFails, WorkerProceeds DEF Write, WriteFile, DeleteFile, CreateDirectory, ConflictCopy
  <1> QED  BY <1>1, <1>2, <1>3 DEF Quiet, Write

LEMMA Q_Acknowledge ==
    ASSUME Typed, NEW w \in Workers, Acknowledge(w)
    PROVE  Quiet
  <1>1. JobKept
    BY SameJob DEF Acknowledge
  <1>2. TasksKept
    <2>1. PICK k \in Kinds : k = worker[w].kind
      BY WorkerKind
    <2>2. CASE ~MayAcknowledge(k, worker[w].gen, worker[w].epoch)
      BY <2>1, <2>2, SameTasks DEF Acknowledge
    <2>3. CASE MayAcknowledge(k, worker[w].gen, worker[w].epoch)
      <3>1. PICK b \in BOOLEAN : tasks' = [tasks EXCEPT ![k].st = "COMPLETED", ![k].verified = b]
        BY <2>1, <2>3 DEF Acknowledge
      <3>2. \A j \in Kinds : /\ tasks'[j].gen = tasks[j].gen /\ tasks'[j].to = tasks[j].to
                             /\ tasks'[j].st = IF j = k THEN "COMPLETED" ELSE tasks[j].st
        BY <3>1 DEF Typed, Task
      <3>3. tasks[k].st = "RUNNING" /\ tasks[k].gen = worker[w].gen /\ worker[w].pc = "ack"
        BY <2>3 DEF MayAcknowledge, Owns, Acknowledge, At
      <3>4. \A j \in Kinds : TaskKept(j)
        BY <2>1, <3>2, <3>3 DEF TaskKept
      <3> QED  BY <3>4 DEF TasksKept
    <2> QED  BY <2>2, <2>3
  <1>3. WorkersKept
    BY WorkerRests, WorkerFails DEF Acknowledge
  <1> QED  BY <1>1, <1>2, <1>3 DEF Quiet, Acknowledge

LEMMA Q_CallFails ==
    ASSUME Typed, NEW w \in Workers, CallFails(w)
    PROVE  Quiet
  <1>1. JobKept
    BY SameJob DEF CallFails
  <1>2. TasksKept
    BY SameTasks DEF CallFails
  <1>3. WorkersKept
    BY WorkerFails DEF CallFails
  <1> QED  BY <1>1, <1>2, <1>3 DEF Quiet, CallFails

LEMMA Q_CancelWork ==
    ASSUME Typed, NEW w \in Workers, CancelWork(w)
    PROVE  Quiet
  <1>1. JobKept
    BY SameJob DEF CancelWork
  <1>2. TasksKept
    BY SameTasks DEF CancelWork
  <1>3. WorkersKept
    BY WorkerFails DEF CancelWork
  <1> QED  BY <1>1, <1>2, <1>3 DEF Quiet, CancelWork

LEMMA Q_HandleSyncTaskFailure ==
    ASSUME Typed, NEW w \in Workers, HandleSyncTaskFailure(w)
    PROVE  Quiet
  <1>1. JobKept
    BY SameJob DEF HandleSyncTaskFailure
  <1>2. TasksKept
    <2>1. RetryOrGiveUp(w) => TasksKept
      BY RecordKept, SameTasks, StatusKept, WorkerKind DEF RetryOrGiveUp, MayAcknowledge, Owns
    <2>2. \/ UNCHANGED tasks \/ Record(w, "CANCELLED") \/ Record(w, "PENDING") \/ Record(w, "RETRY")
          \/ RetryOrGiveUp(w)
      BY Zenon DEF HandleSyncTaskFailure
    <2> QED  BY <2>1, <2>2, RecordKept, SameTasks
  <1>3. WorkersKept
    <2>1. Rest(w) \/ \E pc : Proceed(w, pc)
      BY Zenon DEF HandleSyncTaskFailure
    <2> QED  BY <2>1, WorkerRests, WorkerProceeds
  <1> QED  BY <1>1, <1>2, <1>3 DEF Quiet, HandleSyncTaskFailure

LEMMA Q_Escalate ==
    ASSUME Typed, NEW w \in Workers, Escalate(w)
    PROVE  Quiet
  <1>1. JobKept
    BY DEF JobKept, Typed, Job, Working, Escalate, UpdateSyncJobStatusForGeneration
  <1>2. TasksKept
    BY SameTasks DEF Escalate
  <1>3. WorkersKept
    BY WorkerProceeds DEF Escalate
  <1> QED  BY <1>1, <1>2, <1>3 DEF Quiet, Escalate

LEMMA Q_RequeueOwn ==
    ASSUME Typed, NEW w \in Workers, RequeueOwn(w)
    PROVE  Quiet
  <1>1. JobKept
    BY SameJob DEF RequeueOwn
  <1>2. TasksKept
    BY RecordKept DEF RequeueOwn
  <1>3. WorkersKept
    BY WorkerRests DEF RequeueOwn
  <1> QED  BY <1>1, <1>2, <1>3 DEF Quiet, RequeueOwn

LEMMA Q_StopJob ==
    ASSUME Typed, NEW w \in Workers, StopJob(w)
    PROVE  Quiet
  <1>1. JobKept
    BY DEF JobKept, Typed, Job, Working, StopJob, UpdateSyncJobStatusForGeneration
  <1>2. TasksKept
    BY SameTasks DEF StopJob
  <1>3. WorkersKept
    BY WorkerProceeds DEF StopJob
  <1> QED  BY <1>1, <1>2, <1>3 DEF Quiet, StopJob

LEMMA Q_StopTasks ==
    ASSUME Typed, NEW w \in Workers, StopTasks(w)
    PROVE  Quiet
  <1>1. JobKept
    BY SameJob DEF StopTasks
  <1>2. TasksKept
    <2>1. PICK k \in Kinds : k = worker[w].kind
      BY WorkerKind
    <2>2. CASE ~MayAcknowledge(k, worker[w].gen, worker[w].epoch)
      BY <2>1, <2>2, SameTasks DEF StopTasks
    <2>3. CASE MayAcknowledge(k, worker[w].gen, worker[w].epoch)
      <3>1. PICK ts \in [Kinds -> Task] : ts = [tasks EXCEPT ![k].st = "FAILED"]
        BY RecordTyped DEF TaskStatuses
      <3>2. tasks' = CancelRemainingPendingSyncTasksForGeneration(ts, worker[w].gen)
        BY <2>1, <2>3, <3>1 DEF StopTasks
      <3>3. tasks[k].st = "RUNNING"
        BY <2>3 DEF MayAcknowledge, Owns
      <3>4. \A j \in Kinds : /\ ts[j].gen = tasks[j].gen /\ ts[j].to = tasks[j].to
                             /\ ts[j].st = IF j = k THEN "FAILED" ELSE tasks[j].st
        BY <3>1 DEF Typed, Task
      <3>5. \A j \in Kinds : /\ tasks'[j].gen = ts[j].gen /\ tasks'[j].to = ts[j].to
                             /\ tasks'[j].st \in {ts[j].st, "CANCELLED"} /\ (ts[j].st = "NONE" => tasks'[j].st = "NONE")
        BY <3>2 DEF CancelRemainingPendingSyncTasksForGeneration, Task
      <3>6. \A j \in Kinds : TaskKept(j)
        BY <3>3, <3>4, <3>5 DEF TaskKept
      <3> QED  BY <3>6 DEF TasksKept
    <2> QED  BY <2>2, <2>3
  <1>3. WorkersKept
    BY WorkerRests DEF StopTasks
  <1> QED  BY <1>1, <1>2, <1>3 DEF Quiet, StopTasks

LEMMA Q_WorkerCrash ==
    ASSUME Typed, NEW w \in Workers, WorkerCrash(w)
    PROVE  Quiet
  <1>1. JobKept
    BY SameJob DEF WorkerCrash
  <1>2. TasksKept
    BY WorkerKind, SameTasks DEF WorkerCrash, TasksKept, TaskKept, Typed, Task
  <1>3. WorkersKept
    BY WorkerRests DEF WorkerCrash
  <1> QED  BY <1>1, <1>2, <1>3 DEF Quiet, WorkerCrash

LEMMA Q_requeueFailedTasks ==
    ASSUME Typed, NEW k \in Kinds, requeueFailedTasks(k)
    PROVE  Quiet
  <1>1. JobKept
    BY SameJob DEF requeueFailedTasks
  <1>2. TasksKept
    BY DEF requeueFailedTasks, Retryable, TasksKept, TaskKept, Typed, Task
  <1>3. WorkersKept
    BY SameWorkers DEF requeueFailedTasks
  <1> QED  BY <1>1, <1>2, <1>3 DEF Quiet, requeueFailedTasks

LEMMA Q_requeueRunningTasks ==
    ASSUME Typed, NEW k \in Kinds, requeueRunningTasks(k)
    PROVE  Quiet
  <1>1. JobKept
    BY SameJob DEF requeueRunningTasks
  <1>2. TasksKept
    BY DEF requeueRunningTasks, Recoverable, Requeue, TasksKept, TaskKept, Typed, Task
  <1>3. WorkersKept
    BY SameWorkers DEF requeueRunningTasks
  <1> QED  BY <1>1, <1>2, <1>3 DEF Quiet, requeueRunningTasks

LEMMA Q_VerifierMarks ==
    ASSUME Typed, NEW k \in Kinds, VerifierMarks(k)
    PROVE  Quiet
  <1>1. JobKept
    BY SameJob DEF VerifierMarks
  <1>2. TasksKept
    BY DEF VerifierMarks, MarkSyncTaskChecksumVerified, TasksKept, TaskKept, Typed, Task
  <1>3. WorkersKept
    BY SameWorkers DEF VerifierMarks
  <1> QED  BY <1>1, <1>2, <1>3 DEF Quiet, VerifierMarks

LEMMA Q_VerifierRefuses ==
    ASSUME Typed, NEW k \in Kinds, VerifierRefuses(k)
    PROVE  Quiet
  <1>1. JobKept
    BY SameJob DEF VerifierRefuses
  <1>2. TasksKept
    <2>1. tasks' = [tasks EXCEPT ![k].st = "FAILED"] /\ tasks[k].st = "COMPLETED"
      BY DEF VerifierRefuses, MarkSyncTaskChecksumMismatch, MayVerify, Unverified
    <2> QED  BY <2>1 DEF TasksKept, TaskKept, Typed, Task
  <1>3. WorkersKept
    BY SameWorkers DEF VerifierRefuses
  <1> QED  BY <1>1, <1>2, <1>3 DEF Quiet, VerifierRefuses

LEMMA Q_recoverPausedSyncJobs ==
    ASSUME Typed, recoverPausedSyncJobs
    PROVE  Quiet
  <1>1. JobKept
    BY DEF JobKept, Typed, Job, Working, recoverPausedSyncJobs, RecoverConnectionLostSyncJob
  <1>2. TasksKept
    BY SameTasks DEF recoverPausedSyncJobs
  <1>3. WorkersKept
    BY SameWorkers DEF recoverPausedSyncJobs
  <1> QED  BY <1>1, <1>2, <1>3 DEF Quiet, recoverPausedSyncJobs

LEMMA Q_VerifierClaims ==
    ASSUME Typed, VerifierClaims
    PROVE  Quiet
  <1>1. JobKept
    BY DEF JobKept, Typed, Job, Working, VerifierClaims, ClaimSyncJobVerification
  <1>2. TasksKept
    BY SameTasks DEF VerifierClaims
  <1>3. WorkersKept
    BY SameWorkers DEF VerifierClaims
  <1> QED  BY <1>1, <1>2, <1>3 DEF Quiet, VerifierClaims

LEMMA Q_VerifierReleases ==
    ASSUME Typed, VerifierReleases
    PROVE  Quiet
  <1>1. JobKept
    BY DEF JobKept, Typed, Job, Working, VerifierReleases
  <1>2. TasksKept
    BY SameTasks DEF VerifierReleases
  <1>3. WorkersKept
    BY SameWorkers DEF VerifierReleases
  <1> QED  BY <1>1, <1>2, <1>3 DEF Quiet, VerifierReleases

LEMMA Q_VerifierCrash ==
    ASSUME Typed, VerifierCrash
    PROVE  Quiet
  <1>1. JobKept
    BY DEF JobKept, Typed, Job, Working, VerifierCrash
  <1>2. TasksKept
    BY SameTasks DEF VerifierCrash
  <1>3. WorkersKept
    BY SameWorkers DEF VerifierCrash
  <1> QED  BY <1>1, <1>2, <1>3 DEF Quiet, VerifierCrash

LEMMA Q_HandlePauseSync ==
    ASSUME Typed, HandlePauseSync
    PROVE  Quiet
  <1>1. JobKept
    BY DEF JobKept, Typed, Job, Working, HandlePauseSync, PauseSyncJobAndDeactivateSchedules
  <1>2. TasksKept
    BY DEF HandlePauseSync, PauseSyncJobAndDeactivateSchedules, Cancelled, TasksKept, TaskKept, Typed, Task
  <1>3. WorkersKept
    BY SameWorkers DEF HandlePauseSync
  <1> QED  BY <1>1, <1>2, <1>3 DEF Quiet, HandlePauseSync

LEMMA Q_HandleResumeSync ==
    ASSUME Typed, HandleResumeSync
    PROVE  Quiet
  <1>1. JobKept
    BY DEF JobKept, Typed, Job, Working, HandleResumeSync, ResumeSyncJobAndReactivateSchedules
  <1>2. TasksKept
    BY SameTasks DEF HandleResumeSync
  <1>3. WorkersKept
    BY SameWorkers DEF HandleResumeSync
  <1> QED  BY <1>1, <1>2, <1>3 DEF Quiet, HandleResumeSync

LEMMA Q_HandleDeleteSync ==
    ASSUME Typed, HandleDeleteSync
    PROVE  Quiet
  <1>1. JobKept
    BY SameJob DEF HandleDeleteSync
  <1>2. TasksKept
    BY SameTasks DEF HandleDeleteSync
  <1>3. WorkersKept
    BY SameWorkers DEF HandleDeleteSync
  <1> QED  BY <1>1, <1>2, <1>3 DEF Quiet, HandleDeleteSync

LEMMA Q_HandleUpdateSyncScope ==
    ASSUME Typed, HandleUpdateSyncScope
    PROVE  Quiet
  <1>1. JobKept
    BY DEF JobKept, Typed, Job, Working, HandleUpdateSyncScope, UpdateSyncJobScope
  <1>2. TasksKept
    BY SameTasks DEF HandleUpdateSyncScope
  <1>3. WorkersKept
    BY SameWorkers DEF HandleUpdateSyncScope
  <1> QED  BY <1>1, <1>2, <1>3 DEF Quiet, HandleUpdateSyncScope

LEMMA Q_HandleUpdateSyncSchedule ==
    ASSUME Typed, HandleUpdateSyncSchedule
    PROVE  Quiet
  <1>1. JobKept
    BY SameJob DEF HandleUpdateSyncSchedule
  <1>2. TasksKept
    BY SameTasks DEF HandleUpdateSyncSchedule
  <1>3. WorkersKept
    BY SameWorkers DEF HandleUpdateSyncSchedule
  <1> QED  BY <1>1, <1>2, <1>3 DEF Quiet, HandleUpdateSyncSchedule

LEMMA Q_SuspendUser ==
    ASSUME Typed, SuspendUser
    PROVE  Quiet
  <1>1. JobKept
    BY DEF JobKept, Typed, Job, Working, SuspendUser, SuspendSyncs
  <1>2. TasksKept
    BY DEF SuspendUser, SuspendSyncs, TasksKept, TaskKept, Typed, Task
  <1>3. WorkersKept
    BY SameWorkers DEF SuspendUser
  <1> QED  BY <1>1, <1>2, <1>3 DEF Quiet, SuspendUser

LEMMA Q_DeleteRows ==
    ASSUME Typed, DeleteRows
    PROVE  Quiet
  <1>1. JobKept
    BY DEF JobKept, Typed, Job, Working, DeleteRows, DeleteSyncJobCascade
  <1>2. TasksKept
    BY DEF DeleteRows, DeleteSyncJobCascade, TasksKept, Typed, Job
  <1>3. WorkersKept
    BY SameWorkers DEF DeleteRows
  <1> QED  BY <1>1, <1>2, <1>3 DEF Quiet, DeleteRows

LEMMA Q_TickReads ==
    ASSUME Typed, TickReads
    PROVE  Quiet
  <1>1. JobKept
    BY SameJob DEF TickReads
  <1>2. TasksKept
    BY SameTasks DEF TickReads
  <1>3. WorkersKept
    BY SameWorkers DEF TickReads
  <1> QED  BY <1>1, <1>2, <1>3 DEF Quiet, TickReads

LEMMA Q_TriggerSync ==
    ASSUME Typed, TriggerSync
    PROVE  Quiet
  <1>1. JobKept
    BY SameJob DEF TriggerSync
  <1>2. TasksKept
    BY SameTasks DEF TriggerSync
  <1>3. WorkersKept
    BY SameWorkers DEF TriggerSync
  <1> QED  BY <1>1, <1>2, <1>3 DEF Quiet, TriggerSync

LEMMA Q_TickAdvances ==
    ASSUME Typed, TickAdvances
    PROVE  Quiet
  <1>1. JobKept
    BY SameJob DEF TickAdvances
  <1>2. TasksKept
    BY SameTasks DEF TickAdvances
  <1>3. WorkersKept
    BY SameWorkers DEF TickAdvances
  <1> QED  BY <1>1, <1>2, <1>3 DEF Quiet, TickAdvances

LEMMA Q_DeactivateSchedule ==
    ASSUME Typed, DeactivateSchedule
    PROVE  Quiet
  <1>1. JobKept
    BY SameJob DEF DeactivateSchedule
  <1>2. TasksKept
    BY SameTasks DEF DeactivateSchedule
  <1>3. WorkersKept
    BY SameWorkers DEF DeactivateSchedule
  <1> QED  BY <1>1, <1>2, <1>3 DEF Quiet, DeactivateSchedule

LEMMA Q_IntervalPasses ==
    ASSUME Typed, IntervalPasses
    PROVE  Quiet
  <1>1. JobKept
    BY SameJob DEF IntervalPasses
  <1>2. TasksKept
    BY SameTasks DEF IntervalPasses
  <1>3. WorkersKept
    BY SameWorkers DEF IntervalPasses
  <1> QED  BY <1>1, <1>2, <1>3 DEF Quiet, IntervalPasses

LEMMA Q_recoverOrphanedSyncJobs ==
    ASSUME Typed, recoverOrphanedSyncJobs
    PROVE  Quiet
  <1>1. JobKept
    BY DEF JobKept, Typed, Job, Working, recoverOrphanedSyncJobs
  <1>2. TasksKept
    BY SameTasks DEF recoverOrphanedSyncJobs
  <1>3. WorkersKept
    BY SameWorkers DEF recoverOrphanedSyncJobs
  <1> QED  BY <1>1, <1>2, <1>3 DEF Quiet, recoverOrphanedSyncJobs

LEMMA Q_EditFile ==
    ASSUME Typed, NEW s \in Sides, EditFile(s)
    PROVE  Quiet
  <1>1. JobKept
    BY SameJob DEF EditFile
  <1>2. TasksKept
    BY SameTasks DEF EditFile
  <1>3. WorkersKept
    BY SameWorkers DEF EditFile
  <1> QED  BY <1>1, <1>2, <1>3 DEF Quiet, EditFile

LEMMA Q_DeleteFileOf ==
    ASSUME Typed, NEW s \in Sides, DeleteFileOf(s)
    PROVE  Quiet
  <1>1. JobKept
    BY SameJob DEF DeleteFileOf
  <1>2. TasksKept
    BY SameTasks DEF DeleteFileOf
  <1>3. WorkersKept
    BY SameWorkers DEF DeleteFileOf
  <1> QED  BY <1>1, <1>2, <1>3 DEF Quiet, DeleteFileOf

LEMMA Q_DeleteDirectoryOf ==
    ASSUME Typed, NEW s \in Sides, DeleteDirectoryOf(s)
    PROVE  Quiet
  <1>1. JobKept
    BY SameJob DEF DeleteDirectoryOf
  <1>2. TasksKept
    BY SameTasks DEF DeleteDirectoryOf
  <1>3. WorkersKept
    BY SameWorkers DEF DeleteDirectoryOf
  <1> QED  BY <1>1, <1>2, <1>3 DEF Quiet, DeleteDirectoryOf

-----------------------------------------------------------------------------
(* Steps of a coordinator *)

(* Tasks stay, disappear, or are new ones of the pass.                     *)
TasksReplaced(g) ==
    \A k \in Kinds : \/ tasks'[k] = tasks[k] \/ tasks'[k] = NoTask
                     \/ tasks'[k].gen = g /\ tasks'[k].st # "RUNNING" /\ coord'[g].pc \notin Early

(* No other coordinator changes.                                           *)
OnlyPass(g) == \A h \in Gens : h # g => coord'[h] = coord[h]

(* A coordinator that goes on within its pass keeps the order.             *)
LEMMA AdvanceOrdered ==
    ASSUME Typed, Typed', Ordered, NEW g \in Gens, Registered(g), OnlyPass(g),
           UNCHANGED <<lock, cfg, worker>>, JobKept,
           coord'[g].pc \notin {"none", "lock", "done"}, coord'[g].c = coord[g].c,
           coord'[g].pc \in Early => coord[g].pc \in Early, TasksReplaced(g),
           HasDrained(g) \/ ~AnyRunning
    PROVE  Ordered'
  <1> USE SyncBoundsAssumption
  <1>0. /\ \A h \in Gens : h \in Nat /\ h # 0
        /\ job.gen \in Nat /\ lock \in Nat /\ \A k \in Kinds : tasks[k].gen \in Nat /\ tasks'[k].gen \in Nat
    BY DEF Typed, Gens, Job, Task
  <1>c. \A h \in Gens : h # g => coord'[h] = coord[h]
    BY DEF OnlyPass
  <1>l. lock = g /\ lock' = g /\ \A h \in Gens : Registered(h) => h = g
    BY DEF Ordered
  <1>n. NoTask.gen = 0 /\ NoTask.st = "NONE"
    BY DEF NoTask
  <1>1. \A h \in Gens : coord'[h].pc # "none" => h =< job'.gen
    BY <1>c DEF Ordered, JobKept, Registered
  <1>2. \A h \in Gens : Registered(h)' => lock' = h
    BY <1>c, <1>l DEF Registered
  <1>3. \A k \in Kinds, h \in Gens : tasks'[k].gen = h => coord'[h].pc \notin Early
    BY <1>0, <1>c, <1>n DEF Ordered, TasksReplaced
  <1>4. \A w \in Workers, h \in Gens : worker'[w].gen = h => coord'[h].pc \notin Early
    BY <1>c DEF Ordered
  <1>5. \A k \in Kinds : lock' # 0 => tasks'[k].gen =< lock'
    BY <1>0, <1>l, <1>n DEF Ordered, TasksReplaced
  <1>6. \A h \in Gens, k \in Kinds : HasDrained(h)' /\ tasks'[k].st = "RUNNING" => tasks'[k].gen = h
    <2> SUFFICES ASSUME NEW h \in Gens, NEW k \in Kinds, HasDrained(h)', tasks'[k].st = "RUNNING"
                 PROVE  tasks'[k].gen = h
      OBVIOUS
    <2>1. h = g
      BY <1>c, <1>l DEF HasDrained, Registered
    <2>2. tasks'[k] = tasks[k]
      BY <1>n DEF TasksReplaced
    <2>3. HasDrained(g)
      BY <1>c, <2>1, <2>2 DEF HasDrained, AnyRunning
    <2> QED  BY <2>1, <2>2, <2>3 DEF Ordered
  <1>7. \A h \in Gens : Current(h)' /\ Registered(h)' => coord'[h].c = cfg'
    BY <1>c, <1>l DEF Ordered, JobKept, Current, InPass, Registered
  <1> QED  BY <1>1, <1>2, <1>3, <1>4, <1>5, <1>6, <1>7 DEF Ordered

(* A coordinator that returns keeps the order.                             *)
LEMMA FinishOrdered ==
    ASSUME Typed, Typed', Ordered, NEW g \in Gens, Finish(g), coord[g].pc # "none", UNCHANGED <<cfg, worker>>, JobKept,
           \A k \in Kinds : tasks'[k] = tasks[k] \/ tasks'[k] = NoTask
    PROVE  Ordered'
  <1> USE SyncBoundsAssumption
  <1>0. /\ \A h \in Gens : h \in Nat /\ h # 0
        /\ job.gen \in Nat /\ lock \in Nat /\ \A k \in Kinds : tasks[k].gen \in Nat /\ tasks'[k].gen \in Nat
    BY DEF Typed, Gens, Job, Task
  <1>c. coord'[g].pc = "done" /\ \A h \in Gens : h # g => coord'[h] = coord[h]
    BY DEF Typed, Finish, NoCoordinator
  <1>l. lock' \in {0, lock} /\ (lock' = 0 /\ lock # 0 => lock = g)
    BY DEF Finish
  <1>n. NoTask.gen = 0 /\ NoTask.st = "NONE"
    BY DEF NoTask
  <1>1. \A h \in Gens : coord'[h].pc # "none" => h =< job'.gen
    BY <1>c DEF Ordered, JobKept
  <1>2. \A h \in Gens : Registered(h)' => lock' = h
    BY <1>0, <1>c, <1>l DEF Registered, Ordered
  <1>3. \A k \in Kinds, h \in Gens : tasks'[k].gen = h => coord'[h].pc \notin Early
    BY <1>0, <1>c, <1>n DEF Ordered, Early
  <1>4. \A w \in Workers, h \in Gens : worker'[w].gen = h => coord'[h].pc \notin Early
    BY <1>c DEF Ordered, Early
  <1>5. \A k \in Kinds : lock' # 0 => tasks'[k].gen =< lock'
    BY <1>0, <1>l, <1>n DEF Ordered
  <1>6. \A h \in Gens, k \in Kinds : HasDrained(h)' /\ tasks'[k].st = "RUNNING" => tasks'[k].gen = h
    BY <1>c, <1>n DEF Ordered, HasDrained
  <1>7. \A h \in Gens : Current(h)' /\ Registered(h)' => coord'[h].c = cfg'
    BY <1>c DEF Ordered, JobKept, Current, InPass, Registered
  <1> QED  BY <1>1, <1>2, <1>3, <1>4, <1>5, <1>6, <1>7 DEF Ordered

(* The fenced UPDATEs of a coordinator begin no pass and revive none.      *)
LEMMA PassKept ==
    ASSUME Typed, NEW g \in Gens, UNCHANGED cfg,
           \/ UNCHANGED job \/ ReleaseUnstartedSyncPass(g) \/ TransitionSyncJobToRunning(g)
           \/ TransitionSyncJobToVerifying(g) \/ AbortSyncJobVerification(g) \/ FailSyncJobPass(g)
           \/ \E st, outcome, baseline : FinalizeSyncJobPass(g, st, outcome, baseline)
    PROVE  JobKept
  BY DEF JobKept, Typed, Job, Working, InPass, ReleaseUnstartedSyncPass, TransitionSyncJobToRunning,
         TransitionSyncJobToVerifying, AbortSyncJobVerification, FailSyncJobPass, FinalizeSyncJobPass

(* O_A: the step A of a coordinator keeps the order of the passes.         *)
LEMMA O_LockFails ==
    ASSUME Typed, Typed', Ordered, NEW g \in Gens, LockFails(g), UNCHANGED <<workerVars, api, userVars, held>>
    PROVE  Ordered'
  <1>1. Finish(g) /\ coord[g].pc # "none" /\ UNCHANGED <<tasks, cfg, worker>>
    BY Zenon DEF LockFails, rowVars, workerVars
  <1>2. JobKept
    BY PassKept DEF LockFails, rowVars
  <1> QED  BY <1>1, <1>2, FinishOrdered

LEMMA O_Interrupted ==
    ASSUME Typed, Typed', Ordered, NEW g \in Gens, Interrupted(g), UNCHANGED <<workerVars, api, userVars, held>>
    PROVE  Ordered'
  <1>1. Finish(g) /\ coord[g].pc # "none" /\ UNCHANGED <<tasks, cfg, worker>>
    BY Zenon DEF Interrupted, rowVars, workerVars
  <1>2. JobKept
    BY PassKept DEF Interrupted, rowVars
  <1> QED  BY <1>1, <1>2, FinishOrdered

LEMMA O_FailSync ==
    ASSUME Typed, Typed', Ordered, NEW g \in Gens, FailSync(g), UNCHANGED <<workerVars, api, userVars, held>>
    PROVE  Ordered'
  <1>1. Finish(g) /\ coord[g].pc # "none" /\ UNCHANGED <<tasks, cfg, worker>>
    BY Zenon DEF FailSync, rowVars, workerVars
  <1>2. JobKept
    BY PassKept DEF FailSync, rowVars
  <1> QED  BY <1>1, <1>2, FinishOrdered

LEMMA O_PollStopped ==
    ASSUME Typed, Typed', Ordered, NEW g \in Gens, PollStopped(g), UNCHANGED <<workerVars, api, userVars, held>>
    PROVE  Ordered'
  <1>1. Finish(g) /\ coord[g].pc # "none" /\ UNCHANGED <<tasks, cfg, worker>>
    BY Zenon DEF PollStopped, rowVars, workerVars
  <1>2. JobKept
    BY PassKept DEF PollStopped, rowVars
  <1> QED  BY <1>1, <1>2, FinishOrdered

LEMMA O_Drained ==
    ASSUME Typed, Typed', Ordered, NEW g \in Gens, Drained(g), UNCHANGED <<workerVars, api, userVars, held>>
    PROVE  Ordered'
  <1>1. coord[g].pc = "drain" /\ coord'[g].pc = "scanSource" /\ coord'[g].c = coord[g].c /\ OnlyPass(g)
    BY DEF Typed, Coordinator, OnlyPass, Drained, Goto, Scan
  <1>2. UNCHANGED <<lock, cfg, worker, tasks>>
    BY Zenon DEF Drained, Scan, rowVars, workerVars
  <1>3. JobKept
    BY PassKept, Zenon DEF Drained, Scan, rowVars
  <1>4. TasksReplaced(g)
    BY <1>2 DEF TasksReplaced
  <1>5. Registered(g) /\ (HasDrained(g) \/ ~AnyRunning) /\ (coord[g].pc \in Early \/ coord'[g].pc \notin Early)
    BY <1>1 DEF Registered, HasDrained, Early, Drained
  <1> QED  BY <1>1, <1>2, <1>3, <1>4, <1>5, AdvanceOrdered

LEMMA O_ScanSource ==
    ASSUME Typed, Typed', Ordered, NEW g \in Gens, ScanSource(g), UNCHANGED <<workerVars, api, userVars, held>>
    PROVE  Ordered'
  <1>1. coord[g].pc = "scanSource" /\ coord'[g].pc = "scanTarget" /\ coord'[g].c = coord[g].c /\ OnlyPass(g)
    BY DEF Typed, Coordinator, OnlyPass, ScanSource, Goto, Scan
  <1>2. UNCHANGED <<lock, cfg, worker, tasks>>
    BY Zenon DEF ScanSource, Scan, rowVars, workerVars
  <1>3. JobKept
    BY PassKept, Zenon DEF ScanSource, Scan, rowVars
  <1>4. TasksReplaced(g)
    BY <1>2 DEF TasksReplaced
  <1>5. Registered(g) /\ (HasDrained(g) \/ ~AnyRunning) /\ (coord[g].pc \in Early \/ coord'[g].pc \notin Early)
    BY <1>1 DEF Registered, HasDrained, Early, ScanSource
  <1> QED  BY <1>1, <1>2, <1>3, <1>4, <1>5, AdvanceOrdered

LEMMA O_ScanTarget ==
    ASSUME Typed, Typed', Ordered, NEW g \in Gens, ScanTarget(g), UNCHANGED <<workerVars, api, userVars, held>>
    PROVE  Ordered'
  <1>1. coord[g].pc = "scanTarget" /\ coord'[g].pc = "plan" /\ coord'[g].c = coord[g].c /\ OnlyPass(g)
    BY DEF Typed, Coordinator, OnlyPass, ScanTarget, Goto, Scan
  <1>2. UNCHANGED <<lock, cfg, worker, tasks>>
    BY Zenon DEF ScanTarget, Scan, rowVars, workerVars
  <1>3. JobKept
    BY PassKept, Zenon DEF ScanTarget, Scan, rowVars
  <1>4. TasksReplaced(g)
    BY <1>2 DEF TasksReplaced
  <1>5. Registered(g) /\ (HasDrained(g) \/ ~AnyRunning) /\ (coord[g].pc \in Early \/ coord'[g].pc \notin Early)
    BY <1>1 DEF Registered, HasDrained, Early, ScanTarget
  <1> QED  BY <1>1, <1>2, <1>3, <1>4, <1>5, AdvanceOrdered

LEMMA O_VerifyDone ==
    ASSUME Typed, Typed', Ordered, NEW g \in Gens, VerifyDone(g), UNCHANGED <<workerVars, api, userVars, held>>
    PROVE  Ordered'
  <1>1. coord[g].pc = "verify" /\ coord'[g].pc = "final" /\ coord'[g].c = coord[g].c /\ OnlyPass(g)
    BY DEF Typed, Coordinator, OnlyPass, VerifyDone, Goto, Scan
  <1>2. UNCHANGED <<lock, cfg, worker, tasks>>
    BY Zenon DEF VerifyDone, Scan, rowVars, workerVars
  <1>3. JobKept
    BY PassKept, Zenon DEF VerifyDone, Scan, rowVars
  <1>4. TasksReplaced(g)
    BY <1>2 DEF TasksReplaced
  <1>5. Registered(g) /\ (HasDrained(g) \/ ~AnyRunning) /\ (coord[g].pc \in Early \/ coord'[g].pc \notin Early)
    BY <1>1 DEF Registered, HasDrained, Early, VerifyDone
  <1> QED  BY <1>1, <1>2, <1>3, <1>4, <1>5, AdvanceOrdered

LEMMA O_VerifyStopped ==
    ASSUME Typed, Typed', Ordered, NEW g \in Gens, VerifyStopped(g), UNCHANGED <<workerVars, api, userVars, held>>
    PROVE  Ordered'
  <1>1. coord[g].pc = "verify" /\ coord'[g].pc = "final" /\ coord'[g].c = coord[g].c /\ OnlyPass(g)
    BY DEF Typed, Coordinator, OnlyPass, VerifyStopped, Goto, Scan
  <1>2. UNCHANGED <<lock, cfg, worker, tasks>>
    BY Zenon DEF VerifyStopped, Scan, rowVars, workerVars
  <1>3. JobKept
    BY PassKept, Zenon DEF VerifyStopped, Scan, rowVars
  <1>4. TasksReplaced(g)
    BY <1>2 DEF TasksReplaced
  <1>5. Registered(g) /\ (HasDrained(g) \/ ~AnyRunning) /\ (coord[g].pc \in Early \/ coord'[g].pc \notin Early)
    BY <1>1 DEF Registered, HasDrained, Early, VerifyStopped
  <1> QED  BY <1>1, <1>2, <1>3, <1>4, <1>5, AdvanceOrdered

LEMMA O_LockPass ==
    ASSUME Typed, Typed', Ordered, NEW g \in Gens, LockPass(g), UNCHANGED <<workerVars, api, userVars, held>>
    PROVE  Ordered'
  <1> USE SyncBoundsAssumption
  <1>1. CASE ~InPass(g, {"INDEXING"})
    <2>1. Finish(g) /\ coord[g].pc # "none" /\ UNCHANGED <<tasks, cfg, worker, job>>
      BY <1>1, Zenon DEF LockPass, rowVars, workerVars
    <2> QED  BY <2>1, SameJob, FinishOrdered
  <1>2. CASE InPass(g, {"INDEXING"})
    <2>0. /\ \A h \in Gens : h \in Nat /\ h # 0
          /\ job.gen \in Nat /\ \A k \in Kinds : tasks[k].gen \in 0..MaxGen
      BY DEF Typed, Gens, Job, Task
    <2>1. /\ coord[g].pc = "lock" /\ lock = 0 /\ lock' = g /\ job.gen = g
          /\ coord' = [coord EXCEPT ![g].pc = "drain", ![g].c = cfg] /\ UNCHANGED <<tasks, cfg, worker, job>>
      BY <1>2, Zenon DEF LockPass, rowVars, workerVars, InPass
    <2>2. coord'[g].pc = "drain" /\ coord'[g].c = cfg /\ \A h \in Gens : h # g => coord'[h] = coord[h]
      BY <2>1 DEF Typed, Coordinator
    <2>3. \A h \in Gens : ~Registered(h)
      BY <2>0, <2>1 DEF Ordered
    <2>4. \A k \in Kinds : tasks[k].gen =< g
      <3> TAKE k \in Kinds
      <3>1. CASE tasks[k].gen = 0
        BY <2>0, <3>1
      <3>2. CASE tasks[k].gen \in Gens
        <4>1. coord[tasks[k].gen].pc # "none"
          BY <3>2 DEF Ordered, Early
        <4> QED  BY <2>1, <3>2, <4>1 DEF Ordered
      <3> QED  BY <2>0, <3>1, <3>2 DEF Gens
    <2>5. \A h \in Gens : (Registered(h)' => h = g) /\ (HasDrained(h)' => h = g)
      BY <2>2, <2>3 DEF Registered, HasDrained
    <2>6. ~HasDrained(g)' /\ coord[g].pc \in Early
      BY <2>1, <2>2 DEF HasDrained, Early
    <2>7. /\ \A h \in Gens : coord'[h].pc # "none" => h =< job'.gen
          /\ \A h \in Gens : Registered(h)' => lock' = h
      BY <2>0, <2>1, <2>2, <2>5 DEF Ordered
    <2>8. /\ \A k \in Kinds, h \in Gens : tasks'[k].gen = h => coord'[h].pc \notin Early
          /\ \A w \in Workers, h \in Gens : worker'[w].gen = h => coord'[h].pc \notin Early
      <3>1. /\ \A k \in Kinds, h \in Gens : tasks[k].gen = h => coord[h].pc \notin Early
            /\ \A w \in Workers, h \in Gens : worker[w].gen = h => coord[h].pc \notin Early
        BY DEF Ordered
      <3>2. (\A k \in Kinds : tasks[k].gen # g) /\ \A w \in Workers : worker[w].gen # g
        BY <2>6, <3>1
      <3> QED  BY <2>1, <2>2, <3>1, <3>2
    <2>9. /\ \A k \in Kinds : lock' # 0 => tasks'[k].gen =< lock'
          /\ \A h \in Gens, k \in Kinds : HasDrained(h)' /\ tasks'[k].st = "RUNNING" => tasks'[k].gen = h
      BY <2>1, <2>4, <2>5, <2>6
    <2>10. \A h \in Gens : Current(h)' /\ Registered(h)' => coord'[h].c = cfg'
      BY <2>1, <2>2, <2>5
    <2> QED  BY <2>7, <2>8, <2>9, <2>10 DEF Ordered
  <1> QED  BY <1>1, <1>2

LEMMA O_Plan ==
    ASSUME Typed, Typed', Ordered, NEW g \in Gens, Plan(g), UNCHANGED <<workerVars, api, userVars, held>>
    PROVE  Ordered'
  <1> DEFINE planned == Delta(coord[g].c, coord[g].seen, coord[g].prev)
             pruned == Cleanup(coord[g].c, coord[g].seen, coord[g].prev)
  <1> HIDE DEF planned, pruned
  <1>p. coord[g].pc = "plan" /\ UNCHANGED <<cfg, worker>>
    BY DEF Plan, workerVars
  <1>n. \A s : [NoTask EXCEPT !.st = "PENDING", !.gen = g, !.to = s].st # "RUNNING"
               /\ [NoTask EXCEPT !.st = "PENDING", !.gen = g, !.to = s].gen = g
    BY DEF NoTask
  <1>j. JobKept
    BY <1>p, PassKept, Zenon DEF Plan
  <1>c. ClearOldTasks => \A k \in Kinds : tasks'[k] = tasks[k] \/ tasks'[k] = NoTask
    BY DEF ClearOldTasks
  <1>1. CASE planned = {}
    <2>1. /\ ClearOldTasks
          /\ coord' = [coord EXCEPT ![g].pc = "prune", ![g].prune = pruned, ![g].empty = TRUE]
          /\ UNCHANGED <<job, lock>>
      BY <1>1 DEF Plan, planned, pruned
    <2>2. coord'[g].pc = "prune" /\ coord'[g].c = coord[g].c /\ OnlyPass(g)
      BY <2>1 DEF Typed, Coordinator, OnlyPass
    <2>3. TasksReplaced(g)
      BY <1>c, <2>1 DEF TasksReplaced
    <2> QED  BY <1>p, <1>j, <2>1, <2>2, <2>3, AdvanceOrdered DEF Registered, HasDrained, Early
  <1>2. CASE planned # {} /\ coord[g].stop
    <2>1. ClearOldTasks /\ FailSyncJobPass(g) /\ Finish(g)
      BY <1>2 DEF Plan, planned, pruned
    <2> QED  BY <1>p, <1>j, <1>c, <2>1, FinishOrdered
  <1>3. CASE planned # {} /\ ~coord[g].stop
    <2>1. /\ BulkCreateSyncTasks(g, planned)
          /\ coord' = [coord EXCEPT ![g].pc = "start", ![g].prune = pruned]
          /\ UNCHANGED <<job, lock>>
      BY <1>3 DEF Plan, planned, pruned
    <2>2. coord'[g].pc = "start" /\ coord'[g].c = coord[g].c /\ OnlyPass(g)
      BY <2>1 DEF Typed, Coordinator, OnlyPass
    <2>3. TasksReplaced(g)
      BY <1>n, <2>1, <2>2 DEF TasksReplaced, BulkCreateSyncTasks, Early
    <2> QED  BY <1>p, <1>j, <2>1, <2>2, <2>3, AdvanceOrdered DEF Registered, HasDrained, Early
  <1> QED  BY <1>1, <1>2, <1>3

LEMMA O_StartTasks ==
    ASSUME Typed, Typed', Ordered, NEW g \in Gens, StartTasks(g), UNCHANGED <<workerVars, api, userVars, held>>
    PROVE  Ordered'
  <1>p. coord[g].pc = "start" /\ UNCHANGED <<cfg, worker, tasks>>
    BY Zenon DEF StartTasks, rowVars, workerVars
  <1>j. JobKept
    BY <1>p, PassKept, Zenon DEF StartTasks, rowVars
  <1>t. TasksReplaced(g)
    BY <1>p DEF TasksReplaced
  <1>1. CASE Finish(g)
    BY <1>1, <1>p, <1>j, FinishOrdered
  <1>2. CASE ~Finish(g)
    <2>1. coord'[g].pc \in {"poll"} /\ coord'[g].c = coord[g].c /\ OnlyPass(g) /\ UNCHANGED lock
      BY <1>2 DEF StartTasks, Goto, OnlyPass, Typed, Coordinator
    <2> QED  BY <1>p, <1>j, <1>t, <2>1, AdvanceOrdered DEF Registered, HasDrained, Early
  <1> QED  BY <1>1, <1>2

LEMMA O_PollDone ==
    ASSUME Typed, Typed', Ordered, NEW g \in Gens, PollDone(g), UNCHANGED <<workerVars, api, userVars, held>>
    PROVE  Ordered'
  <1>p. coord[g].pc = "poll" /\ UNCHANGED <<cfg, worker, tasks>>
    BY Zenon DEF PollDone, rowVars, workerVars
  <1>j. JobKept
    BY <1>p, PassKept, Zenon DEF PollDone, rowVars
  <1>t. TasksReplaced(g)
    BY <1>p DEF TasksReplaced
  <1>1. CASE Finish(g)
    BY <1>1, <1>p, <1>j, FinishOrdered
  <1>2. CASE ~Finish(g)
    <2>1. coord'[g].pc \in {"verify", "final"} /\ coord'[g].c = coord[g].c /\ OnlyPass(g) /\ UNCHANGED lock
      BY <1>2 DEF PollDone, Goto, OnlyPass, Typed, Coordinator
    <2> QED  BY <1>p, <1>j, <1>t, <2>1, AdvanceOrdered DEF Registered, HasDrained, Early
  <1> QED  BY <1>1, <1>2

(***************************************************************************)
(* The operations Final cannot confirm, whether it protects the file, and  *)
(* the baseline it prepares, for one outcome of inspecting the             *)
(* destination.                                                            *)
(***************************************************************************)
LostBy(g, i) == {t \in {u \in Done(g) : u[1] = "move"} : ~i \/ disk[t[2]].file = Absent}
ProtectedBy(g, i) == FileProtected(Undone(g) \cup LostBy(g, i))
BaselineBy(g, i) ==
    NextBaseline(Invalidated(Reconciled(coord[g].seen, Done(g) \ LostBy(g, i), disk), ProtectedBy(g, i)),
                 coord[g].prev, ProtectedBy(g, i))

(* Final returns, or prepares the baseline of one inspection.              *)
LEMMA FinalCases ==
    ASSUME NEW g \in Gens, Final(g)
    PROVE  \/ Finish(g) /\ (UNCHANGED job \/ FailSyncJobPass(g))
           \/ /\ InPass(g, {"RUNNING", "VERIFYING"}) /\ UNCHANGED <<job, lock>>
              /\ \E i \in BOOLEAN : coord' = [coord EXCEPT ![g].pc = "prune", ![g].out = Outcome(g), ![g].seen = BaselineBy(g, i)]
  BY Zenon DEF Final, BaselineBy, ProtectedBy, LostBy

LEMMA O_Final ==
    ASSUME Typed, Typed', Ordered, NEW g \in Gens, Final(g), UNCHANGED <<workerVars, api, userVars, held>>
    PROVE  Ordered'
  <1>p. coord[g].pc = "final" /\ UNCHANGED <<cfg, worker, tasks>>
    BY Zenon DEF Final, rowVars, workerVars
  <1>j. JobKept
    BY <1>p, PassKept, Zenon DEF Final, rowVars
  <1>t. TasksReplaced(g)
    BY <1>p DEF TasksReplaced
  <1>1. CASE Finish(g)
    BY <1>1, <1>p, <1>j, FinishOrdered
  <1>2. CASE ~Finish(g)
    <2>1. coord'[g].pc \in {"prune"} /\ coord'[g].c = coord[g].c /\ OnlyPass(g) /\ UNCHANGED lock
      <3>1. UNCHANGED lock /\ \E out, seen : coord' = [coord EXCEPT ![g].pc = "prune", ![g].out = out, ![g].seen = seen]
        BY <1>2, FinalCases, Zenon
      <3> QED  BY <3>1 DEF OnlyPass, Typed, Coordinator
    <2> QED  BY <1>p, <1>j, <1>t, <2>1, AdvanceOrdered DEF Registered, HasDrained, Early
  <1> QED  BY <1>1, <1>2

LEMMA O_Prune ==
    ASSUME Typed, Typed', Ordered, NEW g \in Gens, Prune(g), UNCHANGED <<workerVars, api, userVars, held>>
    PROVE  Ordered'
  <1>p. coord[g].pc = "prune" /\ UNCHANGED <<cfg, worker, tasks>>
    BY Zenon DEF Prune, rowVars, workerVars
  <1>j. JobKept
    BY <1>p, PassKept, Zenon DEF Prune, rowVars
  <1>t. TasksReplaced(g)
    BY <1>p DEF TasksReplaced
  <1>1. CASE Finish(g)
    BY <1>1, <1>p, <1>j, FinishOrdered
  <1>2. CASE ~Finish(g)
    <2>1. coord'[g].pc \in {"remove", "commit"} /\ coord'[g].c = coord[g].c /\ OnlyPass(g) /\ UNCHANGED lock
      BY <1>2 DEF Prune, rowVars, OnlyPass, Typed, Coordinator
    <2> QED  BY <1>p, <1>j, <1>t, <2>1, AdvanceOrdered DEF Registered, HasDrained, Early
  <1> QED  BY <1>1, <1>2

LEMMA O_Remove ==
    ASSUME Typed, Typed', Ordered, NEW g \in Gens, Remove(g), UNCHANGED <<workerVars, api, userVars, held>>
    PROVE  Ordered'
  <1>p. coord[g].pc = "remove" /\ UNCHANGED <<cfg, worker, tasks>>
    BY Zenon DEF Remove, rowVars, workerVars
  <1>j. JobKept
    BY <1>p, PassKept, Zenon DEF Remove, rowVars
  <1>t. TasksReplaced(g)
    BY <1>p DEF TasksReplaced
  <1>1. CASE Finish(g)
    BY <1>1, <1>p, <1>j, FinishOrdered
  <1>2. CASE ~Finish(g)
    <2>1. coord'[g].pc \in {"commit"} /\ coord'[g].c = coord[g].c /\ OnlyPass(g) /\ UNCHANGED lock
      BY <1>2 DEF Remove, rowVars, OnlyPass, Typed, Coordinator
    <2> QED  BY <1>p, <1>j, <1>t, <2>1, AdvanceOrdered DEF Registered, HasDrained, Early
  <1> QED  BY <1>1, <1>2

LEMMA O_Commit ==
    ASSUME Typed, Typed', Ordered, NEW g \in Gens, Commit(g), UNCHANGED <<workerVars, api, userVars, held>>
    PROVE  Ordered'
  <1>1. Finish(g) /\ coord[g].pc # "none" /\ UNCHANGED <<tasks, cfg, worker>>
    BY Zenon DEF Commit, rowVars, workerVars
  <1>2. JobKept
    BY PassKept, Zenon DEF Commit, rowVars
  <1> QED  BY <1>1, <1>2, FinishOrdered

-----------------------------------------------------------------------------
(* Claims, cancellations, crashes; the order of the passes *)

(* A new generation is younger than everything there is.                   *)
LEMMA StartOrdered ==
    ASSUME Typed, Typed', Ordered, StartSyncPass, UNCHANGED <<tasks, worker, lock, cfg>>
    PROVE  Ordered'
  <1> USE SyncBoundsAssumption
  <1> DEFINE n == job.gen + 1
  <1>0. /\ \A h \in Gens : h \in Nat /\ h # 0
        /\ job.gen \in Nat /\ n \in Gens /\ n > job.gen
    BY DEF Typed, StartSyncPass, ClaimSyncJobPass, CanClaim, Job, Gens
  <1>1. job'.gen = n /\ coord' = [coord EXCEPT ![n].pc = "lock"]
    BY DEF StartSyncPass, ClaimSyncJobPass, Typed, Job
  <1> HIDE DEF n
  <1>2. coord[n].pc = "none"
    BY <1>0 DEF Ordered
  <1>3. coord'[n].pc = "lock" /\ \A h \in Gens : h # n => coord'[h] = coord[h]
    BY <1>0, <1>1 DEF Typed, Coordinator
  <1>4. \A h \in Gens : (Registered(h)' => h # n /\ Registered(h)) /\ (HasDrained(h)' => h # n /\ HasDrained(h))
    BY <1>3 DEF Registered, HasDrained
  <1>5. \A h \in Gens : coord'[h].pc \in Early => coord[h].pc \in Early
    BY <1>2, <1>3 DEF Early
  <1>6. \A h \in Gens : coord'[h].pc # "none" => h =< job'.gen
    BY <1>0, <1>1, <1>3 DEF Ordered
  <1>7. \A h \in Gens : Current(h)' /\ Registered(h)' => coord'[h].c = cfg'
    BY <1>1, <1>4 DEF Current, InPass
  <1> QED  BY <1>4, <1>5, <1>6, <1>7 DEF Ordered

(* Ending contexts changes no phase.                                       *)
LEMMA StopOrdered ==
    ASSUME Typed, Typed', Ordered, NEW gens, coord' = Stopped(gens), UNCHANGED <<tasks, worker, lock, cfg, job>>
    PROVE  Ordered'
  <1>1. \A h \in Gens : coord'[h].pc = coord[h].pc /\ coord'[h].c = coord[h].c
    BY DEF Stopped, Typed, Coordinator
  <1>2. \A h \in Gens : (Registered(h)' <=> Registered(h)) /\ (HasDrained(h)' <=> HasDrained(h)) /\ (Current(h)' <=> Current(h))
    BY <1>1 DEF Registered, HasDrained, Current, InPass
  <1> QED  BY <1>1, <1>2 DEF Ordered

(* A crash of the API process ends all coordinators and frees the lock.    *)
LEMMA CrashOrdered ==
    ASSUME Typed, Typed', Ordered, ApiCrash
    PROVE  Ordered'
  <1>1. \A h \in Gens : coord'[h].pc = IF coord[h].pc = "none" THEN "none" ELSE "done"
    BY DEF ApiCrash, NoCoordinator
  <1>2. \A h \in Gens : ~Registered(h)' /\ ~HasDrained(h)' /\ (coord'[h].pc \in Early => coord[h].pc \in Early)
    BY <1>1 DEF Registered, HasDrained, Early
  <1>3. UNCHANGED <<tasks, worker, job>> /\ lock' = 0
    BY DEF ApiCrash, workerVars
  <1> QED  BY <1>1, <1>2, <1>3 DEF Ordered

(* Every step keeps the order of the passes.                               *)
LEMMA OrderedStep == ASSUME Typed, Typed', Ordered, [Next]_vars PROVE Ordered'
  <1> USE DEF KeepApi, KeepUser
  <1>1. ASSUME NEW g \in Gens, CoordinatorNext(g) PROVE Ordered'
    BY <1>1, O_LockPass, O_LockFails, O_Drained, O_ScanSource, O_ScanTarget, O_Interrupted, O_FailSync, O_Plan,
       O_StartTasks, O_PollStopped, O_PollDone, O_VerifyDone, O_VerifyStopped, O_Final, O_Prune, O_Remove, O_Commit,
       Zenon DEF CoordinatorNext, CoordinatorStep
  <1>2. ASSUME \/ \E w \in Workers : WorkerNext(w) \/ (WorkerFault(w) /\ KeepApi)
               \/ (Background \/ Misfortune) /\ KeepApi
               \/ HandlePauseSync \/ HandleResumeSync \/ HandleDeleteSync \/ HandleUpdateSyncScope
               \/ HandleUpdateSyncSchedule \/ SuspendUser \/ DeleteRows \/ TickReads \/ TriggerSync \/ TickAdvances
               \/ DeactivateSchedule \/ IntervalPasses \/ recoverOrphanedSyncJobs \/ UserEdits
        PROVE Ordered'
    <2>1. Quiet
      BY <1>2, Q_Dequeue, Q_DequeueNothing, Q_ProcessSyncTask, Q_ReadFile, Q_Write, Q_Acknowledge, Q_CallFails,
         Q_CancelWork, Q_HandleSyncTaskFailure, Q_Escalate, Q_RequeueOwn, Q_StopJob, Q_StopTasks, Q_WorkerCrash,
         Q_requeueFailedTasks, Q_requeueRunningTasks, Q_VerifierMarks, Q_VerifierRefuses, Q_recoverPausedSyncJobs,
         Q_VerifierClaims, Q_VerifierReleases, Q_VerifierCrash, Q_HandlePauseSync, Q_HandleResumeSync,
         Q_HandleDeleteSync, Q_HandleUpdateSyncScope, Q_HandleUpdateSyncSchedule, Q_SuspendUser, Q_DeleteRows,
         Q_TickReads, Q_TriggerSync, Q_TickAdvances, Q_DeactivateSchedule, Q_IntervalPasses,
         Q_recoverOrphanedSyncJobs, Q_EditFile, Q_DeleteFileOf, Q_DeleteDirectoryOf, Zenon
         DEF WorkerNext, WorkerStep, WorkerFault, Background, Misfortune, UserEdits
    <2> QED  BY <2>1, QuietOrdered
  <1>3. ASSUME HandleStartSync \/ ResumeStarts \/ TriggerClaims PROVE Ordered'
    <2>1. UNCHANGED <<tasks, worker, lock, cfg>> /\ (StartSyncPass \/ UNCHANGED <<job, coord>>)
      BY <1>3, Zenon DEF HandleStartSync, ResumeStarts, TriggerClaims, KeepRest, workerVars
    <2>2. UNCHANGED <<job, coord>> => Quiet
      BY <2>1, SameTasks, SameJob, SameWorkers DEF Quiet
    <2> QED  BY <2>1, <2>2, QuietOrdered, StartOrdered
  <1>4. ASSUME (\E g \in Gens : DeliverCancel(g)) \/ ApiShutdown PROVE Ordered'
    BY <1>4, StopOrdered, Zenon DEF DeliverCancel, ApiShutdown, rowVars, workerVars
  <1>5. ASSUME UNCHANGED vars PROVE Ordered'
    <2>1. Quiet
      BY <1>5, SameTasks, SameJob, SameWorkers DEF Quiet, vars, rowVars, engineVars, workerVars
    <2> QED  BY <2>1, QuietOrdered
  <1> QED  BY <1>1, <1>2, <1>3, <1>4, <1>5, CrashOrdered DEF Next, Handlers, ScheduleStep

LEMMA InitOrdered == ASSUME Init PROVE Ordered
  <1>1. /\ \A g \in Gens : coord[g].pc = "none" /\ g # 0 /\ ~Registered(g) /\ ~HasDrained(g)
        /\ \A k \in Kinds : tasks[k].gen = 0
        /\ \A w \in Workers : worker[w].gen = 0
        /\ lock = 0
    BY DEF Init, NoCoordinator, NoTask, NoWork, Registered, HasDrained, Gens
  <1> QED  BY <1>1 DEF Ordered

(***************************************************************************)
(* The passes of a job take turns: lock, drain and generations keep their  *)
(* order whatever crashes, pauses, resumes, deletions and recoveries       *)
(* happen in between (lockPass, drainRemainingTasks, ClaimSyncJobPass).    *)
(***************************************************************************)
THEOREM PassesAreOrdered == Spec => []Ordered
  <1>1. Init => TypeOK /\ Ordered
    BY InitTyped, InitOrdered
  <1>2. TypeOK /\ TypeOK' /\ Ordered /\ [Next]_vars => Ordered'
    <2>1. (TypeOK <=> Typed) /\ (TypeOK <=> Typed)'
      BY TypedIsTypeOK, PTL
    <2> QED  BY <2>1, OrderedStep
  <1> QED  BY <1>1, <1>2, SyncTypes, PTL DEF Spec

(***************************************************************************)
(* While a pass looks at the two sides and acts on what it saw, no worker  *)
(* that holds its claim still reads or writes for an earlier one           *)
(* (drainRemainingTasks).                                                  *)
(***************************************************************************)
THEOREM SyncPassesDoNotOverlap == Spec => []PassesDoNotOverlap
  <1>1. TypeOK /\ Ordered => PassesDoNotOverlap
    <2> SUFFICES ASSUME Typed, Ordered, NEW g \in Gens, NEW w \in Workers, Scanned(g, "source"), Holds(w)
                 PROVE  worker[w].gen = g
      BY TypedIsTypeOK DEF PassesDoNotOverlap
    <2>1. worker[w].kind \in Kinds
      BY WorkerKind
    <2> QED  BY <2>1 DEF Holds, Owns, Ordered, Scanned, HasDrained
  <1> QED  BY <1>1, SyncTypes, PassesAreOrdered, PTL

-----------------------------------------------------------------------------
(* Stored ETags *)

(* A stored ETag is that of the file stored with it.                       *)
Tagged(l) == \A s \in Sides : l[s].tag # NoTag => l[s].file = l[s].tag

(* So in the baseline and in what every coordinator holds.                 *)
TagsAreTrue == Tagged(base) /\ \A g \in Gens : Tagged(coord[g].prev) /\ Tagged(coord[g].seen)

Nowhere == [s \in Sides |-> Nothing]

LEMMA NowhereTagged == Tagged(Nowhere)
  BY DEF Tagged, Nowhere, Nothing

(* Enough that what changes is replaced by something tagged.               *)
LEMMA TagsKept ==
    ASSUME TagsAreTrue, base' = base \/ Tagged(base'),
           \A h \in Gens : /\ coord'[h].prev = coord[h].prev \/ Tagged(coord'[h].prev)
                           /\ coord'[h].seen = coord[h].seen \/ Tagged(coord'[h].seen)
    PROVE  TagsAreTrue'
  <1>1. Tagged(base') /\ \A h \in Gens : Tagged(coord'[h].prev) /\ Tagged(coord'[h].seen)
    BY DEF TagsAreTrue
  <1> QED  BY <1>1 DEF TagsAreTrue, Tagged

LEMMA FinishTags ==
    ASSUME Typed, NEW g \in Gens, Finish(g)
    PROVE  \A h \in Gens : /\ coord'[h].prev = coord[h].prev \/ Tagged(coord'[h].prev)
                           /\ coord'[h].seen = coord[h].seen \/ Tagged(coord'[h].seen)
  <1>1. coord'[g].prev = Nowhere /\ coord'[g].seen = Nowhere /\ \A h \in Gens : h # g => coord'[h] = coord[h]
    BY DEF Finish, NoCoordinator, Nowhere, Typed
  <1> QED  BY <1>1, NowhereTagged

(* A listing is tagged when the one it was compared with was.              *)
LEMMA ListedTagged ==
    ASSUME Typed, NEW s \in Sides, NEW l \in Listing, l.tag # NoTag => l.file = l.tag
    PROVE  LET m == ListFiles(s, l) IN m.tag # NoTag => m.file = m.tag
  BY DEF ListFiles

(***************************************************************************)
(* The next baseline is tagged: a protected file has lost its ETag, and so *)
(* has a side on which an operation was done.                              *)
(***************************************************************************)
LEMMA BaselineTagged ==
    ASSUME Typed, NEW g \in Gens, Tagged(coord[g].seen), NEW i
    PROVE  Tagged(BaselineBy(g, i))
  <1> DEFINE done == Done(g) \ LostBy(g, i)
             r == Reconciled(coord[g].seen, done, disk)
             p == ProtectedBy(g, i)
             v == Invalidated(r, p)
  <1> SUFFICES ASSUME NEW s \in Sides, BaselineBy(g, i)[s].tag # NoTag
               PROVE  BaselineBy(g, i)[s].file = BaselineBy(g, i)[s].tag
    BY DEF Tagged
  <1>1. coord[g].seen \in [Sides -> Listing]
    BY DEF Typed, Coordinator
  <1>2. r \in [Sides -> Listing]
    BY <1>1, ListingsTyped
  <1>3. v \in [Sides -> Listing]
    BY <1>2, ListingsTyped
  <1>4. BaselineBy(g, i)[s] = [v[s] EXCEPT !.file = IF p THEN coord[g].prev[s].file ELSE v[s].file]
    BY DEF BaselineBy, NextBaseline
  <1>5. v[s] = IF p THEN [r[s] EXCEPT !.tag = NoTag] ELSE r[s]
    BY DEF Invalidated
  <1>6. BaselineBy(g, i)[s].tag = v[s].tag /\ BaselineBy(g, i)[s].file = IF p THEN coord[g].prev[s].file ELSE v[s].file
    <2> HIDE DEF v, p
    <2> QED  BY <1>3, <1>4 DEF Listing
  <1>7. p => v[s].tag = NoTag
    <2> HIDE DEF r, p, v
    <2> QED  BY <1>2, <1>5 DEF Listing
  <1>8. ~p /\ v[s] = r[s]
    <2> HIDE DEF r, p, v
    <2> QED  BY <1>5, <1>6, <1>7
  <1>9. r[s].tag # NoTag => r[s].file = r[s].tag
    <2>1. r[s] = [file |-> IF <<"move", s>> \in done THEN disk[s].file
                           ELSE IF <<"del", s>> \in done THEN Absent ELSE coord[g].seen[s].file,
                  dir  |-> coord[g].seen[s].dir \/ <<"mkdir", s>> \in done,
                  tag  |-> IF \E t \in done : t[2] = s THEN NoTag ELSE coord[g].seen[s].tag]
      BY DEF Reconciled
    <2> HIDE DEF r, done
    <2>2. (\E t \in done : t[2] = s) => r[s].tag = NoTag
      BY <2>1
    <2>3. ~(\E t \in done : t[2] = s) => r[s].tag = coord[g].seen[s].tag /\ r[s].file = coord[g].seen[s].file
      <3>1. ASSUME ~(\E t \in done : t[2] = s) PROVE <<"move", s>> \notin done /\ <<"del", s>> \notin done
        BY <3>1
      <3> QED  BY <2>1, <3>1
    <2> QED  BY <2>2, <2>3 DEF Tagged
  <1> QED
    <2> HIDE DEF r, p, v
    <2> QED  BY <1>6, <1>8, <1>9

LEMMA PrunedTagged ==
    ASSUME NEW l \in [Sides -> Listing], NEW removed, Tagged(l)
    PROVE  Tagged(Pruned(l, removed))
  <1> SUFFICES ASSUME NEW s \in Sides, Pruned(l, removed)[s].tag # NoTag
               PROVE  Pruned(l, removed)[s].file = Pruned(l, removed)[s].tag
    BY DEF Tagged
  <1>1. Pruned(l, removed)[s] = IF s \in removed THEN [l[s] EXCEPT !.dir = FALSE, !.tag = NoTag] ELSE l[s]
    BY DEF Pruned
  <1> QED  BY <1>1 DEF Tagged, Listing

(* Every step of a coordinator keeps the ETags true.                       *)
LEMMA CoordinatorTags ==
    ASSUME Typed, TagsAreTrue, NEW g \in Gens, CoordinatorStep(g)
    PROVE  TagsAreTrue'
  <1> DEFINE Kept == \A h \in Gens : /\ coord'[h].prev = coord[h].prev \/ Tagged(coord'[h].prev)
                                     /\ coord'[h].seen = coord[h].seen \/ Tagged(coord'[h].seen)
  <1>1. CASE Finish(g)
    <2>1. base' = base \/ base' = coord[g].seen
      BY Zenon DEF CoordinatorStep, LockPass, LockFails, Drained, ScanSource, ScanTarget, Scan, Interrupted, FailSync,
         Plan, StartTasks, PollStopped, PollDone, VerifyDone, VerifyStopped, Final, Prune, Remove, Commit,
         FinalizeSyncJobPass, rowVars
    <2> QED  BY <1>1, <2>1, FinishTags, TagsKept DEF TagsAreTrue
  <1>2. CASE ~Finish(g)
    <2>1. base' = base
      BY <1>2, Zenon DEF CoordinatorStep, LockPass, LockFails, Drained, ScanSource, ScanTarget, Scan, Interrupted, FailSync,
         Plan, StartTasks, PollStopped, PollDone, VerifyDone, VerifyStopped, Final, Prune, Remove, Commit, rowVars
    <2>0. ASSUME NEW p, coord' = [coord EXCEPT ![g].pc = p] PROVE TagsAreTrue'
      <3>1. \A h \in Gens : coord'[h].prev = coord[h].prev /\ coord'[h].seen = coord[h].seen
        BY <2>0 DEF Typed, Coordinator
      <3> QED  BY <2>1, <3>1, TagsKept
    <2>2. CASE LockPass(g) \/ StartTasks(g) \/ PollDone(g) \/ VerifyDone(g) \/ VerifyStopped(g) \/ Prune(g)
      <3>1. CASE Prune(g)
        <4>1. PICK p, e : coord' = [coord EXCEPT ![g].pc = p, ![g].prune = e]
          BY <1>2, <3>1 DEF Prune
        <4>2. \A h \in Gens : coord'[h].prev = coord[h].prev /\ coord'[h].seen = coord[h].seen
          BY <4>1 DEF Typed, Coordinator
        <4> QED  BY <2>1, <4>2, TagsKept
      <3>2. CASE LockPass(g)
        <4>1. \A h \in Gens : coord'[h].prev = coord[h].prev /\ coord'[h].seen = coord[h].seen
          BY <1>2, <3>2 DEF LockPass, Typed, Coordinator
        <4> QED  BY <2>1, <4>1, TagsKept
      <3>3. CASE StartTasks(g) \/ PollDone(g) \/ VerifyDone(g) \/ VerifyStopped(g)
        <4>1. \E p : coord' = [coord EXCEPT ![g].pc = p]
          BY <1>2, <3>3, Zenon DEF StartTasks, PollDone, VerifyDone, VerifyStopped, Goto
        <4> QED  BY <4>1, <2>0
      <3> QED  BY <2>2, <3>1, <3>2, <3>3
    <2>3. CASE Drained(g)
      <3>1. coord'[g].prev = base /\ coord'[g].seen = coord[g].seen /\ \A h \in Gens : h # g => coord'[h] = coord[h]
        BY <2>3 DEF Drained, Typed, Coordinator
      <3> QED  BY <2>1, <3>1, TagsKept DEF TagsAreTrue
    <2>4. ASSUME NEW s \in Sides, NEW a, NEW b, Scan(g, s, a, b) PROVE TagsAreTrue'
      <3>1. PICK l \in Listing : l = ListFiles(s, coord[g].prev[s])
        BY ListedTyped DEF Typed, Coordinator
      <3>2. l.tag # NoTag => l.file = l.tag
        <4>1. coord[g].prev[s] \in Listing
          BY DEF Typed, Coordinator
        <4> QED  BY <3>1, <4>1, ListedTagged DEF TagsAreTrue, Tagged
      <3>3. coord' = [coord EXCEPT ![g].pc = b, ![g].seen[s] = l]
        BY <2>4, <3>1 DEF Scan
      <3>4. coord'[g].prev = coord[g].prev /\ \A h \in Gens : h # g => coord'[h] = coord[h]
        BY <3>3 DEF Typed, Coordinator
      <3>5. \A r \in Sides : coord'[g].seen[r] = IF r = s THEN l ELSE coord[g].seen[r]
        BY <3>3 DEF Typed, Coordinator
      <3>6. Tagged(coord'[g].seen)
        BY <3>2, <3>5 DEF TagsAreTrue, Tagged
      <3> QED  BY <2>1, <3>4, <3>6, TagsKept
    <2>5. CASE Plan(g)
      <3>1. \A h \in Gens : coord'[h].prev = coord[h].prev /\ coord'[h].seen = coord[h].seen
        <4>1. PICK pruned : \/ coord' = [coord EXCEPT ![g].pc = "prune", ![g].prune = pruned, ![g].empty = TRUE]
                            \/ coord' = [coord EXCEPT ![g].pc = "start", ![g].prune = pruned]
          BY <1>2, <2>5, Zenon DEF Plan
        <4>2. CASE coord' = [coord EXCEPT ![g].pc = "prune", ![g].prune = pruned, ![g].empty = TRUE]
          BY <4>2 DEF Typed, Coordinator
        <4>3. CASE coord' = [coord EXCEPT ![g].pc = "start", ![g].prune = pruned]
          BY <4>3 DEF Typed, Coordinator
        <4> QED  BY <4>1, <4>2, <4>3
      <3> QED  BY <2>1, <3>1, TagsKept
    <2>6. CASE Final(g)
      <3>1. PICK i \in BOOLEAN : coord' = [coord EXCEPT ![g].pc = "prune", ![g].out = Outcome(g), ![g].seen = BaselineBy(g, i)]
        BY <1>2, <2>6, FinalCases, Zenon
      <3>2. coord'[g].prev = coord[g].prev /\ coord'[g].seen = BaselineBy(g, i) /\ \A h \in Gens : h # g => coord'[h] = coord[h]
        BY <3>1 DEF Typed, Coordinator
      <3>3. Tagged(BaselineBy(g, i))
        BY BaselineTagged DEF TagsAreTrue
      <3> QED  BY <2>1, <3>2, <3>3, TagsKept
    <2>7. CASE Remove(g)
      <3>1. PICK removed : coord' = [coord EXCEPT ![g].pc = "commit", ![g].seen = Pruned(coord[g].seen, removed)]
        BY <2>7 DEF Remove
      <3>2. /\ coord'[g].prev = coord[g].prev /\ coord'[g].seen = Pruned(coord[g].seen, removed)
            /\ \A h \in Gens : h # g => coord'[h] = coord[h]
        BY <3>1 DEF Typed, Coordinator
      <3>3. Tagged(Pruned(coord[g].seen, removed))
        BY PrunedTagged DEF TagsAreTrue, Typed, Coordinator
      <3> QED  BY <2>1, <3>2, <3>3, TagsKept
    <2> QED  BY <1>2, <2>2, <2>3, <2>4, <2>5, <2>6, <2>7
             DEF CoordinatorStep, ScanSource, ScanTarget, LockFails, Interrupted, FailSync, PollStopped, Commit, Sides
  <1> QED  BY <1>1, <1>2

LEMMA TagsStep == ASSUME Typed, TagsAreTrue, [Next]_vars PROVE TagsAreTrue'
  <1>1. ASSUME NEW g \in Gens, CoordinatorNext(g) PROVE TagsAreTrue'
    BY <1>1, CoordinatorTags DEF CoordinatorNext
  <1>2. ASSUME UNCHANGED coord, base' = base \/ base' = Nowhere PROVE TagsAreTrue'
    BY <1>2, NowhereTagged, TagsKept
  <1>3. ASSUME UNCHANGED base,
               \A h \in Gens : coord'[h].prev \in {coord[h].prev, Nowhere} /\ coord'[h].seen \in {coord[h].seen, Nowhere}
        PROVE  TagsAreTrue'
    BY <1>3, NowhereTagged, TagsKept
  <1>4. ASSUME StartSyncPass, UNCHANGED base PROVE TagsAreTrue'
    <2>1. \A h \in Gens : coord'[h].prev = coord[h].prev /\ coord'[h].seen = coord[h].seen
      BY <1>4 DEF StartSyncPass, Typed, Coordinator
    <2> QED  BY <1>4, <2>1, <1>3
  <1>5. ASSUME NEW gens, coord' = Stopped(gens), UNCHANGED base PROVE TagsAreTrue'
    <2>1. \A h \in Gens : coord'[h].prev = coord[h].prev /\ coord'[h].seen = coord[h].seen
      BY <1>5 DEF Stopped, Typed, Coordinator
    <2> QED  BY <1>5, <2>1, <1>3
  <1>6. ASSUME ApiCrash PROVE TagsAreTrue'
    <2>1. \A h \in Gens : coord'[h].prev \in {coord[h].prev, Nowhere} /\ coord'[h].seen \in {coord[h].seen, Nowhere}
      BY <1>6 DEF ApiCrash, NoCoordinator, Nowhere
    <2> QED  BY <1>6, <2>1, <1>3 DEF ApiCrash
  <1>7. ASSUME \/ \E w \in Workers : WorkerNext(w) \/ (WorkerFault(w) /\ KeepApi)
               \/ (Background \/ Misfortune) /\ KeepApi
               \/ Handlers \/ ResumeStarts \/ DeleteRows \/ ScheduleStep \/ IntervalPasses
               \/ recoverOrphanedSyncJobs \/ UserEdits
        PROVE  (UNCHANGED coord \/ (StartSyncPass /\ UNCHANGED base)) /\ (base' = base \/ base' = Nowhere)
    <2> DEFINE Goal == (UNCHANGED coord \/ (StartSyncPass /\ UNCHANGED base)) /\ (base' = base \/ base' = Nowhere)
    <2>1. ASSUME NEW w \in Workers, WorkerNext(w) \/ WorkerFault(w) PROVE UNCHANGED <<coord, base>>
      <3>1. CASE WorkerStep(w)
        BY <3>1, Zenon DEF WorkerStep, rowVars, engineVars, Dequeue, DequeueNothing, ProcessSyncTask, ReadFile, Write,
           Acknowledge, HandleSyncTaskFailure, Escalate, RequeueOwn, StopJob, StopTasks
      <3>2. CASE WorkerFault(w)
        BY <3>2, Zenon DEF WorkerFault, rowVars, engineVars, CallFails, CancelWork, WorkerCrash
      <3> QED  BY <2>1, <3>1, <3>2 DEF WorkerNext
    <2>2. ASSUME Background \/ Misfortune PROVE UNCHANGED <<coord, base>>
      BY <2>2, Zenon DEF Background, Misfortune, rowVars, engineVars, requeueFailedTasks, requeueRunningTasks,
         VerifierMarks, VerifierRefuses, recoverPausedSyncJobs, VerifierClaims, VerifierReleases, VerifierCrash
    <2>3. ASSUME Handlers \/ ResumeStarts \/ DeleteRows PROVE Goal
      BY <2>3, Zenon DEF Handlers, Nowhere, rowVars, engineVars, HandleStartSync, HandlePauseSync, HandleResumeSync,
         HandleDeleteSync, HandleUpdateSyncScope, UpdateSyncJobScope, HandleUpdateSyncSchedule, SuspendUser,
         ResumeStarts, DeleteRows, DeleteSyncJobCascade
    <2>4. ASSUME ScheduleStep \/ IntervalPasses \/ recoverOrphanedSyncJobs PROVE Goal
      BY <2>4, Zenon DEF ScheduleStep, KeepRest, TickReads, TriggerSync, TriggerClaims, TickAdvances,
         DeactivateSchedule, IntervalPasses, recoverOrphanedSyncJobs
    <2>5. ASSUME UserEdits PROVE UNCHANGED <<coord, base>>
      BY <2>5, Zenon DEF UserEdits, EditFile, DeleteFileOf, DeleteDirectoryOf, KeepSystem, rowVars
    <2> QED  BY <1>7, <2>1, <2>2, <2>3, <2>4, <2>5
  <1>8. ASSUME UNCHANGED vars PROVE TagsAreTrue'
    BY <1>8, <1>2 DEF vars, rowVars, engineVars
  <1>9. ASSUME (\E g \in Gens : DeliverCancel(g)) \/ ApiShutdown PROVE TagsAreTrue'
    BY <1>9, <1>5 DEF DeliverCancel, ApiShutdown, rowVars
  <1> QED  BY <1>1, <1>2, <1>4, <1>6, <1>7, <1>8, <1>9, Zenon DEF Next

LEMMA InitTags == ASSUME Init PROVE TagsAreTrue
  BY NowhereTagged DEF Init, TagsAreTrue, NoCoordinator, Nowhere

(* In every state, a stored ETag describes the version stored with it.     *)
THEOREM TagsHold == Spec => []TagsAreTrue
  <1>1. Init => TagsAreTrue
    BY InitTags
  <1>2. TypeOK /\ TagsAreTrue /\ [Next]_vars => TagsAreTrue'
    BY TypedIsTypeOK, TagsStep
  <1> QED  BY <1>1, <1>2, SyncTypes, PTL DEF Spec

(***************************************************************************)
(* A directory that a pass skips because its ETag is current holds what    *)
(* the baseline says (listFiles, invalidateProtectedPathDirectoryETags).   *)
(***************************************************************************)
THEOREM SyncCachedSubtreeIsTrue == Spec => []CachedSubtreeIsTrue
  <1>1. TypeOK /\ TagsAreTrue => CachedSubtreeIsTrue
    <2>1. Typed => \A s \in Sides : disk[s].file # NoTag
      BY SyncVersionsAssumption DEF Typed, Disk, NoTag
    <2> QED  BY <2>1, TypedIsTypeOK DEF CachedSubtreeIsTrue, TagsAreTrue, Tagged
  <1> QED  BY <1>1, SyncTypes, TagsHold, PTL

-----------------------------------------------------------------------------
(* What a pass knows about the file *)

(* The settings BaselineAgrees is about.                                   *)
RenamesBoth == cfg.two /\ cfg.strategy = "RENAME"
(* A listing of both sides holds no two versions the job tells apart.      *)
Agree(by, l) ==
    l["source"].file # Absent /\ l["target"].file # Absent => Same(by, l["source"].file, l["target"].file)
Planned == {"start", "poll", "verify", "final"}
(***************************************************************************)
(* The upload or download of pass g exists; From: the version it carries   *)
(* over as pass g saw it; FilesPlanned: the file operations the plan       *)
(* called for.                                                             *)
(***************************************************************************)
Of(g) == tasks["move"].gen = g /\ tasks["move"].st # "NONE"
From(g) == coord[g].seen[Other(tasks["move"].to)].file
FilesPlanned(g) ==
    FileTasks(coord[g].c, coord[g].seen["source"].file, coord[g].seen["target"].file,
              coord[g].prev["source"].file, coord[g].prev["target"].file)

(* The baseline a pass started from, and the one it is about to commit.    *)
ListingsAgree(g) ==
    RenamesBoth => /\ HasDrained(g) => Agree(cfg.by, coord[g].prev)
                   /\ coord[g].pc \in {"prune", "remove", "commit"} => Agree(cfg.by, coord[g].seen)
(* The upload or download there is is the one the plan called for.         *)
MoveIsPlanned(g) ==
    coord[g].pc \in Planned => \A s \in Sides : <<"move", s>> \in FilesPlanned(g) <=> Of(g) /\ tasks["move"].to = s
(***************************************************************************)
(* A side the pass has listed still holds what it saw, nothing, or what    *)
(* the pass carried there.                                                 *)
(***************************************************************************)
DiskIsKnown(g) ==
    \A s \in Sides : Scanned(g, s) /\ coord[g].pc \in Planned \cup {"scanTarget", "plan"} =>
        \/ disk[s].file \in {coord[g].seen[s].file, Absent}
        \/ Of(g) /\ tasks["move"].to = s /\ disk[s].file = From(g)
(***************************************************************************)
(* Who has read holds the version the pass saw; who has written, and a     *)
(* task that is COMPLETED, left that version at the destination.           *)
(***************************************************************************)
MoveIsTrue(g) ==
    coord[g].pc \in Planned =>
        /\ tasks["move"].gen = g /\ tasks["move"].st = "COMPLETED" => disk[tasks["move"].to].file \in {From(g), Absent}
        /\ \A w \in Workers : worker[w].gen = g /\ worker[w].kind = "move" =>
             /\ worker[w].pc = "write" => worker[w].buf = From(g)
             /\ worker[w].pc = "ack" => disk[tasks["move"].to].file \in {From(g), Absent}

(* What a current pass knows, as long as no edit raced with a pass.        *)
PassAgrees(g) ==
    Current(g) /\ raced = {} => ListingsAgree(g) /\ MoveIsPlanned(g) /\ DiskIsKnown(g) /\ MoveIsTrue(g)
BaseAgrees == RenamesBoth /\ raced = {} => Agree(cfg.by, base)
Agreed == BaseAgrees /\ \A g \in Gens : PassAgrees(g)

(* No worker comes to hold content, or to have written it.                 *)
WorkersCalm ==
    \A w \in Workers : worker'[w].kind = "move" /\ worker'[w].pc \in {"write", "ack"} => worker'[w] = worker[w]

(* A coordinator before its drain, or after its return, knows nothing.     *)
LEMMA NotDrained ==
    ASSUME NEW g \in Gens, coord'[g].pc \in {"none", "lock", "drain", "done"}
    PROVE  PassAgrees(g)'
  BY DEF PassAgrees, ListingsAgree, MoveIsPlanned, DiskIsKnown, MoveIsTrue, HasDrained, Planned, Scanned

LEMMA NotCurrent ==
    ASSUME NEW g \in Gens, ~Current(g)'
    PROVE  PassAgrees(g)'
  BY DEF PassAgrees

(***************************************************************************)
(* What a pass knows survives steps that leave its phase alone, move no    *)
(* content and change only sides it has not listed.                        *)
(***************************************************************************)
LEMMA CalmPass ==
    ASSUME Typed, NEW g \in Gens, PassAgrees(g), JobKept, TasksKept, WorkersCalm,
           coord'[g].pc = coord[g].pc, coord'[g].c = coord[g].c,
           coord'[g].prev = coord[g].prev, coord'[g].seen = coord[g].seen,
           raced' = {} => raced = {},
           \A s \in Sides : disk'[s].file \in {disk[s].file, Absent} \/ ~Scanned(g, s)
    PROVE  PassAgrees(g)'
  <1> SUFFICES ASSUME Current(g)', raced' = {}
               PROVE  ListingsAgree(g)' /\ MoveIsPlanned(g)' /\ DiskIsKnown(g)' /\ MoveIsTrue(g)'
    BY DEF PassAgrees
  <1>1. Current(g) /\ raced = {} /\ cfg' = cfg /\ job'.st # "GONE"
    BY DEF Current, InPass, JobKept, Working
  <1>2. ListingsAgree(g) /\ MoveIsPlanned(g) /\ DiskIsKnown(g) /\ MoveIsTrue(g)
    BY <1>1 DEF PassAgrees
  <1>3. TaskKept("move")
    BY <1>1 DEF TasksKept, Kinds
  <1>4. tasks'["move"].to = tasks["move"].to /\ tasks["move"].to \in Sides
    BY <1>3 DEF TaskKept, Typed, Task, Kinds
  <1>5. (Of(g)' <=> Of(g)) /\ From(g)' = From(g) /\ FilesPlanned(g)' = FilesPlanned(g)
    BY <1>3 DEF TaskKept, Of, From, FilesPlanned, FileTasks, isFileMatchingTarget, isFileModified
  <1>6. \A s \in Sides : Scanned(g, s)' <=> Scanned(g, s)
    BY DEF Scanned
  <1>7. ListingsAgree(g)'
    BY <1>1, <1>2 DEF ListingsAgree, RenamesBoth, HasDrained, Agree
  <1>8. MoveIsPlanned(g)'
    BY <1>2, <1>4, <1>5 DEF MoveIsPlanned
  <1>9. DiskIsKnown(g)'
    BY <1>2, <1>4, <1>5, <1>6 DEF DiskIsKnown
  <1>10. MoveIsTrue(g)'
    <2> SUFFICES ASSUME coord[g].pc \in Planned PROVE MoveIsTrue(g)'
      BY DEF MoveIsTrue
    <2>1. \A s \in Sides : disk'[s].file \in {disk[s].file, Absent}
      BY DEF Planned, Scanned, Sides
    <2>2. tasks'["move"].gen = g /\ tasks'["move"].st = "COMPLETED" => disk'[tasks'["move"].to].file \in {From(g)', Absent}
      BY <1>2, <1>3, <1>4, <1>5, <2>1 DEF MoveIsTrue, TaskKept
    <2>3. ASSUME NEW w \in Workers, worker'[w].gen = g, worker'[w].kind = "move"
          PROVE  /\ worker'[w].pc = "write" => worker'[w].buf = From(g)'
                 /\ worker'[w].pc = "ack" => disk'[tasks'["move"].to].file \in {From(g)', Absent}
      BY <1>2, <1>4, <1>5, <2>1, <2>3 DEF MoveIsTrue, WorkersCalm
    <2> QED  BY <2>2, <2>3 DEF MoveIsTrue
  <1> QED  BY <1>7, <1>8, <1>9, <1>10

LEMMA CalmBase ==
    ASSUME BaseAgrees, (base' = base /\ cfg' = cfg) \/ base' = Nowhere, raced' = {} => raced = {}
    PROVE  BaseAgrees'
  BY DEF BaseAgrees, RenamesBoth, Agree, Nowhere, Nothing, Sides

-----------------------------------------------------------------------------
(* Workers *)

(* Steps of workers that are calm.                                         *)
LEMMA CalmRests == ASSUME Typed, NEW w \in Workers, Rest(w) PROVE WorkersCalm
  BY DEF Rest, NoWork, WorkersCalm, Typed

LEMMA CalmFails == ASSUME Typed, NEW w \in Workers, NEW err, Fails(w, err) PROVE WorkersCalm
  BY DEF Fails, WorkersCalm, Typed, Worker

LEMMA CalmProceeds ==
    ASSUME Typed, NEW w \in Workers, NEW pc, Proceed(w, pc), pc \in {"write", "ack"} => worker[w].kind # "move"
    PROVE  WorkersCalm
  BY DEF Proceed, WorkersCalm, Typed, Worker

LEMMA CalmDequeue == ASSUME Typed, NEW w \in Workers, Dequeue(w) PROVE WorkersCalm
  <1>1. PICK k \in Kinds : worker' = [worker EXCEPT ![w] = [NoWork EXCEPT !.pc = "start", !.kind = k,
                                                               !.gen = tasks'[k].gen, !.epoch = tasks'[k].epoch]]
    BY DEF Dequeue
  <1>2. worker'[w].pc = "start" /\ \A v \in Workers : v # w => worker'[v] = worker[v]
    BY <1>1 DEF NoWork, Typed
  <1> QED  BY <1>2 DEF WorkersCalm

(* All steps of a worker but reading and writing are calm.                 *)
LEMMA CalmWorker ==
    ASSUME Typed, NEW w \in Workers, WorkerNext(w) \/ (WorkerFault(w) /\ KeepApi), ~ReadFile(w), ~Write(w)
    PROVE  WorkersCalm /\ UNCHANGED <<disk, raced, base, cfg>>
  <1>1. UNCHANGED <<disk, raced, base, cfg>>
    <2>1. UNCHANGED raced
      BY DEF WorkerNext, KeepApi, KeepUser, userVars
    <2>2. CASE WorkerStep(w)
      BY <2>1, <2>2, Zenon DEF WorkerStep, rowVars, engineVars, Dequeue, DequeueNothing, ProcessSyncTask,
         Acknowledge, HandleSyncTaskFailure, Escalate, RequeueOwn, StopJob, StopTasks
    <2>3. CASE WorkerFault(w)
      BY <2>1, <2>3, Zenon DEF WorkerFault, rowVars, engineVars, CallFails, CancelWork, WorkerCrash
    <2> QED  BY <2>2, <2>3 DEF WorkerNext
  <1>2. WorkersCalm
    <2>1. CASE ProcessSyncTask(w)
      <3>1. Rest(w) \/ Proceed(w, IF worker[w].kind = "move" THEN "read" ELSE "write")
        BY <2>1, Zenon DEF ProcessSyncTask
      <3> QED  BY <3>1, CalmRests, CalmProceeds
    <2>2. CASE HandleSyncTaskFailure(w)
      <3>1. Rest(w) \/ Proceed(w, "escalate") \/ Proceed(w, "stopJob")
        BY <2>2, Zenon DEF HandleSyncTaskFailure
      <3> QED  BY <3>1, CalmRests, CalmProceeds
    <2>3. CASE Acknowledge(w)
      <3>1. Rest(w) \/ Fails(w, "other")
        BY <2>3, Zenon DEF Acknowledge
      <3> QED  BY <3>1, CalmRests, CalmFails
    <2>4. CASE DequeueNothing(w)
      BY <2>4 DEF DequeueNothing, workerVars, WorkersCalm
    <2>5. CASE Escalate(w) \/ StopJob(w)
      <3>1. Proceed(w, "requeue") \/ Proceed(w, "stopTasks")
        BY <2>5 DEF Escalate, StopJob
      <3> QED  BY <3>1, CalmProceeds
    <2>6. CASE RequeueOwn(w) \/ StopTasks(w) \/ WorkerCrash(w)
      <3>1. Rest(w)
        BY <2>6, Zenon DEF RequeueOwn, StopTasks, WorkerCrash
      <3> QED  BY <3>1, CalmRests
    <2>7. CASE CallFails(w) \/ CancelWork(w)
      BY <2>7, CalmFails DEF CallFails, CancelWork
    <2> QED  BY <2>1, <2>2, <2>3, <2>4, <2>5, <2>6, <2>7, CalmDequeue DEF WorkerNext, WorkerStep, WorkerFault
  <1> QED  BY <1>1, <1>2

(* A transfer that may go on while a pass works belongs to that pass.      *)
LEMMA Actor ==
    ASSUME Typed, Ordered, ~SlowWorkers, NEW w \in Workers, worker[w].kind = "move", MayAct(w), NEW g \in Gens, HasDrained(g)
    PROVE  worker[w].gen = g /\ tasks[worker[w].kind].gen = g /\ tasks[worker[w].kind].st = "RUNNING"
  BY WorkerKind DEF MayAct, Holds, Owns, Ordered

(* What a worker reads is what its pass saw.                               *)
LEMMA ReadAgrees ==
    ASSUME Typed, Ordered, ~SlowWorkers, NEW g \in Gens, PassAgrees(g), NEW w \in Workers, ReadFile(w), UNCHANGED raced
    PROVE  PassAgrees(g)'
  <1>1. CASE Fails(w, "other")
    <2>1. JobKept /\ TasksKept /\ UNCHANGED <<coord, disk>>
      BY SameJob, SameTasks DEF ReadFile, rowVars, engineVars
    <2> QED  BY <1>1, <2>1, CalmFails, CalmPass
  <1>2. CASE ~Fails(w, "other")
    <2> DEFINE v == disk[Other(Destination(w))].file
    <2>1. v # Absent /\ worker' = [worker EXCEPT ![w].pc = "write", ![w].buf = v]
      BY <1>2 DEF ReadFile
    <2>2. UNCHANGED <<job, cfg, tasks, coord, disk>>
      BY DEF ReadFile, rowVars, engineVars
    <2>3. CASE coord[g].pc \in Planned /\ worker[w].kind = "move"
      <3> SUFFICES ASSUME Current(g), raced = {} PROVE PassAgrees(g)'
        BY <2>2 DEF PassAgrees, Current, InPass
      <3>1. ListingsAgree(g) /\ MoveIsPlanned(g) /\ DiskIsKnown(g) /\ MoveIsTrue(g)
        BY DEF PassAgrees
      <3>2. HasDrained(g) /\ \A s \in Sides : Scanned(g, s)
        BY <2>3 DEF Planned, HasDrained, Scanned, Sides
      <3>3. Destination(w) = tasks["move"].to /\ tasks["move"].to \in Sides /\ Other(tasks["move"].to) \in Sides
            /\ Other(tasks["move"].to) # tasks["move"].to
        BY <2>3 DEF Destination, Typed, Task, Kinds, Other, Sides
      <3>4. v = From(g)
        <4>1. \/ v \in {coord[g].seen[Other(tasks["move"].to)].file, Absent}
              \/ Of(g) /\ tasks["move"].to = Other(tasks["move"].to)
          BY <3>1, <3>2, <3>3, <2>3 DEF DiskIsKnown
        <4> QED  BY <2>1, <3>3, <4>1 DEF From
      <3>5. \A u \in Workers : /\ worker'[u].gen = worker[u].gen /\ worker'[u].kind = worker[u].kind
                               /\ worker'[u].pc = IF u = w THEN "write" ELSE worker[u].pc
                               /\ worker'[u].buf = IF u = w THEN v ELSE worker[u].buf
        <4> HIDE DEF v
        <4> QED  BY <2>1 DEF Typed, Worker
      <3>6. From(g)' = From(g) /\ FilesPlanned(g)' = FilesPlanned(g) /\ (Of(g)' <=> Of(g))
        BY <2>2 DEF From, Of, FilesPlanned, FileTasks, isFileMatchingTarget, isFileModified
      <3>7. MoveIsTrue(g)'
        <4> HIDE DEF v
        <4> QED  BY <2>2, <3>1, <3>4, <3>5, <3>6 DEF MoveIsTrue
      <3>8. ListingsAgree(g)' /\ MoveIsPlanned(g)' /\ DiskIsKnown(g)'
        BY <2>2, <3>1, <3>6 DEF ListingsAgree, MoveIsPlanned, DiskIsKnown, RenamesBoth, HasDrained, Agree, Scanned
      <3> QED  BY <3>7, <3>8 DEF PassAgrees
    <2>4. CASE coord[g].pc \notin Planned
      BY <2>2, <2>4 DEF PassAgrees, ListingsAgree, MoveIsPlanned, DiskIsKnown, MoveIsTrue, Current, InPass, RenamesBoth,
         HasDrained, Agree, Scanned, Of, From
    <2>5. CASE worker[w].kind # "move"
      <3>1. WorkersCalm
        <4> HIDE DEF v
        <4> QED  BY <2>1, <2>5 DEF WorkersCalm, Typed, Worker
      <3>2. JobKept /\ TasksKept
        BY <2>2, SameJob, SameTasks
      <3> QED  BY <2>2, <3>1, <3>2, CalmPass
    <2> QED  BY <2>3, <2>4, <2>5
  <1> QED  BY <1>1, <1>2

(* What a worker writes is what its pass saw on the other side.            *)
LEMMA WriteAgrees ==
    ASSUME Typed, Ordered, ~SlowWorkers, NEW g \in Gens, PassAgrees(g), NEW w \in Workers, Write(w), UNCHANGED raced
    PROVE  PassAgrees(g)'
  <1>1. UNCHANGED <<job, cfg, tasks, coord>> /\ MayAct(w) /\ worker[w].pc = "write"
    BY DEF Write, rowVars, At
  <1>2. JobKept /\ TasksKept
    BY <1>1, SameJob, SameTasks
  <1>d. Destination(w) \in Sides
    BY WorkerKind DEF Destination, Typed, Task
  <1>3. CASE WriteFile(w)
    <2>1. CASE HasDrained(g)
      <3> SUFFICES ASSUME Current(g), raced = {} PROVE PassAgrees(g)'
        BY <1>1 DEF PassAgrees, Current, InPass
      <3>1. ListingsAgree(g) /\ MoveIsPlanned(g) /\ DiskIsKnown(g) /\ MoveIsTrue(g)
        BY DEF PassAgrees
      <3>2. worker[w].kind = "move" /\ worker[w].gen = g /\ tasks["move"].gen = g /\ tasks["move"].st = "RUNNING"
        BY <1>1, <1>3, <2>1, Actor DEF WriteFile
      <3>3. coord[g].pc \notin {"scanTarget", "plan"}
        BY <3>2 DEF Ordered, Early, Kinds
      <3>4. Destination(w) = tasks["move"].to /\ Of(g)
        BY <3>2 DEF Destination, Of
      <3>5. \A s \in Sides : disk'[s].file = IF s = tasks["move"].to THEN worker[w].buf ELSE disk[s].file
        BY <1>3, <3>4, <1>d DEF WriteFile, Typed, Disk
      <3>6. \A u \in Workers : /\ worker'[u].gen = worker[u].gen /\ worker'[u].kind = worker[u].kind
                               /\ worker'[u].pc = IF u = w THEN "ack" ELSE worker[u].pc
                               /\ worker'[u].buf = worker[u].buf
        BY <1>3 DEF WriteFile, Proceed, Typed, Worker
      <3>7. From(g)' = From(g) /\ FilesPlanned(g)' = FilesPlanned(g) /\ (Of(g)' <=> Of(g))
        BY <1>1 DEF From, Of, FilesPlanned, FileTasks, isFileMatchingTarget, isFileModified
      <3>8. ListingsAgree(g)' /\ MoveIsPlanned(g)'
        BY <1>1, <3>1, <3>7 DEF ListingsAgree, MoveIsPlanned, RenamesBoth, HasDrained, Agree
      <3>9. coord[g].pc \in Planned => worker[w].buf = From(g)
        BY <1>1, <3>1, <3>2 DEF MoveIsTrue
      <3>10. DiskIsKnown(g)'
        BY <1>1, <3>1, <3>3, <3>4, <3>5, <3>7, <3>9 DEF DiskIsKnown, Scanned
      <3>11. MoveIsTrue(g)'
        <4>1. tasks["move"].to \in Sides
          BY <3>4, <1>d
        <4> QED  BY <1>1, <3>1, <3>5, <3>6, <3>7, <3>9, <4>1 DEF MoveIsTrue
      <3> QED  BY <3>8, <3>10, <3>11 DEF PassAgrees
    <2>2. CASE ~HasDrained(g)
      BY <1>1, <2>2, NotDrained DEF HasDrained
    <2> QED  BY <2>1, <2>2
  <1>4. CASE ~WriteFile(w)
    <2>1. \A s \in Sides : disk'[s].file \in {disk[s].file, Absent}
      <3>1. CASE DeleteFile(w)
        BY <3>1, <1>d DEF DeleteFile, Typed, Disk
      <3>2. CASE CreateDirectory(w)
        BY <3>2, <1>d DEF CreateDirectory, Typed, Disk
      <3>3. CASE ConflictCopy(w)
        BY <3>3 DEF ConflictCopy, Typed, Disk, Sides
      <3> QED  BY <1>4, <3>1, <3>2, <3>3 DEF Write
    <2>2. WorkersCalm
      BY <1>4, CalmFails, CalmProceeds DEF Write, DeleteFile, CreateDirectory, ConflictCopy
    <2> QED  BY <1>1, <1>2, <2>1, <2>2, CalmPass
  <1> QED  BY <1>3, <1>4

-----------------------------------------------------------------------------
(* The delta *)

(* What chains of comparisons take for one version.                        *)
LEMMA SameOne == ASSUME NEW by, NEW u PROVE Same(by, u, u)
  BY DEF Same

LEMMA SamePair == ASSUME NEW u, NEW v, <<u, v>> \in Alike PROVE Same("times", u, v)
  BY DEF Same

LEMMA SameChain ==
    ASSUME NEW by, NEW u, NEW v, NEW x, NEW y, Same(by, u, v), Same(by, v, x), Same(by, x, y)
    PROVE  Same(by, u, y)
  BY Zenon DEF Same

(***************************************************************************)
(* A plan that carries nothing over found the same version on both sides,  *)
(* when the baseline agreed.                                               *)
(***************************************************************************)
LEMMA ConflictMoves ==
    ASSUME NEW c, c.two, c.strategy = "RENAME",
           NEW src, NEW tgt, NEW prevSrc, NEW prevTgt,
           src # Absent, tgt # Absent, prevSrc # Absent /\ prevTgt # Absent => Same(c.by, prevSrc, prevTgt),
           \A s \in Sides : <<"move", s>> \notin FileTasks(c, src, tgt, prevSrc, prevTgt)
    PROVE  Same(c.by, src, tgt)
  <1>1. <<"move", "target">> \notin FileTasks(c, src, tgt, prevSrc, prevTgt)
        /\ <<"move", "source">> \notin FileTasks(c, src, tgt, prevSrc, prevTgt)
    BY DEF Sides
  <1>2. CASE isFileMatchingTarget(c, src, tgt)
    BY <1>2, SameOne, SamePair DEF isFileMatchingTarget
  <1>3. CASE ~isFileMatchingTarget(c, src, tgt)
    <2>1. CASE isFileModified(c, src, prevSrc)
      <3>1. <<"move", "target">> \in FileTasks(c, src, tgt, prevSrc, prevTgt)
        BY <1>3, <2>1 DEF FileTasks
      <3> QED  BY <1>1, <3>1
    <2>2. CASE ~isFileModified(c, src, prevSrc) /\ isFileModified(c, tgt, prevTgt)
      <3>1. <<"move", "source">> \in FileTasks(c, src, tgt, prevSrc, prevTgt)
        BY <1>3, <2>2 DEF FileTasks
      <3> QED  BY <1>1, <3>1
    <2>3. CASE ~isFileModified(c, src, prevSrc) /\ ~isFileModified(c, tgt, prevTgt)
      <3>1. prevSrc # Absent /\ prevTgt # Absent
        BY <2>3 DEF isFileModified
      <3>2. Same(c.by, src, prevSrc) /\ Same(c.by, prevTgt, tgt)
        BY <2>3, <3>1, SameOne, SamePair, AlikeAssumption DEF isFileModified
      <3> QED  BY <3>1, <3>2, SameChain
    <2> QED  BY <2>1, <2>2, <2>3
  <1> QED  BY <1>2, <1>3

(* A plan never carries the file both ways.                                *)
LEMMA OneMove ==
    ASSUME NEW c, NEW src, NEW tgt, NEW prevSrc, NEW prevTgt, c.strategy \in {"OVERWRITE", "SKIP", "RENAME"}
    PROVE  ~(/\ <<"move", "source">> \in FileTasks(c, src, tgt, prevSrc, prevTgt)
             /\ <<"move", "target">> \in FileTasks(c, src, tgt, prevSrc, prevTgt))
  <1> DEFINE F == FileTasks(c, src, tgt, prevSrc, prevTgt)
  <1>1. \/ F = {} \/ F = {<<"move", "target">>} \/ F = {<<"move", "source">>} \/ F = {<<"del", "target">>}
        \/ F = {<<"del", "source">>} \/ F = {<<"move", "target">>} \cup {<<"copy", "target">>}
    <2>1. CASE ~c.two
      BY <2>1, Zenon DEF FileTasks
    <2>2. CASE c.two /\ isFileMatchingTarget(c, src, tgt)
      BY <2>2, Zenon DEF FileTasks
    <2>3. CASE /\ c.two /\ ~isFileMatchingTarget(c, src, tgt) /\ src # Absent /\ tgt # Absent
               /\ isFileModified(c, src, prevSrc) /\ isFileModified(c, tgt, prevTgt)
      BY <2>3 DEF FileTasks
    <2>4. CASE /\ c.two /\ ~isFileMatchingTarget(c, src, tgt)
               /\ ~(src # Absent /\ tgt # Absent /\ isFileModified(c, src, prevSrc) /\ isFileModified(c, tgt, prevTgt))
      BY <2>4 DEF FileTasks
    <2> QED  BY <2>1, <2>2, <2>3, <2>4
  <1> QED  BY <1>1

(***************************************************************************)
(* A listing shows what is on the side, also when the directory is skipped *)
(* because of its ETag.                                                    *)
(***************************************************************************)
LEMMA ListedIsTrue ==
    ASSUME NEW s \in Sides, NEW l \in Listing, l.tag # NoTag => l.file = l.tag
    PROVE  ListFiles(s, l).file = disk[s].file
  BY DEF ListFiles

(* What the steps of a coordinator leave alone.                            *)
LEMMA CoordinatorFrame ==
    ASSUME Typed, NEW g \in Gens, CoordinatorNext(g)
    PROVE  /\ JobKept /\ UNCHANGED <<cfg, worker, raced>> /\ OnlyPass(g)
           /\ UNCHANGED <<tasks, disk>> \/ Plan(g) \/ Remove(g)
           /\ UNCHANGED base \/ Commit(g)
  <1>0. UNCHANGED <<worker, raced>>
    BY DEF CoordinatorNext, workerVars, KeepApi, KeepUser, userVars
  <1>1. UNCHANGED cfg /\ (UNCHANGED <<tasks, disk>> \/ Plan(g) \/ Remove(g)) /\ (UNCHANGED base \/ Commit(g))
    BY Zenon DEF CoordinatorNext, CoordinatorStep, LockPass, LockFails, Drained, ScanSource, ScanTarget, Scan, Interrupted,
       FailSync, Plan, StartTasks, PollStopped, PollDone, VerifyDone, VerifyStopped, Final, Prune, Remove, Commit, rowVars
  <1>2. JobKept
    <2>1. \/ UNCHANGED job \/ ReleaseUnstartedSyncPass(g) \/ TransitionSyncJobToRunning(g)
          \/ TransitionSyncJobToVerifying(g) \/ AbortSyncJobVerification(g) \/ FailSyncJobPass(g)
          \/ \E st, outcome, baseline : FinalizeSyncJobPass(g, st, outcome, baseline)
      BY Zenon DEF CoordinatorNext, CoordinatorStep, LockPass, LockFails, Drained, ScanSource, ScanTarget, Scan,
         Interrupted, FailSync, Plan, StartTasks, PollStopped, PollDone, VerifyDone, VerifyStopped, Final, Prune, Remove,
         Commit, rowVars
    <2> QED  BY <1>1, <2>1, PassKept
  <1>3. OnlyPass(g)
    <2>1. ASSUME NEW r, coord' = [coord EXCEPT ![g] = r] PROVE OnlyPass(g)
      <3>1. coord \in [Gens -> Coordinator]
        BY DEF Typed
      <3> QED  BY <2>1, <3>1 DEF OnlyPass
    <2>2. CASE Finish(g)
      BY <2>1, <2>2 DEF Finish
    <2>3. CASE ~Finish(g) /\ Final(g)
      <3>1. PICK i \in BOOLEAN : coord' = [coord EXCEPT ![g].pc = "prune", ![g].out = Outcome(g), ![g].seen = BaselineBy(g, i)]
        BY <2>3, FinalCases, Zenon
      <3> QED  BY <3>1 DEF OnlyPass, Typed
    <2>4. CASE ~Finish(g) /\ ~Final(g)
      <3>1. \E r : coord' = [coord EXCEPT ![g] = r]
        BY <2>4 DEF CoordinatorNext, CoordinatorStep, LockPass, LockFails, Drained, ScanSource, ScanTarget, Scan,
           Interrupted, FailSync, Plan, StartTasks, PollStopped, PollDone, VerifyDone, VerifyStopped, Prune,
           Remove, Commit, Goto
      <3> QED  BY <2>1, <3>1
    <2> QED  BY <2>2, <2>3, <2>4
  <1> QED  BY <1>0, <1>1, <1>2, <1>3

(* A step of one coordinator changes nothing another one knows.            *)
LEMMA OtherPasses ==
    ASSUME Typed, Ordered, NEW g \in Gens, CoordinatorNext(g), NEW h \in Gens, h # g, PassAgrees(h)
    PROVE  PassAgrees(h)'
  <1>1. /\ JobKept /\ UNCHANGED <<cfg, worker, raced>> /\ coord'[h] = coord[h]
        /\ UNCHANGED <<tasks, disk>> \/ Plan(g) \/ Remove(g)
    BY CoordinatorFrame DEF OnlyPass
  <1>2. CASE UNCHANGED <<tasks, disk>>
    BY <1>1, <1>2, SameTasks, CalmPass DEF WorkersCalm
  <1>3. CASE Plan(g) \/ Remove(g)
    <2>1. Registered(g)
      BY <1>3 DEF Plan, Remove, Registered
    <2>2. ~Registered(h)
      BY <2>1 DEF Ordered
    <2> QED  BY <1>1, <2>2, NotDrained DEF Registered
  <1> QED  BY <1>1, <1>2, <1>3

-----------------------------------------------------------------------------
(* A pass from its first listing to its tasks *)

(* Steps of a coordinator that only change its phase.                      *)
LEMMA GotoAgrees ==
    ASSUME Typed, NEW g \in Gens, PassAgrees(g), JobKept, UNCHANGED <<worker, raced, tasks, disk>>,
           coord[g].pc \in Planned, coord'[g].pc \in Planned, coord'[g].c = coord[g].c,
           coord'[g].prev = coord[g].prev, coord'[g].seen = coord[g].seen
    PROVE  PassAgrees(g)'
  <1> SUFFICES ASSUME Current(g)', raced' = {}
               PROVE  ListingsAgree(g)' /\ MoveIsPlanned(g)' /\ DiskIsKnown(g)' /\ MoveIsTrue(g)'
    BY DEF PassAgrees
  <1>1. Current(g) /\ raced = {} /\ cfg' = cfg
    BY DEF Current, InPass, JobKept
  <1>2. ListingsAgree(g) /\ MoveIsPlanned(g) /\ DiskIsKnown(g) /\ MoveIsTrue(g)
    BY <1>1 DEF PassAgrees
  <1>3. (Of(g)' <=> Of(g)) /\ From(g)' = From(g) /\ FilesPlanned(g)' = FilesPlanned(g)
    BY DEF Of, From, FilesPlanned, FileTasks, isFileMatchingTarget, isFileModified
  <1>4. HasDrained(g) /\ \A s \in Sides : Scanned(g, s)
    BY DEF HasDrained, Scanned, Planned, Sides
  <1>5. ListingsAgree(g)'
    BY <1>1, <1>2, <1>4 DEF ListingsAgree, RenamesBoth, Agree, Planned
  <1>6. MoveIsPlanned(g)' /\ DiskIsKnown(g)' /\ MoveIsTrue(g)'
    BY <1>2, <1>3, <1>4 DEF MoveIsPlanned, DiskIsKnown, MoveIsTrue
  <1> QED  BY <1>5, <1>6

LEMMA DrainedAgrees ==
    ASSUME Typed, BaseAgrees, NEW g \in Gens, Drained(g), UNCHANGED raced
    PROVE  PassAgrees(g)'
  <1>1. coord'[g].pc = "scanSource" /\ coord'[g].prev = base /\ UNCHANGED cfg
    BY DEF Drained, Typed, Coordinator, rowVars
  <1>2. raced' = {} => ListingsAgree(g)'
    BY <1>1 DEF BaseAgrees, ListingsAgree, RenamesBoth, Agree
  <1>3. MoveIsPlanned(g)' /\ DiskIsKnown(g)' /\ MoveIsTrue(g)'
    BY <1>1 DEF MoveIsPlanned, DiskIsKnown, MoveIsTrue, Planned
  <1> QED  BY <1>2, <1>3 DEF PassAgrees

(* A scan begins to know a side.                                           *)
LEMMA ScanAgrees ==
    ASSUME Typed, Ordered, TagsAreTrue, NEW g \in Gens, PassAgrees(g), ScanSource(g) \/ ScanTarget(g), UNCHANGED raced
    PROVE  PassAgrees(g)'
  <1>1. PICK s \in Sides, p \in {"scanSource", "scanTarget"}, n \in {"scanTarget", "plan"} :
           Scan(g, s, p, n) /\ <<s, p, n>> \in {<<"source", "scanSource", "scanTarget">>, <<"target", "scanTarget", "plan">>}
    BY DEF ScanSource, ScanTarget, Sides
  <1>2. PICK l \in Listing : l = ListFiles(s, coord[g].prev[s])
    BY ListedTyped DEF Typed, Coordinator
  <1>3. l.file = disk[s].file
    <2>1. coord[g].prev[s] \in Listing
      BY DEF Typed, Coordinator
    <2> QED  BY <1>2, <2>1, ListedIsTrue DEF TagsAreTrue, Tagged
  <1>4. coord' = [coord EXCEPT ![g].pc = n, ![g].seen[s] = l] /\ coord[g].pc = p
    BY <1>1, <1>2 DEF Scan
  <1>5. coord'[g].prev = coord[g].prev /\ coord'[g].pc = n
    BY <1>4 DEF Typed, Coordinator
  <1>6. \A r \in Sides : coord'[g].seen[r] = IF r = s THEN l ELSE coord[g].seen[r]
    BY <1>4 DEF Typed, Coordinator
  <1>7. UNCHANGED <<job, cfg, tasks, disk>>
    BY <1>1 DEF Scan, rowVars
  <1>8. ~Of(g)
    BY <1>1, <1>4 DEF Ordered, Of, Kinds, Early
  <1> SUFFICES ASSUME Current(g), raced = {} PROVE ListingsAgree(g)' /\ MoveIsPlanned(g)' /\ DiskIsKnown(g)' /\ MoveIsTrue(g)'
    BY <1>7 DEF PassAgrees, Current, InPass
  <1>9. ListingsAgree(g) /\ DiskIsKnown(g)
    BY DEF PassAgrees
  <1>10. MoveIsPlanned(g)' /\ MoveIsTrue(g)'
    BY <1>1, <1>5 DEF MoveIsPlanned, MoveIsTrue, Planned
  <1>11. ListingsAgree(g)'
    BY <1>1, <1>4, <1>5, <1>7, <1>9 DEF ListingsAgree, RenamesBoth, HasDrained, Agree
  <1>12. DiskIsKnown(g)'
    <2> SUFFICES ASSUME NEW r \in Sides, Scanned(g, r)'
                 PROVE  disk'[r].file \in {coord'[g].seen[r].file, Absent}
      BY DEF DiskIsKnown
    <2>1. CASE r = s
      BY <1>3, <1>6, <1>7, <2>1
    <2>2. CASE r # s
      <3>1. Scanned(g, r) /\ coord[g].pc = "scanTarget"
        BY <1>1, <1>4, <1>5, <2>2 DEF Scanned, Sides
      <3> QED  BY <1>6, <1>7, <1>8, <1>9, <2>2, <3>1 DEF DiskIsKnown
    <2> QED  BY <2>1, <2>2
  <1> QED  BY <1>10, <1>11, <1>12

(* Without an upload or download to do, the two sides agree.               *)
LEMMA NoMoveAgrees ==
    ASSUME Typed, Ordered, NEW g \in Gens, Current(g), Registered(g), RenamesBoth, Agree(cfg.by, coord[g].prev),
           \A s \in Sides : <<"move", s>> \notin FilesPlanned(g)
    PROVE  Agree(cfg.by, coord[g].seen)
  <1>1. coord[g].c.two /\ coord[g].c.strategy = "RENAME" /\ coord[g].c.by = cfg.by
    BY DEF Ordered, RenamesBoth
  <1> QED  BY <1>1, ConflictMoves DEF Agree, FilesPlanned

(* The tasks of a pass are those of its plan, or the sides agree.          *)
LEMMA PlanAgrees ==
    ASSUME Typed, Ordered, NEW g \in Gens, PassAgrees(g), Plan(g), UNCHANGED <<worker, raced>>
    PROVE  PassAgrees(g)'
  <1> DEFINE planned == Delta(coord[g].c, coord[g].seen, coord[g].prev)
             pruned == Cleanup(coord[g].c, coord[g].seen, coord[g].prev)
  <1>p. coord[g].pc = "plan" /\ UNCHANGED <<cfg, disk>>
    BY DEF Plan
  <1>r. Registered(g) /\ HasDrained(g) /\ coord[g].pc \in Early
    BY <1>p DEF Registered, HasDrained, Early
  <1>m. \A s \in Sides : <<"move", s>> \in planned <=> <<"move", s>> \in FilesPlanned(g)
    BY DEF Delta, DirectoryTasks, FilesPlanned
  <1>0. CASE Finish(g)
    BY <1>0, NotDrained DEF Finish, NoCoordinator, Typed
  <1>1. CASE planned = {} /\ ~Finish(g)
    <2>1. /\ coord' = [coord EXCEPT ![g].pc = "prune", ![g].prune = pruned, ![g].empty = TRUE]
          /\ UNCHANGED <<job, lock>>
      BY <1>1 DEF Plan
    <2> HIDE DEF planned, pruned
    <2>2. coord'[g].pc = "prune" /\ coord'[g].prev = coord[g].prev /\ coord'[g].seen = coord[g].seen
      BY <2>1 DEF Typed, Coordinator
    <2> SUFFICES ASSUME Current(g), raced = {} PROVE ListingsAgree(g)' /\ MoveIsPlanned(g)' /\ DiskIsKnown(g)' /\ MoveIsTrue(g)'
      BY <2>1 DEF PassAgrees, Current, InPass
    <2>3. MoveIsPlanned(g)' /\ DiskIsKnown(g)' /\ MoveIsTrue(g)'
      BY <2>2 DEF MoveIsPlanned, DiskIsKnown, MoveIsTrue, Planned
    <2>4. RenamesBoth => Agree(cfg.by, coord[g].prev)
      BY <1>r DEF PassAgrees, ListingsAgree
    <2>5. RenamesBoth => Agree(cfg.by, coord[g].seen)
      BY <1>r, <1>m, <1>1, <2>4, NoMoveAgrees
    <2> QED  BY <1>p, <2>2, <2>3, <2>4, <2>5 DEF ListingsAgree, RenamesBoth, Agree
  <1>2. CASE planned # {} /\ ~Finish(g)
    <2>1. /\ BulkCreateSyncTasks(g, planned)
          /\ coord' = [coord EXCEPT ![g].pc = "start", ![g].prune = pruned]
          /\ UNCHANGED <<job, lock>>
      BY <1>2 DEF Plan
    <2> HIDE DEF planned, pruned
    <2>2. /\ coord'[g].pc = "start" /\ coord'[g].c = coord[g].c
          /\ coord'[g].prev = coord[g].prev /\ coord'[g].seen = coord[g].seen
      BY <2>1 DEF Typed, Coordinator
    <2> SUFFICES ASSUME Current(g), raced = {} PROVE ListingsAgree(g)' /\ MoveIsPlanned(g)' /\ DiskIsKnown(g)' /\ MoveIsTrue(g)'
      BY <2>1 DEF PassAgrees, Current, InPass
    <2>3. ListingsAgree(g) /\ DiskIsKnown(g)
      BY DEF PassAgrees
    <2>4. tasks["move"].st # "RUNNING" /\ tasks["move"].gen # g
      BY <1>r DEF Ordered, Kinds
    <2>5. tasks'["move"] = IF \E s \in Sides : <<"move", s>> \in planned
                           THEN [NoTask EXCEPT !.st = "PENDING", !.gen = g, !.to = CHOOSE s \in Sides : <<"move", s>> \in planned]
                           ELSE NoTask
      BY <2>1, <2>4 DEF BulkCreateSyncTasks, Kinds
    <2>6. ASSUME NEW s \in Sides, <<"move", s>> \in planned
          PROVE  tasks'["move"].st = "PENDING" /\ tasks'["move"].gen = g /\ tasks'["move"].to = s
      <3>1. coord[g].c.strategy \in {"OVERWRITE", "SKIP", "RENAME"}
        BY DEF Typed, Coordinator, Settings
      <3>2. \A r \in Sides : <<"move", r>> \in planned => r = s
        <4>1. ~(<<"move", "source">> \in FilesPlanned(g) /\ <<"move", "target">> \in FilesPlanned(g))
          BY <3>1, OneMove DEF FilesPlanned
        <4> QED  BY <1>m, <2>6, <4>1 DEF Sides
      <3>3. (CHOOSE r \in Sides : <<"move", r>> \in planned) = s
        BY <2>6, <3>2
      <3> QED  BY <2>5, <2>6, <3>3 DEF NoTask
    <2>7. (\A s \in Sides : <<"move", s>> \notin planned) => tasks'["move"].st = "NONE"
      <3>1. (\A s \in Sides : <<"move", s>> \notin planned) => tasks'["move"] = NoTask
        BY <2>5, Zenon
      <3> QED  BY <3>1 DEF NoTask
    <2>8. FilesPlanned(g)' = FilesPlanned(g)
      BY <2>2 DEF FilesPlanned, FileTasks, isFileMatchingTarget, isFileModified
    <2>9. ListingsAgree(g)'
      BY <1>p, <1>r, <2>2, <2>3 DEF ListingsAgree, RenamesBoth, HasDrained, Agree
    <2>10. MoveIsPlanned(g)'
      <3>1. ASSUME NEW s \in Sides PROVE <<"move", s>> \in FilesPlanned(g) <=> Of(g)' /\ tasks'["move"].to = s
        BY <1>m, <2>6, <2>7 DEF Of
      <3> QED  BY <2>8, <3>1 DEF MoveIsPlanned
    <2>11. DiskIsKnown(g)'
      BY <1>p, <2>2, <2>3, <2>4 DEF DiskIsKnown, Of, Scanned
    <2>12. MoveIsTrue(g)'
      <3>1. tasks'["move"].st # "COMPLETED"
        BY <2>6, <2>7
      <3>2. \A w \in Workers : worker'[w].gen # g
        BY <1>r DEF Ordered
      <3> QED  BY <3>1, <3>2 DEF MoveIsTrue
    <2> QED  BY <2>9, <2>10, <2>11, <2>12
  <1> QED  BY <1>0, <1>1, <1>2

-----------------------------------------------------------------------------
(* A pass from its outcome to its baseline *)

(* The version of a side in the baseline Final prepares.                   *)
LEMMA BaselineFile ==
    ASSUME Typed, NEW g \in Gens, NEW i, NEW s \in Sides
    PROVE  BaselineBy(g, i)[s].file =
             IF ProtectedBy(g, i) THEN coord[g].prev[s].file
             ELSE IF <<"move", s>> \in Done(g) \ LostBy(g, i) THEN disk[s].file
             ELSE IF <<"del", s>> \in Done(g) \ LostBy(g, i) THEN Absent
             ELSE coord[g].seen[s].file
  <1> DEFINE done == Done(g) \ LostBy(g, i)
             r == Reconciled(coord[g].seen, done, disk)
             p == ProtectedBy(g, i)
             v == Invalidated(r, p)
  <1>1. coord[g].seen \in [Sides -> Listing]
    BY DEF Typed, Coordinator
  <1>2. r \in [Sides -> Listing]
    BY <1>1, ListingsTyped
  <1>3. v \in [Sides -> Listing]
    BY <1>2, ListingsTyped
  <1>4. BaselineBy(g, i)[s] = [v[s] EXCEPT !.file = IF p THEN coord[g].prev[s].file ELSE v[s].file]
    BY DEF BaselineBy, NextBaseline
  <1>5. v[s] = IF p THEN [r[s] EXCEPT !.tag = NoTag] ELSE r[s]
    BY DEF Invalidated
  <1>6. BaselineBy(g, i)[s].file = IF p THEN coord[g].prev[s].file ELSE v[s].file
    <2> HIDE DEF v, p
    <2> QED  BY <1>3, <1>4 DEF Listing
  <1>7. r[s].file = IF <<"move", s>> \in done THEN disk[s].file
                    ELSE IF <<"del", s>> \in done THEN Absent ELSE coord[g].seen[s].file
    BY DEF Reconciled
  <1> QED
    <2> HIDE DEF r, v
    <2> QED  BY <1>5, <1>6, <1>7

(* The upload or download among the operations done and not done.          *)
LEMMA DoneMoves ==
    ASSUME NEW g \in Gens, NEW s
    PROVE  /\ <<"move", s>> \in Done(g) <=> Of(g) /\ tasks["move"].to = s /\ tasks["move"].st = "COMPLETED"
           /\ Of(g) /\ tasks["move"].to = s /\ tasks["move"].st # "COMPLETED" => <<"move", s>> \in Undone(g)
  BY DEF Done, Undone, OfPass, Of, Kinds

(* An operation that is not confirmed protects the file.                   *)
LEMMA ProtectsMove ==
    ASSUME NEW g \in Gens, NEW i, NEW s, ~ProtectedBy(g, i)
    PROVE  <<"move", s>> \notin Undone(g) /\ <<"move", s>> \notin LostBy(g, i)
  BY DEF ProtectedBy, FileProtected

(***************************************************************************)
(* The baseline Final prepares agrees: the old one for a protected file,   *)
(* what was carried over on both sides, or two sides that agreed already.  *)
(***************************************************************************)
LEMMA NextBaselineAgrees ==
    ASSUME Typed, Ordered, NEW g \in Gens, Current(g), Registered(g), coord[g].pc = "final", RenamesBoth,
           ListingsAgree(g), MoveIsPlanned(g), MoveIsTrue(g), NEW i \in BOOLEAN
    PROVE  Agree(cfg.by, BaselineBy(g, i))
  <1>1. Agree(cfg.by, coord[g].prev)
    BY DEF ListingsAgree, HasDrained
  <1>2. CASE ProtectedBy(g, i)
    BY <1>1, <1>2, BaselineFile DEF Agree, Sides
  <1>3. CASE ~ProtectedBy(g, i) /\ Of(g)
    <2> DEFINE to == tasks["move"].to
    <2>1. to \in Sides /\ Other(to) \in Sides /\ Other(to) # to /\ Sides = {to, Other(to)}
      BY DEF Typed, Task, Kinds, Other, Sides
    <2>2. tasks["move"].st = "COMPLETED" /\ <<"move", to>> \in Done(g) /\ <<"move", to>> \notin LostBy(g, i)
      BY <1>3, DoneMoves, ProtectsMove
    <2>3. disk[to].file # Absent
      BY <2>2 DEF LostBy
    <2>4. disk[to].file = From(g)
      BY <1>3, <2>2, <2>3 DEF MoveIsTrue, Of, Planned
    <2>5. BaselineBy(g, i)[to].file = coord[g].seen[Other(to)].file
      BY <1>3, <2>1, <2>2, <2>4, BaselineFile DEF From
    <2>6. <<"move", Other(to)>> \notin Done(g)
      BY <2>1, DoneMoves
    <2>7. BaselineBy(g, i)[Other(to)].file \in {Absent, coord[g].seen[Other(to)].file}
      BY <1>3, <2>1, <2>6, BaselineFile
    <2>8. BaselineBy(g, i)["source"].file # Absent /\ BaselineBy(g, i)["target"].file # Absent =>
            BaselineBy(g, i)["source"].file = BaselineBy(g, i)["target"].file
      BY <2>1, <2>5, <2>7 DEF Sides
    <2> QED  BY <2>8, SameOne DEF Agree
  <1>4. CASE ~ProtectedBy(g, i) /\ ~Of(g)
    <2>1. Agree(cfg.by, coord[g].seen)
      BY <1>1, <1>4, NoMoveAgrees DEF MoveIsPlanned, Planned
    <2>2. \A s \in Sides : BaselineBy(g, i)[s].file \in {Absent, coord[g].seen[s].file}
      BY <1>4, DoneMoves, BaselineFile
    <2> QED  BY <2>1, <2>2 DEF Agree, Sides
  <1> QED  BY <1>2, <1>3, <1>4

LEMMA LateAgrees ==
    ASSUME NEW g \in Gens, coord'[g].pc \in {"prune", "remove", "commit"},
           Current(g)' /\ raced' = {} /\ RenamesBoth' => Agree(cfg'.by, coord'[g].prev) /\ Agree(cfg'.by, coord'[g].seen)
    PROVE  PassAgrees(g)'
  <1>1. MoveIsPlanned(g)' /\ DiskIsKnown(g)' /\ MoveIsTrue(g)'
    BY DEF MoveIsPlanned, DiskIsKnown, MoveIsTrue, Planned
  <1>2. Current(g)' /\ raced' = {} => ListingsAgree(g)'
    BY DEF ListingsAgree, Agree
  <1> QED  BY <1>1, <1>2 DEF PassAgrees

LEMMA FinalAgrees ==
    ASSUME Typed, Ordered, NEW g \in Gens, PassAgrees(g), Final(g), UNCHANGED raced, ~Finish(g)
    PROVE  PassAgrees(g)'
  <1>1. PICK i \in BOOLEAN : coord' = [coord EXCEPT ![g].pc = "prune", ![g].out = Outcome(g), ![g].seen = BaselineBy(g, i)]
    BY FinalCases, Zenon
  <1>2. coord'[g].pc = "prune" /\ coord'[g].prev = coord[g].prev /\ coord'[g].seen = BaselineBy(g, i)
    BY <1>1 DEF Typed, Coordinator
  <1>3. UNCHANGED <<job, cfg>> /\ coord[g].pc = "final" /\ Current(g)
    <2>1. UNCHANGED job /\ InPass(g, {"RUNNING", "VERIFYING"})
      BY FinalCases, Zenon
    <2> QED  BY <2>1 DEF Final, Current, InPass, Working
  <1>4. Registered(g) /\ HasDrained(g)
    BY <1>3 DEF Registered, HasDrained
  <1>5. raced = {} /\ RenamesBoth => Agree(cfg.by, coord[g].prev) /\ Agree(cfg.by, BaselineBy(g, i))
    BY <1>3, <1>4, NextBaselineAgrees DEF PassAgrees, ListingsAgree
  <1> QED  BY <1>2, <1>3, <1>5, LateAgrees DEF RenamesBoth

(* Removing directories leaves the files of the baseline alone.            *)
LEMMA CleanupAgrees ==
    ASSUME Typed, NEW g \in Gens, PassAgrees(g), Prune(g) \/ Remove(g), UNCHANGED raced
    PROVE  PassAgrees(g)'
  <1>1. UNCHANGED <<job, cfg>> /\ coord[g].pc \in {"prune", "remove"}
    BY DEF Prune, Remove, rowVars
  <1>2. HasDrained(g)
    BY <1>1 DEF HasDrained
  <1>3. Current(g) /\ raced = {} /\ RenamesBoth => Agree(cfg.by, coord[g].prev) /\ Agree(cfg.by, coord[g].seen)
    BY <1>1, <1>2 DEF PassAgrees, ListingsAgree
  <1>4. coord'[g].pc \in {"remove", "commit"} /\ coord'[g].prev = coord[g].prev /\ \A s \in Sides : coord'[g].seen[s].file = coord[g].seen[s].file
    <2>1. CASE Prune(g)
      BY <2>1 DEF Prune, Typed, Coordinator
    <2>2. CASE Remove(g)
      <3>1. PICK removed : coord' = [coord EXCEPT ![g].pc = "commit", ![g].seen = Pruned(coord[g].seen, removed)]
        BY <2>2 DEF Remove
      <3>2. /\ coord'[g].pc = "commit" /\ coord'[g].prev = coord[g].prev
            /\ coord'[g].seen = Pruned(coord[g].seen, removed)
        BY <3>1 DEF Typed, Coordinator
      <3>3. \A s \in Sides : Pruned(coord[g].seen, removed)[s].file = coord[g].seen[s].file
        <4>1. coord[g].seen \in [Sides -> Listing]
          BY DEF Typed, Coordinator
        <4> QED  BY <4>1 DEF Pruned, Listing
      <3> QED  BY <3>2, <3>3
    <2> QED  BY <2>1, <2>2
  <1> QED  BY <1>1, <1>3, <1>4, LateAgrees DEF RenamesBoth, Agree, Current, InPass, Sides

(* The baseline that is committed is one that agrees.                      *)
LEMMA CommitAgrees ==
    ASSUME BaseAgrees, NEW g \in Gens, PassAgrees(g), Commit(g), UNCHANGED raced
    PROVE  BaseAgrees'
  <1>1. coord[g].pc = "commit" /\ UNCHANGED cfg
    BY DEF Commit
  <1>2. UNCHANGED base \/ (base' = coord[g].seen /\ Current(g))
    BY DEF Commit, FinalizeSyncJobPass, Current, InPass, Working
  <1> QED  BY <1>1, <1>2 DEF BaseAgrees, PassAgrees, ListingsAgree, RenamesBoth, Agree

(* Every step of a coordinator keeps Agreed.                               *)
LEMMA CoordinatorAgrees ==
    ASSUME Typed, Ordered, TagsAreTrue, Agreed, NEW g \in Gens, CoordinatorNext(g)
    PROVE  Agreed'
  <1>0. BaseAgrees /\ PassAgrees(g)
    BY DEF Agreed
  <1>1. /\ JobKept /\ UNCHANGED <<cfg, worker, raced>>
        /\ UNCHANGED <<tasks, disk>> \/ Plan(g) \/ Remove(g)
        /\ UNCHANGED base \/ Commit(g)
    BY CoordinatorFrame
  <1>2. BaseAgrees'
    BY <1>0, <1>1, CommitAgrees, CalmBase
  <1>3. \A h \in Gens : h # g => PassAgrees(h)'
    BY OtherPasses DEF Agreed
  <1>4. PassAgrees(g)'
    <2>1. CASE Finish(g)
      BY <2>1, NotDrained DEF Finish, NoCoordinator, Typed
    <2>2. CASE LockPass(g) /\ ~Finish(g)
      <3>1. coord'[g].pc = "drain"
        BY <2>2 DEF LockPass, Typed, Coordinator
      <3> QED  BY <3>1, NotDrained
    <2>3. CASE (StartTasks(g) \/ PollDone(g) \/ VerifyDone(g) \/ VerifyStopped(g)) /\ ~Finish(g)
      <3>1. PICK p \in Planned : coord[g].pc \in Planned /\ coord' = [coord EXCEPT ![g].pc = p] /\ UNCHANGED <<tasks, disk>>
        BY <2>3, Zenon DEF StartTasks, PollDone, VerifyDone, VerifyStopped, Goto, Planned, rowVars
      <3>2. /\ coord'[g].pc = p /\ coord'[g].c = coord[g].c
            /\ coord'[g].prev = coord[g].prev /\ coord'[g].seen = coord[g].seen
        BY <3>1 DEF Typed, Coordinator
      <3> QED  BY <1>0, <1>1, <3>1, <3>2, GotoAgrees
    <2> QED  BY <1>0, <1>1, <2>1, <2>2, <2>3, DrainedAgrees, ScanAgrees, PlanAgrees, FinalAgrees, CleanupAgrees
             DEF CoordinatorNext, CoordinatorStep, LockFails, Interrupted, FailSync, PollStopped, Commit
  <1> QED  BY <1>2, <1>3, <1>4 DEF Agreed

-----------------------------------------------------------------------------
(* All steps *)

LEMMA QuietAgrees ==
    ASSUME Typed, Agreed, Quiet, WorkersCalm, UNCHANGED <<disk, raced>>, (base' = base /\ cfg' = cfg) \/ base' = Nowhere
    PROVE  Agreed'
  <1>1. BaseAgrees'
    BY CalmBase DEF Agreed
  <1>2. ASSUME NEW g \in Gens PROVE PassAgrees(g)'
    BY CalmPass DEF Quiet, Agreed
  <1> QED  BY <1>1, <1>2 DEF Agreed

LEMMA StoppedAgrees ==
    ASSUME Typed, Agreed, NEW gens, coord' = Stopped(gens), UNCHANGED <<job, cfg, tasks, worker, disk, raced, base>>
    PROVE  Agreed'
  <1>1. BaseAgrees'
    BY CalmBase DEF Agreed
  <1>2. ASSUME NEW g \in Gens PROVE PassAgrees(g)'
    <2>1. /\ coord'[g].pc = coord[g].pc /\ coord'[g].c = coord[g].c
          /\ coord'[g].prev = coord[g].prev /\ coord'[g].seen = coord[g].seen
      BY DEF Stopped, Typed, Coordinator
    <2> QED  BY <2>1, SameJob, SameTasks, CalmPass DEF WorkersCalm, Agreed
  <1> QED  BY <1>1, <1>2 DEF Agreed

LEMMA StartAgrees ==
    ASSUME Typed, Agreed, StartSyncPass, UNCHANGED <<cfg, raced, base>>
    PROVE  Agreed'
  <1> USE SyncBoundsAssumption
  <1> DEFINE n == job.gen + 1
  <1>0. n \in Gens
    BY DEF Typed, StartSyncPass, ClaimSyncJobPass, CanClaim, Job, Gens
  <1>1. job'.gen = n /\ coord' = [coord EXCEPT ![n].pc = "lock"]
    BY DEF StartSyncPass, ClaimSyncJobPass, Typed, Job
  <1> HIDE DEF n
  <1>2. coord'[n].pc = "lock"
    BY <1>0, <1>1 DEF Typed, Coordinator
  <1>3. BaseAgrees'
    BY CalmBase DEF Agreed
  <1>4. ASSUME NEW g \in Gens PROVE PassAgrees(g)'
    <2>1. CASE g = n
      BY <1>2, <2>1, NotDrained
    <2>2. CASE g # n
      BY <1>1, <2>2, NotCurrent DEF Current, InPass
    <2> QED  BY <2>1, <2>2
  <1> QED  BY <1>3, <1>4 DEF Agreed

(* An edit hits a side no pass has listed, or has raced.                   *)
LEMMA EditAgrees ==
    ASSUME Typed, Agreed, UserEdits
    PROVE  Agreed'
  <1>1. UNCHANGED <<job, cfg, tasks, base, coord, worker>>
    BY Zenon DEF UserEdits, EditFile, DeleteFileOf, DeleteDirectoryOf, KeepSystem, rowVars, workerVars
  <1>2. \A g \in Gens : raced' = {} => raced = {} /\ \A r \in Sides : disk'[r].file \in {disk[r].file, Absent} \/ ~Scanned(g, r)
    <2> TAKE g \in Gens
    <2> SUFFICES ASSUME raced' = {}
                 PROVE  raced = {} /\ \A r \in Sides : disk'[r].file \in {disk[r].file, Absent} \/ ~Scanned(g, r)
      OBVIOUS
    <2>1. PICK s \in Sides : EditFile(s) \/ DeleteFileOf(s) \/ DeleteDirectoryOf(s)
      BY DEF UserEdits
    <2>2. CASE EditFile(s)
      <3>1. raced = {} /\ ~AtWork(s)
        BY <2>2 DEF EditFile
      <3>2. ~Scanned(g, s)
        BY <3>1 DEF AtWork
      <3>3. \A r \in Sides : r # s => disk'[r] = disk[r]
        BY <2>2 DEF EditFile, Typed
      <3> QED  BY <3>1, <3>2, <3>3
    <2>3. CASE DeleteFileOf(s)
      BY <2>3 DEF DeleteFileOf, Typed, Disk
    <2>4. CASE DeleteDirectoryOf(s)
      BY <2>4 DEF DeleteDirectoryOf, Typed, Disk
    <2> QED  BY <2>1, <2>2, <2>3, <2>4
  <1>r. raced' = {} => raced = {}
    BY DEF UserEdits, EditFile, DeleteFileOf, DeleteDirectoryOf
  <1>3. CASE raced' = {}
    <2>1. ASSUME NEW g \in Gens PROVE PassAgrees(g)'
      BY <1>1, <1>2, <1>3, SameJob, SameTasks, CalmPass DEF WorkersCalm, Agreed
    <2>2. BaseAgrees'
      BY <1>1, <1>r, CalmBase DEF Agreed
    <2> QED  BY <2>1, <2>2 DEF Agreed
  <1>4. CASE raced' # {}
    BY <1>4 DEF Agreed, BaseAgrees, PassAgrees
  <1> QED  BY <1>3, <1>4

(* Every step keeps Agreed.                                                *)
LEMMA AgreedStep ==
    ASSUME ~SlowWorkers, Typed, Ordered, TagsAreTrue, Agreed, [Next]_vars
    PROVE  Agreed'
  <1>1. ASSUME NEW w \in Workers, WorkerNext(w) \/ (WorkerFault(w) /\ KeepApi) PROVE Agreed'
    <2>1. CASE ReadFile(w) \/ Write(w)
      <3>1. UNCHANGED <<base, cfg, raced>>
        BY <1>1, <2>1 DEF ReadFile, Write, rowVars, WorkerNext, KeepApi, KeepUser, userVars
      <3>2. \A g \in Gens : PassAgrees(g)'
        BY <2>1, <3>1, ReadAgrees, WriteAgrees DEF Agreed
      <3> QED  BY <3>1, <3>2, CalmBase DEF Agreed
    <2>2. CASE ~ReadFile(w) /\ ~Write(w)
      <3>1. Quiet
        BY <1>1, <2>2, Q_Dequeue, Q_DequeueNothing, Q_ProcessSyncTask, Q_Acknowledge, Q_CallFails,
           Q_CancelWork, Q_HandleSyncTaskFailure, Q_Escalate, Q_RequeueOwn, Q_StopJob, Q_StopTasks, Q_WorkerCrash, Zenon
           DEF WorkerNext, WorkerStep, WorkerFault
      <3> QED  BY <1>1, <2>2, <3>1, CalmWorker, QuietAgrees
    <2> QED  BY <2>1, <2>2
  <1>2. ASSUME Quiet, UNCHANGED <<disk, raced, worker>>, (base' = base /\ cfg' = cfg) \/ base' = Nowhere PROVE Agreed'
    BY <1>2, QuietAgrees DEF WorkersCalm
  <1>3. ASSUME (Background \/ Misfortune) /\ KeepApi PROVE Agreed'
    <2>1. Quiet
      BY <1>3, Q_requeueFailedTasks, Q_requeueRunningTasks, Q_VerifierMarks, Q_VerifierRefuses, Q_recoverPausedSyncJobs,
         Q_VerifierClaims, Q_VerifierReleases, Q_VerifierCrash, Zenon DEF Background, Misfortune
    <2>2. UNCHANGED <<disk, raced, worker, base, cfg>>
      BY <1>3, Zenon DEF Background, Misfortune, rowVars, engineVars, workerVars, KeepApi, KeepUser, userVars,
         requeueFailedTasks, requeueRunningTasks, VerifierMarks, VerifierRefuses, recoverPausedSyncJobs, VerifierClaims,
         VerifierReleases, VerifierCrash
    <2> QED  BY <1>2, <2>1, <2>2
  <1>4. ASSUME HandleStartSync \/ ResumeStarts \/ TriggerClaims PROVE Agreed'
    <2>1. UNCHANGED <<tasks, worker, lock, cfg, base, raced, disk>> /\ (StartSyncPass \/ UNCHANGED <<job, coord>>)
      BY <1>4, Zenon DEF HandleStartSync, ResumeStarts, TriggerClaims, KeepRest, workerVars, KeepHistory, KeepUser, userVars
    <2>2. UNCHANGED <<job, coord>> => Quiet
      BY <2>1, SameTasks, SameJob, SameWorkers DEF Quiet
    <2> QED  BY <1>2, <2>1, <2>2, StartAgrees
  <1>5. ASSUME \/ HandlePauseSync \/ HandleResumeSync \/ HandleDeleteSync \/ HandleUpdateSyncScope
               \/ HandleUpdateSyncSchedule \/ SuspendUser \/ DeleteRows
        PROVE  Agreed'
    <2>1. Quiet
      BY <1>5, Q_HandlePauseSync, Q_HandleResumeSync, Q_HandleDeleteSync, Q_HandleUpdateSyncScope,
         Q_HandleUpdateSyncSchedule, Q_SuspendUser, Q_DeleteRows, Zenon
    <2>2. UNCHANGED <<disk, raced, worker>> /\ ((base' = base /\ cfg' = cfg) \/ base' = Nowhere)
      BY <1>5, Zenon DEF Nowhere, rowVars, engineVars, workerVars, KeepHistory, KeepUser, userVars, HandlePauseSync,
         HandleResumeSync, HandleDeleteSync, HandleUpdateSyncScope, UpdateSyncJobScope, HandleUpdateSyncSchedule,
         SuspendUser, DeleteRows, DeleteSyncJobCascade
    <2> QED  BY <1>2, <2>1, <2>2
  <1>6. ASSUME \/ TickReads \/ TriggerSync \/ TickAdvances \/ DeactivateSchedule \/ IntervalPasses
               \/ recoverOrphanedSyncJobs
        PROVE  Agreed'
    <2>1. Quiet
      BY <1>6, Q_TickReads, Q_TriggerSync, Q_TickAdvances, Q_DeactivateSchedule, Q_IntervalPasses,
         Q_recoverOrphanedSyncJobs, Zenon
    <2>2. UNCHANGED <<disk, raced, worker, base, cfg>>
      BY <1>6, Zenon DEF KeepRest, workerVars, KeepUser, userVars, TickReads, TriggerSync, TickAdvances,
         DeactivateSchedule, IntervalPasses, recoverOrphanedSyncJobs
    <2> QED  BY <1>2, <2>1, <2>2
  <1>7. ASSUME (\E g \in Gens : DeliverCancel(g)) \/ ApiShutdown PROVE Agreed'
    BY <1>7, StoppedAgrees, Zenon DEF DeliverCancel, ApiShutdown, rowVars, workerVars, KeepUser, userVars
  <1>8. ASSUME ApiCrash PROVE Agreed'
    <2>1. UNCHANGED <<base, cfg, raced>>
      BY <1>8 DEF ApiCrash, KeepUser, userVars
    <2>2. \A g \in Gens : coord'[g].pc \in {"none", "done"}
      BY <1>8 DEF ApiCrash, NoCoordinator
    <2> QED  BY <2>1, <2>2, NotDrained, CalmBase DEF Agreed
  <1>9. ASSUME UNCHANGED vars PROVE Agreed'
    <2>1. UNCHANGED <<job, cfg, tasks, base, coord, lock, disk, worker, raced>>
      BY <1>9 DEF vars, rowVars, engineVars, workerVars, userVars
    <2>2. Quiet
      BY <2>1, SameTasks, SameJob, SameWorkers DEF Quiet
    <2> QED  BY <1>2, <2>1, <2>2
  <1>10. ASSUME NEW g \in Gens, CoordinatorNext(g) PROVE Agreed'
    BY <1>10, CoordinatorAgrees
  <1> QED  BY <1>1, <1>3, <1>4, <1>5, <1>6, <1>7, <1>8, <1>9, <1>10, EditAgrees, Zenon DEF Next, Handlers, ScheduleStep

LEMMA InitAgreed == ASSUME Init PROVE Agreed
  <1>1. base = Nowhere /\ \A g \in Gens : coord[g].pc = "none" /\ ~Current(g)
    BY DEF Init, Nowhere, NoCoordinator, Current, InPass, Working
  <1> QED  BY <1>1 DEF Agreed, BaseAgrees, PassAgrees, Agree, Nowhere, Nothing, Sides

(***************************************************************************)
(* The baseline of a two-way sync that renames conflicts never holds two   *)
(* versions of a file that its comparisons tell apart, as long as no edit  *)
(* raced with a pass and provided that the heartbeat ends transfers that   *)
(* lost their claim; deletions, new directories and conflict copies may go *)
(* on (readFinalTaskOutcomes, syncStateChanges, isFileMatchingTarget).     *)
(***************************************************************************)
THEOREM SyncBaselineAgrees == ASSUME ~SlowWorkers PROVE Spec => []BaselineAgrees
  <1>1. Init => Agreed
    BY InitAgreed
  <1>2. TypeOK /\ Ordered /\ TagsAreTrue /\ Agreed /\ [Next]_vars => Agreed'
    BY TypedIsTypeOK, AgreedStep
  <1>3. Agreed => BaselineAgrees
    BY DEF Agreed, BaseAgrees, BaselineAgrees, RenamesBoth, Agree, Sides
  <1> QED  BY <1>1, <1>2, <1>3, SyncTypes, PassesAreOrdered, TagsHold, PTL DEF Spec
=============================================================================

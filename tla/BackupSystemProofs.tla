------------------------- MODULE BackupSystemProofs -------------------------
(***************************************************************************)
(* What holds of a backup job for every number of files, contents,         *)
(* coordinators, schedulers, runs and maintenance rows.  Three inductive   *)
(* invariants, each on top of the one before: JobInv (rows of the job and  *)
(* of its runs), DraftInv (what coordinators remember and what drafts      *)
(* hold) and RepoInv (packs, blocks and objects under the advisory lock).  *)
(***************************************************************************)
EXTENDS BackupSystem, FiniteSetTheorems, TLAPS

Types ==
    /\ job \in Job /\ runs \in [Gens -> Run] /\ snaps \in [Gens -> Snapshot]
    /\ packs \in [PackIds -> PackState] /\ blocks \in [Blocks -> PackIds \cup {NoPack}]
    /\ maint \in [MaintIds -> Maintenance] /\ schedule \in Schedule /\ source \in Tree
    /\ coord \in [Coords -> Coordinator] /\ lock \in Coords \cup {NoCoord}
    /\ sched \in [Schedulers -> SchedulerLoop]

-----------------------------------------------------------------------------
(* Rows of the job and of its runs *)

\* A run beyond the job's generation does not exist yet
FutureIsEmpty == \A g \in Gens : g > job.gen => runs[g].state = "NONE"

\* A coordinator that executes a run has claimed it, as the only one
Executes(c) == coord[c].pc \in RunSteps

Claimed(c) ==
    /\ coord[c].gen \in Gens /\ coord[c].gen <= job.gen /\ coord[c].st \in Active
    /\ runs[coord[c].gen].state # "QUEUED"
    /\ \A f \in coord[c].todo : coord[c].tree[f] # NoBlock

ClaimsHeld == \A c \in Coords : Executes(c) => Claimed(c)

ClaimsApart ==
    \A c, d \in Coords : Executes(c) /\ Executes(d) /\ coord[c].gen = coord[d].gen => c = d

JobInv == Types /\ OpenRunIsCurrent /\ FutureIsEmpty /\ ClaimsHeld /\ ClaimsApart

\* What a step may do to the job and its runs
Sames == job' = job /\ \A g \in Gens : runs'[g].state = runs[g].state

Queues ==
    /\ job.status \in {"IDLE", "FAILED"} /\ job.gen + 1 \in Gens
    /\ job'.gen = job.gen + 1 /\ job'.status = "QUEUED"
    /\ \A g \in Gens : runs'[g].state = IF g = job.gen + 1 THEN "QUEUED" ELSE runs[g].state

Ended == {"COMPLETED", "PARTIAL", "FAILED", "CANCELLED"}
AtRest == {"IDLE", "PAUSED", "FAILED", "DELETING", "GONE"}

\* The open run goes on or ends, and the job with it
Advances(g, to) ==
    /\ runs[g].state \in Queueing /\ job.gen = g /\ job.status \in Queueing
    /\ job'.gen = job.gen
    /\ \/ to \in Active /\ job'.status = to
       \/ to \in Ended /\ job'.status \in {"IDLE", "FAILED"}
    /\ \A h \in Gens : runs'[h].state = IF h = g THEN to ELSE runs[h].state

NoneVisible == \A g \in Gens : snaps[g].state \notin Visible

\* Every open run is cancelled and the job comes to rest; when the job is to
\* be deleted its snapshots disappear with the same statement
Stops ==
    /\ job'.gen = job.gen
    /\ job'.status \in AtRest
    /\ job.status \in {"DELETING", "GONE"} => job'.status = job.status
    /\ job'.status \in {"DELETING", "GONE"} => job.status \in {"DELETING", "GONE"} \/ NoneVisible'
    /\ \A g \in Gens : runs'[g].state = IF runs[g].state \in Queueing THEN "CANCELLED" ELSE runs[g].state

Vanishes ==
    /\ job'.gen = job.gen /\ job'.status = "GONE" /\ NoneVisible'
    /\ \A g \in Gens : runs'[g].state = "NONE"

RowStep == Sames \/ Queues \/ (\E g \in Gens, to \in Active \cup Ended : Advances(g, to)) \/ Stops \/ Vanishes

LEMMA Constants ==
    /\ MaxRuns \in Nat /\ MaxMaint \in Nat /\ MaxPackBlocks \in Nat \ {0}
    /\ Gens \subseteq Nat /\ \A g \in Gens : g # 0 /\ g <= MaxRuns
    /\ 0..MaxRuns = Gens \cup {0} /\ 0..MaxMaint = MaintIds \cup {0}
    /\ NoBlock \notin Blocks /\ NoCoord \notin Coords
BY BackupAssumption DEF Gens, MaintIds

LEMMA RowConsequences ==
    ASSUME job \in Job, runs \in [Gens -> Run], job' \in Job, runs' \in [Gens -> Run],
           OpenRunIsCurrent, FutureIsEmpty, RowStep
    PROVE  /\ OpenRunIsCurrent' /\ FutureIsEmpty'
           /\ job'.gen >= job.gen
           /\ \A g \in Gens : runs'[g].state = "QUEUED" => runs[g].state = "QUEUED" \/ g > job.gen
           /\ \A g \in Gens : runs[g].state \in Ended => runs'[g].state = runs[g].state \/ job'.status = "GONE"
           /\ job.status \in {"DELETING", "GONE"} => job'.status \in {"DELETING", "GONE"}
           /\ job'.status \in {"DELETING", "GONE"} => job.status \in {"DELETING", "GONE"} \/ NoneVisible'
<1>t. /\ job.gen \in Nat /\ job'.gen \in Nat /\ Gens \subseteq Nat
      /\ job.status \in Queueing \cup AtRest /\ job'.status \in Queueing \cup AtRest
      /\ \A g \in Gens : /\ runs[g].state \in Queueing \cup Ended \cup {"NONE"}
                         /\ runs'[g].state \in Queueing \cup Ended \cup {"NONE"}
  BY Constants DEF Job, Run, AtRest, Ended
<1>1. CASE Sames
  BY <1>1, <1>t DEF Sames, OpenRunIsCurrent, FutureIsEmpty
<1>2. CASE Queues
  BY <1>2, <1>t DEF Queues, OpenRunIsCurrent, FutureIsEmpty, Queueing, Active, Ended
<1>3. ASSUME NEW g \in Gens, NEW to \in Active \cup Ended, Advances(g, to)
      PROVE  /\ OpenRunIsCurrent' /\ FutureIsEmpty'
             /\ job'.gen >= job.gen
             /\ \A h \in Gens : runs'[h].state = "QUEUED" => runs[h].state = "QUEUED" \/ h > job.gen
             /\ \A h \in Gens : runs[h].state \in Ended => runs'[h].state = runs[h].state \/ job'.status = "GONE"
             /\ job.status \in {"DELETING", "GONE"} => job'.status \in {"DELETING", "GONE"}
             /\ job'.status \in {"DELETING", "GONE"} => job.status \in {"DELETING", "GONE"} \/ NoneVisible'
  BY <1>3, <1>t DEF Advances, OpenRunIsCurrent, FutureIsEmpty, Queueing, Active, Ended
<1>4. CASE Stops
  BY <1>4, <1>t DEF Stops, OpenRunIsCurrent, FutureIsEmpty, Queueing, Active, Ended
<1>5. CASE Vanishes
  BY <1>5, <1>t DEF Vanishes, OpenRunIsCurrent, FutureIsEmpty, Queueing, Active, Ended
<1> QED BY <1>1, <1>2, <1>3, <1>4, <1>5 DEF RowStep

-----------------------------------------------------------------------------
(* Types *)

PCs == {"idle", "polled"} \cup RunSteps \cup MaintSteps

LEMMA CoordTypes ==
    /\ \A p \in BOOLEAN : Idle(p) \in Coordinator
    /\ \A l \in Coordinator, p \in PCs : [l EXCEPT !.pc = p] \in Coordinator
    /\ Nothing \in Tree
<1>1. Nothing \in Tree BY DEF Nothing, Tree, Content
<1>2. 0 \in 0..MaxRuns /\ 0 \in 0..MaxMaint BY Constants
<1>3. \A p \in BOOLEAN : Idle(p) \in Coordinator BY <1>1, <1>2 DEF Idle, Coordinator, NoPack
<1>4. \A l \in Coordinator, p \in PCs : [l EXCEPT !.pc = p] \in Coordinator BY DEF Coordinator, PCs
<1> QED BY <1>1, <1>3, <1>4

LEMMA GotoType ==
    ASSUME NEW c \in Coords, NEW p \in PCs, coord \in [Coords -> Coordinator], Goto(c, p)
    PROVE  coord' \in [Coords -> Coordinator]
BY CoordTypes DEF Goto

LEMMA ReturnType ==
    ASSUME NEW c \in Coords, coord \in [Coords -> Coordinator], lock \in Coords \cup {NoCoord}, Return(c)
    PROVE  coord' \in [Coords -> Coordinator] /\ lock' \in Coords \cup {NoCoord}
<1>1. Idle(coord[c].prefer) \in Coordinator BY CoordTypes DEF Coordinator
<1> QED BY <1>1 DEF Return

\* Rows that statements write
LEMMA RowTypes ==
    /\ NoRun \in Run /\ NoSnap \in Snapshot /\ NoMaint \in Maintenance
    /\ \A r \in Run, s \in Queueing \cup Ended, b \in BOOLEAN :
         /\ [r EXCEPT !.state = s] \in Run /\ [r EXCEPT !.state = s].state = s
         /\ [r EXCEPT !.state = s, !.fresh = b] \in Run /\ [r EXCEPT !.state = s, !.fresh = b].state = s
         /\ [r EXCEPT !.fresh = b] \in Run /\ [r EXCEPT !.fresh = b].state = r.state
    /\ \A j \in Job, s \in Queueing \cup AtRest :
         /\ [j EXCEPT !.status = s] \in Job
         /\ [j EXCEPT !.status = s].status = s /\ [j EXCEPT !.status = s].gen = j.gen
    /\ \A x \in Snapshot, s \in {"READY", "PARTIAL", "EXPIRED", "DAMAGED"} :
         /\ [x EXCEPT !.state = s] \in Snapshot /\ [x EXCEPT !.state = s].state = s
         /\ [x EXCEPT !.state = s].links = x.links /\ [x EXCEPT !.state = s].scanned = x.scanned
    /\ \A x \in Snapshot, t \in Tree :
         /\ [x EXCEPT !.links = t] \in Snapshot /\ [x EXCEPT !.links = t].state = x.state
         /\ [x EXCEPT !.links = t].links = t /\ [x EXCEPT !.links = t].scanned = x.scanned
<1>1. NoRun \in Run BY DEF NoRun, Run
<1>2. NoSnap \in Snapshot BY CoordTypes DEF NoSnap, Snapshot
<1>3. NoMaint \in Maintenance BY DEF NoMaint, Maintenance
<1>4. \A r \in Run, s \in Queueing \cup Ended, b \in BOOLEAN :
         /\ [r EXCEPT !.state = s] \in Run /\ [r EXCEPT !.state = s].state = s
         /\ [r EXCEPT !.state = s, !.fresh = b] \in Run /\ [r EXCEPT !.state = s, !.fresh = b].state = s
         /\ [r EXCEPT !.fresh = b] \in Run /\ [r EXCEPT !.fresh = b].state = r.state
  BY ZenonT(40) DEF Run, Ended
<1>5. \A j \in Job, s \in Queueing \cup AtRest :
         /\ [j EXCEPT !.status = s] \in Job
         /\ [j EXCEPT !.status = s].status = s /\ [j EXCEPT !.status = s].gen = j.gen
  BY DEF Job, AtRest
<1>6. \A x \in Snapshot, s \in {"READY", "PARTIAL", "EXPIRED", "DAMAGED"} :
         /\ [x EXCEPT !.state = s] \in Snapshot /\ [x EXCEPT !.state = s].state = s
         /\ [x EXCEPT !.state = s].links = x.links /\ [x EXCEPT !.state = s].scanned = x.scanned
  BY DEF Snapshot, Visible
<1>7. \A x \in Snapshot, t \in Tree :
         /\ [x EXCEPT !.links = t] \in Snapshot /\ [x EXCEPT !.links = t].state = x.state
         /\ [x EXCEPT !.links = t].links = t /\ [x EXCEPT !.links = t].scanned = x.scanned
  BY DEF Snapshot
<1> QED BY <1>1, <1>2, <1>3, <1>4, <1>5, <1>6, <1>7

LEMMA StatementTypes ==
    ASSUME Types
    PROVE  /\ \A k \in Kinds : Inserted(k) \in [MaintIds -> Maintenance]
           /\ Recovered \in [MaintIds -> Maintenance]
           /\ CancelledRuns \in [Gens -> Run]
           /\ \A p \in PackIds \cup {NoPack} : Unlinked(p) \in [Gens -> Snapshot]
<1>1. ASSUME NEW k \in Kinds PROVE Inserted(k) \in [MaintIds -> Maintenance]
  <2>1. [kind |-> k, state |-> "PENDING", lease |-> FALSE] \in Maintenance BY DEF Maintenance, Open
  <2> QED BY <2>1 DEF Types, Inserted
<1>2. Recovered \in [MaintIds -> Maintenance]
  <2>1. \A x \in Maintenance : [x EXCEPT !.state = "PENDING"] \in Maintenance BY DEF Maintenance, Open
  <2> QED BY <2>1 DEF Types, Recovered
<1>3. CancelledRuns \in [Gens -> Run] BY RowTypes DEF Types, CancelledRuns, Ended
<1>4. ASSUME NEW p \in PackIds \cup {NoPack} PROVE Unlinked(p) \in [Gens -> Snapshot]
  <2>1. ASSUME NEW g \in Gens
        PROVE  [f \in Files |-> IF snaps[g].links[f] \in InPack(p) THEN NoBlock ELSE snaps[g].links[f]] \in Tree
    BY DEF Types, Snapshot, Tree, Content
  <2>2. ASSUME NEW g \in Gens
        PROVE  Unlinked(p)[g] \in Snapshot
    <3> DEFINE t == [f \in Files |-> IF snaps[g].links[f] \in InPack(p) THEN NoBlock ELSE snaps[g].links[f]]
    <3>1. t \in Tree /\ snaps[g] \in Snapshot BY <2>1 DEF Types
    <3>2. Unlinked(p)[g] = IF snaps[g].state = "EXPIRED" THEN [snaps[g] EXCEPT !.links = t] ELSE snaps[g]
      BY DEF Unlinked
    <3> HIDE DEF t
    <3>3. \A x \in Snapshot : [x EXCEPT !.links = t] \in Snapshot BY <3>1 DEF Snapshot
    <3>4. [snaps[g] EXCEPT !.links = t] \in Snapshot BY <3>1, <3>3
    <3> QED BY <3>1, <3>2, <3>4
  <2>3. Unlinked(p) = [g \in Gens |-> Unlinked(p)[g]] BY DEF Unlinked
  <2> QED BY <2>2, <2>3
<1> QED BY <1>1, <1>2, <1>3, <1>4

LEMMA OutcomeTypes ==
    ASSUME NEW x \in Coordinator, NEW T \in SUBSET Files, NEW G \in Tree, NEW P \in SUBSET Blocks
    PROVE  /\ [x EXCEPT !.todo = T, !.got = G] \in Coordinator
           /\ [x EXCEPT !.pc = "fail"] \in Coordinator
           /\ [x EXCEPT !.todo = T, !.partial = TRUE] \in Coordinator
           /\ [x EXCEPT !.todo = T, !.got = G, !.pend = P] \in Coordinator
           /\ [x EXCEPT !.todo = T, !.got = G, !.carry = P, !.pc = "upload"] \in Coordinator
<1>1. [x EXCEPT !.todo = T, !.got = G] \in Coordinator BY DEF Coordinator
<1>2. [x EXCEPT !.pc = "fail"] \in Coordinator BY DEF Coordinator, RunSteps
<1>3. [x EXCEPT !.todo = T, !.partial = TRUE] \in Coordinator BY DEF Coordinator
<1>4. [x EXCEPT !.todo = T, !.got = G, !.pend = P] \in Coordinator BY DEF Coordinator
<1>5. [x EXCEPT !.todo = T, !.got = G, !.carry = P, !.pc = "upload"] \in Coordinator BY DEF Coordinator, RunSteps
<1> QED BY <1>1, <1>2, <1>3, <1>4, <1>5

\* What becomes of a file
LEMMA FileOutcomes ==
    ASSUME NEW c \in Coords, NEW f \in coord[c].todo,
           coord[c] \in Coordinator, coord[c].tree[f] # NoBlock
    PROVE  LET l == coord[c]
               b == coord[c].tree[f]
           IN  \/ /\ b \in l.pend \/ FindBackupBlock(b) \/ l.prev[f] = b
                  /\ FileOutcome(c, f) = [l EXCEPT !.todo = l.todo \ {f}, !.got = [l.got EXCEPT ![f] = b]]
               \/ FileOutcome(c, f) = [l EXCEPT !.pc = "fail"]
               \/ FileOutcome(c, f) = [l EXCEPT !.todo = l.todo \ {f}, !.partial = TRUE]
               \/ FileOutcome(c, f) = [l EXCEPT !.todo = l.todo \ {f}, !.got = [l.got EXCEPT ![f] = b],
                                                !.pend = l.pend \cup {b}]
               \/ /\ l.pend # {}
                  /\ FileOutcome(c, f) = [l EXCEPT !.todo = l.todo \ {f}, !.got = [l.got EXCEPT ![f] = b],
                                                   !.carry = {b}, !.pc = "upload"]
<1> DEFINE l == coord[c]
           b == coord[c].tree[f]
<1>f. Full(c) => l.pend # {}
  BY Constants, FS_EmptySet DEF Full
<1>1. CASE Reusable(c, f) \/ (source[f] = b /\ Known(c, f))
  BY <1>1 DEF FileOutcome, Reusable, Known, Unstable, NewContent, Coordinator
<1>2. CASE source[f] = NoBlock
  BY <1>2 DEF FileOutcome, Reusable, Known, Unstable, NewContent, Coordinator
<1>3. CASE Unstable(c, f)
  BY <1>3 DEF FileOutcome, Reusable, Known, Unstable, NewContent, Coordinator
<1>4. CASE NewContent(c, f) /\ Full(c)
  BY <1>4, <1>f DEF FileOutcome, Reusable, Known, Unstable, NewContent, Coordinator
<1>5. CASE NewContent(c, f) /\ ~Full(c)
  BY <1>5 DEF FileOutcome, Reusable, Known, Unstable, NewContent, Coordinator
<1> QED BY <1>1, <1>2, <1>3, <1>4, <1>5 DEF Unstable, NewContent

\* Steps of a coordinator that executes a run
LEMMA RunNextType ==
    ASSUME Types, ClaimsHeld, NEW c \in Coords, RunNext(c), UNCHANGED controlVars
    PROVE  Types'
<1>t. /\ coord \in [Coords -> Coordinator] /\ coord[c] \in Coordinator /\ lock \in Coords \cup {NoCoord}
      /\ coord[c].prefer \in BOOLEAN /\ (~coord[c].prefer) \in BOOLEAN
      /\ job \in Job /\ runs \in [Gens -> Run] /\ snaps \in [Gens -> Snapshot]
      /\ packs \in [PackIds -> PackState] /\ blocks \in [Blocks -> PackIds \cup {NoPack}]
      /\ maint \in [MaintIds -> Maintenance] /\ schedule \in Schedule /\ source \in Tree
      /\ sched \in [Schedulers -> SchedulerLoop] /\ sched' = sched
  BY DEF Types, Coordinator, controlVars
<1>g. \A p \in PCs : Goto(c, p) => coord' \in [Coords -> Coordinator] BY <1>t, GotoType
<1>r. Return(c) => coord' \in [Coords -> Coordinator] /\ lock' \in Coords \cup {NoCoord} BY <1>t, ReturnType
<1>p. {"idle", "polled"} \cup RunSteps \cup MaintSteps = PCs BY DEF PCs
<1>1. CASE PollRecover(c)
  <2>1. coord' \in [Coords -> Coordinator] BY <1>1, <1>g DEF PollRecover, PCs
  <2>2. runs' \in [Gens -> Run] BY <1>1, <1>t, RowTypes DEF PollRecover, RecoverStaleBackupRuns, Ended
  <2>3. job' \in Job BY <1>1, <1>t, RowTypes DEF PollRecover, RecoverStaleBackupRuns, AtRest
  <2>4. snaps' \in [Gens -> Snapshot] BY <1>1, <1>t, RowTypes DEF PollRecover, RecoverStaleBackupRuns
  <2> QED BY <1>1, <1>t, <2>1, <2>2, <2>3, <2>4 DEF PollRecover, Types
<1>2. CASE PollRun(c)
  <2>1. PICK g \in Gens : /\ ClaimNextQueuedBackupRun(g)
                          /\ coord' = [coord EXCEPT ![c] = [Idle(TRUE) EXCEPT !.pc = "lock", !.gen = g, !.st = "SCANNING"]]
    BY <1>2 DEF PollRun
  <2>2. Idle(TRUE) \in Coordinator /\ g \in 0..MaxRuns BY CoordTypes, Constants
  <2>3. [Idle(TRUE) EXCEPT !.pc = "lock", !.gen = g, !.st = "SCANNING"] \in Coordinator
    BY <2>2 DEF Coordinator, RunSteps, Active
  <2>4. runs' \in [Gens -> Run]
    <3> DEFINE r == [runs[g] EXCEPT !.state = "SCANNING", !.fresh = TRUE]
    <3>1. r \in Run BY <1>t, RowTypes DEF Queueing, Active
    <3>2. runs' = [runs EXCEPT ![g] = r] BY <1>t, <2>1 DEF ClaimNextQueuedBackupRun, Run
    <3> QED BY <1>t, <3>1, <3>2
  <2>5. job' \in Job BY <1>t, <2>1, RowTypes DEF ClaimNextQueuedBackupRun, Queueing, Active
  <2> QED BY <1>2, <1>t, <2>1, <2>3, <2>4, <2>5 DEF PollRun, Types
<1>3. CASE PollMaintenance(c)
  <2>1. PICK m \in MaintIds : /\ ClaimNextMaintenance(m)
                              /\ coord' = [coord EXCEPT ![c] = [Idle(~coord[c].prefer) EXCEPT !.pc = "maintLock", !.maint = m]]
    BY <1>3 DEF PollMaintenance
  <2>2. Idle(~coord[c].prefer) \in Coordinator /\ m \in 0..MaxMaint BY <1>t, CoordTypes, Constants
  <2>3. [Idle(~coord[c].prefer) EXCEPT !.pc = "maintLock", !.maint = m] \in Coordinator
    BY <2>2, ZenonT(40) DEF Coordinator, MaintSteps
  <2>4. maint' \in [MaintIds -> Maintenance]
    <3>1. Recovered \in [MaintIds -> Maintenance] BY StatementTypes
    <3>2. \A x \in Maintenance : [x EXCEPT !.state = "RUNNING", !.lease = TRUE] \in Maintenance
      BY DEF Maintenance, Open
    <3>3. maint' = [Recovered EXCEPT ![m] = [Recovered[m] EXCEPT !.state = "RUNNING", !.lease = TRUE]]
      BY <2>1, <3>1 DEF ClaimNextMaintenance, Maintenance
    <3>4. [Recovered[m] EXCEPT !.state = "RUNNING", !.lease = TRUE] \in Maintenance BY <3>1, <3>2
    <3> QED BY <3>1, <3>3, <3>4
  <2> QED BY <1>3, <1>t, <2>1, <2>3, <2>4 DEF PollMaintenance, Types
<1>4. CASE PollNothing(c)
  <2>1. Idle(TRUE) \in Coordinator BY CoordTypes
  <2> QED BY <1>4, <1>t, <2>1 DEF PollNothing, Types, storeVars
<1>5. CASE LockRun(c) \/ OpenRepository(c)
  <2>1. coord' \in [Coords -> Coordinator]
    BY <1>5, <1>g DEF LockRun, OpenRepository, Breaks, PCs, RunSteps
  <2> QED BY <1>5, <1>t, <2>1 DEF LockRun, OpenRepository, Types
<1>6. CASE ScanFiles(c)
  <2>1. CASE coord' = [coord EXCEPT ![c].pc = "start", ![c].tree = source,
                                    ![c].todo = {f \in Files : source[f] # NoBlock}]
    <3>1. [coord[c] EXCEPT !.pc = "start", !.tree = source,
                           !.todo = {f \in Files : source[f] # NoBlock}] \in Coordinator
      BY <1>t, ZenonT(40) DEF Coordinator, RunSteps
    <3>2. coord' \in [Coords -> Coordinator] BY <1>t, <2>1, <3>1
    <3> QED BY <1>6, <1>t, <3>2 DEF ScanFiles, Types
  <2>2. CASE Goto(c, "fail") \/ Goto(c, "cancel")
    <3>1. coord' \in [Coords -> Coordinator] BY <2>2, <1>g DEF PCs, RunSteps
    <3> QED BY <1>6, <1>t, <3>1 DEF ScanFiles, Types
  <2> QED BY <1>6, <2>1, <2>2 DEF ScanFiles, Breaks
<1>x. Executes(c) => coord[c].gen \in Gens /\ coord[c].st \in Active BY DEF ClaimsHeld, Claimed
<1>7. CASE StartTransfer(c) \/ StartVerify(c)
  <2>1. CASE Goto(c, "fail") /\ UNCHANGED <<job, runs>>
    <3>1. coord' \in [Coords -> Coordinator] BY <2>1, <1>g DEF PCs, RunSteps
    <3> QED BY <1>7, <1>t, <2>1, <3>1 DEF StartTransfer, StartVerify, Types
  <2>2. ASSUME NEW from \in Active, NEW to \in Active, NEW pc \in RunSteps,
               TransitionBackupRun(coord[c].gen, from, to), Executes(c),
               coord' = [coord EXCEPT ![c].pc = pc, ![c].st = to]
        PROVE  Types'
    <3>1. [coord[c] EXCEPT !.pc = pc, !.st = to] \in Coordinator BY <1>t DEF Coordinator
    <3>2. coord' \in [Coords -> Coordinator] BY <1>t, <2>2, <3>1
    <3>3. [runs[coord[c].gen] EXCEPT !.state = to, !.fresh = TRUE] \in Run BY <1>x, <1>t, <2>2, RowTypes DEF Queueing
    <3>4. runs' \in [Gens -> Run]
      BY <1>x, <1>t, <2>2, <3>3 DEF TransitionBackupRun
    <3>5. job' \in Job BY <1>t, <2>2, RowTypes DEF TransitionBackupRun, Queueing
    <3> QED BY <1>7, <1>t, <3>2, <3>4, <3>5 DEF StartTransfer, StartVerify, Types
  <2>3. Executes(c) BY <1>7 DEF StartTransfer, StartVerify, At, Executes, RunSteps
  <2> QED BY <1>7, <2>1, <2>2, <2>3 DEF StartTransfer, StartVerify, Active, RunSteps
<1>8. CASE CreateDraft(c)
  <2>1. coord' \in [Coords -> Coordinator] BY <1>8, <1>g DEF CreateDraft, PCs, RunSteps
  <2>2. [state |-> "PUBLISHING", scanned |-> coord[c].tree, links |-> Nothing] \in Snapshot
    BY <1>t, CoordTypes DEF Coordinator, Snapshot
  <2>3. snaps' \in [Gens -> Snapshot] BY <1>8, <1>t, <2>2 DEF CreateDraft, CreateSnapshotDraft
  <2> QED BY <1>8, <1>t, <2>1, <2>3 DEF CreateDraft, Types
<1>9. CASE LoadPrevious(c)
  <2>1. CASE coord' = [coord EXCEPT ![c].pc = "files", ![c].prev = SnapshotFileCatalog(LatestValidSnapshot)]
    <3>1. SnapshotFileCatalog(LatestValidSnapshot) \in Tree
      <4> DEFINE g == LatestValidSnapshot
      <4>1. g = 0 \/ g \in Gens BY DEF LatestValidSnapshot
      <4> HIDE DEF g
      <4>2. \A f \in Files : SnapshotFileCatalog(g)[f] \in Content
        BY <1>t, <4>1 DEF SnapshotFileCatalog, Content, Snapshot, Tree
      <4>3. SnapshotFileCatalog(g) = [f \in Files |-> SnapshotFileCatalog(g)[f]] BY DEF SnapshotFileCatalog
      <4>4. SnapshotFileCatalog(g) \in Tree BY <4>2, <4>3 DEF Tree
      <4> QED BY <4>4 DEF g
    <3> DEFINE t == SnapshotFileCatalog(LatestValidSnapshot)
    <3>2. t \in Tree /\ coord' = [coord EXCEPT ![c] = [coord[c] EXCEPT !.pc = "files", !.prev = t]]
      BY <1>t, <2>1, <3>1 DEF Coordinator
    <3> HIDE DEF t
    <3>3. [coord[c] EXCEPT !.pc = "files", !.prev = t] \in Coordinator BY <1>t, <3>2 DEF Coordinator, RunSteps
    <3>4. coord' \in [Coords -> Coordinator] BY <1>t, <3>2, <3>3
    <3> QED BY <1>9, <1>t, <3>4 DEF LoadPrevious, Types
  <2>2. CASE Goto(c, "fail")
    <3>1. coord' \in [Coords -> Coordinator] BY <2>2, <1>g DEF PCs, RunSteps
    <3> QED BY <1>9, <1>t, <3>1 DEF LoadPrevious, Types
  <2> QED BY <1>9, <2>1, <2>2 DEF LoadPrevious, Breaks
<1>10. CASE Superseded(c)
  <2>1. snaps' \in [Gens -> Snapshot]
    BY <1>10, <1>t, RowTypes DEF Superseded, DiscardSnapshotDraft
  <2> QED BY <1>10, <1>t, <1>r, <2>1 DEF Superseded, Types
<1>11. CASE BackupFile(c)
  <2>1. ASSUME NEW f \in coord[c].todo PROVE FileOutcome(c, f) \in Coordinator
    <3> DEFINE l == coord[c]
               b == l.tree[f]
    <3>1. Executes(c) BY <1>11 DEF BackupFile, At, Executes, RunSteps
    <3>2. f \in Files /\ b \in Blocks
      BY <1>t, <3>1 DEF ClaimsHeld, Claimed, Coordinator, Tree, Content
    <3>3. [l.got EXCEPT ![f] = b] \in Tree /\ l.todo \ {f} \in SUBSET Files /\ l.pend \cup {b} \in SUBSET Blocks
      BY <1>t, <3>2 DEF Coordinator, Tree, Content
    <3>a. coord[c].tree[f] # NoBlock BY <3>2, Constants
    <3>4. \/ FileOutcome(c, f) = [l EXCEPT !.todo = l.todo \ {f}, !.got = [l.got EXCEPT ![f] = b]]
          \/ FileOutcome(c, f) = [l EXCEPT !.pc = "fail"]
          \/ FileOutcome(c, f) = [l EXCEPT !.todo = l.todo \ {f}, !.partial = TRUE]
          \/ FileOutcome(c, f) = [l EXCEPT !.todo = l.todo \ {f}, !.got = [l.got EXCEPT ![f] = b],
                                            !.pend = l.pend \cup {b}]
          \/ FileOutcome(c, f) = [l EXCEPT !.todo = l.todo \ {f}, !.got = [l.got EXCEPT ![f] = b],
                                            !.carry = {b}, !.pc = "upload"]
      BY <1>t, <3>a, FileOutcomes, Zenon
    <3>6. l \in Coordinator /\ {b} \in SUBSET Blocks BY <1>t, <3>2
    <3> DEFINE T == l.todo \ {f}
               G == [l.got EXCEPT ![f] = b]
               P == l.pend \cup {b}
    <3>7. T \in SUBSET Files /\ G \in Tree /\ P \in SUBSET Blocks BY <3>3
    <3>8. \/ FileOutcome(c, f) = [l EXCEPT !.todo = T, !.got = G]
          \/ FileOutcome(c, f) = [l EXCEPT !.pc = "fail"]
          \/ FileOutcome(c, f) = [l EXCEPT !.todo = T, !.partial = TRUE]
          \/ FileOutcome(c, f) = [l EXCEPT !.todo = T, !.got = G, !.pend = P]
          \/ FileOutcome(c, f) = [l EXCEPT !.todo = T, !.got = G, !.carry = {b}, !.pc = "upload"]
      BY <3>4, ZenonT(40)
    <3> HIDE DEF l, b, T, G, P
    <3>9. [l EXCEPT !.todo = T, !.got = G] \in Coordinator BY <3>6, <3>7, OutcomeTypes, ZenonT(40)
    <3>10. [l EXCEPT !.pc = "fail"] \in Coordinator BY <3>6, <3>7, OutcomeTypes, ZenonT(40)
    <3>11. [l EXCEPT !.todo = T, !.partial = TRUE] \in Coordinator BY <3>6, <3>7, OutcomeTypes, ZenonT(40)
    <3>12. [l EXCEPT !.todo = T, !.got = G, !.pend = P] \in Coordinator BY <3>6, <3>7, OutcomeTypes, ZenonT(40)
    <3>13. [l EXCEPT !.todo = T, !.got = G, !.carry = {b}, !.pc = "upload"] \in Coordinator
      BY <3>6, <3>7, OutcomeTypes
    <3> QED BY <3>8, <3>9, <3>10, <3>11, <3>12, <3>13, Zenon
  <2>2. coord' \in [Coords -> Coordinator]
    BY <1>11, <1>t, <1>g, <2>1 DEF BackupFile, Breaks, PCs, RunSteps
  <2> QED BY <1>11, <1>t, <2>2 DEF BackupFile, Types
<1>12. CASE FilesDone(c) \/ StillActive(c)
  <2>1. coord' \in [Coords -> Coordinator] BY <1>12, <1>g DEF FilesDone, StillActive, PCs, RunSteps
  <2> QED BY <1>12, <1>t, <2>1 DEF FilesDone, StillActive, Types, storeVars
<1>13. CASE FlushUpload(c)
  <2>1. coord' \in [Coords -> Coordinator] BY <1>13, <1>g DEF FlushUpload, Breaks, PCs, RunSteps
  <2> QED BY <1>13, <1>t, <2>1 DEF FlushUpload, Types
<1>14. CASE FlushRecord(c)
  <2>1. CASE Goto(c, "fail") /\ UNCHANGED <<packs, blocks>>
    <3>1. coord' \in [Coords -> Coordinator] BY <2>1, <1>g DEF PCs, RunSteps
    <3> QED BY <1>14, <1>t, <2>1, <3>1 DEF FlushRecord, Types
  <2>2. CASE /\ RecordPackAndBlocks(coord[c].pend)
             /\ coord' = [coord EXCEPT ![c].pend = coord[c].carry, ![c].carry = {},
                                      ![c].pc = IF coord[c].carry = {} THEN "catalog" ELSE "files"]
    <3>1. [coord[c] EXCEPT !.pend = coord[c].carry, !.carry = {},
             !.pc = IF coord[c].carry = {} THEN "catalog" ELSE "files"] \in Coordinator
      BY <1>t, ZenonT(40) DEF Coordinator, RunSteps
    <3>2. coord' \in [Coords -> Coordinator] BY <1>t, <2>2, <3>1
    <3>3. coord[c].pend \in SUBSET Blocks BY <1>t DEF Coordinator
    <3>4. packs' \in [PackIds -> PackState] BY <1>t, <2>2 DEF RecordPackAndBlocks, PackState
    <3>5. blocks' \in [Blocks -> PackIds \cup {NoPack}]
      BY <1>t, <2>2, <3>3 DEF RecordPackAndBlocks, PackIds, NoPack
    <3> QED BY <1>14, <1>t, <3>2, <3>4, <3>5 DEF FlushRecord, Types
  <2> QED BY <1>14, <2>1, <2>2 DEF FlushRecord
<1>15. CASE WriteCatalog(c)
  <2>1. coord' \in [Coords -> Coordinator] BY <1>15, <1>g DEF WriteCatalog, Breaks, PCs, RunSteps
  <2>2. coord[c].got \in Tree /\ Executes(c)
    BY <1>15, <1>t DEF WriteCatalog, At, Executes, RunSteps, Coordinator
  <2>3. [snaps[coord[c].gen] EXCEPT !.links = coord[c].got] \in Snapshot BY <1>t, <1>x, <2>2, RowTypes
  <2>4. snaps' \in [Gens -> Snapshot]
    BY <1>15, <1>t, <1>x, <2>2, <2>3 DEF WriteCatalog, BatchCreateSnapshotItems
  <2> QED BY <1>15, <1>t, <2>1, <2>4 DEF WriteCatalog, Types
<1>16. CASE VerifySample(c)
  <2>1. coord' \in [Coords -> Coordinator] BY <1>16, <1>g DEF VerifySample, Breaks, PCs, RunSteps
  <2>2. (\E p : MarkPackDamaged(p)) \/ UNCHANGED <<packs, snaps>> BY <1>16 DEF VerifySample
  <2>3. packs' \in [PackIds -> PackState] BY <1>t, <2>2 DEF MarkPackDamaged, PackState
  <2>d. \A g \in Gens : [snaps[g] EXCEPT !.state = "DAMAGED"] \in Snapshot BY <1>t, RowTypes
  <2>4. snaps' \in [Gens -> Snapshot] BY <1>t, <2>2, <2>d DEF MarkPackDamaged
  <2> QED BY <1>16, <1>t, <2>1, <2>3, <2>4 DEF VerifySample, Types
<1>17. CASE PublishSnapshot(c)
  <2>1. CASE Goto(c, "fail") /\ UNCHANGED <<job, runs, snaps, maint, events, lock>>
    <3>1. coord' \in [Coords -> Coordinator] BY <2>1, <1>g DEF PCs, RunSteps
    <3> QED BY <1>17, <1>t, <2>1, <3>1 DEF PublishSnapshot, Types
  <2>2. CASE PublishSnapshotAndFinalize(coord[c].gen, coord[c].partial) /\ Return(c)
    <3>1. coord[c].gen \in Gens BY <1>17, <1>x DEF PublishSnapshot, At, Executes, RunSteps
    <3> DEFINE s == IF coord[c].partial THEN "PARTIAL" ELSE "READY"
               r == IF coord[c].partial THEN "PARTIAL" ELSE "COMPLETED"
    <3>2. snaps' = [snaps EXCEPT ![coord[c].gen].state = s] /\ runs' = [runs EXCEPT ![coord[c].gen].state = r]
      BY <2>2 DEF PublishSnapshotAndFinalize
    <3>3. s \in {"READY", "PARTIAL"} /\ r \in Ended BY DEF Ended
    <3> HIDE DEF s, r
    <3>4. [snaps[coord[c].gen] EXCEPT !.state = s] \in Snapshot BY <1>t, <3>1, <3>3, RowTypes
    <3>5. snaps' \in [Gens -> Snapshot] BY <1>t, <3>1, <3>2, <3>4
    <3>6. [runs[coord[c].gen] EXCEPT !.state = r] \in Run BY <1>t, <3>1, <3>3, RowTypes
    <3>7. runs' \in [Gens -> Run] BY <1>t, <3>1, <3>2, <3>6
    <3>8. job' \in Job BY <1>t, <2>2, RowTypes DEF PublishSnapshotAndFinalize, AtRest
    <3>9. maint' \in [MaintIds -> Maintenance]
      BY <2>2, StatementTypes DEF PublishSnapshotAndFinalize, Kinds
    <3> QED BY <1>17, <1>t, <1>r, <2>2, <3>5, <3>7, <3>8, <3>9 DEF PublishSnapshot, Types
  <2> QED BY <1>17, <2>1, <2>2 DEF PublishSnapshot
<1>18. CASE FailRun(c) \/ CancelRun(c)
  <2>1. coord[c].gen \in Gens BY <1>18, <1>x DEF FailRun, CancelRun, At, Executes, RunSteps
  <2>2. PICK s \in {"FAILED", "CANCELLED"}, j \in {"FAILED", "IDLE"} :
           CompleteBackupRun(coord[c].gen, coord[c].st, s, j)
    BY <1>18 DEF FailRun, CancelRun
  <2>3. [runs[coord[c].gen] EXCEPT !.state = s] \in Run BY <1>t, <2>1, RowTypes DEF Ended
  <2>4. runs' \in [Gens -> Run] BY <1>t, <2>1, <2>2, <2>3 DEF CompleteBackupRun
  <2>j. [job EXCEPT !.status = j] \in Job BY <1>t, RowTypes DEF AtRest
  <2>5. job' \in Job BY <1>t, <2>2, <2>j DEF CompleteBackupRun
  <2> QED BY <1>18, <1>t, <1>r, <2>4, <2>5 DEF FailRun, CancelRun, Types
<1> QED BY <1>1, <1>2, <1>3, <1>4, <1>5, <1>6, <1>7, <1>8, <1>9, <1>10, <1>11, <1>12, <1>13, <1>14,
           <1>15, <1>16, <1>17, <1>18 DEF RunNext

\* Rows of maintenance that steps write
LEMMA MaintTypes ==
    ASSUME NEW x \in Maintenance
    PROVE  /\ \A s \in Open \cup {"COMPLETED", "CANCELLED"} : [x EXCEPT !.state = s] \in Maintenance
           /\ \A b \in BOOLEAN : [x EXCEPT !.lease = b] \in Maintenance
           /\ x.lease \in BOOLEAN /\ x.state \in Open \cup {"NONE", "COMPLETED", "CANCELLED"}
BY DEF Maintenance

LEMMA DeletedTypes ==
    ASSUME Types, NEW p \in PackIds \cup {NoPack}, MarkPackDeleted(p)
    PROVE  /\ snaps' \in [Gens -> Snapshot] /\ packs' \in [PackIds -> PackState]
           /\ blocks' \in [Blocks -> PackIds \cup {NoPack}]
<1>1. snaps' \in [Gens -> Snapshot] BY StatementTypes DEF MarkPackDeleted
<1>2. packs' \in [PackIds -> PackState] BY DEF Types, MarkPackDeleted, PackState
<1>3. blocks' \in [Blocks -> PackIds \cup {NoPack}] BY DEF Types, MarkPackDeleted
<1> QED BY <1>1, <1>2, <1>3

LEMMA ReplacedTypes ==
    ASSUME Types, NEW p \in PackIds \cup {NoPack}, NEW n \in SUBSET Blocks, ReplacePackLocators(p, n)
    PROVE  /\ snaps' \in [Gens -> Snapshot] /\ packs' \in [PackIds -> PackState]
           /\ blocks' \in [Blocks -> PackIds \cup {NoPack}]
<1>1. ASSUME NEW g \in Gens PROVE snaps'[g] \in Snapshot
  <2> DEFINE t == [f \in Files |-> IF snaps[g].links[f] \in InPack(p) \ n THEN NoBlock ELSE snaps[g].links[f]]
  <2>1. t \in Tree /\ snaps[g] \in Snapshot BY DEF Types, Snapshot, Tree, Content
  <2>2. snaps'[g] = IF snaps[g].state = "EXPIRED" THEN [snaps[g] EXCEPT !.links = t] ELSE snaps[g]
    BY DEF ReplacePackLocators
  <2> HIDE DEF t
  <2>3. [snaps[g] EXCEPT !.links = t] \in Snapshot BY <2>1, RowTypes
  <2> QED BY <2>1, <2>2, <2>3
<1>2. \E F : snaps' = [g \in Gens |-> F[g]]
  <2>1. snaps' = [g \in Gens |-> snaps'[g]] BY DEF ReplacePackLocators
  <2> QED BY <2>1
<1>3. snaps' \in [Gens -> Snapshot] BY <1>1, <1>2
<1>4. packs' \in [PackIds -> PackState] BY DEF Types, ReplacePackLocators, PackState
<1>5. blocks' \in [Blocks -> PackIds \cup {NoPack}]
  <2>1. ASSUME NEW b \in Blocks PROVE blocks'[b] \in PackIds \cup {NoPack}
    <3>1. n \in PackIds \cup {NoPack} /\ blocks[b] \in PackIds \cup {NoPack} BY DEF Types, PackIds, NoPack
    <3>2. blocks'[b] \in {n, NoPack, blocks[b]} BY DEF ReplacePackLocators
    <3> QED BY <3>1, <3>2
  <2>2. blocks' = [b \in Blocks |-> blocks'[b]] BY DEF ReplacePackLocators
  <2> QED BY <2>1, <2>2
<1> QED BY <1>3, <1>4, <1>5

\* Steps of a coordinator that executes maintenance
LEMMA MaintNextType ==
    ASSUME Types, NEW c \in Coords, MaintNext(c), UNCHANGED controlVars
    PROVE  Types'
<1>t. /\ coord \in [Coords -> Coordinator] /\ coord[c] \in Coordinator /\ lock \in Coords \cup {NoCoord}
      /\ job \in Job /\ runs \in [Gens -> Run] /\ snaps \in [Gens -> Snapshot]
      /\ packs \in [PackIds -> PackState] /\ blocks \in [Blocks -> PackIds \cup {NoPack}]
      /\ maint \in [MaintIds -> Maintenance] /\ schedule \in Schedule /\ source \in Tree
      /\ sched \in [Schedulers -> SchedulerLoop] /\ sched' = sched
  BY DEF Types, controlVars
<1>g. \A p \in PCs : Goto(c, p) => coord' \in [Coords -> Coordinator] BY <1>t, GotoType
<1>r. Return(c) => coord' \in [Coords -> Coordinator] /\ lock' \in Coords \cup {NoCoord} BY <1>t, ReturnType
<1>p. coord[c].pack \in PackIds \cup {NoPack} /\ coord[c].live \in SUBSET Blocks /\ coord[c].list \in SUBSET PackIds
  BY <1>t DEF Coordinator
<1>1. CASE LockMaintenance(c)
  <2>1. coord' \in [Coords -> Coordinator] BY <1>1, <1>g DEF LockMaintenance, Breaks, PCs, MaintSteps
  <2> QED BY <1>1, <1>t, <2>1 DEF LockMaintenance, Types
<1>2. CASE ExecuteMaintenance(c)
  <2> DEFINE p == CASE Kind(c) = "RETENTION" -> "expire"
                    [] Kind(c) = "COMPACTION" -> "compact"
                    [] Kind(c) = "DELETE_REPOSITORY" -> "list"
                    [] Kind(c) = "VERIFY" -> "targets"
                    [] OTHER -> "retry"
  <2>1. p \in PCs BY DEF PCs, MaintSteps
  <2>2. Goto(c, p) \/ Goto(c, "retry") BY <1>2 DEF ExecuteMaintenance, Breaks
  <2> HIDE DEF p
  <2>3. "retry" \in PCs BY DEF PCs, MaintSteps
  <2>4. coord' \in [Coords -> Coordinator] BY <1>g, <2>1, <2>2, <2>3
  <2> QED BY <1>2, <1>t, <2>4 DEF ExecuteMaintenance, Types
<1>3. CASE ApplyExpiry(c)
  <2>1. coord' \in [Coords -> Coordinator] BY <1>3, <1>g DEF ApplyExpiry, PCs, MaintSteps
  <2>2. \A g \in Gens : [snaps[g] EXCEPT !.state = "EXPIRED"] \in Snapshot BY <1>t, RowTypes
  <2>3. snaps' \in [Gens -> Snapshot] BY <1>3, <1>t, <2>2 DEF ApplyExpiry, ExpireSnapshots
  <2> QED BY <1>3, <1>t, <2>1, <2>3 DEF ApplyExpiry, Types
<1>4. CASE ListPacks(c)
  <2> DEFINE L == IF Kind(c) = "RETENTION" THEN ListReclaimablePacks ELSE ListPacksForDeletion
  <2>1. L \in SUBSET PackIds BY DEF ListReclaimablePacks, ListPacksForDeletion
  <2>2. coord' = [coord EXCEPT ![c] = [coord[c] EXCEPT !.pc = "remove", !.list = L]]
    BY <1>4, <1>t DEF ListPacks
  <2> HIDE DEF L
  <2>3. [coord[c] EXCEPT !.pc = "remove", !.list = L] \in Coordinator BY <1>t, <2>1 DEF Coordinator, MaintSteps
  <2>4. coord' \in [Coords -> Coordinator] BY <1>t, <2>2, <2>3
  <2> QED BY <1>4, <1>t, <2>4 DEF ListPacks, Types, storeVars
<1>5. CASE RemovePack(c)
  <2>1. ASSUME NEW p \in coord[c].list, coord' = [coord EXCEPT ![c].pc = "mark", ![c].pack = p]
        PROVE  coord' \in [Coords -> Coordinator]
    <3>1. [coord[c] EXCEPT !.pc = "mark", !.pack = p] \in Coordinator BY <1>t, <1>p DEF Coordinator, MaintSteps
    <3> QED BY <1>t, <2>1, <3>1
  <2>2. coord' \in [Coords -> Coordinator] BY <1>5, <2>1, <1>g DEF RemovePack, Breaks, PCs, MaintSteps
  <2> QED BY <1>5, <1>t, <2>2 DEF RemovePack, Types
<1>6. CASE MarkRemoved(c)
  <2>1. CASE Goto(c, "retry") /\ UNCHANGED <<snaps, packs, blocks>>
    <3>1. coord' \in [Coords -> Coordinator] BY <2>1, <1>g DEF PCs, MaintSteps
    <3> QED BY <1>6, <1>t, <2>1, <3>1 DEF MarkRemoved, Types
  <2>2. CASE /\ MarkPackDeleted(coord[c].pack)
             /\ coord' = [coord EXCEPT ![c].pc = "remove", ![c].list = @ \ {coord[c].pack}, ![c].pack = NoPack]
    <3>1. [coord[c] EXCEPT !.pc = "remove", !.list = @ \ {coord[c].pack}, !.pack = NoPack] \in Coordinator
      BY <1>t, <1>p DEF Coordinator, MaintSteps
    <3>2. coord' \in [Coords -> Coordinator] BY <1>t, <2>2, <3>1
    <3> QED BY <1>6, <1>t, <1>p, <2>2, <3>2, DeletedTypes DEF MarkRemoved, Types
  <2> QED BY <1>6, <2>1, <2>2 DEF MarkRemoved
<1>7. CASE EnqueueCompaction(c)
  <2>1. coord' \in [Coords -> Coordinator] BY <1>7, <1>g DEF EnqueueCompaction, PCs, MaintSteps
  <2>2. maint' \in [MaintIds -> Maintenance]
    BY <1>7, <1>t, StatementTypes DEF EnqueueCompaction, EnqueueMaintenance, Kinds
  <2> QED BY <1>7, <1>t, <2>1, <2>2 DEF EnqueueCompaction, Types
<1>8. CASE FinalizeDeletion(c)
  <2>1. CASE DeleteJobAfterCleanup /\ Return(c)
    <3>1. job' \in Job BY <1>t, <2>1, RowTypes DEF DeleteJobAfterCleanup, AtRest
    <3>2. /\ runs' \in [Gens -> Run] /\ snaps' \in [Gens -> Snapshot] /\ maint' \in [MaintIds -> Maintenance]
          /\ packs' \in [PackIds -> PackState] /\ blocks' \in [Blocks -> PackIds \cup {NoPack}]
      BY <2>1, RowTypes DEF DeleteJobAfterCleanup, PackState
    <3> QED BY <1>8, <1>t, <1>r, <2>1, <3>1, <3>2 DEF FinalizeDeletion, Types
  <2>2. CASE Goto(c, "retry") /\ UNCHANGED <<lock, job, runs, snaps, packs, blocks, maint, targets>>
    <3>1. coord' \in [Coords -> Coordinator] BY <2>2, <1>g DEF PCs, MaintSteps
    <3> QED BY <1>8, <1>t, <2>2, <3>1 DEF FinalizeDeletion, Types
  <2> QED BY <1>8, <2>1, <2>2 DEF FinalizeDeletion, Breaks
<1>9. CASE CompactOnePack(c)
  <2>1. ASSUME NEW p \in PackIds, NEW v \in SUBSET Blocks,
               coord' = [coord EXCEPT ![c].pc = "replace", ![c].pack = p, ![c].live = v]
        PROVE  coord' \in [Coords -> Coordinator]
    <3>1. [coord[c] EXCEPT !.pc = "replace", !.pack = p, !.live = v] \in Coordinator
      BY <1>t DEF Coordinator, MaintSteps
    <3> QED BY <1>t, <2>1, <3>1
  <2>2. ASSUME NEW p \in CompactionCandidates,
               coord' = [coord EXCEPT ![c].pc = "replace", ![c].pack = p, ![c].live = {b \in InPack(p) : Live(b)}]
        PROVE  coord' \in [Coords -> Coordinator]
    <3> DEFINE v == {b \in InPack(p) : Live(b)}
    <3>1. p \in PackIds /\ v \in SUBSET Blocks BY <2>2 DEF CompactionCandidates, InPack
    <3>2. coord' = [coord EXCEPT ![c].pc = "replace", ![c].pack = p, ![c].live = v] BY <2>2
    <3> HIDE DEF v
    <3> QED BY <2>1, <3>1, <3>2
  <2>3. \/ \E p \in CompactionCandidates :
               coord' = [coord EXCEPT ![c].pc = "replace", ![c].pack = p, ![c].live = {b \in InPack(p) : Live(b)}]
        \/ Goto(c, "retry") \/ Goto(c, "complete")
    BY <1>9, Zenon DEF CompactOnePack, Breaks
  <2>4. "retry" \in PCs /\ "complete" \in PCs BY DEF PCs, MaintSteps
  <2>5. coord' \in [Coords -> Coordinator] BY <2>2, <2>3, <2>4, <1>g
  <2> QED BY <1>9, <1>t, <2>5 DEF CompactOnePack, Types
<1>10. CASE ReplacePack(c)
  <2>1. coord' \in [Coords -> Coordinator] BY <1>10, <1>g DEF ReplacePack, PCs, MaintSteps
  <2>2. CASE UNCHANGED <<snaps, packs, blocks>>
    BY <1>10, <1>t, <2>1, <2>2 DEF ReplacePack, Types
  <2>3. CASE ReplacePackLocators(coord[c].pack, coord[c].live)
    BY <1>10, <1>t, <1>p, <2>1, <2>3, ReplacedTypes DEF ReplacePack, Types
  <2> QED BY <1>10, <2>2, <2>3 DEF ReplacePack
<1>11. CASE RetirePack(c)
  <2>1. coord' \in [Coords -> Coordinator] BY <1>11, <1>g DEF RetirePack, Breaks, PCs, MaintSteps
  <2> QED BY <1>11, <1>t, <2>1 DEF RetirePack, Types
<1>12. CASE MarkRetired(c)
  <2>1. coord' \in [Coords -> Coordinator] BY <1>12, <1>g DEF MarkRetired, PCs, MaintSteps
  <2>2. CASE UNCHANGED <<snaps, packs, blocks>>
    BY <1>12, <1>t, <2>1, <2>2 DEF MarkRetired, Types
  <2>3. CASE MarkPackDeleted(coord[c].pack)
    BY <1>12, <1>t, <1>p, <2>1, <2>3, DeletedTypes DEF MarkRetired, Types
  <2> QED BY <1>12, <2>2, <2>3 DEF MarkRetired
<1>13. CASE CopyTargets(c)
  <2>1. coord' \in [Coords -> Coordinator] BY <1>13, <1>g DEF CopyTargets, PCs, MaintSteps
  <2> QED BY <1>13, <1>t, <2>1 DEF CopyTargets, Types
<1>14. CASE ClaimTarget(c)
  <2>1. ASSUME NEW p \in PackIds, coord' = [coord EXCEPT ![c].pc = "check", ![c].pack = p]
        PROVE  coord' \in [Coords -> Coordinator]
    <3>1. [coord[c] EXCEPT !.pc = "check", !.pack = p] \in Coordinator BY <1>t DEF Coordinator, MaintSteps
    <3> QED BY <1>t, <2>1, <3>1
  <2>2. coord' \in [Coords -> Coordinator] BY <1>14, <2>1, <1>g DEF ClaimTarget, PCs, MaintSteps
  <2> QED BY <1>14, <1>t, <2>2 DEF ClaimTarget, Types
<1>15. CASE CheckTarget(c)
  <2>1. coord' \in [Coords -> Coordinator] BY <1>15, <1>g DEF CheckTarget, Breaks, PCs, MaintSteps
  <2> QED BY <1>15, <1>t, <2>1 DEF CheckTarget, Types
<1>16. CASE MarkTargetDamaged(c)
  <2>1. coord' \in [Coords -> Coordinator] BY <1>16, <1>g DEF MarkTargetDamaged, PCs, MaintSteps
  <2>2. packs' \in [PackIds -> PackState] BY <1>16, <1>t DEF MarkTargetDamaged, MarkPackDamaged, PackState
  <2>3. \A g \in Gens : [snaps[g] EXCEPT !.state = "DAMAGED"] \in Snapshot BY <1>t, RowTypes
  <2>4. snaps' \in [Gens -> Snapshot] BY <1>16, <1>t, <2>3 DEF MarkTargetDamaged, MarkPackDamaged
  <2> QED BY <1>16, <1>t, <2>1, <2>2, <2>4 DEF MarkTargetDamaged, Types
<1>17. CASE AdvanceCursor(c)
  <2>1. coord' \in [Coords -> Coordinator] BY <1>17, <1>g DEF AdvanceCursor, PCs, MaintSteps
  <2> DEFINE m == coord[c].maint
             v == maint[m].lease \/ maint[m].state = "RUNNING"
  <2>2. maint' = [maint EXCEPT ![m] = [maint[m] EXCEPT !.lease = v]] BY <1>17 DEF AdvanceCursor
  <2>3. v \in BOOLEAN OBVIOUS
  <2> HIDE DEF m, v
  <2>4. m \in MaintIds => [maint[m] EXCEPT !.lease = v] \in Maintenance BY <1>t, <2>3, MaintTypes
  <2>5. maint' \in [MaintIds -> Maintenance] BY <1>t, <2>2, <2>4
  <2> QED BY <1>17, <1>t, <2>1, <2>5 DEF AdvanceCursor, Types
<1>18. CASE CompleteVerify(c) \/ FinishMaintenance(c)
  <2>1. \/ Goto(c, "retry") /\ UNCHANGED <<maint, lock>>
        \/ Return(c) /\ (CompleteMaintenance(coord[c].maint) \/ RetryMaintenance(coord[c].maint))
    BY <1>18 DEF CompleteVerify, FinishMaintenance
  <2>2. coord' \in [Coords -> Coordinator] /\ lock' \in Coords \cup {NoCoord}
    BY <2>1, <1>t, <1>g, <1>r DEF PCs, MaintSteps
  <2> DEFINE m == coord[c].maint
             x == maint[m].state
  <2>3. PICK v : /\ maint' = maint \/ maint' = [maint EXCEPT ![m] = [maint[m] EXCEPT !.state = v]]
                 /\ v \in {x, "COMPLETED", "CANCELLED", "RETRY_WAIT"}
    BY <2>1 DEF CompleteMaintenance, RetryMaintenance
  <2> HIDE DEF m
  <2>4. m \in MaintIds => [maint[m] EXCEPT !.state = v] \in Maintenance
    BY <1>t, <2>3 DEF Maintenance, Open
  <2>5. maint' \in [MaintIds -> Maintenance] BY <1>t, <2>3, <2>4
  <2> QED BY <1>18, <1>t, <2>2, <2>5 DEF CompleteVerify, FinishMaintenance, Types
<1> QED BY <1>1, <1>2, <1>3, <1>4, <1>5, <1>6, <1>7, <1>8, <1>9, <1>10, <1>11, <1>12, <1>13, <1>14,
           <1>15, <1>16, <1>17, <1>18 DEF MaintNext

LEMMA TimeType ==
    ASSUME Types, TimePasses
    PROVE  Types'
<1>1. ASSUME NEW g \in Gens, RunGoesSilent(g), UNCHANGED controlVars PROVE Types'
  <2>1. [runs[g] EXCEPT !.fresh = FALSE] \in Run BY RowTypes DEF Types, Queueing
  <2>2. runs' \in [Gens -> Run] BY <1>1, <2>1 DEF Types, RunGoesSilent
  <2> QED BY <1>1, <2>2 DEF Types, RunGoesSilent, coordVars, controlVars
<1>2. ASSUME NEW m \in MaintIds, CheckGoesSilent(m), UNCHANGED controlVars PROVE Types'
  <2>1. [maint[m] EXCEPT !.lease = FALSE] \in Maintenance BY MaintTypes DEF Types
  <2>2. maint' \in [MaintIds -> Maintenance] BY <1>2, <2>1 DEF Types, CheckGoesSilent
  <2> QED BY <1>2, <2>2 DEF Types, CheckGoesSilent, coordVars, controlVars
<1>3. ASSUME NEW m \in MaintIds, NEW p \in PackIds, TargetLapses(m, p), UNCHANGED controlVars PROVE Types'
  BY <1>3 DEF Types, TargetLapses, coordVars, controlVars
<1> QED BY <1>1, <1>2, <1>3 DEF TimePasses

LEMMA PassType ==
    ASSUME Types, NEW k \in Nat, ClaimBackupJobPass(k)
    PROVE  job' \in Job /\ runs' \in [Gens -> Run] /\ Queues
<1> DEFINE n == job.gen + 1
<1>1. n \in Nat /\ n \in Gens /\ n \in 0..MaxRuns
  BY BackupAssumption DEF Types, ClaimBackupJobPass, Job, Gens
<1>2. runs' = [runs EXCEPT ![n] = [state |-> "QUEUED", fresh |-> TRUE, key |-> k]] BY DEF ClaimBackupJobPass
<1>3. job' = [job EXCEPT !.status = "QUEUED", !.gen = n] BY DEF ClaimBackupJobPass, Types, Job
<1>s. job.status \in {"IDLE", "FAILED"} BY DEF ClaimBackupJobPass, ClaimOverlap, ClaimBlocked
<1>q. n = job.gen + 1 OBVIOUS
<1> HIDE DEF n
<1>4. [state |-> "QUEUED", fresh |-> TRUE, key |-> k] \in Run BY DEF Run, Queueing
<1>5. job' \in Job BY <1>1, <1>3 DEF Types, Job, Queueing
<1>6. runs' \in [Gens -> Run] BY <1>1, <1>2, <1>4 DEF Types
<1>7. job'.gen = n /\ job'.status = "QUEUED" BY <1>3 DEF Types, Job
<1>8. \A g \in Gens : runs'[g].state = IF g = n THEN "QUEUED" ELSE runs[g].state
  BY <1>1, <1>2 DEF Types
<1> QED BY <1>1, <1>5, <1>6, <1>7, <1>8, <1>s, <1>q DEF Queues

LEMMA UsersType ==
    ASSUME Types, Users
    PROVE  Types'
<1>t. /\ coord \in [Coords -> Coordinator] /\ lock \in Coords \cup {NoCoord}
      /\ job \in Job /\ runs \in [Gens -> Run] /\ snaps \in [Gens -> Snapshot]
      /\ packs \in [PackIds -> PackState] /\ blocks \in [Blocks -> PackIds \cup {NoPack}]
      /\ maint \in [MaintIds -> Maintenance] /\ schedule \in Schedule /\ source \in Tree
      /\ sched \in [Schedulers -> SchedulerLoop]
  BY DEF Types
<1>a. \A x \in Schedule, b \in BOOLEAN : [x EXCEPT !.active = b] \in Schedule BY DEF Schedule
<1>b. [schedule EXCEPT !.active = TRUE] \in Schedule /\ [schedule EXCEPT !.active = FALSE] \in Schedule
  BY <1>a, <1>t
<1>1. CASE HandleRunBackup
  BY <1>1, <1>t, PassType DEF HandleRunBackup, Request, coordVars, Types
<1>2. CASE HandlePauseBackup
  <2>1. job' \in Job BY <1>2, <1>t, RowTypes DEF HandlePauseBackup, AtRest
  <2>2. runs' \in [Gens -> Run] BY <1>2, StatementTypes DEF HandlePauseBackup
  <2> QED BY <1>2, <1>t, <1>b, <2>1, <2>2 DEF HandlePauseBackup, Request, coordVars, Types
<1>3. CASE HandleResumeBackup
  <2>1. job' \in Job BY <1>3, <1>t, RowTypes DEF HandleResumeBackup, AtRest
  <2>2. schedule' \in Schedule BY <1>3, <1>t DEF HandleResumeBackup, Schedule
  <2> QED BY <1>3, <1>t, <2>1, <2>2 DEF HandleResumeBackup, Request, coordVars, Types
<1>4. CASE HandleDeleteBackup
  <2>1. job' \in Job BY <1>4, <1>t DEF HandleDeleteBackup, Job
  <2>2. runs' \in [Gens -> Run] BY <1>4, StatementTypes DEF HandleDeleteBackup
  <2>3. \A g \in Gens : [snaps[g] EXCEPT !.state = "EXPIRED"] \in Snapshot BY <1>t, RowTypes
  <2>4. snaps' \in [Gens -> Snapshot] BY <1>4, <1>t, <2>3 DEF HandleDeleteBackup
  <2>5. maint' \in [MaintIds -> Maintenance] BY <1>4, StatementTypes DEF HandleDeleteBackup, Kinds
  <2> QED BY <1>4, <1>t, <1>b, <2>1, <2>2, <2>4, <2>5 DEF HandleDeleteBackup, Request, coordVars, Types
<1>5. CASE HandleCreateBackupVerify
  <2>1. maint' \in [MaintIds -> Maintenance]
    BY <1>5, StatementTypes DEF HandleCreateBackupVerify, CreateBackupVerify, Kinds
  <2> QED BY <1>5, <1>t, <2>1 DEF HandleCreateBackupVerify, Request, coordVars, Types
<1>6. CASE HandleCancelBackupVerify
  <2>1. PICK m \in MaintIds : CancelBackupVerify(m) BY <1>6 DEF HandleCancelBackupVerify
  <2>2. PICK s \in {"CANCELLING", "CANCELLED"} : maint' = [maint EXCEPT ![m] = [maint[m] EXCEPT !.state = s]]
    BY <2>1 DEF CancelBackupVerify
  <2>3. [maint[m] EXCEPT !.state = s] \in Maintenance BY <1>t, MaintTypes DEF Open
  <2>4. maint' \in [MaintIds -> Maintenance] BY <1>t, <2>2, <2>3
  <2> QED BY <1>6, <1>t, <2>4 DEF HandleCancelBackupVerify, Request, coordVars, Types
<1>7. CASE SuspendUser
  <2>1. PICK s : s = (IF job.status \in Queueing THEN "PAUSED" ELSE job.status) OBVIOUS
  <2>2. job' = [job EXCEPT !.status = s] BY <1>7, <2>1 DEF SuspendUser
  <2>3. s \in Queueing \cup AtRest BY <1>t, <2>1 DEF Job, AtRest
  <2>4. job' \in Job BY <1>t, <2>2, <2>3, RowTypes
  <2>5. runs' \in [Gens -> Run] BY <1>7, StatementTypes DEF SuspendUser
  <2>6. \A m \in MaintIds : [maint[m] EXCEPT !.state = "CANCELLED"] \in Maintenance BY <1>t, MaintTypes
  <2>7. maint' \in [MaintIds -> Maintenance] BY <1>7, <1>t, <2>6 DEF SuspendUser
  <2> QED BY <1>7, <1>t, <1>b, <2>4, <2>5, <2>7 DEF SuspendUser, coordVars, Types
<1>8. CASE ReactivateUser
  BY <1>8, <1>t, <1>b DEF ReactivateUser, coordVars, Types
<1> QED BY <1>1, <1>2, <1>3, <1>4, <1>5, <1>6, <1>7, <1>8 DEF Users

LEMMA SchedulerType ==
    ASSUME Types, NEW s \in Schedulers, SchedulerStep(s) \/ SchedulerDies(s)
    PROVE  Types'
<1>t. /\ coord \in [Coords -> Coordinator] /\ lock \in Coords \cup {NoCoord}
      /\ job \in Job /\ runs \in [Gens -> Run] /\ snaps \in [Gens -> Snapshot]
      /\ packs \in [PackIds -> PackState] /\ blocks \in [Blocks -> PackIds \cup {NoPack}]
      /\ maint \in [MaintIds -> Maintenance] /\ schedule \in Schedule /\ source \in Tree
      /\ sched \in [Schedulers -> SchedulerLoop] /\ sched[s].key \in Nat /\ schedule.key \in Nat
  BY DEF Types, SchedulerLoop, Schedule
<1>a. \A pc \in {"idle", "trigger", "advance", "deactivate"}, k \in Nat :
         Step(s, pc, k) => sched' \in [Schedulers -> SchedulerLoop]
  BY <1>t DEF Step, SchedulerLoop
<1>1. CASE ProcessSchedule(s)
  <2>1. sched' \in [Schedulers -> SchedulerLoop] BY <1>1, <1>t, <1>a DEF ProcessSchedule
  <2> QED BY <1>1, <1>t, <2>1 DEF ProcessSchedule, coordVars, storeVars, Types
<1>2. CASE TriggerBackup(s)
  <2>1. sched' \in [Schedulers -> SchedulerLoop] BY <1>2, <1>t, <1>a DEF TriggerBackup
  <2>2. job' \in Job /\ runs' \in [Gens -> Run] BY <1>2, <1>t, PassType DEF TriggerBackup
  <2> QED BY <1>2, <1>t, <2>1, <2>2 DEF TriggerBackup, coordVars, Types
<1>3. CASE AdvanceSchedule(s)
  <2>1. sched' \in [Schedulers -> SchedulerLoop] BY <1>3, <1>a DEF AdvanceSchedule
  <2> DEFINE n == schedule.key + 1
  <2>n. n \in Nat BY <1>t
  <2>s. schedule' = schedule \/ schedule' = [schedule EXCEPT !.due = FALSE, !.key = n] BY <1>3 DEF AdvanceSchedule
  <2> HIDE DEF n
  <2>2. schedule' \in Schedule BY <1>t, <2>n, <2>s DEF Schedule
  <2> QED BY <1>3, <1>t, <2>1, <2>2 DEF AdvanceSchedule, coordVars, Types
<1>4. CASE DeactivateSchedule(s)
  <2>1. sched' \in [Schedulers -> SchedulerLoop] BY <1>4, <1>a DEF DeactivateSchedule
  <2>2. schedule' \in Schedule BY <1>4, <1>t DEF DeactivateSchedule, Schedule
  <2> QED BY <1>4, <1>t, <2>1, <2>2 DEF DeactivateSchedule, coordVars, Types
<1>5. CASE SchedulerDies(s)
  <2>1. sched' \in [Schedulers -> SchedulerLoop] BY <1>5, <1>a DEF SchedulerDies
  <2> QED BY <1>5, <1>t, <2>1 DEF SchedulerDies, coordVars, Types
<1> QED BY <1>1, <1>2, <1>3, <1>4, <1>5 DEF SchedulerStep

LEMMA EnvironmentType ==
    ASSUME Types, Environment
    PROVE  Types'
<1>1. CASE ScheduleBecomesDue
  <2>1. schedule' \in Schedule BY <1>1 DEF Types, ScheduleBecomesDue, Schedule
  <2> QED BY <1>1, <2>1 DEF ScheduleBecomesDue, coordVars, Types
<1>2. CASE PlanRestore BY <1>2 DEF PlanRestore, coordVars, Types
<1>3. CASE FinishRestore BY <1>3 DEF FinishRestore, coordVars, controlVars, Types
<1>4. CASE SourceChanges
  <2>1. source' \in Tree BY <1>4 DEF Types, SourceChanges, Tree
  <2> QED BY <1>4, <2>1 DEF SourceChanges, coordVars, Types
<1>5. CASE PackDestroyed BY <1>5 DEF PackDestroyed, coordVars, controlVars, Types
<1> QED BY <1>1, <1>2, <1>3, <1>4, <1>5 DEF Environment

LEMMA AliveType ==
    ASSUME Types, ClaimsHeld, NEW c \in Coords, Heartbeat(c) \/ Crash(c), UNCHANGED controlVars
    PROVE  Types'
<1>1. CASE Heartbeat(c)
  <2>1. coord[c].gen \in Gens BY <1>1 DEF Heartbeat, ClaimsHeld, Claimed, Executes
  <2>2. [runs[coord[c].gen] EXCEPT !.fresh = TRUE] \in Run BY <2>1, RowTypes DEF Types, Queueing
  <2>3. runs' \in [Gens -> Run] BY <1>1, <2>1, <2>2 DEF Types, Heartbeat, TouchBackupRun
  <2> QED BY <1>1, <2>3 DEF Types, Heartbeat, coordVars, controlVars
<1>2. CASE Crash(c)
  <2>1. Idle(FALSE) \in Coordinator BY CoordTypes
  <2> QED BY <1>2, <2>1 DEF Types, Crash, controlVars
<1> QED BY <1>1, <1>2

LEMMA NextType ==
    ASSUME Types, ClaimsHeld, Next
    PROVE  Types'
BY RunNextType, MaintNextType, TimeType, UsersType, SchedulerType, EnvironmentType, AliveType
   DEF Next, CoordinatorStep

-----------------------------------------------------------------------------
(* Every step changes the job and its runs in one of the five ways *)

LEMMA SamesIsRowStep == ASSUME UNCHANGED <<job, runs>> PROVE RowStep
BY DEF RowStep, Sames

LEMMA TransitionAdvances ==
    ASSUME Types, NEW g \in Gens, NEW from \in Queueing, NEW to \in Active, TransitionBackupRun(g, from, to)
    PROVE  Advances(g, to)
<1>1. job' = [job EXCEPT !.status = to] /\ job \in Job /\ to \in Queueing BY DEF Types, TransitionBackupRun, Queueing
<1>2. job'.status = to /\ job'.gen = job.gen BY <1>1 DEF Job
<1>3. \A h \in Gens : runs'[h].state = IF h = g THEN to ELSE runs[h].state
  BY DEF Types, TransitionBackupRun, Run
<1> QED BY <1>2, <1>3 DEF TransitionBackupRun, CanTransition, Advances

LEMMA CompletionAdvances ==
    ASSUME Types, NEW g \in Gens, NEW from \in Active, NEW to \in Ended, NEW j \in {"IDLE", "FAILED"},
           CanTransition(g, from), runs' = [runs EXCEPT ![g].state = to], job' = [job EXCEPT !.status = j]
    PROVE  Advances(g, to)
<1>1. job \in Job /\ j \in AtRest BY DEF Types, AtRest
<1>2. job'.status = j /\ job'.gen = job.gen BY <1>1 DEF Job
<1>3. \A h \in Gens : runs'[h].state = IF h = g THEN to ELSE runs[h].state BY DEF Types, Run
<1> QED BY <1>2, <1>3 DEF CanTransition, Advances, Queueing

LEMMA CancellingStops ==
    ASSUME Types, NEW j \in AtRest, job'.status = j, job'.gen = job.gen, runs' = CancelledRuns,
           job.status \in {"DELETING", "GONE"} => j = job.status,
           j \in {"DELETING", "GONE"} => j = job.status \/ NoneVisible'
    PROVE  Stops
<1>1. \A g \in Gens : runs'[g].state = IF runs[g].state \in Queueing THEN "CANCELLED" ELSE runs[g].state
  BY DEF Types, Run, CancelledRuns
<1> QED BY <1>1 DEF Stops

LEMMA RunRowStep ==
    ASSUME JobInv, NEW c \in Coords, RunNext(c)
    PROVE  RowStep
<1>t. job \in Job /\ runs \in [Gens -> Run] BY DEF JobInv, Types
<1>x. Executes(c) => coord[c].gen \in Gens /\ coord[c].st \in Active BY DEF JobInv, ClaimsHeld, Claimed
<1>1. CASE PollRecover(c)
  <2>1. CASE StaleRuns = {}
    BY <1>1, <1>t, <2>1 DEF PollRecover, RecoverStaleBackupRuns, RowStep, Sames
  <2>2. ASSUME NEW g \in StaleRuns PROVE RowStep
    <3>1. g \in Gens /\ runs[g].state \in Queueing /\ job.gen = g /\ job.status \in Queueing
      BY DEF StaleRuns, Queueing
    <3>2. \A h \in Gens : h \in StaleRuns <=> h = g BY <3>1, <2>2 DEF StaleRuns
    <3>3. \A h \in Gens : runs'[h].state = IF h = g THEN "FAILED" ELSE runs[h].state
      BY <1>1, <1>t, <3>2 DEF PollRecover, RecoverStaleBackupRuns, Run
    <3>4. job'.gen = job.gen /\ job'.status = "FAILED"
      BY <1>1, <1>t, <2>2 DEF PollRecover, RecoverStaleBackupRuns, Job
    <3>5. Advances(g, "FAILED") BY <3>1, <3>3, <3>4 DEF Advances, Ended
    <3> QED BY <3>1, <3>5 DEF RowStep, Ended
  <2> QED BY <2>1, <2>2
<1>2. CASE PollRun(c)
  <2>1. PICK g \in Gens : ClaimNextQueuedBackupRun(g) BY <1>2 DEF PollRun
  <2>2. \A h \in Gens : runs'[h].state = IF h = g THEN "SCANNING" ELSE runs[h].state
    BY <1>t, <2>1 DEF ClaimNextQueuedBackupRun, Run
  <2>3. job'.status = "SCANNING" /\ job'.gen = job.gen BY <1>t, <2>1 DEF ClaimNextQueuedBackupRun, Job
  <2>4. Advances(g, "SCANNING") BY <2>1, <2>2, <2>3 DEF ClaimNextQueuedBackupRun, Advances, Queueing, Active
  <2> QED BY <2>4 DEF RowStep, Active
<1>3. CASE StartTransfer(c) \/ StartVerify(c)
  <2>1. coord[c].gen \in Gens BY <1>3, <1>x DEF StartTransfer, StartVerify, At, Executes, RunSteps
  <2>2. \/ UNCHANGED <<job, runs>>
        \/ TransitionBackupRun(coord[c].gen, "SCANNING", "RUNNING")
        \/ TransitionBackupRun(coord[c].gen, "RUNNING", "VERIFYING")
    BY <1>3 DEF StartTransfer, StartVerify
  <2>3. UNCHANGED <<job, runs>> \/ (\E to \in Active : Advances(coord[c].gen, to))
    BY <2>1, <2>2, TransitionAdvances DEF JobInv, Active, Queueing
  <2> QED BY <2>1, <2>3, SamesIsRowStep DEF RowStep
<1>4. CASE PublishSnapshot(c)
  <2>1. coord[c].gen \in Gens BY <1>4, <1>x DEF PublishSnapshot, At, Executes, RunSteps
  <2>2. CASE UNCHANGED <<job, runs>> BY <2>2, SamesIsRowStep
  <2>3. CASE PublishSnapshotAndFinalize(coord[c].gen, coord[c].partial)
    <3>1. PICK r \in {"PARTIAL", "COMPLETED"} : runs' = [runs EXCEPT ![coord[c].gen].state = r]
      BY <2>3 DEF PublishSnapshotAndFinalize
    <3>2. CanTransition(coord[c].gen, "VERIFYING") /\ job' = [job EXCEPT !.status = "IDLE"]
      BY <2>3 DEF PublishSnapshotAndFinalize, CanPublish
    <3>3. Advances(coord[c].gen, r)
      BY <2>1, <3>1, <3>2, CompletionAdvances DEF JobInv, Active, Ended
    <3> QED BY <2>1, <3>3 DEF RowStep, Ended
  <2> QED BY <1>4, <2>2, <2>3 DEF PublishSnapshot
<1>5. CASE FailRun(c) \/ CancelRun(c)
  <2>1. coord[c].gen \in Gens /\ coord[c].st \in Active
    BY <1>5, <1>x DEF FailRun, CancelRun, At, Executes, RunSteps
  <2>2. PICK to \in {"FAILED", "CANCELLED"}, j \in {"FAILED", "IDLE"} :
           CompleteBackupRun(coord[c].gen, coord[c].st, to, j)
    BY <1>5 DEF FailRun, CancelRun
  <2>3. CASE ~CanTransition(coord[c].gen, coord[c].st)
    BY <2>2, <2>3, SamesIsRowStep DEF CompleteBackupRun
  <2>4. CASE CanTransition(coord[c].gen, coord[c].st)
    <3>1. Advances(coord[c].gen, to)
      BY <2>1, <2>2, <2>4, CompletionAdvances DEF JobInv, CompleteBackupRun, Ended
    <3> QED BY <2>1, <3>1 DEF RowStep, Ended
  <2> QED BY <2>3, <2>4
<1>6. CASE \/ PollMaintenance(c) \/ PollNothing(c) \/ LockRun(c) \/ OpenRepository(c) \/ ScanFiles(c)
           \/ CreateDraft(c) \/ LoadPrevious(c) \/ Superseded(c) \/ BackupFile(c) \/ FilesDone(c)
           \/ FlushUpload(c) \/ FlushRecord(c) \/ StillActive(c) \/ WriteCatalog(c) \/ VerifySample(c)
  <2>1. UNCHANGED <<job, runs>>
    BY <1>6 DEF PollMaintenance, PollNothing, LockRun, OpenRepository, ScanFiles, CreateDraft, LoadPrevious,
                Superseded, BackupFile, FilesDone, FlushUpload, FlushRecord, StillActive, WriteCatalog,
                VerifySample, storeVars
  <2> QED BY <2>1, SamesIsRowStep, SMTT(40)
<1> QED BY <1>1, <1>2, <1>3, <1>4, <1>5, <1>6 DEF RunNext

LEMMA MaintRowStep ==
    ASSUME JobInv, NEW c \in Coords, MaintNext(c)
    PROVE  RowStep
<1>1. CASE FinalizeDeletion(c)
  <2>1. CASE UNCHANGED <<job, runs>> BY <2>1, SamesIsRowStep
  <2>2. CASE DeleteJobAfterCleanup
    <3>1. job'.status = "GONE" /\ job'.gen = job.gen BY <2>2 DEF JobInv, Types, Job, DeleteJobAfterCleanup
    <3>2. \A g \in Gens : runs'[g].state = "NONE" BY <2>2 DEF DeleteJobAfterCleanup, NoRun
    <3>3. NoneVisible' BY <2>2, SMTT(40) DEF DeleteJobAfterCleanup, NoSnap, NoneVisible, Visible
    <3> QED BY <3>1, <3>2, <3>3 DEF RowStep, Vanishes
  <2> QED BY <1>1, <2>1, <2>2 DEF FinalizeDeletion
<1>2. CASE \/ LockMaintenance(c) \/ ExecuteMaintenance(c) \/ ApplyExpiry(c) \/ ListPacks(c)
           \/ RemovePack(c) \/ MarkRemoved(c) \/ EnqueueCompaction(c)
           \/ CompactOnePack(c) \/ ReplacePack(c) \/ RetirePack(c) \/ MarkRetired(c)
           \/ CopyTargets(c) \/ ClaimTarget(c) \/ CheckTarget(c) \/ MarkTargetDamaged(c)
           \/ AdvanceCursor(c) \/ CompleteVerify(c) \/ FinishMaintenance(c)
  <2>1. UNCHANGED <<job, runs>>
    BY <1>2 DEF LockMaintenance, ExecuteMaintenance, ApplyExpiry, ListPacks, RemovePack, MarkRemoved,
                EnqueueCompaction, CompactOnePack, ReplacePack, RetirePack, MarkRetired, CopyTargets,
                ClaimTarget, CheckTarget, MarkTargetDamaged, AdvanceCursor, CompleteVerify, FinishMaintenance,
                storeVars
  <2> QED BY <2>1, SamesIsRowStep
<1> QED BY <1>1, <1>2 DEF MaintNext

LEMMA OtherRowStep ==
    ASSUME JobInv
    PROVE  /\ TimePasses \/ Users \/ Environment => RowStep
           /\ \A s \in Schedulers : SchedulerStep(s) \/ SchedulerDies(s) => RowStep
           /\ \A c \in Coords : Heartbeat(c) \/ Crash(c) => RowStep
<1>t. job \in Job /\ runs \in [Gens -> Run] BY DEF JobInv, Types
<1>q. \A k \in Nat : ClaimBackupJobPass(k) => RowStep BY PassType DEF JobInv, RowStep
<1>1. CASE TimePasses
  <2>1. \A g \in Gens : RunGoesSilent(g) => RowStep BY <1>t DEF RunGoesSilent, RowStep, Sames, Run
  <2>2. \A m \in MaintIds : CheckGoesSilent(m) => RowStep BY SamesIsRowStep DEF CheckGoesSilent
  <2>3. \A m \in MaintIds, p \in PackIds : TargetLapses(m, p) => RowStep BY SamesIsRowStep DEF TargetLapses
  <2> QED BY <1>1, <2>1, <2>2, <2>3 DEF TimePasses
<1>2. CASE HandleRunBackup BY <1>2, <1>q DEF HandleRunBackup
<1>3. CASE HandlePauseBackup
  <2>1. job'.status = "PAUSED" /\ job'.gen = job.gen BY <1>3, <1>t DEF HandlePauseBackup, Job
  <2>2. Stops BY <1>3, <2>1, CancellingStops DEF HandlePauseBackup, AtRest, JobInv, Queueing, Active
  <2> QED BY <2>2 DEF RowStep
<1>4. CASE HandleResumeBackup
  <2>1. job'.status = "IDLE" /\ job'.gen = job.gen BY <1>4, <1>t DEF HandleResumeBackup, Job
  <2>2. \A g \in Gens : runs[g].state \notin Queueing
    BY <1>4 DEF HandleResumeBackup, JobInv, OpenRunIsCurrent, Queueing, Active
  <2>3. Stops BY <1>4, <2>1, <2>2 DEF HandleResumeBackup, Stops, AtRest
  <2> QED BY <2>3 DEF RowStep
<1>5. CASE HandleDeleteBackup
  <2>1. job'.status = "DELETING" /\ job'.gen = job.gen BY <1>5, <1>t DEF HandleDeleteBackup, Job
  <2>v. NoneVisible'
    <3>1. \A g \in Gens : [snaps[g] EXCEPT !.state = "EXPIRED"].state = "EXPIRED" BY DEF JobInv, Types, Snapshot
    <3> QED BY <1>5, <3>1 DEF HandleDeleteBackup, NoneVisible, Visible
  <2>2. Stops BY <1>5, <2>1, <2>v, CancellingStops DEF HandleDeleteBackup, AtRest, JobInv
  <2> QED BY <2>2 DEF RowStep
<1>6. CASE SuspendUser
  <2> DEFINE j == IF job.status \in Queueing THEN "PAUSED" ELSE job.status
  <2>0. j \in AtRest BY <1>t DEF Job, AtRest
  <2>1. job'.status = j /\ job'.gen = job.gen BY <1>6, <1>t DEF SuspendUser, Job
  <2>2. /\ job.status \in {"DELETING", "GONE"} => j = job.status
        /\ j \in {"DELETING", "GONE"} => j = job.status
    BY DEF Queueing, Active
  <2> HIDE DEF j
  <2>3. Stops BY <1>6, <2>0, <2>1, <2>2, CancellingStops DEF SuspendUser, JobInv
  <2> QED BY <2>3 DEF RowStep
<1>7. CASE HandleCreateBackupVerify \/ HandleCancelBackupVerify \/ ReactivateUser
  <2>1. UNCHANGED <<job, runs>>
    BY <1>7 DEF HandleCreateBackupVerify, HandleCancelBackupVerify, ReactivateUser
  <2> QED BY <2>1, SamesIsRowStep
<1>8. CASE Environment
  <2>1. UNCHANGED <<job, runs>>
    BY <1>8 DEF Environment, ScheduleBecomesDue, PlanRestore, FinishRestore, SourceChanges, PackDestroyed
  <2> QED BY <2>1, SamesIsRowStep
<1>9. ASSUME NEW s \in Schedulers, SchedulerStep(s) \/ SchedulerDies(s) PROVE RowStep
  <2>1. CASE TriggerBackup(s)
    <3>1. sched[s].key \in Nat BY DEF JobInv, Types, SchedulerLoop
    <3>2. ClaimBackupJobPass(sched[s].key) \/ UNCHANGED <<job, runs>> BY <2>1 DEF TriggerBackup
    <3> QED BY <3>1, <3>2, <1>q, SamesIsRowStep
  <2>2. CASE ProcessSchedule(s) \/ AdvanceSchedule(s) \/ DeactivateSchedule(s) \/ SchedulerDies(s)
    <3>1. UNCHANGED <<job, runs>>
      BY <2>2 DEF ProcessSchedule, AdvanceSchedule, DeactivateSchedule, SchedulerDies, storeVars
    <3> QED BY <3>1, SamesIsRowStep
  <2> QED BY <1>9, <2>1, <2>2 DEF SchedulerStep
<1>10. ASSUME NEW c \in Coords, Heartbeat(c) \/ Crash(c) PROVE RowStep
  <2>1. CASE Heartbeat(c)
    <3>1. coord[c].gen \in Gens BY <2>1 DEF Heartbeat, JobInv, ClaimsHeld, Claimed, Executes
    <3>2. \A g \in Gens : runs'[g].state = runs[g].state
      BY <1>t, <2>1, <3>1 DEF Heartbeat, TouchBackupRun, Run
    <3> QED BY <2>1, <3>2 DEF Heartbeat, RowStep, Sames
  <2>2. CASE Crash(c) BY <2>2, SamesIsRowStep DEF Crash
  <2> QED BY <1>10, <2>1, <2>2
<1> QED BY <1>1, <1>2, <1>3, <1>4, <1>5, <1>6, <1>7, <1>8, <1>9, <1>10 DEF Users

LEMMA RowSteps == ASSUME JobInv, Next PROVE RowStep
BY RunRowStep, MaintRowStep, OtherRowStep DEF Next, CoordinatorStep

-----------------------------------------------------------------------------
(* Coordinators and the runs they execute *)

\* What a coordinator's step leaves of the run it executes
GoesOn(c) ==
    /\ Executes(c)
    /\ coord'[c].gen = coord[c].gen /\ coord'[c].st \in Active
    /\ \A f \in coord'[c].todo : coord'[c].tree[f] # NoBlock

TakesUp(c) ==
    /\ coord'[c].gen \in Gens /\ runs[coord'[c].gen].state = "QUEUED" /\ runs'[coord'[c].gen].state = "SCANNING"
    /\ coord'[c].st \in Active /\ coord'[c].todo = {}

OthersStay(c) == \A d \in Coords : d # c => coord'[d] = coord[d]

LocalStep(c) == OthersStay(c) /\ (GoesOn(c) \/ TakesUp(c) \/ coord'[c].pc \notin RunSteps)

\* Fields of the local state after Goto and Return
LEMMA GotoFields ==
    ASSUME Types, NEW c \in Coords, NEW p, Goto(c, p)
    PROVE  /\ OthersStay(c) /\ coord'[c].pc = p
           /\ coord'[c].gen = coord[c].gen /\ coord'[c].st = coord[c].st /\ coord'[c].todo = coord[c].todo
           /\ coord'[c].tree = coord[c].tree /\ coord'[c].prev = coord[c].prev /\ coord'[c].got = coord[c].got
           /\ coord'[c].pend = coord[c].pend /\ coord'[c].carry = coord[c].carry
           /\ coord'[c].partial = coord[c].partial /\ coord'[c].maint = coord[c].maint
           /\ coord'[c].list = coord[c].list /\ coord'[c].pack = coord[c].pack /\ coord'[c].live = coord[c].live
<1>1. coord'[c] = [coord[c] EXCEPT !.pc = p] /\ OthersStay(c) BY DEF Goto, Types, OthersStay
<1>2. coord[c] \in Coordinator BY DEF Types
<1> QED BY <1>1, <1>2 DEF Coordinator

LEMMA ReturnFields ==
    ASSUME Types, NEW c \in Coords, Return(c)
    PROVE  OthersStay(c) /\ coord'[c].pc = "idle" /\ coord'[c].maint = 0
BY DEF Return, Types, OthersStay, Idle

LEMMA FailFields ==
    ASSUME Types, ClaimsHeld, NEW c \in Coords, Executes(c), NEW p, Goto(c, p)
    PROVE  LocalStep(c)
BY GotoFields DEF ClaimsHeld, Claimed, LocalStep, GoesOn

\* What becomes of the fields of the local state with a file
LEMMA FileFields ==
    ASSUME NEW c \in Coords, NEW f \in coord[c].todo, coord[c] \in Coordinator, coord[c].tree[f] # NoBlock
    PROVE  LET l == coord[c]
               b == coord[c].tree[f]
               n == FileOutcome(c, f)
           IN  /\ n.gen = l.gen /\ n.st = l.st /\ n.tree = l.tree /\ n.prev = l.prev /\ n.maint = l.maint
               /\ \/ /\ n.pc = "fail" /\ n.todo = l.todo
                  \/ /\ n.pc = l.pc /\ n.todo = l.todo \ {f} /\ n.partial = TRUE
                     /\ n.got = l.got /\ n.pend = l.pend /\ n.carry = l.carry
                  \/ /\ n.todo = l.todo \ {f} /\ n.partial = l.partial /\ n.got = [l.got EXCEPT ![f] = b]
                     /\ \/ /\ n.pc = l.pc /\ n.pend = l.pend /\ n.carry = l.carry
                           /\ b \in l.pend \/ FindBackupBlock(b) \/ l.prev[f] = b
                        \/ n.pc = l.pc /\ n.pend = l.pend \cup {b} /\ n.carry = l.carry
                        \/ n.pc = "upload" /\ n.pend = l.pend /\ n.carry = {b} /\ l.pend # {}
<1> DEFINE l == coord[c]
           b == coord[c].tree[f]
           T == l.todo \ {f}
           G == [l.got EXCEPT ![f] = b]
           P == l.pend \cup {b}
<1>1. \/ /\ b \in l.pend \/ FindBackupBlock(b) \/ l.prev[f] = b
         /\ FileOutcome(c, f) = [l EXCEPT !.todo = T, !.got = G]
      \/ FileOutcome(c, f) = [l EXCEPT !.pc = "fail"]
      \/ FileOutcome(c, f) = [l EXCEPT !.todo = T, !.partial = TRUE]
      \/ FileOutcome(c, f) = [l EXCEPT !.todo = T, !.got = G, !.pend = P]
      \/ /\ l.pend # {}
         /\ FileOutcome(c, f) = [l EXCEPT !.todo = T, !.got = G, !.carry = {b}, !.pc = "upload"]
  BY FileOutcomes, Zenon
<1>2. l \in Coordinator OBVIOUS
<1> DEFINE n == FileOutcome(c, f)
<1> SUFFICES /\ n.gen = l.gen /\ n.st = l.st /\ n.tree = l.tree /\ n.prev = l.prev /\ n.maint = l.maint
             /\ \/ /\ n.pc = "fail" /\ n.todo = l.todo
                \/ /\ n.pc = l.pc /\ n.todo = T /\ n.partial = TRUE
                   /\ n.got = l.got /\ n.pend = l.pend /\ n.carry = l.carry
                \/ /\ n.todo = T /\ n.partial = l.partial /\ n.got = G
                   /\ \/ /\ n.pc = l.pc /\ n.pend = l.pend /\ n.carry = l.carry
                         /\ b \in l.pend \/ FindBackupBlock(b) \/ l.prev[f] = b
                      \/ n.pc = l.pc /\ n.pend = P /\ n.carry = l.carry
                      \/ n.pc = "upload" /\ n.pend = l.pend /\ n.carry = {b} /\ l.pend # {}
  BY Zenon
<1> HIDE DEF l, b, T, G, P, n
<1>3. CASE n = [l EXCEPT !.todo = T, !.got = G] /\ (b \in l.pend \/ FindBackupBlock(b) \/ l.prev[f] = b)
  BY <1>2, <1>3 DEF Coordinator
<1>4. CASE n = [l EXCEPT !.pc = "fail"]
  BY <1>2, <1>4 DEF Coordinator
<1>5. CASE n = [l EXCEPT !.todo = T, !.partial = TRUE]
  BY <1>2, <1>5 DEF Coordinator
<1>6. CASE n = [l EXCEPT !.todo = T, !.got = G, !.pend = P]
  BY <1>2, <1>6 DEF Coordinator
<1>7. CASE n = [l EXCEPT !.todo = T, !.got = G, !.carry = {b}, !.pc = "upload"] /\ l.pend # {}
  BY <1>2, <1>7 DEF Coordinator
<1> QED BY <1>1, <1>3, <1>4, <1>5, <1>6, <1>7 DEF n

LEMMA RunLocalStep ==
    ASSUME JobInv, NEW c \in Coords, RunNext(c)
    PROVE  LocalStep(c)
<1>t. Types /\ ClaimsHeld /\ coord \in [Coords -> Coordinator] /\ coord[c] \in Coordinator BY DEF JobInv, Types
<1>x. Executes(c) => coord[c].gen \in Gens /\ coord[c].st \in Active BY DEF JobInv, ClaimsHeld, Claimed
<1>g. Executes(c) => \A p : Goto(c, p) => LocalStep(c) BY <1>t, FailFields
<1>r. Return(c) => LocalStep(c) BY <1>t, ReturnFields DEF LocalStep, RunSteps
<1>1. CASE PollRecover(c)
  BY <1>1, <1>t, GotoFields DEF PollRecover, LocalStep, RunSteps
<1>2. CASE PollRun(c)
  <2>1. PICK g \in Gens : /\ ClaimNextQueuedBackupRun(g)
                          /\ coord' = [coord EXCEPT ![c] = [Idle(TRUE) EXCEPT !.pc = "lock", !.gen = g, !.st = "SCANNING"]]
    BY <1>2 DEF PollRun
  <2>2. OthersStay(c) BY <1>t, <2>1 DEF OthersStay
  <2>3. coord'[c].gen = g /\ coord'[c].st = "SCANNING" /\ coord'[c].todo = {} BY <1>t, <2>1 DEF Idle
  <2>4. runs[g].state = "QUEUED" /\ runs'[g].state = "SCANNING"
    BY <1>t, <2>1 DEF ClaimNextQueuedBackupRun, Types, Run
  <2> QED BY <2>2, <2>3, <2>4 DEF LocalStep, TakesUp, Active
<1>3. CASE PollMaintenance(c)
  <2>1. PICK m \in MaintIds : coord' = [coord EXCEPT ![c] = [Idle(~coord[c].prefer) EXCEPT !.pc = "maintLock", !.maint = m]]
    BY <1>3 DEF PollMaintenance
  <2>2. OthersStay(c) BY <1>t, <2>1 DEF OthersStay
  <2>3. coord'[c].pc = "maintLock" BY <1>t, <2>1 DEF Idle
  <2> QED BY <2>2, <2>3 DEF LocalStep, RunSteps
<1>4. CASE PollNothing(c)
  BY <1>4, <1>t DEF PollNothing, LocalStep, OthersStay, Idle, RunSteps
<1>5. CASE LockRun(c) \/ OpenRepository(c) \/ CreateDraft(c) \/ FilesDone(c) \/ FlushUpload(c) \/ StillActive(c)
           \/ WriteCatalog(c) \/ VerifySample(c)
  <2>1. Executes(c) BY <1>5 DEF LockRun, OpenRepository, CreateDraft, FilesDone, FlushUpload, StillActive,
                                WriteCatalog, VerifySample, At, Executes, RunSteps
  <2>2. \E p : Goto(c, p) BY <1>5 DEF LockRun, OpenRepository, CreateDraft, FilesDone, FlushUpload, StillActive,
                                WriteCatalog, VerifySample, Breaks
  <2> QED BY <1>g, <2>1, <2>2
<1>6. CASE ScanFiles(c)
  <2>1. Executes(c) BY <1>6 DEF ScanFiles, At, Executes, RunSteps
  <2>2. CASE coord' = [coord EXCEPT ![c].pc = "start", ![c].tree = source,
                                    ![c].todo = {f \in Files : source[f] # NoBlock}]
    <3>1. OthersStay(c) BY <1>t, <2>2 DEF OthersStay
    <3>2. coord'[c].gen = coord[c].gen /\ coord'[c].st = coord[c].st /\ coord'[c].tree = source
          /\ coord'[c].todo = {f \in Files : source[f] # NoBlock}
      BY <1>t, <2>2 DEF Coordinator
    <3> QED BY <1>x, <2>1, <3>1, <3>2 DEF LocalStep, GoesOn
  <2> QED BY <1>6, <1>g, <2>1, <2>2 DEF ScanFiles, Breaks
<1>7. CASE StartTransfer(c) \/ StartVerify(c)
  <2>1. Executes(c) BY <1>7 DEF StartTransfer, StartVerify, At, Executes, RunSteps
  <2>2. ASSUME NEW p, NEW s \in Active, coord' = [coord EXCEPT ![c].pc = p, ![c].st = s] PROVE LocalStep(c)
    <3>1. OthersStay(c) BY <1>t, <2>2 DEF OthersStay
    <3>2. coord'[c].gen = coord[c].gen /\ coord'[c].st = s /\ coord'[c].tree = coord[c].tree
          /\ coord'[c].todo = coord[c].todo
      BY <1>t, <2>2 DEF Coordinator
    <3> QED BY <1>t, <2>1, <3>1, <3>2 DEF LocalStep, GoesOn, ClaimsHeld, Claimed
  <2> QED BY <1>7, <1>g, <2>1, <2>2 DEF StartTransfer, StartVerify, Active
<1>8. CASE LoadPrevious(c)
  <2>1. Executes(c) BY <1>8 DEF LoadPrevious, At, Executes, RunSteps
  <2>2. ASSUME NEW t, coord' = [coord EXCEPT ![c].pc = "files", ![c].prev = t] PROVE LocalStep(c)
    <3>1. OthersStay(c) BY <1>t, <2>2 DEF OthersStay
    <3>2. coord'[c].gen = coord[c].gen /\ coord'[c].st = coord[c].st /\ coord'[c].tree = coord[c].tree
          /\ coord'[c].todo = coord[c].todo
      BY <1>t, <2>2 DEF Coordinator
    <3> QED BY <1>t, <2>1, <3>1, <3>2 DEF LocalStep, GoesOn, ClaimsHeld, Claimed
  <2> QED BY <1>8, <1>g, <2>1, <2>2 DEF LoadPrevious, Breaks
<1>9. CASE Superseded(c) \/ FailRun(c) \/ CancelRun(c)
  BY <1>9, <1>r DEF Superseded, FailRun, CancelRun
<1>10. CASE BackupFile(c)
  <2>1. Executes(c) BY <1>10 DEF BackupFile, At, Executes, RunSteps
  <2>2. ASSUME NEW f \in coord[c].todo, coord' = [coord EXCEPT ![c] = FileOutcome(c, f)] PROVE LocalStep(c)
    <3>1. OthersStay(c) /\ coord'[c] = FileOutcome(c, f) BY <1>t, <2>2 DEF OthersStay
    <3>2. coord[c].tree[f] # NoBlock BY <1>t, <2>1 DEF ClaimsHeld, Claimed
    <3> DEFINE n == FileOutcome(c, f)
    <3>3. n.gen = coord[c].gen /\ n.st = coord[c].st /\ n.tree = coord[c].tree
          /\ (n.todo = coord[c].todo \/ n.todo = coord[c].todo \ {f})
      BY <1>t, <3>2, FileFields
    <3> HIDE DEF n
    <3>4. coord'[c] = n BY <3>1 DEF n
    <3> QED BY <1>t, <1>x, <2>1, <3>1, <3>3, <3>4 DEF LocalStep, GoesOn, ClaimsHeld, Claimed
  <2> QED BY <1>10, <1>g, <2>1, <2>2 DEF BackupFile, Breaks
<1>11. CASE FlushRecord(c)
  <2>1. Executes(c) BY <1>11 DEF FlushRecord, At, Executes, RunSteps
  <2>2. ASSUME NEW a, NEW p, coord' = [coord EXCEPT ![c].pend = a, ![c].carry = {}, ![c].pc = p] PROVE LocalStep(c)
    <3>1. OthersStay(c) BY <1>t, <2>2 DEF OthersStay
    <3>2. coord'[c].gen = coord[c].gen /\ coord'[c].st = coord[c].st /\ coord'[c].tree = coord[c].tree
          /\ coord'[c].todo = coord[c].todo
      BY <1>t, <2>2 DEF Coordinator
    <3> QED BY <1>t, <2>1, <3>1, <3>2 DEF LocalStep, GoesOn, ClaimsHeld, Claimed
  <2> QED BY <1>11, <1>g, <2>1, <2>2 DEF FlushRecord
<1>12. CASE PublishSnapshot(c)
  <2>1. Executes(c) BY <1>12 DEF PublishSnapshot, At, Executes, RunSteps
  <2> QED BY <1>12, <1>g, <1>r, <2>1 DEF PublishSnapshot
<1> QED BY <1>1, <1>2, <1>3, <1>4, <1>5, <1>6, <1>7, <1>8, <1>9, <1>10, <1>11, <1>12 DEF RunNext

LEMMA MaintLocalStep ==
    ASSUME Types, NEW c \in Coords, MaintNext(c)
    PROVE  OthersStay(c) /\ coord'[c].pc \in {"idle"} \cup MaintSteps /\ coord[c].pc \in MaintSteps
<1>t. coord \in [Coords -> Coordinator] /\ coord[c] \in Coordinator BY DEF Types
<1>g. \A p \in MaintSteps : Goto(c, p) => OthersStay(c) /\ coord'[c].pc \in {"idle"} \cup MaintSteps BY GotoFields
<1>r. Return(c) => OthersStay(c) /\ coord'[c].pc \in {"idle"} \cup MaintSteps BY ReturnFields, SMTT(40)
<1>0. coord[c].pc \in MaintSteps
  BY DEF MaintNext, LockMaintenance, ExecuteMaintenance, ApplyExpiry, ListPacks, RemovePack, MarkRemoved,
         EnqueueCompaction, FinalizeDeletion, CompactOnePack, ReplacePack, RetirePack, MarkRetired, CopyTargets,
         ClaimTarget, CheckTarget, MarkTargetDamaged, AdvanceCursor, CompleteVerify, FinishMaintenance,
         At, MaintSteps
<1>1. CASE \/ LockMaintenance(c) \/ ApplyExpiry(c) \/ EnqueueCompaction(c)
           \/ ReplacePack(c) \/ RetirePack(c) \/ MarkRetired(c)
           \/ CopyTargets(c) \/ CheckTarget(c) \/ MarkTargetDamaged(c) \/ AdvanceCursor(c)
  BY <1>0, <1>1, <1>g DEF LockMaintenance, ApplyExpiry, EnqueueCompaction, ReplacePack, RetirePack, MarkRetired,
                    CopyTargets, CheckTarget, MarkTargetDamaged, AdvanceCursor, Breaks, MaintSteps
<1>2. CASE ExecuteMaintenance(c)
  <2> DEFINE p == CASE Kind(c) = "RETENTION" -> "expire"
                    [] Kind(c) = "COMPACTION" -> "compact"
                    [] Kind(c) = "DELETE_REPOSITORY" -> "list"
                    [] Kind(c) = "VERIFY" -> "targets"
                    [] OTHER -> "retry"
  <2>1. p \in MaintSteps /\ "retry" \in MaintSteps BY DEF MaintSteps
  <2>2. Goto(c, p) \/ Goto(c, "retry") BY <1>2 DEF ExecuteMaintenance, Breaks
  <2> HIDE DEF p
  <2> QED BY <1>0, <1>g, <2>1, <2>2
<1>3. ASSUME NEW p, NEW q, coord' = [coord EXCEPT ![c].pc = "mark", ![c].pack = p]
                    \/ coord' = [coord EXCEPT ![c].pc = "check", ![c].pack = p]
                    \/ coord' = [coord EXCEPT ![c].pc = "remove", ![c].list = p]
                    \/ coord' = [coord EXCEPT ![c].pc = "remove", ![c].list = p, ![c].pack = q]
                    \/ coord' = [coord EXCEPT ![c].pc = "replace", ![c].pack = p, ![c].live = q]
      PROVE  OthersStay(c) /\ coord'[c].pc \in {"idle"} \cup MaintSteps
  BY <1>t, <1>3 DEF OthersStay, Coordinator, MaintSteps
<1>4. CASE ListPacks(c)
  BY <1>0, <1>3, <1>4 DEF ListPacks
<1>5. CASE RemovePack(c)
  BY <1>0, <1>3, <1>5, <1>g DEF RemovePack, Breaks, MaintSteps
<1>6. CASE MarkRemoved(c)
  <2>1. \/ \E p, q : coord' = [coord EXCEPT ![c].pc = "remove", ![c].list = p, ![c].pack = q]
        \/ Goto(c, "retry")
    <3>1. CASE coord' = [coord EXCEPT ![c].pc = "remove", ![c].list = @ \ {coord[c].pack}, ![c].pack = NoPack]
      <4> DEFINE L == coord[c].list \ {coord[c].pack}
      <4>1. coord' = [coord EXCEPT ![c].pc = "remove", ![c].list = L, ![c].pack = NoPack]
        BY <1>t, <3>1 DEF Coordinator
      <4> HIDE DEF L
      <4> QED BY <4>1
    <3> QED BY <1>6, <3>1 DEF MarkRemoved
  <2>2. "retry" \in MaintSteps BY DEF MaintSteps
  <2>3. CASE Goto(c, "retry") BY <1>0, <1>g, <2>2, <2>3
  <2>4. ASSUME NEW p, NEW q, coord' = [coord EXCEPT ![c].pc = "remove", ![c].list = p, ![c].pack = q]
        PROVE  OthersStay(c) /\ coord'[c].pc \in {"idle"} \cup MaintSteps
    BY <1>3, <2>4
  <2> QED BY <1>0, <2>1, <2>3, <2>4
<1>7. CASE FinalizeDeletion(c) \/ CompleteVerify(c) \/ FinishMaintenance(c)
  BY <1>0, <1>7, <1>g, <1>r DEF FinalizeDeletion, CompleteVerify, FinishMaintenance, Breaks, MaintSteps
<1>8. CASE CompactOnePack(c)
  <2>1. \/ \E p, q : coord' = [coord EXCEPT ![c].pc = "replace", ![c].pack = p, ![c].live = q]
        \/ Goto(c, "retry") \/ Goto(c, "complete")
    BY <1>8, Zenon DEF CompactOnePack, Breaks
  <2>2. "retry" \in MaintSteps /\ "complete" \in MaintSteps BY DEF MaintSteps
  <2>3. CASE Goto(c, "retry") \/ Goto(c, "complete") BY <1>0, <1>g, <2>2, <2>3
  <2>4. ASSUME NEW p, NEW q, coord' = [coord EXCEPT ![c].pc = "replace", ![c].pack = p, ![c].live = q]
        PROVE  OthersStay(c) /\ coord'[c].pc \in {"idle"} \cup MaintSteps
    BY <1>3, <2>4
  <2> QED BY <1>0, <2>1, <2>3, <2>4
<1>9. CASE ClaimTarget(c)
  BY <1>0, <1>3, <1>9, <1>g DEF ClaimTarget, MaintSteps
<1> QED BY <1>1, <1>2, <1>4, <1>5, <1>6, <1>7, <1>8, <1>9 DEF MaintNext

\* Everything but steps of coordinators leaves their memory alone
LEMMA CoordUnchanged ==
    /\ TimePasses \/ Users \/ Environment => UNCHANGED <<coord, lock>>
    /\ \A s \in Schedulers : SchedulerStep(s) \/ SchedulerDies(s) => UNCHANGED <<coord, lock>>
    /\ \A c \in Coords : Heartbeat(c) => UNCHANGED <<coord, lock>>
<1>1. TimePasses => UNCHANGED <<coord, lock>>
  BY DEF TimePasses, RunGoesSilent, CheckGoesSilent, TargetLapses, coordVars
<1>2. Users => UNCHANGED <<coord, lock>>
  BY DEF Users, HandleRunBackup, HandlePauseBackup, HandleResumeBackup, HandleDeleteBackup,
         HandleCreateBackupVerify, HandleCancelBackupVerify, SuspendUser, ReactivateUser, Request, coordVars
<1>3. Environment => UNCHANGED <<coord, lock>>
  BY DEF Environment, ScheduleBecomesDue, PlanRestore, FinishRestore, SourceChanges, PackDestroyed, coordVars
<1>4. \A s \in Schedulers : SchedulerStep(s) \/ SchedulerDies(s) => UNCHANGED <<coord, lock>>
  BY DEF SchedulerStep, ProcessSchedule, TriggerBackup, AdvanceSchedule, DeactivateSchedule, SchedulerDies, coordVars
<1>5. \A c \in Coords : Heartbeat(c) => UNCHANGED <<coord, lock>> BY DEF Heartbeat, coordVars
<1> QED BY <1>1, <1>2, <1>3, <1>4, <1>5

LEMMA LocalSteps ==
    ASSUME JobInv, Next
    PROVE  UNCHANGED coord \/ \E c \in Coords : LocalStep(c)
<1>1. ASSUME NEW c \in Coords, MaintNext(c) PROVE LocalStep(c)
  BY <1>1, MaintLocalStep DEF JobInv, LocalStep, MaintSteps, RunSteps
<1>2. ASSUME NEW c \in Coords, Crash(c) PROVE LocalStep(c)
  BY <1>2 DEF JobInv, Types, Crash, LocalStep, OthersStay, Idle, RunSteps
<1> QED BY <1>1, <1>2, RunLocalStep, CoordUnchanged DEF Next, CoordinatorStep

LEMMA ClaimsStep ==
    ASSUME JobInv, Next
    PROVE  ClaimsHeld' /\ ClaimsApart'
<1>t. Types /\ Types' BY NextType DEF JobInv
<1>a. job \in Job /\ runs \in [Gens -> Run] /\ job' \in Job /\ runs' \in [Gens -> Run] BY <1>t DEF Types
<1>1. /\ job'.gen >= job.gen /\ job.gen \in Nat /\ job'.gen \in Nat /\ Gens \subseteq Nat
      /\ \A g \in Gens : runs'[g].state = "QUEUED" => runs[g].state = "QUEUED" \/ g > job.gen
  BY <1>a, RowSteps, RowConsequences, Constants DEF JobInv, Job
<1>2. ASSUME NEW d \in Coords, Executes(d), coord'[d] = coord[d] PROVE Claimed(d)'
  <2>1. Claimed(d) BY <1>2 DEF JobInv, ClaimsHeld
  <2>2. PICK g \in Gens : g = coord[d].gen /\ g = coord'[d].gen BY <1>2, <2>1 DEF Claimed
  <2>3. g <= job'.gen /\ runs'[g].state # "QUEUED" BY <1>1, <2>1, <2>2 DEF Claimed
  <2>4. coord'[d].st \in Active /\ \A f \in coord'[d].todo : coord'[d].tree[f] # NoBlock BY <1>2, <2>1 DEF Claimed
  <2> QED BY <2>2, <2>3, <2>4 DEF Claimed
<1>3. CASE UNCHANGED coord
  BY <1>2, <1>3 DEF JobInv, ClaimsHeld, ClaimsApart, Executes
<1>4. ASSUME NEW c \in Coords, LocalStep(c) PROVE ClaimsHeld' /\ ClaimsApart'
  <2>1. ASSUME NEW d \in Coords, Executes(d)' PROVE Claimed(d)'
    <3>1. CASE d # c BY <1>2, <1>4, <2>1, <3>1 DEF LocalStep, OthersStay, Executes
    <3>2. CASE d = c /\ GoesOn(c)
      <4>1. Claimed(c) BY <3>2 DEF JobInv, ClaimsHeld, GoesOn
      <4>2. PICK g \in Gens : g = coord[d].gen /\ g = coord'[d].gen BY <3>2, <4>1 DEF GoesOn, Claimed
      <4>3. g <= job'.gen /\ runs'[g].state # "QUEUED" BY <1>1, <3>2, <4>1, <4>2 DEF Claimed
      <4> QED BY <3>2, <4>2, <4>3 DEF Claimed, GoesOn
    <3>3. CASE d = c /\ TakesUp(c)
      <4>1. job.gen = coord'[c].gen
        BY <3>3 DEF TakesUp, JobInv, OpenRunIsCurrent, Queueing
      <4> QED BY <1>1, <3>3, <4>1 DEF TakesUp, Claimed
    <3> QED BY <1>4, <2>1, <3>1, <3>2, <3>3 DEF LocalStep, Executes
  <2>2. ASSUME NEW d \in Coords, d # c, Executes(d)', Executes(c)', coord'[d].gen = coord'[c].gen PROVE FALSE
    <3>1. coord'[d] = coord[d] /\ Executes(d) /\ Claimed(d)
      BY <1>4, <2>2 DEF LocalStep, OthersStay, Executes, JobInv, ClaimsHeld
    <3>2. CASE GoesOn(c) BY <2>2, <3>1, <3>2 DEF GoesOn, JobInv, ClaimsApart
    <3>3. CASE TakesUp(c) BY <2>2, <3>1, <3>3 DEF TakesUp, Claimed
    <3> QED BY <1>4, <2>2, <3>2, <3>3 DEF LocalStep, Executes
  <2>3. \A d, e \in Coords : d # c /\ e # c /\ Executes(d)' /\ Executes(e)' /\ coord'[d].gen = coord'[e].gen => d = e
    BY <1>4 DEF LocalStep, OthersStay, Executes, JobInv, ClaimsApart
  <2> QED BY <2>1, <2>2, <2>3 DEF ClaimsHeld, ClaimsApart
<1> QED BY <1>3, <1>4, LocalSteps

LEMMA InitTypes == ASSUME Init PROVE Types
<1> DEFINE stored == {source[f] : f \in Files}
           done   == IF Boot = "published" THEN {1} ELSE {}
           full   == IF Boot = "published" THEN {stored} ELSE {}
<1>i. /\ source \in [Files -> Blocks] /\ maint = [m \in MaintIds |-> NoMaint]
      /\ schedule = [active |-> TRUE, due |-> FALSE, key |-> 1]
      /\ job = [status |-> "IDLE", gen |-> Cardinality(done), deleting |-> FALSE]
      /\ runs = [g \in Gens |-> IF g \in done THEN [NoRun EXCEPT !.state = "COMPLETED"] ELSE NoRun]
      /\ snaps = [g \in Gens |-> IF g \in done
                                 THEN [state |-> "READY", scanned |-> source, links |-> source] ELSE NoSnap]
      /\ packs = [p \in PackIds |-> IF p \in full THEN "READY" ELSE "NONE"]
      /\ blocks = [b \in Blocks |-> IF full # {} /\ b \in stored THEN stored ELSE NoPack]
  BY DEF Init, StoreInit
<1>1. stored \in SUBSET Blocks BY <1>i
<1>2. Cardinality(done) \in {0, 1} BY FS_EmptySet, FS_Singleton
<1>3. job \in Job BY <1>i, <1>2, BackupAssumption DEF Job, Queueing, Active
<1>4. runs \in [Gens -> Run] BY <1>i, RowTypes DEF Ended
<1>5. source \in Tree BY <1>i DEF Tree, Content
<1>6. [state |-> "READY", scanned |-> source, links |-> source] \in Snapshot BY <1>5 DEF Snapshot, Visible
<1>7. snaps \in [Gens -> Snapshot] BY <1>i, <1>6, RowTypes
<1>8. packs \in [PackIds -> PackState] /\ blocks \in [Blocks -> PackIds \cup {NoPack}]
  BY <1>i, <1>1 DEF PackState, PackIds, NoPack
<1>9. maint \in [MaintIds -> Maintenance] BY <1>i, RowTypes
<1>10. schedule \in Schedule BY <1>i DEF Schedule
<1>11. coord \in [Coords -> Coordinator] /\ lock \in Coords \cup {NoCoord}
  BY CoordTypes DEF Init, CoordInit
<1>12. sched \in [Schedulers -> SchedulerLoop] BY DEF Init, ControlInit, SchedulerLoop
<1> QED BY <1>3, <1>4, <1>5, <1>7, <1>8, <1>9, <1>10, <1>11, <1>12 DEF Types

LEMMA JobInit == ASSUME Init PROVE JobInv
<1>1. Types BY InitTypes
<1>2. /\ \A g \in Gens : runs[g].state \in {"NONE", "COMPLETED"}
      /\ \A g \in Gens : g > job.gen => runs[g].state = "NONE"
  <2> DEFINE done == IF Boot = "published" THEN {1} ELSE {}
  <2>1. /\ job = [status |-> "IDLE", gen |-> Cardinality(done), deleting |-> FALSE]
        /\ runs = [g \in Gens |-> IF g \in done THEN [NoRun EXCEPT !.state = "COMPLETED"] ELSE NoRun]
    BY DEF Init, StoreInit
  <2>2. done = {} \/ (done = {1} /\ Cardinality(done) = 1) BY FS_Singleton
  <2>3. \A g \in Gens : runs[g].state = IF g \in done THEN "COMPLETED" ELSE "NONE" BY <2>1 DEF NoRun
  <2> QED BY <2>1, <2>2, <2>3
<1>3. \A c \in Coords : ~Executes(c) BY DEF Init, CoordInit, Executes, Idle, RunSteps
<1> QED BY <1>1, <1>2, <1>3 DEF JobInv, OpenRunIsCurrent, FutureIsEmpty, ClaimsHeld, ClaimsApart, Queueing, Active

LEMMA JobStep == ASSUME JobInv, Next PROVE JobInv'
<1>1. Types' BY NextType DEF JobInv
<1>2. job \in Job /\ runs \in [Gens -> Run] /\ job' \in Job /\ runs' \in [Gens -> Run] BY <1>1 DEF Types, JobInv
<1>3. OpenRunIsCurrent' /\ FutureIsEmpty' BY <1>2, RowSteps, RowConsequences DEF JobInv
<1> QED BY <1>1, <1>3, ClaimsStep DEF JobInv

LEMMA JobStutter == ASSUME JobInv, UNCHANGED vars PROVE JobInv'
BY DEF vars, storeVars, coordVars, controlVars, JobInv, Types, OpenRunIsCurrent, FutureIsEmpty, ClaimsHeld, Claimed,
       ClaimsApart, Executes

(***************************************************************************)
(* A run that is queued or at work is the run of the job's current         *)
(* generation, and the job shows its state: ClaimBackupJobPassContext,     *)
(* pause, deletion, suspension and recovery never leave two open runs.     *)
(***************************************************************************)
THEOREM OpenRunsAreCurrent == Spec => []OpenRunIsCurrent
<1>1. Init => JobInv BY JobInit
<1>2. JobInv /\ [Next]_vars => JobInv' BY JobStep, JobStutter
<1>3. JobInv => OpenRunIsCurrent BY DEF JobInv
<1> QED BY <1>1, <1>2, <1>3, PTL DEF Spec

(***************************************************************************)
(* A run that ended keeps the outcome it was given, whatever a coordinator *)
(* that was paused, cancelled or recovered does later                      *)
(* (completeBackupRunContext, PublishBackupSnapshotAndFinalizeContext).    *)
(***************************************************************************)
THEOREM OutcomesAreFinal == Spec => OutcomeIsFinal
<1>1. Init => JobInv BY JobInit
<1>2. JobInv /\ [Next]_vars => JobInv' BY JobStep, JobStutter
<1>3. ASSUME JobInv, Next
      PROVE  \A g \in Gens : runs[g].state \notin Queueing \cup {"NONE"} =>
                             runs'[g].state = runs[g].state \/ job'.status = "GONE"
  <2>1. Types' BY <1>3, NextType DEF JobInv
  <2>2. job \in Job /\ runs \in [Gens -> Run] /\ job' \in Job /\ runs' \in [Gens -> Run] BY <1>3, <2>1 DEF Types, JobInv
  <2>3. \A g \in Gens : runs[g].state \in Ended => runs'[g].state = runs[g].state \/ job'.status = "GONE"
    BY <1>3, <2>2, RowSteps, RowConsequences DEF JobInv
  <2> QED BY <2>2, <2>3 DEF Run, Ended
<1>4. JobInv /\ [Next]_vars =>
        [\A g \in Gens : runs[g].state \notin Queueing \cup {"NONE"} =>
                         runs'[g].state = runs[g].state \/ job'.status = "GONE"]_vars
  BY <1>3
<1> QED BY <1>1, <1>2, <1>4, PTL DEF Spec, OutcomeIsFinal

-----------------------------------------------------------------------------
(* Drafts and published snapshots *)

BeforeFiles == {"lock", "connect", "scan", "start", "draft", "previous"}
Drafted     == {"previous", "files", "upload", "record", "catalog", "items", "verify", "transit", "sample", "publish"}
Flushed     == {"catalog", "items", "verify", "transit", "sample", "publish"}
Cataloged   == {"verify", "transit", "sample", "publish"}

\* A repository that is being deleted shows no snapshot
DeletedHidesAll == job.status \in {"DELETING", "GONE"} => \A g \in Gens : snaps[g].state \notin Visible

\* The draft of a run that is executed is not visible, and holds what its
\* coordinator has found and recorded
DraftHolds(c) ==
    LET l == coord[c] IN
    /\ snaps[l.gen].state \notin Visible
    /\ l.pc \in Drafted /\ snaps[l.gen].state = "PUBLISHING" => snaps[l.gen].scanned = l.tree
    /\ l.pc \in Cataloged /\ snaps[l.gen].state = "PUBLISHING" => snaps[l.gen].links = l.got

\* A file the coordinator is done with is recorded, unless the run is partial
FilesHeld(c) ==
    LET l == coord[c] IN
    /\ l.pc \in BeforeFiles => l.got = Nothing /\ l.pend = {} /\ l.carry = {}
    /\ l.pc \in Drafted \cup {"start", "draft"} /\ ~l.partial =>
         \A f \in Files : f \in l.todo \/ l.got[f] = l.tree[f]
    /\ l.pc \in Flushed => l.todo = {} /\ l.pend = {} /\ l.carry = {}
    /\ l.pc \in {"upload", "record"} => l.pend # {} /\ (l.carry = {} => l.todo = {})
    /\ l.pc = "files" => l.carry = {}

DraftInv ==
    /\ DeletedHidesAll /\ PublishedIsComplete
    /\ \A c \in Coords : Executes(c) => DraftHolds(c) /\ FilesHeld(c)

\* A step takes a snapshot from the user or leaves it as it is ...
SnapFades(g) == snaps'[g] = snaps[g] \/ snaps'[g].state \notin Visible \cup {"PUBLISHING"}

\* ... except for the statements of its own run
Drafts(c) == CreateDraft(c) \/ WriteCatalog(c) \/ PublishSnapshot(c)

LEMMA FadingStatements ==
    ASSUME Types, NEW g \in Gens
    PROVE  /\ RecoverStaleBackupRuns => SnapFades(g)
           /\ \A h \in Gens : DiscardSnapshotDraft(h) => SnapFades(g)
           /\ \A p : MarkPackDamaged(p) => SnapFades(g)
           /\ ExpireSnapshots => SnapFades(g)
           /\ \A p : MarkPackDeleted(p) => SnapFades(g)
           /\ \A p, n : ReplacePackLocators(p, n) => SnapFades(g)
           /\ DeleteJobAfterCleanup => SnapFades(g)
           /\ HandleDeleteBackup => SnapFades(g)
<1>t. snaps \in [Gens -> Snapshot] /\ snaps[g] \in Snapshot BY DEF Types
<1>s. \A x \in Snapshot : [x EXCEPT !.state = "DAMAGED"].state \notin Visible \cup {"PUBLISHING"}
                       /\ [x EXCEPT !.state = "EXPIRED"].state \notin Visible \cup {"PUBLISHING"}
  BY DEF Snapshot, Visible
<1>n. NoSnap.state \notin Visible \cup {"PUBLISHING"} BY DEF NoSnap, Visible
<1>e. "EXPIRED" \notin Visible \cup {"PUBLISHING"} BY DEF Visible
<1>1. RecoverStaleBackupRuns => SnapFades(g) BY <1>t, <1>n DEF RecoverStaleBackupRuns, SnapFades
<1>2. \A h \in Gens : DiscardSnapshotDraft(h) => SnapFades(g) BY <1>t, <1>n DEF DiscardSnapshotDraft, SnapFades
<1>3. \A p : MarkPackDamaged(p) => SnapFades(g)
  <2>1. \A p : MarkPackDamaged(p) => snaps'[g] = [snaps[g] EXCEPT !.state = "DAMAGED"] \/ snaps'[g] = snaps[g]
    BY DEF MarkPackDamaged
  <2>2. [snaps[g] EXCEPT !.state = "DAMAGED"].state \notin Visible \cup {"PUBLISHING"} BY <1>t, <1>s
  <2> QED BY <2>1, <2>2 DEF SnapFades
<1>4. [snaps[g] EXCEPT !.state = "EXPIRED"].state \notin Visible \cup {"PUBLISHING"} BY <1>t, <1>s
<1>5. ExpireSnapshots => SnapFades(g) BY <1>4 DEF ExpireSnapshots, SnapFades
<1>6. HandleDeleteBackup => SnapFades(g) BY <1>4 DEF HandleDeleteBackup, SnapFades
<1>7. DeleteJobAfterCleanup => SnapFades(g) BY <1>n DEF DeleteJobAfterCleanup, SnapFades
<1>8. \A p : MarkPackDeleted(p) => SnapFades(g)
  <2>1. \A p : MarkPackDeleted(p) => snaps'[g] = snaps[g] \/ snaps'[g].state = "EXPIRED"
    <3>1. ASSUME NEW p, MarkPackDeleted(p), snaps[g].state = "EXPIRED"
          PROVE snaps'[g].state = "EXPIRED"
      <4> DEFINE t == [f \in Files |-> IF snaps[g].links[f] \in InPack(p) THEN NoBlock ELSE snaps[g].links[f]]
      <4>1. snaps'[g] = [snaps[g] EXCEPT !.links = t] BY <3>1 DEF MarkPackDeleted, Unlinked
      <4> HIDE DEF t
      <4> QED BY <1>t, <3>1, <4>1 DEF Snapshot
    <3> QED BY <3>1 DEF MarkPackDeleted, Unlinked
  <2> QED BY <1>e, <2>1 DEF SnapFades
<1>9. \A p, n : ReplacePackLocators(p, n) => SnapFades(g)
  <2>1. \A p, n : ReplacePackLocators(p, n) => snaps'[g] = snaps[g] \/ snaps'[g].state = "EXPIRED"
    <3>1. ASSUME NEW p, NEW n, ReplacePackLocators(p, n), snaps[g].state = "EXPIRED"
          PROVE snaps'[g].state = "EXPIRED"
      <4> DEFINE t == [f \in Files |-> IF snaps[g].links[f] \in InPack(p) \ n THEN NoBlock ELSE snaps[g].links[f]]
      <4>1. snaps'[g] = [snaps[g] EXCEPT !.links = t] BY <3>1 DEF ReplacePackLocators
      <4> HIDE DEF t
      <4> QED BY <1>t, <3>1, <4>1 DEF Snapshot
    <3> QED BY <3>1 DEF ReplacePackLocators
  <2> QED BY <1>e, <2>1 DEF SnapFades
<1> QED BY <1>1, <1>2, <1>3, <1>5, <1>6, <1>7, <1>8, <1>9

LEMMA SnapSteps ==
    ASSUME JobInv, Next, NEW g \in Gens
    PROVE  SnapFades(g) \/ \E c \in Coords : Drafts(c) /\ coord[c].gen = g
<1>t. Types /\ snaps \in [Gens -> Snapshot] BY DEF JobInv, Types
<1>u. snaps' = snaps => SnapFades(g) BY DEF SnapFades
<1>1. ASSUME NEW c \in Coords, RunNext(c) PROVE SnapFades(g) \/ Drafts(c)
  <2>1. \/ snaps' = snaps \/ RecoverStaleBackupRuns \/ (\E p : MarkPackDamaged(p)) \/ Superseded(c) \/ Drafts(c)
    <3>1. CASE VerifySample(c)
      <4>1. snaps' = snaps \/ \E p : MarkPackDamaged(p) BY <3>1, Zenon DEF VerifySample
      <4> QED BY <4>1
    <3>2. CASE PollRecover(c) \/ Superseded(c) \/ Drafts(c)
      BY <3>2 DEF PollRecover
    <3>3. CASE \/ PollRun(c) \/ PollMaintenance(c) \/ PollNothing(c) \/ LockRun(c) \/ OpenRepository(c) \/ ScanFiles(c)
               \/ StartTransfer(c) \/ LoadPrevious(c) \/ BackupFile(c) \/ FilesDone(c) \/ FlushUpload(c) \/ FlushRecord(c)
               \/ StillActive(c) \/ StartVerify(c) \/ FailRun(c) \/ CancelRun(c)
      <4>1. UNCHANGED snaps
        BY <3>3, Zenon DEF PollRun, PollMaintenance, PollNothing, LockRun, OpenRepository, ScanFiles,
                  StartTransfer, LoadPrevious, BackupFile, FilesDone, FlushUpload, FlushRecord, StillActive,
                  StartVerify, FailRun, CancelRun, storeVars
      <4> QED BY <4>1
    <3> QED BY <1>1, <3>1, <3>2, <3>3 DEF RunNext, Drafts
  <2>2. CASE Superseded(c)
    <3>1. coord[c].gen \in Gens
      BY <2>2 DEF Superseded, JobInv, ClaimsHeld, Claimed, Executes, RunSteps
    <3> QED BY <1>t, <2>2, <3>1, FadingStatements DEF Superseded
  <2> QED BY <1>t, <1>u, <2>1, <2>2, FadingStatements
<1>2. ASSUME NEW c \in Coords, RunNext(c) PROVE SnapFades(g) \/ (Drafts(c) /\ coord[c].gen = g)
  <2>1. SUFFICES ASSUME Drafts(c), coord[c].gen # g PROVE SnapFades(g)
    BY <1>1, <1>2
  <2>2. snaps'[g] = snaps[g]
    <3>1. CASE CreateDraft(c) BY <1>t, <2>1, <3>1 DEF CreateDraft, CreateSnapshotDraft
    <3>2. CASE WriteCatalog(c) BY <1>t, <2>1, <3>2 DEF WriteCatalog, BatchCreateSnapshotItems
    <3>3. CASE PublishSnapshot(c) BY <1>t, <2>1, <3>3 DEF PublishSnapshot, PublishSnapshotAndFinalize
    <3> QED BY <2>1, <3>1, <3>2, <3>3 DEF Drafts
  <2> QED BY <2>2 DEF SnapFades
<1>3. ASSUME NEW c \in Coords, MaintNext(c) PROVE SnapFades(g)
  <2>1. \/ snaps' = snaps \/ ExpireSnapshots \/ (\E p : MarkPackDeleted(p)) \/ (\E p, n : ReplacePackLocators(p, n))
        \/ DeleteJobAfterCleanup \/ (\E p : MarkPackDamaged(p))
    BY <1>3 DEF MaintNext, LockMaintenance, ExecuteMaintenance, ApplyExpiry, ListPacks, RemovePack, MarkRemoved,
                EnqueueCompaction, FinalizeDeletion, CompactOnePack, ReplacePack, RetirePack, MarkRetired, CopyTargets,
                ClaimTarget, CheckTarget, MarkTargetDamaged, AdvanceCursor, CompleteVerify, FinishMaintenance,
                storeVars
  <2> QED BY <1>t, <1>u, <2>1, FadingStatements, SMTT(40)
<1>4. ASSUME NEW c \in Coords, Heartbeat(c) \/ Crash(c) PROVE SnapFades(g)
  BY <1>4, <1>u DEF Heartbeat, Crash
<1>5. TimePasses => SnapFades(g) BY <1>u DEF TimePasses, RunGoesSilent, CheckGoesSilent, TargetLapses
<1>6. ASSUME Users PROVE SnapFades(g)
  <2>1. HandleDeleteBackup \/ snaps' = snaps
    BY <1>6 DEF Users, HandleRunBackup, HandlePauseBackup, HandleResumeBackup,
                HandleCreateBackupVerify, HandleCancelBackupVerify, SuspendUser, ReactivateUser
  <2> QED BY <1>t, <1>u, <2>1, FadingStatements
<1>7. ASSUME NEW s \in Schedulers, SchedulerStep(s) \/ SchedulerDies(s) PROVE SnapFades(g)
  BY <1>7, <1>u DEF SchedulerStep, ProcessSchedule, TriggerBackup, AdvanceSchedule, DeactivateSchedule,
                    SchedulerDies, storeVars
<1>8. Environment => SnapFades(g)
  BY <1>u DEF Environment, ScheduleBecomesDue, PlanRestore, FinishRestore, SourceChanges, PackDestroyed
<1> QED BY <1>2, <1>3, <1>4, <1>5, <1>6, <1>7, <1>8 DEF Next, CoordinatorStep

\* A draft stays true as long as its coordinator keeps to what it found
LEMMA DraftKept ==
    ASSUME NEW c \in Coords, DraftHolds(c), SnapFades(coord[c].gen), coord'[c].gen = coord[c].gen,
           coord'[c].pc \in Drafted => coord[c].pc \in Drafted /\ coord'[c].tree = coord[c].tree,
           coord'[c].pc \in Cataloged => coord[c].pc \in Cataloged /\ coord'[c].got = coord[c].got
    PROVE  DraftHolds(c)'
BY DEF DraftHolds, SnapFades

LEMMA DraftFails ==
    ASSUME Types, NEW c \in Coords, DraftHolds(c), snaps'[coord[c].gen].state \notin Visible,
           NEW p \in {"fail", "cancel"}, Goto(c, p)
    PROVE  DraftHolds(c)' /\ FilesHeld(c)'
<1>1. coord'[c].pc \in {"fail", "cancel"} /\ coord'[c].gen = coord[c].gen BY GotoFields
<1> QED BY <1>1 DEF DraftHolds, FilesHeld, BeforeFiles, Drafted, Flushed, Cataloged

LEMMA ActorDraft ==
    ASSUME JobInv, DraftInv, Next, NEW c \in Coords, RunNext(c), Executes(c)'
    PROVE  DraftHolds(c)' /\ FilesHeld(c)'
<1>t. /\ Types /\ coord \in [Coords -> Coordinator] /\ coord[c] \in Coordinator
      /\ snaps \in [Gens -> Snapshot] /\ runs \in [Gens -> Run]
  BY DEF JobInv, Types
<1>x. Executes(c) => /\ coord[c].gen \in Gens /\ snaps[coord[c].gen] \in Snapshot
                     /\ DraftHolds(c) /\ FilesHeld(c) /\ Claimed(c)
  BY <1>t DEF JobInv, ClaimsHeld, Claimed, DraftInv
<1>f. Executes(c) /\ ~Drafts(c) => SnapFades(coord[c].gen)
  <2>1. ASSUME Executes(c), ~Drafts(c), NEW d \in Coords, Drafts(d) PROVE coord[d].gen # coord[c].gen
    <3>1. Executes(d)
      BY <2>1 DEF Drafts, CreateDraft, WriteCatalog, PublishSnapshot, At, Executes, RunSteps
    <3> QED BY <2>1, <3>1 DEF JobInv, ClaimsApart
  <2> QED BY <1>x, <2>1, SnapSteps
<1>g. Executes(c) /\ ~Drafts(c) => \A p \in {"fail", "cancel"} : Goto(c, p) => DraftHolds(c)' /\ FilesHeld(c)'
  <2>1. Executes(c) /\ ~Drafts(c) => snaps'[coord[c].gen].state \notin Visible
    BY <1>x, <1>f DEF SnapFades, DraftHolds
  <2> QED BY <1>t, <1>x, <2>1, DraftFails
<1>r. ~Return(c)
  BY <1>t, ReturnFields DEF Executes, RunSteps
<1>d. ASSUME NEW p, Goto(c, p), Executes(c), ~Drafts(c),
             p \in Drafted => coord[c].pc \in Drafted, p \in Cataloged => coord[c].pc \in Cataloged
      PROVE  DraftHolds(c)'
  BY <1>d, <1>t, <1>x, <1>f, GotoFields, DraftKept
<1>1. CASE PollRecover(c) BY <1>1, <1>t, GotoFields DEF PollRecover, Executes, RunSteps
<1>2. CASE PollRun(c)
  <2>1. PICK g \in Gens : /\ ClaimNextQueuedBackupRun(g)
                          /\ coord' = [coord EXCEPT ![c] = [Idle(TRUE) EXCEPT !.pc = "lock", !.gen = g, !.st = "SCANNING"]]
    BY <1>2 DEF PollRun
  <2>2. /\ coord'[c].gen = g /\ coord'[c].pc = "lock" /\ coord'[c].got = Nothing
        /\ coord'[c].pend = {} /\ coord'[c].carry = {}
    BY <1>t, <2>1 DEF Idle
  <2>3. snaps[g].state \notin Visible BY <2>1 DEF DraftInv, PublishedIsComplete, ClaimNextQueuedBackupRun
  <2>4. snaps' = snaps BY <1>2 DEF PollRun
  <2> QED BY <2>2, <2>3, <2>4 DEF DraftHolds, FilesHeld, BeforeFiles, Drafted, Flushed, Cataloged
<1>3. CASE PollMaintenance(c) \/ PollNothing(c)
  <2>1. CASE PollNothing(c) BY <1>t, <2>1 DEF PollNothing, Idle, Executes, RunSteps
  <2>2. CASE PollMaintenance(c)
    <3>1. PICK q, m : coord' = [coord EXCEPT ![c] = [Idle(q) EXCEPT !.pc = "maintLock", !.maint = m]]
      BY <2>2 DEF PollMaintenance
    <3>2. coord'[c].pc = "maintLock" BY <1>t, <3>1 DEF Idle
    <3> QED BY <3>2 DEF Executes, RunSteps
  <2> QED BY <1>3, <2>1, <2>2
<1>4. CASE LockRun(c) \/ OpenRepository(c)
  <2>1. Executes(c) /\ ~Drafts(c) /\ coord[c].pc \in {"lock", "connect"}
    BY <1>4 DEF LockRun, OpenRepository, Drafts, CreateDraft, WriteCatalog, PublishSnapshot, At, Executes, RunSteps
  <2>2. CASE Goto(c, "fail") BY <1>g, <2>1, <2>2
  <2>3. ASSUME NEW p \in {"connect", "scan"}, Goto(c, p) PROVE DraftHolds(c)' /\ FilesHeld(c)'
    <3>1. DraftHolds(c)' BY <1>d, <2>1, <2>3 DEF Drafted, Cataloged
    <3>2. FilesHeld(c)'
      BY <1>t, <1>x, <2>1, <2>3, GotoFields DEF FilesHeld, BeforeFiles, Drafted, Flushed
    <3> QED BY <3>1, <3>2
  <2> QED BY <1>4, <2>2, <2>3 DEF LockRun, OpenRepository, Breaks
<1>5. CASE ScanFiles(c)
  <2>1. Executes(c) /\ ~Drafts(c) /\ coord[c].pc = "scan"
    BY <1>5 DEF ScanFiles, Drafts, CreateDraft, WriteCatalog, PublishSnapshot, At, Executes, RunSteps
  <2>2. CASE Goto(c, "fail") \/ Goto(c, "cancel") BY <1>g, <2>1, <2>2
  <2>3. CASE coord' = [coord EXCEPT ![c].pc = "start", ![c].tree = source,
                                    ![c].todo = {f \in Files : source[f] # NoBlock}]
    <3>1. /\ coord'[c].pc = "start" /\ coord'[c].gen = coord[c].gen /\ coord'[c].tree = source
          /\ coord'[c].todo = {f \in Files : source[f] # NoBlock} /\ coord'[c].got = coord[c].got
          /\ coord'[c].pend = coord[c].pend /\ coord'[c].carry = coord[c].carry
      BY <1>t, <2>3 DEF Coordinator
    <3>2. coord[c].got = Nothing /\ coord[c].pend = {} /\ coord[c].carry = {}
      BY <1>x, <2>1 DEF FilesHeld, BeforeFiles
    <3>3. DraftHolds(c)' BY <1>x, <1>f, <2>1, <3>1, DraftKept DEF Drafted, Cataloged
    <3>4. \A f \in Files : f \in coord'[c].todo \/ coord'[c].got[f] = coord'[c].tree[f]
      BY <3>1, <3>2 DEF Nothing
    <3> QED BY <3>1, <3>2, <3>3, <3>4 DEF FilesHeld, BeforeFiles, Drafted, Flushed
  <2> QED BY <1>5, <2>2, <2>3 DEF ScanFiles, Breaks
<1>6. CASE StartTransfer(c) \/ StartVerify(c)
  <2>1. Executes(c) /\ ~Drafts(c)
    BY <1>6 DEF StartTransfer, StartVerify, Drafts, CreateDraft, WriteCatalog, PublishSnapshot, At, Executes, RunSteps
  <2>2. CASE Goto(c, "fail") BY <1>g, <2>1, <2>2
  <2>3. ASSUME NEW p \in {"draft", "sample"}, NEW s, coord' = [coord EXCEPT ![c].pc = p, ![c].st = s],
               coord[c].pc = IF p = "draft" THEN "start" ELSE "transit"
        PROVE  DraftHolds(c)' /\ FilesHeld(c)'
    <3>1. /\ coord'[c].pc = p /\ coord'[c].gen = coord[c].gen /\ coord'[c].tree = coord[c].tree
          /\ coord'[c].todo = coord[c].todo /\ coord'[c].got = coord[c].got /\ coord'[c].partial = coord[c].partial
          /\ coord'[c].pend = coord[c].pend /\ coord'[c].carry = coord[c].carry
      BY <1>t, <2>3 DEF Coordinator
    <3>2. DraftHolds(c)' BY <1>x, <1>f, <2>1, <2>3, <3>1, DraftKept DEF Drafted, Cataloged
    <3>3. FilesHeld(c)' BY <1>x, <2>1, <2>3, <3>1 DEF FilesHeld, BeforeFiles, Drafted, Flushed
    <3> QED BY <3>2, <3>3
  <2> QED BY <1>6, <2>2, <2>3 DEF StartTransfer, StartVerify, At
<1>7. CASE CreateDraft(c)
  <2>1. Executes(c) /\ coord[c].pc = "draft" BY <1>7 DEF CreateDraft, At, Executes, RunSteps
  <2>2. CASE Goto(c, "fail") /\ UNCHANGED snaps
    <3>1. snaps'[coord[c].gen].state \notin Visible BY <1>x, <2>1, <2>2 DEF DraftHolds
    <3> QED BY <1>t, <1>x, <2>1, <2>2, <3>1, DraftFails
  <2>3. CASE CreateSnapshotDraft(coord[c].gen, coord[c].tree) /\ Goto(c, "previous")
    <3>1. snaps'[coord[c].gen].state = "PUBLISHING" /\ snaps'[coord[c].gen].scanned = coord[c].tree
      BY <1>t, <1>x, <2>1, <2>3 DEF CreateSnapshotDraft
    <3>2. /\ coord'[c].pc = "previous" /\ coord'[c].gen = coord[c].gen /\ coord'[c].tree = coord[c].tree
          /\ coord'[c].todo = coord[c].todo /\ coord'[c].got = coord[c].got /\ coord'[c].partial = coord[c].partial
          /\ coord'[c].pend = coord[c].pend /\ coord'[c].carry = coord[c].carry
      BY <1>t, <2>3, GotoFields
    <3>3. DraftHolds(c)' BY <3>1, <3>2 DEF DraftHolds, Visible, Cataloged
    <3>4. FilesHeld(c)' BY <1>x, <2>1, <3>2 DEF FilesHeld, BeforeFiles, Drafted, Flushed
    <3> QED BY <3>3, <3>4
  <2> QED BY <1>7, <2>2, <2>3 DEF CreateDraft
<1>8. CASE LoadPrevious(c)
  <2>1. Executes(c) /\ ~Drafts(c) /\ coord[c].pc = "previous"
    BY <1>8 DEF LoadPrevious, Drafts, CreateDraft, WriteCatalog, PublishSnapshot, At, Executes, RunSteps
  <2>2. CASE Goto(c, "fail") BY <1>g, <2>1, <2>2
  <2>3. ASSUME NEW t, coord' = [coord EXCEPT ![c].pc = "files", ![c].prev = t] PROVE DraftHolds(c)' /\ FilesHeld(c)'
    <3>1. /\ coord'[c].pc = "files" /\ coord'[c].gen = coord[c].gen /\ coord'[c].tree = coord[c].tree
          /\ coord'[c].todo = coord[c].todo /\ coord'[c].got = coord[c].got /\ coord'[c].partial = coord[c].partial
          /\ coord'[c].pend = coord[c].pend /\ coord'[c].carry = coord[c].carry
      BY <1>t, <2>3 DEF Coordinator
    <3>2. DraftHolds(c)' BY <1>x, <1>f, <2>1, <3>1, DraftKept DEF Drafted, Cataloged
    <3>3. FilesHeld(c)' BY <1>x, <2>1, <3>1 DEF FilesHeld, BeforeFiles, Drafted, Flushed
    <3> QED BY <3>2, <3>3
  <2> QED BY <1>8, <2>2, <2>3 DEF LoadPrevious, Breaks
<1>9. CASE Superseded(c) \/ FailRun(c) \/ CancelRun(c)
  BY <1>9, <1>r DEF Superseded, FailRun, CancelRun
<1>10. CASE BackupFile(c)
  <2>1. Executes(c) /\ ~Drafts(c) /\ coord[c].pc = "files"
    BY <1>10 DEF BackupFile, Drafts, CreateDraft, WriteCatalog, PublishSnapshot, At, Executes, RunSteps
  <2>2. CASE Goto(c, "fail") \/ Goto(c, "cancel") BY <1>g, <2>1, <2>2
  <2>3. ASSUME NEW f \in coord[c].todo, coord' = [coord EXCEPT ![c] = FileOutcome(c, f)]
        PROVE  DraftHolds(c)' /\ FilesHeld(c)'
    <3> DEFINE l == coord[c]
               n == coord'[c]
               b == coord[c].tree[f]
    <3>1. coord[c].tree[f] # NoBlock /\ coord'[c] = FileOutcome(c, f) BY <1>t, <1>x, <2>1, <2>3 DEF Claimed
    <3>2. /\ n.gen = l.gen /\ n.tree = l.tree
          /\ \/ /\ n.pc = "fail" /\ n.todo = l.todo
             \/ /\ n.pc = l.pc /\ n.todo = l.todo \ {f} /\ n.partial = TRUE /\ n.carry = l.carry
             \/ /\ n.todo = l.todo \ {f} /\ n.partial = l.partial /\ n.got = [l.got EXCEPT ![f] = b]
                /\ \/ n.pc = l.pc /\ n.carry = l.carry
                   \/ n.pc = "upload" /\ n.pend = l.pend /\ n.carry = {b} /\ l.pend # {}
      <4> DEFINE o == FileOutcome(c, f)
      <4>1. /\ o.gen = l.gen /\ o.tree = l.tree
            /\ \/ /\ o.pc = "fail" /\ o.todo = l.todo
               \/ /\ o.pc = l.pc /\ o.todo = l.todo \ {f} /\ o.partial = TRUE /\ o.carry = l.carry
               \/ /\ o.todo = l.todo \ {f} /\ o.partial = l.partial /\ o.got = [l.got EXCEPT ![f] = b]
                  /\ \/ o.pc = l.pc /\ o.carry = l.carry
                     \/ o.pc = "upload" /\ o.pend = l.pend /\ o.carry = {b} /\ l.pend # {}
        BY <1>t, <3>1, FileFields, Zenon
      <4>2. n = o BY <3>1
      <4> HIDE DEF o, n, l, b
      <4> QED BY <4>1, <4>2, Zenon
    <3>3. DraftHolds(c)' BY <1>x, <1>f, <2>1, <3>2, DraftKept DEF Drafted, Cataloged
    <3>4. l.got \in Tree /\ l.todo \in SUBSET Files /\ l.carry = {}
          /\ (~l.partial => \A h \in Files : h \in l.todo \/ l.got[h] = l.tree[h])
      BY <1>t, <1>x, <2>1 DEF Coordinator, FilesHeld, Drafted
    <3>5. n.got = [l.got EXCEPT ![f] = b] /\ n.todo = l.todo \ {f} /\ n.partial = l.partial /\ ~n.partial
          => \A h \in Files : h \in n.todo \/ n.got[h] = n.tree[h]
      BY <3>2, <3>4 DEF Tree
    <3>6. FilesHeld(c)'
      BY <2>1, <3>2, <3>4, <3>5 DEF FilesHeld, BeforeFiles, Drafted, Flushed
    <3> QED BY <3>3, <3>6
  <2> QED BY <1>10, <2>2, <2>3 DEF BackupFile, Breaks
<1>11. CASE FilesDone(c)
  <2>1. Executes(c) /\ ~Drafts(c) /\ coord[c].pc = "files" /\ coord[c].todo = {}
    BY <1>11 DEF FilesDone, Drafts, CreateDraft, WriteCatalog, PublishSnapshot, At, Executes, RunSteps
  <2>2. PICK p \in {"catalog", "upload"} : Goto(c, p) /\ (p = "catalog" <=> coord[c].pend = {}) BY <1>11 DEF FilesDone
  <2>3. DraftHolds(c)' BY <1>d, <2>1, <2>2 DEF Drafted, Cataloged
  <2>4. FilesHeld(c)' BY <1>t, <1>x, <2>1, <2>2, GotoFields DEF FilesHeld, BeforeFiles, Drafted, Flushed
  <2> QED BY <2>3, <2>4
<1>12. CASE FlushUpload(c)
  <2>1. Executes(c) /\ ~Drafts(c) /\ coord[c].pc = "upload"
    BY <1>12 DEF FlushUpload, Drafts, CreateDraft, WriteCatalog, PublishSnapshot, At, Executes, RunSteps
  <2>2. CASE Goto(c, "fail") \/ Goto(c, "cancel") BY <1>g, <2>1, <2>2
  <2>3. CASE Goto(c, "record")
    <3>1. DraftHolds(c)' BY <1>d, <2>1, <2>3 DEF Drafted, Cataloged
    <3>2. FilesHeld(c)' BY <1>t, <1>x, <2>1, <2>3, GotoFields DEF FilesHeld, BeforeFiles, Drafted, Flushed
    <3> QED BY <3>1, <3>2
  <2> QED BY <1>12, <2>2, <2>3 DEF FlushUpload, Breaks
<1>13. CASE FlushRecord(c)
  <2>1. Executes(c) /\ ~Drafts(c) /\ coord[c].pc = "record"
    BY <1>13 DEF FlushRecord, Drafts, CreateDraft, WriteCatalog, PublishSnapshot, At, Executes, RunSteps
  <2>2. CASE Goto(c, "fail") BY <1>g, <2>1, <2>2
  <2>3. ASSUME NEW p \in {"catalog", "files"}, p = "catalog" <=> coord[c].carry = {},
               coord' = [coord EXCEPT ![c].pend = coord[c].carry, ![c].carry = {}, ![c].pc = p]
        PROVE  DraftHolds(c)' /\ FilesHeld(c)'
    <3>1. /\ coord'[c].pc = p /\ coord'[c].gen = coord[c].gen /\ coord'[c].tree = coord[c].tree
          /\ coord'[c].todo = coord[c].todo /\ coord'[c].got = coord[c].got /\ coord'[c].partial = coord[c].partial
          /\ coord'[c].pend = coord[c].carry /\ coord'[c].carry = {}
      BY <1>t, <2>3 DEF Coordinator
    <3>2. DraftHolds(c)' BY <1>x, <1>f, <2>1, <3>1, DraftKept DEF Drafted, Cataloged
    <3>3. FilesHeld(c)' BY <1>x, <2>1, <2>3, <3>1 DEF FilesHeld, BeforeFiles, Drafted, Flushed
    <3> QED BY <3>2, <3>3
  <2>4. \/ Goto(c, "fail")
        \/ \E p \in {"catalog", "files"} :
             /\ p = "catalog" <=> coord[c].carry = {}
             /\ coord' = [coord EXCEPT ![c].pend = coord[c].carry, ![c].carry = {}, ![c].pc = p]
    BY <1>13 DEF FlushRecord
  <2> QED BY <2>2, <2>3, <2>4
<1>14. CASE StillActive(c)
  <2>1. Executes(c) /\ ~Drafts(c)
    BY <1>14 DEF StillActive, Drafts, CreateDraft, WriteCatalog, PublishSnapshot, At, Executes, RunSteps
  <2>2. \/ coord[c].pc = "catalog" /\ Goto(c, "items")
        \/ coord[c].pc = "verify" /\ Goto(c, "transit")
    BY <1>14 DEF StillActive, At
  <2>3. DraftHolds(c)' BY <1>d, <2>1, <2>2 DEF Drafted, Cataloged
  <2>4. FilesHeld(c)' BY <1>t, <1>x, <2>1, <2>2, GotoFields DEF FilesHeld, BeforeFiles, Drafted, Flushed
  <2> QED BY <2>3, <2>4
<1>15. CASE WriteCatalog(c)
  <2>1. Executes(c) /\ coord[c].pc = "items" BY <1>15 DEF WriteCatalog, At, Executes, RunSteps
  <2>2. CASE Goto(c, "fail") /\ UNCHANGED snaps
    <3>1. snaps'[coord[c].gen].state \notin Visible BY <1>x, <2>1, <2>2 DEF DraftHolds
    <3> QED BY <1>t, <1>x, <2>1, <2>2, <3>1, DraftFails
  <2>3. CASE BatchCreateSnapshotItems(coord[c].gen, coord[c].got) /\ Goto(c, "verify")
    <3>1. /\ snaps'[coord[c].gen].state = snaps[coord[c].gen].state
          /\ snaps'[coord[c].gen].scanned = snaps[coord[c].gen].scanned
          /\ snaps'[coord[c].gen].links = coord[c].got
      BY <1>t, <1>x, <2>1, <2>3 DEF BatchCreateSnapshotItems, Snapshot
    <3>2. /\ coord'[c].pc = "verify" /\ coord'[c].gen = coord[c].gen /\ coord'[c].tree = coord[c].tree
          /\ coord'[c].todo = coord[c].todo /\ coord'[c].got = coord[c].got /\ coord'[c].partial = coord[c].partial
          /\ coord'[c].pend = coord[c].pend /\ coord'[c].carry = coord[c].carry
      BY <1>t, <2>3, GotoFields
    <3>3. DraftHolds(c)' BY <1>x, <2>1, <3>1, <3>2 DEF DraftHolds, Drafted
    <3>4. FilesHeld(c)' BY <1>x, <2>1, <3>2 DEF FilesHeld, BeforeFiles, Drafted, Flushed
    <3> QED BY <3>3, <3>4
  <2> QED BY <1>15, <2>2, <2>3 DEF WriteCatalog, Breaks
<1>16. CASE VerifySample(c)
  <2>1. Executes(c) /\ ~Drafts(c) /\ coord[c].pc = "sample"
    BY <1>16 DEF VerifySample, Drafts, CreateDraft, WriteCatalog, PublishSnapshot, At, Executes, RunSteps
  <2>2. CASE Goto(c, "fail") BY <1>g, <2>1, <2>2
  <2>3. CASE Goto(c, "publish")
    <3>1. DraftHolds(c)' BY <1>d, <2>1, <2>3 DEF Drafted, Cataloged
    <3>2. FilesHeld(c)' BY <1>t, <1>x, <2>1, <2>3, GotoFields DEF FilesHeld, BeforeFiles, Drafted, Flushed
    <3> QED BY <3>1, <3>2
  <2> QED BY <1>16, <2>2, <2>3 DEF VerifySample, Breaks
<1>17. CASE PublishSnapshot(c)
  <2>1. Executes(c) /\ coord[c].pc = "publish" BY <1>17 DEF PublishSnapshot, At, Executes, RunSteps
  <2>2. Goto(c, "fail") /\ UNCHANGED snaps BY <1>17, <1>r DEF PublishSnapshot
  <2>3. snaps'[coord[c].gen].state \notin Visible BY <1>x, <2>1, <2>2 DEF DraftHolds
  <2> QED BY <1>t, <1>x, <2>1, <2>2, <2>3, DraftFails
<1> QED BY <1>1, <1>2, <1>3, <1>4, <1>5, <1>6, <1>7, <1>8, <1>9, <1>10, <1>11, <1>12, <1>13, <1>14,
           <1>15, <1>16, <1>17 DEF RunNext

LEMMA DraftOfOther ==
    ASSUME JobInv, Next, NEW d \in Coords, Executes(d), DraftHolds(d), FilesHeld(d), coord'[d] = coord[d],
           ~Drafts(d)
    PROVE  DraftHolds(d)' /\ FilesHeld(d)'
<1>1. ASSUME NEW c \in Coords, Drafts(c) PROVE coord[c].gen # coord[d].gen
  <2>1. Executes(c) /\ c # d
    BY <1>1 DEF Drafts, CreateDraft, WriteCatalog, PublishSnapshot, At, Executes, RunSteps
  <2> QED BY <2>1 DEF JobInv, ClaimsApart
<1>2. coord[d].gen \in Gens BY DEF JobInv, ClaimsHeld, Claimed
<1>3. SnapFades(coord[d].gen) BY <1>1, <1>2, SnapSteps
<1>4. DraftHolds(d)' BY <1>3, DraftKept
<1> QED BY <1>4 DEF FilesHeld

\* Statements of a run leave the coordinators of other runs alone
LEMMA DraftsStay ==
    ASSUME JobInv, NEW c \in Coords, Drafts(c)
    PROVE  LocalStep(c) /\ Executes(c) /\ RunNext(c)
<1>1. RunNext(c) BY DEF Drafts, RunNext
<1>2. Executes(c) BY DEF Drafts, CreateDraft, WriteCatalog, PublishSnapshot, At, Executes, RunSteps
<1> QED BY <1>1, <1>2, RunLocalStep

LEMMA DraftsHold ==
    ASSUME JobInv, DraftInv, Next
    PROVE  \A d \in Coords : Executes(d)' => DraftHolds(d)' /\ FilesHeld(d)'
<1> TAKE d \in Coords
<1> HAVE Executes(d)'
<1>1. CASE RunNext(d) BY <1>1, ActorDraft
<1>2. CASE ~RunNext(d)
  <2>1. coord'[d] = coord[d] /\ Executes(d)
    <3>1. ASSUME NEW c \in Coords, c # d, LocalStep(c) PROVE coord'[d] = coord[d]
      BY <3>1 DEF LocalStep, OthersStay
    <3>2. ASSUME NEW c \in Coords, CoordinatorStep(c) PROVE coord'[d] = coord[d]
      <4>1. CASE RunNext(c) BY <1>2, <3>1, <4>1, RunLocalStep
      <4>2. CASE MaintNext(c)
        <5>1. OthersStay(c) /\ coord'[c].pc \notin RunSteps
          BY <4>2, MaintLocalStep DEF JobInv, MaintSteps, RunSteps
        <5> QED BY <5>1 DEF OthersStay, Executes
      <4>3. CASE Crash(c)
        <5>1. OthersStay(c) /\ coord'[c].pc \notin RunSteps
          BY <4>3 DEF JobInv, Types, Crash, OthersStay, Idle, RunSteps
        <5> QED BY <5>1 DEF OthersStay, Executes
      <4>4. CASE Heartbeat(c) BY <4>4, CoordUnchanged
      <4> QED BY <3>2, <4>1, <4>2, <4>3, <4>4 DEF CoordinatorStep
    <3>3. coord'[d] = coord[d] BY <3>2, CoordUnchanged DEF Next
    <3> QED BY <3>3 DEF Executes
  <2>2. ~Drafts(d) BY <1>2, DraftsStay
  <2> QED BY <2>1, <2>2, DraftOfOther DEF DraftInv
<1> QED BY <1>1, <1>2

\* Publication: what becomes visible is the draft of the coordinator
LEMMA Published ==
    ASSUME JobInv, DraftInv, NEW c \in Coords, Drafts(c), NEW g, g = coord[c].gen, snaps'[g].state \in Visible
    PROVE  /\ g \in Gens /\ CanPublish(g) /\ At(c, "publish") /\ Return(c)
           /\ snaps'[g].state = IF coord[c].partial THEN "PARTIAL" ELSE "READY"
           /\ runs'[g].state = IF coord[c].partial THEN "PARTIAL" ELSE "COMPLETED"
           /\ snaps'[g].scanned = coord[c].tree /\ snaps'[g].links = coord[c].got
           /\ ~coord[c].partial => coord[c].got = coord[c].tree
           /\ snaps' = [snaps EXCEPT ![g].state = IF coord[c].partial THEN "PARTIAL" ELSE "READY"]
<1>t. /\ Executes(c) /\ g \in Gens /\ snaps \in [Gens -> Snapshot] /\ runs \in [Gens -> Run] /\ snaps[g] \in Snapshot
      /\ DraftHolds(c) /\ FilesHeld(c) /\ coord[c] \in Coordinator
  <2>1. Executes(c) BY DraftsStay
  <2> QED BY <2>1 DEF JobInv, ClaimsHeld, Claimed, Types, DraftInv
<1>1. ~CreateDraft(c)
  BY <1>t DEF CreateDraft, CreateSnapshotDraft, DraftHolds, Visible
<1>2. ~WriteCatalog(c)
  BY <1>t DEF WriteCatalog, BatchCreateSnapshotItems, DraftHolds, Snapshot
<1>3. PublishSnapshot(c) BY <1>1, <1>2 DEF Drafts
<1>4. PublishSnapshotAndFinalize(g, coord[c].partial) /\ At(c, "publish") /\ Return(c) /\ CanPublish(g)
  BY <1>t, <1>3 DEF PublishSnapshot, DraftHolds
<1> DEFINE s == IF coord[c].partial THEN "PARTIAL" ELSE "READY"
           r == IF coord[c].partial THEN "PARTIAL" ELSE "COMPLETED"
<1>5. snaps' = [snaps EXCEPT ![g].state = s] /\ runs' = [runs EXCEPT ![g].state = r]
  BY <1>4 DEF PublishSnapshotAndFinalize
<1> HIDE DEF s, r
<1>6. /\ snaps'[g].state = s /\ snaps'[g].scanned = snaps[g].scanned /\ snaps'[g].links = snaps[g].links
      /\ runs'[g].state = r
  BY <1>t, <1>5 DEF Snapshot, Run
<1>7. snaps[g].scanned = coord[c].tree /\ snaps[g].links = coord[c].got
  BY <1>t, <1>4 DEF CanPublish, DraftHolds, At, Drafted, Cataloged
<1>8. ~coord[c].partial => coord[c].got = coord[c].tree
  <2>1. ~coord[c].partial => \A f \in Files : coord[c].got[f] = coord[c].tree[f]
    BY <1>t, <1>4 DEF FilesHeld, At, Drafted, Flushed
  <2>2. coord[c].got \in [Files -> Content] /\ coord[c].tree \in [Files -> Content]
    BY <1>t DEF Coordinator, Tree
  <2> QED BY <2>1, <2>2
<1> QED BY <1>t, <1>4, <1>5, <1>6, <1>7, <1>8 DEF s, r

LEMMA DraftStep == ASSUME JobInv, DraftInv, Next PROVE DraftInv'
<1>t. Types /\ Types' BY NextType DEF JobInv
<1>a. job \in Job /\ runs \in [Gens -> Run] /\ job' \in Job /\ runs' \in [Gens -> Run]
      /\ snaps \in [Gens -> Snapshot]
  BY <1>t DEF Types
<1>b. /\ \A g \in Gens : runs[g].state \in Ended => runs'[g].state = runs[g].state \/ job'.status = "GONE"
      /\ job.status \in {"DELETING", "GONE"} => job'.status \in {"DELETING", "GONE"}
      /\ job'.status \in {"DELETING", "GONE"} => job.status \in {"DELETING", "GONE"} \/ NoneVisible'
  BY <1>a, RowSteps, RowConsequences DEF JobInv
<1>1. DeletedHidesAll'
  <2> SUFFICES ASSUME job'.status \in {"DELETING", "GONE"}, job.status \in {"DELETING", "GONE"},
                      NEW g \in Gens, snaps'[g].state \in Visible
               PROVE  FALSE
    BY <1>b DEF DeletedHidesAll, NoneVisible
  <2>1. snaps[g].state \notin Visible BY DEF DraftInv, DeletedHidesAll
  <2>2. ~SnapFades(g) BY <2>1 DEF SnapFades
  <2>3. PICK c \in Coords : Drafts(c) /\ coord[c].gen = g BY <2>2, SnapSteps
  <2>4. CanPublish(g) BY <2>3, Published
  <2> QED BY <2>4 DEF CanPublish, CanTransition
<1>2. PublishedIsComplete'
  <2> SUFFICES ASSUME NEW g \in Gens, snaps'[g].state \in Visible
               PROVE  /\ runs'[g].state = IF snaps'[g].state = "PARTIAL" THEN "PARTIAL" ELSE "COMPLETED"
                      /\ snaps'[g].state = "READY" => snaps'[g].links = snaps'[g].scanned
    BY DEF PublishedIsComplete
  <2>1. CASE SnapFades(g)
    <3>1. snaps'[g] = snaps[g] BY <2>1 DEF SnapFades
    <3>2. job'.status # "GONE" BY <1>1 DEF DeletedHidesAll
    <3>3. runs[g].state \in Ended BY <3>1 DEF DraftInv, PublishedIsComplete, Ended
    <3>4. runs'[g].state = runs[g].state BY <1>b, <3>2, <3>3
    <3> QED BY <3>1, <3>4 DEF DraftInv, PublishedIsComplete
  <2>2. ASSUME NEW c \in Coords, Drafts(c), coord[c].gen = g
        PROVE  /\ runs'[g].state = IF snaps'[g].state = "PARTIAL" THEN "PARTIAL" ELSE "COMPLETED"
               /\ snaps'[g].state = "READY" => snaps'[g].links = snaps'[g].scanned
    <3>1. /\ snaps'[g].state = IF coord[c].partial THEN "PARTIAL" ELSE "READY"
          /\ runs'[g].state = IF coord[c].partial THEN "PARTIAL" ELSE "COMPLETED"
          /\ snaps'[g].scanned = coord[c].tree /\ snaps'[g].links = coord[c].got
          /\ ~coord[c].partial => coord[c].got = coord[c].tree
      BY <2>2, Published
    <3> QED BY <3>1
  <2> QED BY <2>1, <2>2, SnapSteps
<1> QED BY <1>1, <1>2, DraftsHold DEF DraftInv

LEMMA DraftInit == ASSUME Init PROVE DraftInv
<1> DEFINE done == IF Boot = "published" THEN {1} ELSE {}
<1>1. /\ job.status = "IDLE"
      /\ runs = [g \in Gens |-> IF g \in done THEN [NoRun EXCEPT !.state = "COMPLETED"] ELSE NoRun]
      /\ snaps = [g \in Gens |-> IF g \in done
                                 THEN [state |-> "READY", scanned |-> source, links |-> source] ELSE NoSnap]
  BY DEF Init, StoreInit
<1>2. \A g \in Gens : g \in done => /\ runs[g].state = "COMPLETED" /\ snaps[g].state = "READY"
                                    /\ snaps[g].links = snaps[g].scanned
  BY <1>1 DEF NoRun
<1>3. \A g \in Gens : g \notin done => snaps[g].state = "NONE"
  BY <1>1 DEF NoSnap
<1>4. PublishedIsComplete BY <1>2, <1>3 DEF PublishedIsComplete, Visible
<1>5. \A c \in Coords : ~Executes(c) BY DEF Init, CoordInit, Executes, Idle, RunSteps
<1> QED BY <1>1, <1>4, <1>5 DEF DraftInv, DeletedHidesAll

LEMMA DraftStutter == ASSUME DraftInv, UNCHANGED vars PROVE DraftInv'
BY DEF vars, storeVars, coordVars, controlVars, DraftInv, DeletedHidesAll, PublishedIsComplete, Executes,
       DraftHolds, FilesHeld

(***************************************************************************)
(* A snapshot the user can see was published by its own run and links      *)
(* every file the run scanned, or says that it is PARTIAL: no stale        *)
(* coordinator publishes, and no file is left out silently (backupFile,    *)
(* PublishBackupSnapshotAndFinalizeContext).                               *)
(***************************************************************************)
THEOREM SnapshotsAreComplete == Spec => []PublishedIsComplete
<1>1. Init => JobInv /\ DraftInv BY JobInit, DraftInit
<1>2. JobInv /\ DraftInv /\ [Next]_vars => (JobInv /\ DraftInv)' BY JobStep, JobStutter, DraftStep, DraftStutter
<1>3. DraftInv => PublishedIsComplete BY DEF DraftInv
<1> QED BY <1>1, <1>2, <1>3, PTL DEF Spec

-----------------------------------------------------------------------------
(* The repository under the advisory lock *)

Locked == (RunSteps \ {"lock", "fail", "cancel"}) \cup (MaintSteps \ {"maintLock", "retry"})

Dead(p) == \A b \in InPack(p) : ~Live(b)

HasObject(p) == p \in remote \cup lost

KindsKnown == \A m \in MaintIds : maint[m].kind # "NONE" => maint[m].state # "NONE"

DeletionIsDeleting ==
    \A m \in MaintIds : maint[m].kind = "DELETE_REPOSITORY" => job.status \in {"DELETING", "GONE"}

LiveIsStored == \A b \in Blocks : Live(b) => FindBackupBlock(b)

Removing(p) == \E c \in Coords : coord[c].pc = "mark" /\ coord[c].pack = p

ReadyHasObject ==
    \A p \in PackIds : packs[p] = "READY" => HasObject(p) \/ p \in unmarked \/ Removing(p)

\* What a coordinator remembers of the repository is true as long as it holds the lock
RunMemory(c) ==
    LET l == coord[c] IN
    /\ l.pc \in Drafted \ {"previous"} =>
         \A f \in Files : l.got[f] # NoBlock => l.got[f] \in l.pend \cup l.carry \/ FindBackupBlock(l.got[f])
    /\ l.pc \in {"files", "upload", "record"} =>
         \A f \in Files : l.prev[f] # NoBlock => FindBackupBlock(l.prev[f])
    /\ l.pc = "record" => HasObject(l.pend)

MaintMemory(c) ==
    LET l == coord[c] IN
    /\ l.pc \in {"expire", "list"} => Kind(c) \in {"RETENTION", "DELETE_REPOSITORY"}
    /\ l.pc \in {"remove", "mark"} => \A p \in l.list : Dead(p)
    /\ l.pc = "mark" => l.pack \in l.list
    /\ l.pc = "replace" => /\ l.pack \in PackIds /\ packs[l.pack] = "READY"
                           /\ l.live \in PackIds /\ HasObject(l.live)
                           /\ \A b \in InPack(l.pack) : Live(b) => b \in l.live
    /\ l.pc \in {"retire", "retireMark"} => l.pack \in PackIds /\ packs[l.pack] # "READY" /\ Dead(l.pack)

Memory(c) ==
    /\ coord[c].pc \in Locked => lock = c /\ RunMemory(c) /\ MaintMemory(c)
    /\ coord[c].pc \in MaintSteps => coord[c].maint \in MaintIds

RepoInv ==
    /\ KindsKnown /\ DeletionIsDeleting /\ LiveIsStored /\ ReadyHasObject
    /\ \A c \in Coords : Memory(c)

\* What a step does to a maintenance row
RowKept(m) == maint'[m].kind = maint[m].kind /\ (maint[m].state # "NONE" => maint'[m].state # "NONE")

RowNew(m) ==
    /\ maint[m].state = "NONE" /\ maint'[m].state = "PENDING"
    /\ maint'[m].kind = "DELETE_REPOSITORY" => job'.status = "DELETING"

RowGone(m) == maint'[m].kind = "NONE"

LEMMA RowStatements ==
    ASSUME Types, NEW m \in MaintIds
    PROVE  /\ UNCHANGED maint => RowKept(m)
           /\ \A k \in Kinds : maint' = Inserted(k) /\ (k = "DELETE_REPOSITORY" => job'.status = "DELETING")
                               => RowKept(m) \/ RowNew(m)
           /\ \A n \in MaintIds : ClaimNextMaintenance(n) => RowKept(m)
           /\ \A n : CompleteMaintenance(n) \/ RetryMaintenance(n) => RowKept(m)
           /\ \A n \in MaintIds : CancelBackupVerify(n) => RowKept(m)
           /\ DeleteJobAfterCleanup => RowGone(m)
<1>t. maint \in [MaintIds -> Maintenance] BY DEF Types
<1>1. UNCHANGED maint => RowKept(m) BY DEF RowKept
<1>2. ASSUME NEW k \in Kinds, maint' = Inserted(k), k = "DELETE_REPOSITORY" => job'.status = "DELETING"
      PROVE  RowKept(m) \/ RowNew(m)
  <2>1. CASE m \in FreeMaint BY <1>2, <2>1 DEF Inserted, FreeMaint, RowNew
  <2>2. CASE m \notin FreeMaint BY <1>2, <2>2 DEF Inserted, RowKept
  <2> QED BY <2>1, <2>2
<1>3. ASSUME NEW n \in MaintIds, ClaimNextMaintenance(n) PROVE RowKept(m)
  <2>1. Recovered \in [MaintIds -> Maintenance] BY StatementTypes
  <2>2. maint'[m].kind = Recovered[m].kind /\ (Recovered[m].state # "NONE" => maint'[m].state # "NONE")
    BY <1>3, <2>1 DEF ClaimNextMaintenance, Maintenance
  <2>3. Recovered[m].kind = maint[m].kind /\ (maint[m].state # "NONE" => Recovered[m].state # "NONE")
    BY <1>t DEF Recovered, Maintenance
  <2> QED BY <2>2, <2>3 DEF RowKept
<1>4. ASSUME NEW n, CompleteMaintenance(n) \/ RetryMaintenance(n) PROVE RowKept(m)
  <2> DEFINE x == maint[n].state
  <2>1. PICK v : /\ maint' = [maint EXCEPT ![n] = [maint[n] EXCEPT !.state = v]]
                 /\ v \in {"COMPLETED", "CANCELLED", "RETRY_WAIT"} \/ v = x
    BY <1>4 DEF CompleteMaintenance, RetryMaintenance
  <2> HIDE DEF x
  <2>2. m # n => maint'[m] = maint[m] BY <1>t, <2>1
  <2>3. m = n => maint'[m].kind = maint[m].kind /\ maint'[m].state = v BY <1>t, <2>1 DEF Maintenance
  <2> QED BY <2>1, <2>2, <2>3 DEF RowKept, x
<1>5. ASSUME NEW n \in MaintIds, CancelBackupVerify(n) PROVE RowKept(m)
  <2>2. PICK v \in {"CANCELLING", "CANCELLED"} : maint' = [maint EXCEPT ![n] = [maint[n] EXCEPT !.state = v]]
    BY <1>5 DEF CancelBackupVerify
  <2> QED BY <1>t, <2>2 DEF RowKept, Maintenance
<1>6. DeleteJobAfterCleanup => RowGone(m) BY DEF DeleteJobAfterCleanup, RowGone, NoMaint
<1> QED BY <1>1, <1>2, <1>3, <1>4, <1>5, <1>6

LEMMA MaintRows ==
    ASSUME JobInv, Next, NEW m \in MaintIds
    PROVE  RowKept(m) \/ RowNew(m) \/ (RowGone(m) /\ \E c \in Coords : FinalizeDeletion(c))
<1>t. Types /\ maint \in [MaintIds -> Maintenance] BY DEF JobInv, Types
<1>1. ASSUME NEW c \in Coords, RunNext(c) PROVE RowKept(m) \/ RowNew(m)
  <2>1. CASE PollMaintenance(c) BY <1>t, <2>1, RowStatements DEF PollMaintenance
  <2>2. CASE PublishSnapshot(c)
    <3>1. UNCHANGED maint \/ maint' = Inserted("RETENTION") BY <2>2 DEF PublishSnapshot, PublishSnapshotAndFinalize
    <3> QED BY <1>t, <3>1, RowStatements DEF Kinds
  <2>3. CASE ~PollMaintenance(c) /\ ~PublishSnapshot(c)
    <3>1. UNCHANGED maint
      BY <1>1, <2>3, Zenon DEF RunNext, PollRecover, PollRun, PollNothing, LockRun, OpenRepository, ScanFiles, StartTransfer,
         CreateDraft, LoadPrevious, Superseded, BackupFile, FilesDone, FlushUpload, FlushRecord, StillActive,
         WriteCatalog, StartVerify, VerifySample, FailRun, CancelRun, storeVars
    <3> QED BY <1>t, <3>1, RowStatements
  <2> QED BY <2>1, <2>2, <2>3
<1>2. ASSUME NEW c \in Coords, MaintNext(c) PROVE RowKept(m) \/ RowNew(m) \/ (RowGone(m) /\ FinalizeDeletion(c))
  <2>1. CASE EnqueueCompaction(c)
    <3>1. UNCHANGED maint \/ maint' = Inserted("COMPACTION") BY <2>1 DEF EnqueueCompaction, EnqueueMaintenance
    <3> QED BY <1>t, <3>1, RowStatements DEF Kinds
  <2>2. CASE FinalizeDeletion(c) BY <1>t, <2>2, RowStatements DEF FinalizeDeletion
  <2>3. CASE AdvanceCursor(c)
    <3> DEFINE n == coord[c].maint
               v == maint[n].lease \/ maint[n].state = "RUNNING"
    <3>1. maint' = [maint EXCEPT ![n] = [maint[n] EXCEPT !.lease = v]] BY <2>3 DEF AdvanceCursor
    <3> HIDE DEF n, v
    <3>2. m # n => maint'[m] = maint[m] BY <1>t, <3>1
    <3>3. m = n => maint'[m].kind = maint[m].kind /\ maint'[m].state = maint[m].state BY <1>t, <3>1 DEF Maintenance
    <3> QED BY <3>2, <3>3 DEF RowKept
  <2>4. CASE CompleteVerify(c) \/ FinishMaintenance(c)
    <3>1. UNCHANGED maint \/ (\E n : CompleteMaintenance(n) \/ RetryMaintenance(n))
      BY <2>4 DEF CompleteVerify, FinishMaintenance
    <3> QED BY <1>t, <3>1, RowStatements
  <2>5. CASE \/ LockMaintenance(c) \/ ExecuteMaintenance(c) \/ ApplyExpiry(c) \/ ListPacks(c)
             \/ RemovePack(c) \/ MarkRemoved(c) \/ CompactOnePack(c) \/ ReplacePack(c) \/ RetirePack(c) \/ MarkRetired(c)
             \/ CopyTargets(c) \/ ClaimTarget(c) \/ CheckTarget(c) \/ MarkTargetDamaged(c)
    <3>1. UNCHANGED maint
      BY <2>5, Zenon DEF LockMaintenance, ExecuteMaintenance, ApplyExpiry, ListPacks, RemovePack, MarkRemoved,
         CompactOnePack, ReplacePack, RetirePack, MarkRetired, CopyTargets, ClaimTarget, CheckTarget,
         MarkTargetDamaged, storeVars
    <3> QED BY <1>t, <3>1, RowStatements
  <2> QED BY <1>2, <2>1, <2>2, <2>3, <2>4, <2>5 DEF MaintNext
<1>3. ASSUME NEW c \in Coords, Heartbeat(c) \/ Crash(c) PROVE RowKept(m)
  BY <1>3 DEF Heartbeat, Crash, RowKept
<1>4. ASSUME TimePasses PROVE RowKept(m)
  <2>1. UNCHANGED maint \/ \E n \in MaintIds : CheckGoesSilent(n)
    BY <1>4 DEF TimePasses, RunGoesSilent, TargetLapses
  <2>2. \A n \in MaintIds : CheckGoesSilent(n) => RowKept(m) BY <1>t DEF CheckGoesSilent, RowKept, Maintenance
  <2> QED BY <1>t, <2>1, <2>2, RowStatements
<1>5. ASSUME Users PROVE RowKept(m) \/ RowNew(m)
  <2>1. CASE HandleDeleteBackup
    <3>1. job'.status = "DELETING" /\ maint' = Inserted("DELETE_REPOSITORY")
      BY <2>1 DEF HandleDeleteBackup, JobInv, Types, Job
    <3> QED BY <1>t, <3>1, RowStatements DEF Kinds
  <2>2. CASE HandleCreateBackupVerify
    <3>1. maint' = Inserted("VERIFY") BY <2>2 DEF HandleCreateBackupVerify, CreateBackupVerify
    <3> QED BY <1>t, <3>1, RowStatements DEF Kinds
  <2>3. CASE HandleCancelBackupVerify BY <1>t, <2>3, RowStatements DEF HandleCancelBackupVerify
  <2>4. CASE SuspendUser
    <3>1. \A n \in MaintIds : /\ [maint[n] EXCEPT !.state = "CANCELLED"].kind = maint[n].kind
                              /\ [maint[n] EXCEPT !.state = "CANCELLED"].state = "CANCELLED"
      BY <1>t DEF Maintenance
    <3> QED BY <2>4, <3>1 DEF SuspendUser, RowKept
  <2>5. CASE HandleRunBackup \/ HandlePauseBackup \/ HandleResumeBackup \/ ReactivateUser
    BY <2>5 DEF HandleRunBackup, HandlePauseBackup, HandleResumeBackup, ReactivateUser, RowKept
  <2> QED BY <1>5, <2>1, <2>2, <2>3, <2>4, <2>5 DEF Users
<1>6. ASSUME NEW s \in Schedulers, SchedulerStep(s) \/ SchedulerDies(s) PROVE RowKept(m)
  <2>1. UNCHANGED maint
    BY <1>6 DEF SchedulerStep, ProcessSchedule, TriggerBackup, AdvanceSchedule, DeactivateSchedule, SchedulerDies, storeVars
  <2> QED BY <1>t, <2>1, RowStatements
<1>7. Environment => RowKept(m)
  BY DEF Environment, ScheduleBecomesDue, PlanRestore, FinishRestore, SourceChanges, PackDestroyed, RowKept
<1> QED BY <1>1, <1>2, <1>3, <1>4, <1>5, <1>6, <1>7 DEF Next, CoordinatorStep

LEMMA RowsStep ==
    ASSUME JobInv, KindsKnown, DeletionIsDeleting, Next
    PROVE  /\ KindsKnown' /\ DeletionIsDeleting'
           /\ \A m \in MaintIds : \/ maint[m].kind = "NONE" \/ maint'[m].kind = maint[m].kind
                                  \/ \E c \in Coords : FinalizeDeletion(c)
<1>t. Types /\ Types' BY NextType DEF JobInv
<1>a. job \in Job /\ runs \in [Gens -> Run] /\ job' \in Job /\ runs' \in [Gens -> Run]
  BY <1>t DEF Types
<1>b. job.status \in {"DELETING", "GONE"} => job'.status \in {"DELETING", "GONE"}
  BY <1>a, RowSteps, RowConsequences DEF JobInv
<1>1. ASSUME NEW m \in MaintIds
      PROVE  /\ maint'[m].kind # "NONE" => maint'[m].state # "NONE"
             /\ maint'[m].kind = "DELETE_REPOSITORY" => job'.status \in {"DELETING", "GONE"}
             /\ \/ maint[m].kind = "NONE" \/ maint'[m].kind = maint[m].kind
                \/ \E c \in Coords : FinalizeDeletion(c)
  BY <1>b, MaintRows DEF RowKept, RowNew, RowGone, KindsKnown, DeletionIsDeleting
<1> QED BY <1>1 DEF KindsKnown, DeletionIsDeleting

\* A step that leaves the rows and objects of packs alone and shows the user nothing new
Quiet ==
    /\ packs' = packs /\ blocks' = blocks
    /\ \A p : HasObject(p) => HasObject(p)'
    /\ \A p : HasObject(p) \/ p \in unmarked => HasObject(p)' \/ p \in unmarked'
    /\ \A b : Live(b)' => Live(b)

\* Only publication makes blocks live
LEMMA LiveStep ==
    ASSUME JobInv, DraftInv, Next,
           \A c \in Coords : Drafts(c) => snaps'[coord[c].gen].state \notin Visible
    PROVE  \A b : Live(b)' => Live(b)
<1>1. ASSUME NEW g \in Gens, snaps'[g].state \in Visible PROVE snaps'[g] = snaps[g]
  BY <1>1, SnapSteps DEF SnapFades
<1>2. ASSUME NEW g \in Gens, NEW b, snaps'[g].state \in Visible, b \in Linked(g)'
      PROVE  snaps[g].state \in Visible /\ b \in Linked(g)
  BY <1>1, <1>2 DEF Linked
<1> QED BY <1>2 DEF Live

\* The kind of the row a coordinator works on under the lock
LEMMA KindKept ==
    ASSUME JobInv, RepoInv, Next, NEW d \in Coords, coord[d].pc \in {"dispatch", "expire", "list"},
           maint[coord[d].maint].kind # "NONE"
    PROVE  maint'[coord[d].maint].kind = maint[coord[d].maint].kind
<1>1. coord[d].pc \in Locked /\ coord[d].pc \in MaintSteps BY DEF Locked, RunSteps, MaintSteps
<1>2. lock = d /\ coord[d].maint \in MaintIds BY <1>1 DEF RepoInv, Memory
<1>3. ASSUME NEW c \in Coords, FinalizeDeletion(c) PROVE FALSE
  <2>1. coord[c].pc = "finalize" BY <1>3 DEF FinalizeDeletion, At
  <2>2. lock = c BY <2>1 DEF RepoInv, Memory, Locked, RunSteps, MaintSteps
  <2> QED BY <1>2, <2>1, <2>2
<1> QED BY <1>2, <1>3, RowsStep DEF RepoInv

LEMMA QuietMemory ==
    ASSUME JobInv, RepoInv, Next, Quiet, NEW d \in Coords, coord'[d] = coord[d],
           lock = d => lock' = d
    PROVE  Memory(d)'
<1> SUFFICES ASSUME coord[d].pc \in Locked
             PROVE  lock' = d /\ RunMemory(d)' /\ MaintMemory(d)'
  BY DEF RepoInv, Memory
<1>1. lock = d /\ RunMemory(d) /\ MaintMemory(d) BY DEF RepoInv, Memory
<1>2. \A b : FindBackupBlock(b)' <=> FindBackupBlock(b) BY DEF Quiet, FindBackupBlock
<1>3. \A p : InPack(p)' = InPack(p) BY DEF Quiet, InPack
<1>4. \A p : Dead(p) => Dead(p)' BY <1>3 DEF Quiet, Dead
<1>5. RunMemory(d)' BY <1>1, <1>2 DEF RunMemory, Quiet
<1>l. PICK l : l = coord[d] /\ l = coord'[d] OBVIOUS
<1>m. /\ l.pc \in {"expire", "list"} => Kind(d) \in {"RETENTION", "DELETE_REPOSITORY"}
      /\ l.pc \in {"remove", "mark"} => \A p \in l.list : Dead(p)
      /\ l.pc = "mark" => l.pack \in l.list
      /\ l.pc = "replace" => /\ l.pack \in PackIds /\ packs[l.pack] = "READY"
                             /\ l.live \in PackIds /\ HasObject(l.live)
                             /\ \A b \in InPack(l.pack) : Live(b) => b \in l.live
      /\ l.pc \in {"retire", "retireMark"} => l.pack \in PackIds /\ packs[l.pack] # "READY" /\ Dead(l.pack)
  BY <1>1, <1>l DEF MaintMemory
<1>6. l.pc \in {"expire", "list"} => Kind(d)' \in {"RETENTION", "DELETE_REPOSITORY"}
  BY <1>l, <1>m, KindKept DEF Kind
<1>7. l.pc \in {"remove", "mark"} => \A p \in l.list : Dead(p)' BY <1>m, <1>4
<1>8. l.pc = "replace" =>
        /\ packs'[l.pack] = "READY" /\ HasObject(l.live)'
        /\ \A b \in InPack(l.pack)' : Live(b)' => b \in l.live
  BY <1>m, <1>3 DEF Quiet
<1>9. l.pc \in {"retire", "retireMark"} => packs'[l.pack] # "READY" /\ Dead(l.pack)'
  BY <1>m, <1>4 DEF Quiet
<1>11. MaintMemory(d)' BY <1>l, <1>m, <1>6, <1>7, <1>8, <1>9 DEF MaintMemory
<1> QED BY <1>1, <1>5, <1>11

LEMMA QuietGlobal ==
    ASSUME LiveIsStored, ReadyHasObject, Quiet, \A p : Removing(p) => Removing(p)' \/ p \in unmarked'
    PROVE  LiveIsStored' /\ ReadyHasObject'
<1>1. \A b : FindBackupBlock(b)' <=> FindBackupBlock(b) BY DEF Quiet, FindBackupBlock
<1>2. LiveIsStored' BY <1>1 DEF LiveIsStored, Quiet
<1>3. ASSUME NEW p \in PackIds, packs'[p] = "READY" PROVE HasObject(p)' \/ p \in unmarked' \/ Removing(p)'
  BY <1>3 DEF ReadyHasObject, Quiet
<1> QED BY <1>2, <1>3 DEF ReadyHasObject

\* Steps that no coordinator takes are quiet
LEMMA OutsideQuiet ==
    ASSUME JobInv, DraftInv, Next, UNCHANGED <<coord, lock>>
    PROVE  UNCHANGED <<packs, blocks, unmarked>> /\ (remote' \cup lost' = remote \cup lost) => Quiet
<1>1. ASSUME NEW c \in Coords, Drafts(c), snaps'[coord[c].gen].state \in Visible PROVE FALSE
  <2>1. At(c, "publish") /\ Return(c) BY <1>1, Published
  <2>2. coord'[c].pc = "idle" BY <2>1, ReturnFields DEF JobInv
  <2> QED BY <2>1, <2>2 DEF At
<1>2. \A b : Live(b)' => Live(b) BY <1>1, LiveStep
<1> QED BY <1>2 DEF Quiet, HasObject

LEMMA OutsideObjects ==
    ASSUME \/ TimePasses \/ Users \/ Environment \/ (\E s \in Schedulers : SchedulerStep(s) \/ SchedulerDies(s))
           \/ (\E c \in Coords : Heartbeat(c))
    PROVE  UNCHANGED <<packs, blocks, unmarked>> /\ remote' \cup lost' = remote \cup lost
<1>1. CASE TimePasses BY <1>1 DEF TimePasses, RunGoesSilent, CheckGoesSilent, TargetLapses
<1>2. CASE Users
  BY <1>2 DEF Users, HandleRunBackup, HandlePauseBackup, HandleResumeBackup, HandleDeleteBackup,
              HandleCreateBackupVerify, HandleCancelBackupVerify, SuspendUser, ReactivateUser
<1>3. CASE Environment
  BY <1>3 DEF Environment, ScheduleBecomesDue, PlanRestore, FinishRestore, SourceChanges, PackDestroyed
<1>4. ASSUME NEW s \in Schedulers, SchedulerStep(s) \/ SchedulerDies(s)
      PROVE  UNCHANGED <<packs, blocks, unmarked, remote, lost>>
  BY <1>4 DEF SchedulerStep, ProcessSchedule, TriggerBackup, AdvanceSchedule, DeactivateSchedule, SchedulerDies, storeVars
<1>5. ASSUME NEW c \in Coords, Heartbeat(c) PROVE UNCHANGED <<packs, blocks, unmarked, remote, lost>>
  BY <1>5 DEF Heartbeat
<1> QED BY <1>1, <1>2, <1>3, <1>4, <1>5

LEMMA OutsideRepo ==
    ASSUME JobInv, DraftInv, RepoInv, Next,
           \/ TimePasses \/ Users \/ Environment \/ (\E s \in Schedulers : SchedulerStep(s) \/ SchedulerDies(s))
           \/ (\E c \in Coords : Heartbeat(c))
    PROVE  RepoInv'
<1>1. UNCHANGED <<coord, lock>> BY CoordUnchanged
<1>2. Quiet BY <1>1, OutsideObjects, OutsideQuiet
<1>3. \A d \in Coords : Memory(d)' BY <1>1, <1>2, QuietMemory
<1>4. \A p : Removing(p) => Removing(p)' BY <1>1 DEF Removing
<1>5. LiveIsStored' /\ ReadyHasObject' BY <1>2, <1>4, QuietGlobal DEF RepoInv
<1> QED BY <1>3, <1>5, RowsStep DEF RepoInv

\* The advisory lock
LEMMA LockStep ==
    ASSUME NEW c \in Coords, NEW d \in Coords, d # c, lock = d, RunNext(c) \/ MaintNext(c) \/ Crash(c)
    PROVE  lock' = d
<1>1. d # NoCoord BY Constants
<1>r. Return(c) => lock' = d BY DEF Return
<1>2. CASE RunNext(c)
  <2>1. CASE Superseded(c) \/ PublishSnapshot(c) \/ FailRun(c) \/ CancelRun(c) \/ LockRun(c)
    BY <2>1, <1>1, <1>r DEF Superseded, PublishSnapshot, FailRun, CancelRun, LockRun
  <2>2. CASE ~(Superseded(c) \/ PublishSnapshot(c) \/ FailRun(c) \/ CancelRun(c) \/ LockRun(c))
    <3>1. UNCHANGED lock
      BY <1>2, <2>2, Zenon DEF RunNext, PollRecover, PollRun, PollMaintenance, PollNothing, OpenRepository, ScanFiles, StartTransfer,
         CreateDraft, LoadPrevious, BackupFile, FilesDone, FlushUpload, FlushRecord, StillActive,
         WriteCatalog, StartVerify, VerifySample
    <3> QED BY <3>1
  <2> QED BY <2>1, <2>2
<1>3. CASE MaintNext(c)
  <2>1. CASE FinalizeDeletion(c) \/ CompleteVerify(c) \/ FinishMaintenance(c) \/ LockMaintenance(c)
    BY <2>1, <1>1, <1>r DEF FinalizeDeletion, CompleteVerify, FinishMaintenance, LockMaintenance
  <2>2. CASE ~(FinalizeDeletion(c) \/ CompleteVerify(c) \/ FinishMaintenance(c) \/ LockMaintenance(c))
    <3>1. UNCHANGED lock
      BY <1>3, <2>2, Zenon DEF MaintNext, ExecuteMaintenance, ApplyExpiry, ListPacks, RemovePack, MarkRemoved,
         EnqueueCompaction, CompactOnePack, ReplacePack, RetirePack, MarkRetired, CopyTargets, ClaimTarget,
         CheckTarget, MarkTargetDamaged, AdvanceCursor
    <3> QED BY <3>1
  <2> QED BY <2>1, <2>2
<1>4. CASE Crash(c) BY <1>4 DEF Crash
<1> QED BY <1>2, <1>3, <1>4

\* A coordinator outside the lock has nothing to remember, and in most steps
\* inside it has not either
Plain == {"connect", "scan", "start", "draft", "previous", "dispatch", "enqueue", "compact", "finalize",
          "targets", "claim", "check", "damaged", "advance", "verified", "complete"}

LEMMA FreeMemory ==
    ASSUME NEW c \in Coords, coord'[c].pc \notin Locked, coord'[c].pc \in MaintSteps => coord'[c].maint \in MaintIds
    PROVE  Memory(c)'
BY DEF Memory

LEMMA PlainMemory ==
    ASSUME NEW c \in Coords, coord'[c].pc \in Plain, lock' = c, coord'[c].pc \in MaintSteps => coord'[c].maint \in MaintIds
    PROVE  Memory(c)'
<1>1. coord'[c].pc \notin {"files", "upload", "record", "catalog", "items", "verify", "transit", "sample", "publish",
                           "expire", "list", "remove", "mark", "replace", "retire", "retireMark"}
  BY DEF Plain
<1>2. RunMemory(c)' BY <1>1 DEF RunMemory, Drafted, Plain
<1>3. MaintMemory(c)' BY <1>1 DEF MaintMemory
<1> QED BY <1>2, <1>3 DEF Memory

LEMMA OthersFree ==
    ASSUME RepoInv, NEW c \in Coords, coord[c].pc \in Locked, OthersStay(c)
    PROVE  \A d \in Coords : d # c => Memory(d)'
<1> SUFFICES ASSUME NEW d \in Coords, d # c PROVE Memory(d)'
  OBVIOUS
<1>1. coord[d].pc \notin Locked BY DEF RepoInv, Memory
<1> QED BY <1>1, FreeMemory DEF OthersStay, RepoInv, Memory

\* What a run's coordinator remembers, while nothing happens to the repository
LEMMA RunMemoryKept ==
    ASSUME NEW c \in Coords, RunMemory(c), Quiet, lock' = c,
           coord'[c].pc \in Drafted \ {"previous", "record"}, coord[c].pc \in Drafted \ {"previous"},
           coord'[c].pc \in {"files", "upload"} => coord[c].pc \in {"files", "upload", "record"},
           coord'[c].got = coord[c].got, coord'[c].pend = coord[c].pend, coord'[c].carry = coord[c].carry,
           coord'[c].prev = coord[c].prev
    PROVE  Memory(c)'
<1>1. \A b : FindBackupBlock(b)' <=> FindBackupBlock(b) BY DEF Quiet, FindBackupBlock
<1>2. RunMemory(c)' BY <1>1 DEF RunMemory
<1>3. MaintMemory(c)' BY DEF MaintMemory, Drafted
<1> QED BY <1>2, <1>3 DEF Memory, Drafted, MaintSteps

-----------------------------------------------------------------------------
(* Steps of a coordinator and the repository *)

Acts(c) == RunNext(c) \/ MaintNext(c) \/ Crash(c)

LEMMA ActsAlone ==
    ASSUME JobInv, NEW c \in Coords, Acts(c)
    PROVE  OthersStay(c)
<1>1. CASE RunNext(c) BY <1>1, RunLocalStep DEF LocalStep
<1>2. CASE MaintNext(c) BY <1>2, MaintLocalStep DEF JobInv
<1>3. CASE Crash(c) BY <1>3 DEF Crash, JobInv, Types, OthersStay
<1> QED BY <1>1, <1>2, <1>3 DEF Acts

\* Unless it publishes, a coordinator makes no block live
LEMMA NothingNew ==
    ASSUME JobInv, DraftInv, Next, NEW c \in Coords, Acts(c), coord[c].pc # "publish" \/ coord'[c].pc # "idle"
    PROVE  \A b : Live(b)' => Live(b)
<1>1. ASSUME NEW d \in Coords, Drafts(d), snaps'[coord[d].gen].state \in Visible PROVE FALSE
  <2>1. At(d, "publish") /\ Return(d) BY <1>1, Published
  <2>2. coord'[d].pc = "idle" BY <2>1, ReturnFields DEF JobInv
  <2>3. d = c BY <2>1, <2>2, ActsAlone DEF OthersStay, At
  <2> QED BY <2>1, <2>2, <2>3 DEF At
<1> QED BY <1>1, LiveStep

\* A step that leaves packs, blocks and objects alone keeps the invariant if
\* the coordinator's own memory stays true
LEMMA QuietStep ==
    ASSUME JobInv, DraftInv, RepoInv, Next, NEW c \in Coords, Acts(c), Quiet, Memory(c)',
           coord[c].pc = "mark" => coord[c].pack \in unmarked'
    PROVE  RepoInv'
<1>1. OthersStay(c) BY ActsAlone
<1>2. ASSUME NEW d \in Coords, d # c PROVE Memory(d)'
  <2>1. coord'[d] = coord[d] BY <1>1, <1>2 DEF OthersStay
  <2>2. lock = d => lock' = d BY <1>2, LockStep DEF Acts
  <2> QED BY <2>1, <2>2, QuietMemory
<1>3. ASSUME NEW p, Removing(p) PROVE Removing(p)' \/ p \in unmarked'
  <2>1. PICK d \in Coords : coord[d].pc = "mark" /\ coord[d].pack = p BY <1>3 DEF Removing
  <2>2. CASE d = c BY <2>1, <2>2
  <2>3. CASE d # c BY <1>1, <2>1, <2>3 DEF OthersStay, Removing
  <2> QED BY <2>2, <2>3
<1>4. LiveIsStored' /\ ReadyHasObject' BY <1>3, QuietGlobal DEF RepoInv
<1> QED BY <1>2, <1>4, RowsStep DEF RepoInv

LEMMA CalmStep ==
    ASSUME JobInv, DraftInv, RepoInv, Next, NEW c \in Coords, Acts(c), Memory(c)',
           UNCHANGED <<packs, blocks, remote, lost, unmarked>>,
           coord[c].pc # "mark", coord[c].pc # "publish" \/ coord'[c].pc # "idle"
    PROVE  RepoInv'
<1>1. \A b : Live(b)' => Live(b) BY NothingNew
<1>2. Quiet BY <1>1 DEF Quiet, HasObject
<1> QED BY <1>2, QuietStep

\* Under the lock, what the step does to packs, blocks and objects is all
\* that has to be looked at
LEMMA LoudStep ==
    ASSUME JobInv, RepoInv, Next, NEW c \in Coords, Acts(c), coord[c].pc \in Locked,
           Memory(c)', LiveIsStored', ReadyHasObject'
    PROVE  RepoInv'
<1>1. OthersStay(c) BY ActsAlone
<1>2. \A d \in Coords : d # c => Memory(d)' BY <1>1, OthersFree
<1> QED BY <1>2, RowsStep DEF RepoInv

\* The coordinator under the lock is the only one that removes a pack
LEMMA ReadyPacks ==
    ASSUME RepoInv, NEW c \in Coords, coord[c].pc \in Locked, NEW p \in PackIds, packs[p] = "READY"
    PROVE  HasObject(p) \/ p \in unmarked \/ (coord[c].pc = "mark" /\ coord[c].pack = p)
<1>1. ASSUME Removing(p) PROVE coord[c].pc = "mark" /\ coord[c].pack = p
  <2>1. PICK d \in Coords : coord[d].pc = "mark" /\ coord[d].pack = p BY <1>1 DEF Removing
  <2>2. d = c BY <2>1 DEF RepoInv, Memory, Locked, MaintSteps, RunSteps
  <2> QED BY <2>1, <2>2
<1> QED BY <1>1 DEF RepoInv, ReadyHasObject

\* A coordinator that leaves the lock, or is still in front of it
LEMMA LeavingStep ==
    ASSUME JobInv, DraftInv, RepoInv, Next, NEW c \in Coords, Acts(c),
           UNCHANGED <<packs, blocks, remote, lost, unmarked>>,
           coord[c].pc # "mark", coord[c].pc # "publish" \/ coord'[c].pc # "idle",
           coord'[c].pc \notin Locked, coord'[c].pc \in MaintSteps => coord'[c].maint \in MaintIds
    PROVE  RepoInv'
BY FreeMemory, CalmStep

LEMMA LeavesRun ==
    ASSUME JobInv, DraftInv, RepoInv, Next, NEW c \in Coords, RunNext(c), Executes(c),
           UNCHANGED <<packs, blocks, remote, lost, unmarked>>,
           Goto(c, "fail") \/ Goto(c, "cancel") \/ (Return(c) /\ coord[c].pc # "publish")
    PROVE  RepoInv'
<1>1. coord[c].pc # "mark" BY DEF Executes, RunSteps
<1>2. coord'[c].pc \in {"fail", "cancel", "idle"} BY GotoFields, ReturnFields DEF JobInv
<1>3. coord'[c].pc \notin Locked /\ coord'[c].pc \notin MaintSteps BY <1>2 DEF Locked, RunSteps, MaintSteps
<1>4. coord[c].pc # "publish" \/ coord'[c].pc # "idle" BY GotoFields DEF JobInv
<1> QED BY <1>1, <1>3, <1>4, LeavingStep DEF Acts

\* A coordinator that has no memory of the repository after its step
LEMMA PlainStep ==
    ASSUME JobInv, DraftInv, RepoInv, Next, NEW c \in Coords, Acts(c),
           UNCHANGED <<packs, blocks, remote, lost, unmarked>>,
           coord[c].pc # "mark", lock' = c, coord'[c].pc \in Plain,
           coord'[c].pc \in MaintSteps => coord'[c].maint \in MaintIds
    PROVE  RepoInv'
<1>1. coord'[c].pc # "idle" BY DEF Plain
<1> QED BY <1>1, PlainMemory, CalmStep

LEMMA PollSteps ==
    ASSUME JobInv, DraftInv, RepoInv, Next, NEW c \in Coords,
           PollRecover(c) \/ PollRun(c) \/ PollMaintenance(c) \/ PollNothing(c)
    PROVE  RepoInv'
<1>t. Types /\ coord \in [Coords -> Coordinator] BY DEF JobInv, Types
<1>1. RunNext(c) /\ Acts(c) BY DEF RunNext, Acts
<1>2. UNCHANGED <<packs, blocks, remote, lost, unmarked>> /\ coord[c].pc \in {"idle", "polled"}
  BY DEF PollRecover, PollRun, PollMaintenance, PollNothing, storeVars, At
<1>3. coord'[c].pc \notin Locked /\ (coord'[c].pc \in MaintSteps => coord'[c].maint \in MaintIds)
  <2>1. CASE PollRecover(c)
    <3>1. coord'[c].pc = "polled" BY <1>t, <2>1, GotoFields DEF PollRecover
    <3> QED BY <3>1 DEF Locked, RunSteps, MaintSteps
  <2>2. CASE PollRun(c)
    <3>1. PICK g : coord' = [coord EXCEPT ![c] = [Idle(TRUE) EXCEPT !.pc = "lock", !.gen = g, !.st = "SCANNING"]]
      BY <2>2 DEF PollRun
    <3>2. coord'[c].pc = "lock" BY <1>t, <3>1 DEF Idle
    <3> QED BY <3>2 DEF Locked, RunSteps, MaintSteps
  <2>3. CASE PollMaintenance(c)
    <3>1. PICK m \in MaintIds : coord' = [coord EXCEPT ![c] = [Idle(~coord[c].prefer) EXCEPT !.pc = "maintLock", !.maint = m]]
      BY <2>3 DEF PollMaintenance
    <3>2. coord'[c].pc = "maintLock" /\ coord'[c].maint = m BY <1>t, <3>1 DEF Idle
    <3> QED BY <3>2 DEF Locked, RunSteps, MaintSteps
  <2>4. CASE PollNothing(c)
    <3>1. coord'[c].pc = "idle" BY <1>t, <2>4 DEF PollNothing, Idle
    <3> QED BY <3>1 DEF Locked, RunSteps, MaintSteps
  <2> QED BY <2>1, <2>2, <2>3, <2>4
<1> QED BY <1>1, <1>2, <1>3, LeavingStep

LEMMA HoldsLock ==
    ASSUME RepoInv, NEW c \in Coords, coord[c].pc \in Locked
    PROVE  lock = c /\ RunMemory(c) /\ MaintMemory(c) /\ (coord[c].pc \in MaintSteps => coord[c].maint \in MaintIds)
BY DEF RepoInv, Memory

\* From the lock to the catalog of the snapshot before
LEMMA OpeningSteps ==
    ASSUME JobInv, DraftInv, RepoInv, Next, NEW c \in Coords,
           LockRun(c) \/ OpenRepository(c) \/ ScanFiles(c) \/ StartTransfer(c) \/ CreateDraft(c)
    PROVE  RepoInv'
<1>t. Types /\ coord \in [Coords -> Coordinator] /\ coord[c] \in Coordinator BY DEF JobInv, Types
<1>1. RunNext(c) /\ Acts(c) BY DEF RunNext, Acts
<1>2. UNCHANGED <<packs, blocks, remote, lost, unmarked>> /\ Executes(c) /\ coord[c].pc # "mark"
  BY DEF LockRun, OpenRepository, ScanFiles, StartTransfer, CreateDraft, At, Executes, RunSteps
<1>3. CASE Goto(c, "fail") \/ Goto(c, "cancel") BY <1>1, <1>2, <1>3, LeavesRun
<1>4. CASE ~(Goto(c, "fail") \/ Goto(c, "cancel"))
  <2>1. lock' = c
    <3>1. coord[c].pc \in Locked => lock = c BY HoldsLock, SMTT(40)
    <3> QED BY <1>4, <3>1 DEF LockRun, OpenRepository, ScanFiles, StartTransfer, CreateDraft, At, Locked, RunSteps, Breaks
  <2>2. coord'[c].pc \in {"connect", "scan", "start", "draft", "previous"}
    <3>1. CASE LockRun(c) \/ OpenRepository(c) \/ CreateDraft(c)
      BY <1>t, <1>4, <3>1, GotoFields DEF LockRun, OpenRepository, CreateDraft, Breaks
    <3>2. ASSUME NEW p, NEW t, NEW s, coord' = [coord EXCEPT ![c].pc = p, ![c].tree = t, ![c].todo = s]
                                      \/ coord' = [coord EXCEPT ![c].pc = p, ![c].st = s]
          PROVE coord'[c].pc = p
      BY <1>t, <3>2 DEF Coordinator
    <3> QED BY <1>4, <3>1, <3>2, ZenonT(40) DEF ScanFiles, StartTransfer, Breaks
  <2>3. coord'[c].pc \in Plain /\ coord'[c].pc \notin MaintSteps BY <2>2 DEF Plain, MaintSteps
  <2> QED BY <1>1, <1>2, <2>1, <2>3, PlainStep
<1> QED BY <1>3, <1>4

\* Steps that only move on, with what the coordinator remembers unchanged
LEMMA KeepingStep ==
    ASSUME JobInv, DraftInv, RepoInv, Next, NEW c \in Coords, RunNext(c),
           UNCHANGED <<packs, blocks, remote, lost, unmarked, lock>>,
           coord'[c].pc \in Drafted \ {"previous", "record"}, coord[c].pc \in Drafted \ {"previous"},
           coord'[c].pc \in {"files", "upload"} => coord[c].pc \in {"files", "upload", "record"},
           coord'[c].got = coord[c].got, coord'[c].pend = coord[c].pend, coord'[c].carry = coord[c].carry,
           coord'[c].prev = coord[c].prev
    PROVE  RepoInv'
<1>1. Acts(c) BY DEF Acts
<1>2. coord[c].pc \in Locked /\ coord[c].pc # "mark" BY DEF Drafted, Locked, RunSteps
<1>3. lock = c /\ RunMemory(c) BY <1>2, HoldsLock
<1>4. coord'[c].pc # "idle" BY DEF Drafted
<1>5. \A b : Live(b)' => Live(b) BY <1>1, <1>4, NothingNew
<1>6. Quiet BY <1>5 DEF Quiet, HasObject
<1>7. Memory(c)' BY <1>3, <1>6, RunMemoryKept
<1> QED BY <1>1, <1>2, <1>6, <1>7, QuietStep

LEMMA LoadPreviousStep ==
    ASSUME JobInv, DraftInv, RepoInv, Next, NEW c \in Coords, LoadPrevious(c)
    PROVE  RepoInv'
<1>t. Types /\ coord \in [Coords -> Coordinator] /\ coord[c] \in Coordinator BY DEF JobInv, Types
<1>1. RunNext(c) /\ Acts(c) BY DEF RunNext, Acts
<1>2. /\ UNCHANGED <<packs, blocks, remote, lost, unmarked, lock>> /\ Executes(c) /\ coord[c].pc = "previous"
  BY DEF LoadPrevious, At, Executes, RunSteps
<1>3. CASE Goto(c, "fail") BY <1>1, <1>2, <1>3, LeavesRun
<1>4. CASE coord' = [coord EXCEPT ![c].pc = "files", ![c].prev = SnapshotFileCatalog(LatestValidSnapshot)]
  <2> DEFINE t == SnapshotFileCatalog(LatestValidSnapshot)
  <2>1. \A f \in Files : t[f] # NoBlock => FindBackupBlock(t[f]) BY DEF SnapshotFileCatalog
  <2>2. coord' = [coord EXCEPT ![c].pc = "files", ![c].prev = t] BY <1>4
  <2> HIDE DEF t
  <2>3. coord'[c].pc = "files" /\ coord'[c].prev = t /\ coord'[c].got = coord[c].got BY <1>t, <2>2 DEF Coordinator
  <2>4. coord[c].got = Nothing BY <1>2 DEF DraftInv, FilesHeld, BeforeFiles
  <2>5. \A b : FindBackupBlock(b)' <=> FindBackupBlock(b) BY <1>2 DEF FindBackupBlock
  <2>6. RunMemory(c)' BY <2>1, <2>3, <2>4, <2>5 DEF RunMemory, Nothing
  <2>7. MaintMemory(c)' BY <2>3 DEF MaintMemory
  <2>8. lock' = c BY <1>2, HoldsLock DEF Locked, RunSteps
  <2>9. Memory(c)' BY <2>3, <2>6, <2>7, <2>8 DEF Memory, MaintSteps
  <2> QED BY <1>1, <1>2, <2>3, <2>9, CalmStep
<1> QED BY <1>3, <1>4 DEF LoadPrevious, Breaks

LEMMA BackupFileStep ==
    ASSUME JobInv, DraftInv, RepoInv, Next, NEW c \in Coords, BackupFile(c)
    PROVE  RepoInv'
<1>t. Types /\ coord \in [Coords -> Coordinator] /\ coord[c] \in Coordinator BY DEF JobInv, Types
<1>1. RunNext(c) /\ Acts(c) BY DEF RunNext, Acts
<1>2. UNCHANGED <<packs, blocks, remote, lost, unmarked, lock>> /\ Executes(c) /\ coord[c].pc = "files"
  BY DEF BackupFile, At, Executes, RunSteps
<1>3. CASE Goto(c, "fail") \/ Goto(c, "cancel") BY <1>1, <1>2, <1>3, LeavesRun
<1>4. ASSUME NEW f \in coord[c].todo, coord' = [coord EXCEPT ![c] = FileOutcome(c, f)] PROVE RepoInv'
  <2> DEFINE l == coord[c]
             b == coord[c].tree[f]
             n == FileOutcome(c, f)
  <2>1. coord'[c] = n BY <1>t, <1>4
  <2>2. b # NoBlock BY <1>2, <1>4 DEF JobInv, ClaimsHeld, Claimed
  <2>3. /\ n.prev = l.prev
        /\ \/ n.pc = "fail"
           \/ n.pc = l.pc /\ n.got = l.got /\ n.pend = l.pend /\ n.carry = l.carry
           \/ /\ n.got = [l.got EXCEPT ![f] = b]
              /\ \/ /\ n.pc = l.pc /\ n.pend = l.pend /\ n.carry = l.carry
                    /\ b \in l.pend \/ FindBackupBlock(b) \/ l.prev[f] = b
                 \/ n.pc = l.pc /\ n.pend = l.pend \cup {b} /\ n.carry = l.carry
                 \/ n.pc = "upload" /\ n.pend = l.pend /\ n.carry = {b}
    BY <1>t, <2>2, FileFields
  <2>4. f \in Files /\ l.got \in [Files -> Content] BY <1>t DEF Coordinator, Tree
  <2>5. /\ lock = c
        /\ \A x \in Files : l.got[x] # NoBlock => l.got[x] \in l.pend \cup l.carry \/ FindBackupBlock(l.got[x])
        /\ \A x \in Files : l.prev[x] # NoBlock => FindBackupBlock(l.prev[x])
    <3>1. lock = c /\ RunMemory(c) BY <1>2, HoldsLock DEF Locked, RunSteps
    <3> QED BY <1>2, <3>1 DEF RunMemory, Drafted
  <2>6. l.carry = {} BY <1>2 DEF DraftInv, FilesHeld
  <2>pc. l.pc = "files" BY <1>2
  <2> HIDE DEF n, b, l
  <2>7. CASE n.pc = "fail"
    <3>1. coord'[c].pc \notin Locked /\ coord'[c].pc \notin MaintSteps /\ coord'[c].pc # "idle"
      BY <2>1, <2>7 DEF Locked, RunSteps, MaintSteps
    <3> QED BY <1>1, <1>2, <3>1, LeavingStep
  <2>8. CASE n.pc \in {"files", "upload"}
    <3>1. \A x \in Files : n.got[x] # NoBlock => n.got[x] \in n.pend \cup n.carry \/ FindBackupBlock(n.got[x])
      <4>1. CASE n.got = l.got /\ n.pend = l.pend /\ n.carry = l.carry BY <2>5, <4>1
      <4>2. CASE n.got = [l.got EXCEPT ![f] = b]
        <5>1. n.got[f] = b /\ \A x \in Files : x # f => n.got[x] = l.got[x] BY <2>4, <4>2
        <5>2. b \in n.pend \cup n.carry \/ FindBackupBlock(b)
          BY <2>2, <2>3, <2>4, <2>5, <2>8, <4>2
        <5>3. l.pend \subseteq n.pend BY <2>3, <2>8, <4>2
        <5> QED BY <2>5, <2>6, <5>1, <5>2, <5>3
      <4> QED BY <2>3, <2>8, <4>1, <4>2
    <3>2. \A z : FindBackupBlock(z)' <=> FindBackupBlock(z) BY <1>2 DEF FindBackupBlock
    <3>3. RunMemory(c)' BY <2>1, <2>3, <2>5, <2>8, <3>1, <3>2 DEF RunMemory
    <3>4. MaintMemory(c)' BY <2>1, <2>8 DEF MaintMemory
    <3>5. Memory(c)' BY <1>2, <2>1, <2>5, <2>8, <3>3, <3>4 DEF Memory, MaintSteps
    <3>6. coord'[c].pc # "idle" /\ coord[c].pc # "mark" BY <1>2, <2>1, <2>8
    <3> QED BY <1>1, <1>2, <3>5, <3>6, CalmStep
  <2> QED BY <2>3, <2>7, <2>8, <2>pc
<1> QED BY <1>3, <1>4 DEF BackupFile, Breaks

LEMMA FlushUploadStep ==
    ASSUME JobInv, DraftInv, RepoInv, Next, NEW c \in Coords, FlushUpload(c)
    PROVE  RepoInv'
<1>t. Types /\ coord \in [Coords -> Coordinator] /\ coord[c] \in Coordinator BY DEF JobInv, Types
<1>1. RunNext(c) /\ Acts(c) BY DEF RunNext, Acts
<1>2. UNCHANGED <<packs, blocks, lock>> /\ Executes(c) /\ coord[c].pc = "upload"
  BY DEF FlushUpload, At, Executes, RunSteps
<1>3. CASE (Goto(c, "fail") \/ Goto(c, "cancel")) /\ UNCHANGED <<remote, lost, unmarked>>
  BY <1>1, <1>2, <1>3, LeavesRun
<1>4. CASE /\ remote' = remote \cup {coord[c].pend} /\ lost' = lost \ {coord[c].pend}
           /\ unmarked' = unmarked \ {coord[c].pend} /\ Goto(c, "record")
  <2>1. /\ coord'[c].pc = "record" /\ coord'[c].got = coord[c].got /\ coord'[c].prev = coord[c].prev
        /\ coord'[c].pend = coord[c].pend /\ coord'[c].carry = coord[c].carry
    BY <1>t, <1>4, GotoFields
  <2>2. lock = c /\ RunMemory(c) BY <1>2, HoldsLock DEF Locked, RunSteps
  <2>3. \A b : Live(b)' => Live(b) BY <1>1, <1>2, NothingNew
  <2>4. Quiet BY <1>2, <1>4, <2>3 DEF Quiet, HasObject
  <2>5. HasObject(coord[c].pend)' BY <1>4, <2>1 DEF HasObject
  <2>6. \A b : FindBackupBlock(b)' <=> FindBackupBlock(b) BY <1>2 DEF FindBackupBlock
  <2>7. RunMemory(c)' BY <1>2, <2>1, <2>2, <2>5, <2>6 DEF RunMemory, Drafted
  <2>8. MaintMemory(c)' BY <2>1 DEF MaintMemory
  <2>9. Memory(c)' BY <1>2, <2>1, <2>2, <2>7, <2>8 DEF Memory, MaintSteps
  <2> QED BY <1>1, <1>2, <2>4, <2>9, QuietStep
<1> QED BY <1>3, <1>4 DEF FlushUpload, Breaks

LEMMA FlushRecordStep ==
    ASSUME JobInv, DraftInv, RepoInv, Next, NEW c \in Coords, FlushRecord(c)
    PROVE  RepoInv'
<1>t. /\ Types /\ coord \in [Coords -> Coordinator] /\ coord[c] \in Coordinator
      /\ packs \in [PackIds -> PackState] /\ blocks \in [Blocks -> PackIds \cup {NoPack}]
  BY DEF JobInv, Types
<1>1. RunNext(c) /\ Acts(c) BY DEF RunNext, Acts
<1>2. UNCHANGED <<remote, lost, unmarked, lock>> /\ Executes(c) /\ coord[c].pc = "record" /\ coord[c].pc \in Locked
  BY DEF FlushRecord, At, Executes, RunSteps, Locked
<1>3. CASE Goto(c, "fail") /\ UNCHANGED <<packs, blocks>>
  BY <1>1, <1>2, <1>3, LeavesRun
<1>4. CASE /\ RecordPackAndBlocks(coord[c].pend)
           /\ coord' = [coord EXCEPT ![c].pend = coord[c].carry, ![c].carry = {},
                                     ![c].pc = IF coord[c].carry = {} THEN "catalog" ELSE "files"]
  <2>l. PICK l : l = coord[c] OBVIOUS
  <2> DEFINE n == coord[c].pend
             s == IF coord[c].carry = {} THEN "catalog" ELSE "files"
  <2>1. /\ coord'[c].pc = s /\ coord'[c].got = l.got /\ coord'[c].prev = l.prev
        /\ coord'[c].pend = l.carry /\ coord'[c].carry = {} /\ s \in {"catalog", "files"}
    <3> DEFINE a == coord[c].carry
    <3>1. coord' = [coord EXCEPT ![c].pend = a, ![c].carry = {}, ![c].pc = s] BY <1>4
    <3>2. s \in {"catalog", "files"} OBVIOUS
    <3> HIDE DEF a, s
    <3> QED BY <1>t, <2>l, <3>1, <3>2 DEF Coordinator, a
  <2>2. n \in PackIds
    <3>1. n # {} BY <1>2 DEF DraftInv, FilesHeld
    <3>2. n \subseteq Blocks BY <1>t DEF Coordinator
    <3> QED BY <3>1, <3>2 DEF PackIds
  <2>3. /\ packs[n] = "NONE" /\ \A b \in n : blocks[b] = NoPack
        /\ packs' = [packs EXCEPT ![n] = "READY"]
        /\ blocks' = [b \in Blocks |-> IF b \in n THEN n ELSE blocks[b]]
    BY <1>4 DEF RecordPackAndBlocks, CanRecordPack
  <2>4. lock = c /\ RunMemory(c) BY <1>2, HoldsLock
  <2>5. HasObject(n) BY <1>2, <2>4 DEF RunMemory
  <2>6. /\ \A f \in Files : l.got[f] # NoBlock => l.got[f] \in n \cup l.carry \/ FindBackupBlock(l.got[f])
        /\ \A f \in Files : l.prev[f] # NoBlock => FindBackupBlock(l.prev[f])
        /\ \A f \in Files : l.got[f] \in Blocks \cup {NoBlock} /\ l.prev[f] \in Blocks \cup {NoBlock}
    BY <1>t, <1>2, <2>4, <2>l DEF RunMemory, Drafted, Coordinator, Tree, Content
  <2> HIDE DEF n, s
  <2>7. \A b \in Blocks : b \in n => FindBackupBlock(b)'
    BY <1>t, <2>2, <2>3 DEF FindBackupBlock, PackIds, NoPack
  <2>8. ASSUME NEW b \in Blocks, FindBackupBlock(b) PROVE FindBackupBlock(b)'
    BY <1>t, <2>2, <2>3, <2>8 DEF FindBackupBlock
  <2>9. \A b : Live(b)' => Live(b)
    BY <1>1, <1>2, NothingNew
  <2>10. LiveIsStored' BY <2>8, <2>9 DEF RepoInv, LiveIsStored
  <2>11. ASSUME NEW p \in PackIds, packs'[p] = "READY" PROVE HasObject(p)' \/ p \in unmarked'
    <3>1. CASE p = n BY <1>2, <2>5, <3>1 DEF HasObject
    <3>2. CASE p # n
      <4>1. packs[p] = "READY" BY <1>t, <2>3, <2>11, <3>2
      <4> QED BY <1>2, <4>1, ReadyPacks DEF HasObject
    <3> QED BY <3>1, <3>2
  <2>12. ReadyHasObject' BY <2>11 DEF ReadyHasObject
  <2>13. RunMemory(c)'
    <3>1. ASSUME NEW f \in Files, l.got[f] # NoBlock PROVE l.got[f] \in l.carry \/ FindBackupBlock(l.got[f])'
      <4>1. PICK b \in Blocks : b = l.got[f] /\ (b \in n \/ b \in l.carry \/ FindBackupBlock(b)) BY <2>6, <3>1
      <4>2. b \in l.carry \/ FindBackupBlock(b)' BY <2>7, <2>8, <4>1
      <4> QED BY <4>1, <4>2
    <3>2. ASSUME NEW f \in Files, l.prev[f] # NoBlock PROVE FindBackupBlock(l.prev[f])'
      BY <2>6, <2>8, <3>2
    <3> QED BY <2>1, <3>1, <3>2 DEF RunMemory
  <2>14. MaintMemory(c)' BY <2>1 DEF MaintMemory
  <2>15. Memory(c)' BY <1>2, <2>1, <2>4, <2>13, <2>14 DEF Memory, MaintSteps
  <2> QED BY <1>1, <1>2, <2>10, <2>12, <2>15, LoudStep
<1> QED BY <1>3, <1>4 DEF FlushRecord

\* A pack that is found damaged takes the snapshots that need it from the user
LEMMA DamageStep ==
    ASSUME JobInv, DraftInv, RepoInv, Next, NEW c \in Coords, Acts(c), coord[c].pc \in Locked \ {"mark", "publish"},
           NEW p, MarkPackDamaged(p), UNCHANGED <<blocks, remote, lost, unmarked>>, Memory(c)'
    PROVE  RepoInv'
<1>t. packs \in [PackIds -> PackState] /\ blocks \in [Blocks -> PackIds \cup {NoPack}] /\ snaps \in [Gens -> Snapshot]
  BY DEF JobInv, Types
<1>1. packs' = [packs EXCEPT ![p] = "DAMAGED"] BY DEF MarkPackDamaged
<1>2. ASSUME NEW b \in Blocks, Live(b)' PROVE FindBackupBlock(b)'
  <2>1. PICK g \in Gens : snaps'[g].state \in Visible /\ b \in Linked(g)' BY <1>2 DEF Live
  <2>2. ASSUME snaps[g].state \in Visible \cup {"PUBLISHING"}, p \in SnapshotPacks(g) PROVE FALSE
    <3>1. snaps'[g] = [snaps[g] EXCEPT !.state = "DAMAGED"] BY <2>2 DEF MarkPackDamaged
    <3>2. snaps'[g].state = "DAMAGED" BY <1>t, <3>1 DEF Snapshot
    <3> QED BY <2>1, <3>2 DEF Visible
  <2>3. snaps'[g] = snaps[g] BY <2>2 DEF MarkPackDamaged
  <2>4. snaps[g].state \in Visible /\ b \in Linked(g) BY <2>1, <2>3 DEF Linked
  <2>5. FindBackupBlock(b) BY <2>4 DEF RepoInv, LiveIsStored, Live
  <2>6. blocks[b] # p BY <2>2, <2>4, <2>5 DEF SnapshotPacks, FindBackupBlock
  <2>7. packs'[blocks[b]] = packs[blocks[b]]
    BY <1>t, <1>1, <2>5, <2>6 DEF FindBackupBlock
  <2> QED BY <2>5, <2>7 DEF FindBackupBlock
<1>3. LiveIsStored' BY <1>2 DEF LiveIsStored
<1>4. ASSUME NEW q \in PackIds, packs'[q] = "READY" PROVE HasObject(q)' \/ q \in unmarked'
  <2>1. packs[q] = "READY" BY <1>t, <1>1, <1>4
  <2> QED BY <2>1, ReadyPacks DEF HasObject
<1>5. ReadyHasObject' BY <1>4 DEF ReadyHasObject
<1> QED BY <1>3, <1>5, LoudStep

LEMMA MovingSteps ==
    ASSUME JobInv, DraftInv, RepoInv, Next, NEW c \in Coords,
           FilesDone(c) \/ StillActive(c) \/ WriteCatalog(c) \/ StartVerify(c) \/ VerifySample(c)
    PROVE  RepoInv'
<1>t. Types /\ coord \in [Coords -> Coordinator] /\ coord[c] \in Coordinator BY DEF JobInv, Types
<1>1. RunNext(c) /\ Acts(c) BY DEF RunNext, Acts
<1>2. /\ UNCHANGED <<blocks, remote, lost, unmarked, lock>> /\ Executes(c)
      /\ coord[c].pc \in {"files", "catalog", "verify", "items", "transit", "sample"}
  BY DEF FilesDone, StillActive, WriteCatalog, StartVerify, VerifySample, At, Executes, RunSteps, storeVars
<1>3. coord[c].pc \in Drafted \ {"previous"} BY <1>2 DEF Drafted
<1>4. CASE Goto(c, "fail") /\ UNCHANGED packs BY <1>1, <1>2, <1>4, LeavesRun
<1>5. ASSUME NEW q \in {"catalog", "items", "verify", "transit", "publish", "upload"},
             Goto(c, q), UNCHANGED packs, q = "upload" => coord[c].pc = "files"
      PROVE  RepoInv'
  <2>1. /\ coord'[c].pc = q /\ coord'[c].got = coord[c].got /\ coord'[c].prev = coord[c].prev
        /\ coord'[c].pend = coord[c].pend /\ coord'[c].carry = coord[c].carry
    BY <1>t, <1>5, GotoFields
  <2>2. coord'[c].pc \in Drafted \ {"previous", "record"} BY <2>1 DEF Drafted
  <2> QED BY <1>1, <1>2, <1>3, <1>5, <2>1, <2>2, KeepingStep
<1>6. CASE FilesDone(c)
  <2>1. coord[c].pc = "files" /\ UNCHANGED packs /\ (Goto(c, "catalog") \/ Goto(c, "upload"))
    BY <1>6 DEF FilesDone, At, storeVars
  <2> QED BY <1>5, <2>1
<1>7. CASE StillActive(c)
  <2>1. UNCHANGED packs /\ (Goto(c, "items") \/ Goto(c, "transit")) BY <1>7 DEF StillActive, storeVars
  <2> QED BY <1>5, <2>1
<1>8. CASE WriteCatalog(c)
  <2>1. UNCHANGED packs /\ (Goto(c, "verify") \/ Goto(c, "fail")) BY <1>8 DEF WriteCatalog, Breaks
  <2> QED BY <1>4, <1>5, <2>1
<1>9. CASE StartVerify(c)
  <2>1. UNCHANGED packs /\ (Goto(c, "fail") \/ coord' = [coord EXCEPT ![c].pc = "sample", ![c].st = "VERIFYING"])
    BY <1>9 DEF StartVerify
  <2>2. CASE coord' = [coord EXCEPT ![c].pc = "sample", ![c].st = "VERIFYING"]
    <3>1. /\ coord'[c].pc = "sample" /\ coord'[c].got = coord[c].got /\ coord'[c].prev = coord[c].prev
          /\ coord'[c].pend = coord[c].pend /\ coord'[c].carry = coord[c].carry
      BY <1>t, <2>2 DEF Coordinator
    <3>2. coord'[c].pc \in Drafted \ {"previous", "record"} BY <3>1 DEF Drafted
    <3> QED BY <1>1, <1>2, <1>3, <2>1, <3>1, <3>2, KeepingStep
  <2> QED BY <1>4, <2>1, <2>2
<1>10. CASE VerifySample(c)
  <2>1. \/ Goto(c, "publish") /\ UNCHANGED packs
        \/ Goto(c, "fail") /\ \E p : MarkPackDamaged(p)
    BY <1>10, Zenon DEF VerifySample, Breaks
  <2>2. ASSUME Goto(c, "fail"), NEW p, MarkPackDamaged(p) PROVE RepoInv'
    <3>1. coord'[c].pc = "fail" BY <1>t, <2>2, GotoFields
    <3>2. Memory(c)' BY <3>1, FreeMemory DEF Locked, RunSteps, MaintSteps
    <3>3. coord[c].pc \in Locked \ {"mark", "publish"} BY <1>2 DEF Locked, RunSteps
    <3> QED BY <1>1, <1>2, <2>2, <3>2, <3>3, DamageStep
  <2> QED BY <1>5, <2>1, <2>2
<1> QED BY <1>6, <1>7, <1>8, <1>9, <1>10

\* Publication makes live what the run has stored
LEMMA PublishStep ==
    ASSUME JobInv, DraftInv, RepoInv, Next, NEW c \in Coords, PublishSnapshot(c)
    PROVE  RepoInv'
<1>t. Types /\ coord[c] \in Coordinator /\ snaps \in [Gens -> Snapshot] BY DEF JobInv, Types
<1>1. RunNext(c) /\ Acts(c) BY DEF RunNext, Acts
<1>2. /\ UNCHANGED <<packs, blocks, remote, lost, unmarked>> /\ Executes(c) /\ coord[c].pc = "publish"
      /\ coord[c].pc \in Locked
  BY DEF PublishSnapshot, At, Executes, RunSteps, Locked
<1>3. CASE Goto(c, "fail") BY <1>1, <1>2, <1>3, LeavesRun
<1>4. CASE PublishSnapshotAndFinalize(coord[c].gen, coord[c].partial) /\ Return(c)
  <2>g. PICK g : g = coord[c].gen OBVIOUS
  <2>1. g \in Gens BY <1>2, <2>g DEF JobInv, ClaimsHeld, Claimed
  <2>2. snaps'[g].state \in Visible
    <3> DEFINE s == IF coord[c].partial THEN "PARTIAL" ELSE "READY"
    <3>1. snaps' = [snaps EXCEPT ![g].state = s] /\ s \in Visible
      BY <1>4, <2>g DEF PublishSnapshotAndFinalize, Visible
    <3> HIDE DEF s
    <3> QED BY <1>t, <2>1, <3>1 DEF Snapshot
  <2>3. snaps'[g].links = coord[c].got BY <2>2, <2>g, Published DEF Drafts
  <2>4. \A h \in Gens : h # g => snaps'[h] = snaps[h]
    BY <1>t, <1>4, <2>g DEF PublishSnapshotAndFinalize
  <2>5. \A f \in Files : coord[c].got[f] # NoBlock => FindBackupBlock(coord[c].got[f])
    <3>1. coord[c].pend = {} /\ coord[c].carry = {} BY <1>2 DEF DraftInv, FilesHeld, Flushed
    <3>2. RunMemory(c) BY <1>2, HoldsLock
    <3> QED BY <1>2, <3>1, <3>2 DEF RunMemory, Drafted
  <2>6. ASSUME NEW b \in Blocks, Live(b)' PROVE FindBackupBlock(b)
    <3>1. PICK h \in Gens : snaps'[h].state \in Visible /\ b \in Linked(h)' BY <2>6 DEF Live
    <3>2. CASE h = g BY <2>3, <2>5, <3>1, <3>2 DEF Linked
    <3>3. CASE h # g
      <4>1. Live(b) BY <2>4, <3>1, <3>3 DEF Linked, Live
      <4> QED BY <4>1 DEF RepoInv, LiveIsStored
    <3> QED BY <3>2, <3>3
  <2>7. LiveIsStored' BY <1>2, <2>6 DEF LiveIsStored, FindBackupBlock
  <2>8. ASSUME NEW q \in PackIds, packs'[q] = "READY" PROVE HasObject(q)' \/ q \in unmarked'
    BY <1>2, <2>8, ReadyPacks DEF HasObject
  <2>9. ReadyHasObject' BY <2>8 DEF ReadyHasObject
  <2>10. coord'[c].pc = "idle" BY <1>t, <1>4, ReturnFields
  <2>11. Memory(c)' BY <2>10, FreeMemory DEF Locked, RunSteps, MaintSteps
  <2> QED BY <1>1, <1>2, <2>7, <2>9, <2>11, LoudStep
<1> QED BY <1>3, <1>4 DEF PublishSnapshot

LEMMA RunRepo ==
    ASSUME JobInv, DraftInv, RepoInv, Next, NEW c \in Coords, RunNext(c)
    PROVE  RepoInv'
<1>1. CASE Superseded(c) \/ FailRun(c) \/ CancelRun(c)
  <2>1. /\ UNCHANGED <<packs, blocks, remote, lost, unmarked>> /\ Executes(c) /\ coord[c].pc # "publish" /\ Return(c)
    BY <1>1 DEF Superseded, FailRun, CancelRun, At, Executes, RunSteps
  <2> QED BY <2>1, LeavesRun
<1> QED BY <1>1, PollSteps, OpeningSteps, LoadPreviousStep, BackupFileStep, FlushUploadStep, FlushRecordStep,
           MovingSteps, PublishStep DEF RunNext

-----------------------------------------------------------------------------
(* Maintenance and the repository *)

LEMMA LeavesMaint ==
    ASSUME JobInv, DraftInv, RepoInv, Next, NEW c \in Coords, MaintNext(c), coord[c].pc # "mark",
           UNCHANGED <<packs, blocks, remote, lost, unmarked>>, Goto(c, "retry") \/ Return(c)
    PROVE  RepoInv'
<1>1. coord[c].pc \in MaintSteps /\ coord[c].pc # "publish" BY MaintLocalStep DEF JobInv, MaintSteps
<1>2. coord[c].maint \in MaintIds BY <1>1 DEF RepoInv, Memory
<1>3. coord'[c].pc \in {"retry", "idle"} /\ (coord'[c].pc = "retry" => coord'[c].maint = coord[c].maint)
  BY GotoFields, ReturnFields DEF JobInv
<1>4. coord'[c].pc \notin Locked /\ (coord'[c].pc \in MaintSteps => coord'[c].maint \in MaintIds)
  BY <1>2, <1>3 DEF Locked, RunSteps, MaintSteps
<1> QED BY <1>1, <1>4, LeavingStep DEF Acts

LEMMA PlainMaint ==
    ASSUME JobInv, DraftInv, RepoInv, Next, NEW c \in Coords, MaintNext(c), coord[c].pc # "mark",
           UNCHANGED <<packs, blocks, remote, lost, unmarked>>, lock' = c, NEW p \in Plain, Goto(c, p)
    PROVE  RepoInv'
<1>1. coord[c].pc \in MaintSteps BY MaintLocalStep DEF JobInv
<1>2. coord[c].maint \in MaintIds BY <1>1 DEF RepoInv, Memory
<1>3. coord'[c].pc = p /\ coord'[c].maint = coord[c].maint BY GotoFields DEF JobInv
<1> QED BY <1>2, <1>3, PlainStep DEF Acts

\* Steps of checks, and steps before and after the work on packs
LEMMA CheckSteps ==
    ASSUME JobInv, DraftInv, RepoInv, Next, NEW c \in Coords,
           \/ LockMaintenance(c) \/ EnqueueCompaction(c) \/ CopyTargets(c) \/ ClaimTarget(c) \/ CheckTarget(c)
           \/ AdvanceCursor(c) \/ CompleteVerify(c) \/ FinishMaintenance(c)
    PROVE  RepoInv'
<1>t. Types /\ coord \in [Coords -> Coordinator] /\ coord[c] \in Coordinator BY DEF JobInv, Types
<1>1. MaintNext(c) BY DEF MaintNext
<1>2. /\ UNCHANGED <<packs, blocks, remote, lost, unmarked>>
      /\ coord[c].pc \in {"maintLock", "enqueue", "targets", "claim", "check", "advance", "verified", "complete", "retry"}
  BY DEF LockMaintenance, EnqueueCompaction, CopyTargets, ClaimTarget, CheckTarget, AdvanceCursor, CompleteVerify,
         FinishMaintenance, At
<1>3. coord[c].maint \in MaintIds BY <1>2 DEF RepoInv, Memory, MaintSteps
<1>4. coord[c].pc \in Locked => lock = c BY HoldsLock
<1>5. CASE Goto(c, "retry") \/ Return(c) BY <1>1, <1>2, <1>5, LeavesMaint
<1>6. CASE ~(Goto(c, "retry") \/ Return(c)) /\ ~ClaimTarget(c)
  <2>1. lock' = c
    BY <1>4, <1>6 DEF LockMaintenance, EnqueueCompaction, CopyTargets, CheckTarget, AdvanceCursor,
       CompleteVerify, FinishMaintenance, Breaks, At, Locked, MaintSteps
  <2>2. \E p \in {"dispatch", "complete", "claim", "advance", "damaged"} : Goto(c, p)
    BY <1>6 DEF LockMaintenance, EnqueueCompaction, CopyTargets, CheckTarget, AdvanceCursor, CompleteVerify,
       FinishMaintenance, Breaks
  <2> QED BY <1>1, <1>2, <2>1, <2>2, PlainMaint DEF Plain
<1>7. CASE ClaimTarget(c)
  <2>1. lock' = c BY <1>4, <1>7 DEF ClaimTarget, At, Locked, MaintSteps
  <2>2. CASE Goto(c, "verified") BY <1>1, <1>2, <2>1, <2>2, PlainMaint DEF Plain
  <2>3. ASSUME NEW p, coord' = [coord EXCEPT ![c].pc = "check", ![c].pack = p] PROVE RepoInv'
    <3>1. coord'[c].pc = "check" /\ coord'[c].maint = coord[c].maint BY <1>t, <2>3 DEF Coordinator
    <3> QED BY <1>1, <1>2, <1>3, <2>1, <3>1, PlainStep DEF Acts, Plain
  <2> QED BY <1>7, <2>2, <2>3 DEF ClaimTarget
<1> QED BY <1>5, <1>6, <1>7

LEMMA DamagedStep ==
    ASSUME JobInv, DraftInv, RepoInv, Next, NEW c \in Coords, MarkTargetDamaged(c)
    PROVE  RepoInv'
<1>1. MaintNext(c) /\ Acts(c) BY DEF MaintNext, Acts
<1>2. coord[c].pc = "damaged" /\ coord[c].pc \in Locked BY DEF MarkTargetDamaged, At, Locked, MaintSteps
<1>3. UNCHANGED <<blocks, remote, lost, unmarked, lock>> /\ Goto(c, "advance") /\ MarkPackDamaged(coord[c].pack)
  BY DEF MarkTargetDamaged
<1>4. coord'[c].pc = "advance" /\ coord'[c].maint = coord[c].maint BY <1>3, GotoFields DEF JobInv
<1>5. lock = c /\ coord[c].maint \in MaintIds BY <1>2, HoldsLock DEF MaintSteps
<1>6. Memory(c)' BY <1>3, <1>4, <1>5, PlainMemory DEF Plain
<1> QED BY <1>1, <1>2, <1>3, <1>6, DamageStep

\* The kind of the row decides what is done; retention and deletion list packs
LEMMA DispatchSteps ==
    ASSUME JobInv, DraftInv, RepoInv, Next, NEW c \in Coords, ExecuteMaintenance(c) \/ ApplyExpiry(c)
    PROVE  RepoInv'
<1>1. MaintNext(c) /\ Acts(c) BY DEF MaintNext, Acts
<1>2. /\ UNCHANGED <<packs, blocks, remote, lost, unmarked, lock>>
      /\ coord[c].pc \in {"dispatch", "expire"} /\ coord[c].pc \in Locked
  BY DEF ExecuteMaintenance, ApplyExpiry, At, Locked, MaintSteps
<1>3. lock = c /\ coord[c].maint \in MaintIds /\ MaintMemory(c) BY <1>2, HoldsLock DEF MaintSteps
<1>4. CASE Goto(c, "retry") BY <1>1, <1>2, <1>4, LeavesMaint
<1>5. CASE Goto(c, "compact") \/ Goto(c, "targets") BY <1>1, <1>2, <1>3, <1>5, PlainMaint DEF Plain
<1>6. ASSUME NEW p \in {"expire", "list"}, Goto(c, p), Kind(c) \in {"RETENTION", "DELETE_REPOSITORY"} PROVE RepoInv'
  <2>1. coord'[c].pc = p /\ coord'[c].maint = coord[c].maint BY <1>6, GotoFields DEF JobInv
  <2>2. Kind(c)' = Kind(c) BY <1>2, <1>6, <2>1, KindKept DEF Kind
  <2>3. MaintMemory(c)' BY <1>6, <2>1, <2>2 DEF MaintMemory
  <2>4. RunMemory(c)' BY <2>1 DEF RunMemory, Drafted
  <2>5. Memory(c)' BY <1>2, <1>3, <2>1, <2>3, <2>4 DEF Memory
  <2>6. coord[c].pc # "publish" /\ coord[c].pc # "mark" BY <1>2
  <2> QED BY <1>1, <1>2, <2>5, <2>6, CalmStep
<1>7. CASE ExecuteMaintenance(c)
  <2> DEFINE k == Kind(c)
             q == CASE k = "RETENTION" -> "expire"
                    [] k = "COMPACTION" -> "compact"
                    [] k = "DELETE_REPOSITORY" -> "list"
                    [] k = "VERIFY" -> "targets"
                    [] OTHER -> "retry"
  <2>1. Goto(c, q) \/ Goto(c, "retry") BY <1>7 DEF ExecuteMaintenance, Breaks
  <2>2. \/ q = "expire" /\ k = "RETENTION"
        \/ q = "list" /\ k = "DELETE_REPOSITORY"
        \/ q \in {"compact", "targets", "retry"}
    <3> HIDE DEF k
    <3>1. CASE k = "RETENTION" BY <3>1
    <3>2. CASE k = "COMPACTION" BY <3>2
    <3>3. CASE k = "DELETE_REPOSITORY" BY <3>3
    <3>4. CASE k = "VERIFY" BY <3>4
    <3>5. CASE k \notin {"RETENTION", "COMPACTION", "DELETE_REPOSITORY", "VERIFY"} BY <3>5
    <3> QED BY <3>1, <3>2, <3>3, <3>4, <3>5
  <2> HIDE DEF q
  <2> QED BY <1>4, <1>5, <1>6, <2>1, <2>2
<1>8. CASE ApplyExpiry(c)
  <2>1. Goto(c, "list") /\ coord[c].pc = "expire" BY <1>8 DEF ApplyExpiry, At
  <2> QED BY <1>3, <1>6, <2>1 DEF MaintMemory
<1> QED BY <1>7, <1>8

\* What is listed for removal is needed by no visible snapshot
LEMMA ListStep ==
    ASSUME JobInv, DraftInv, RepoInv, Next, NEW c \in Coords, ListPacks(c)
    PROVE  RepoInv'
<1>t. Types /\ coord \in [Coords -> Coordinator] /\ coord[c] \in Coordinator BY DEF JobInv, Types
<1>1. MaintNext(c) /\ Acts(c) BY DEF MaintNext, Acts
<1>2. /\ UNCHANGED <<packs, blocks, remote, lost, unmarked, lock, snaps>>
      /\ coord[c].pc = "list" /\ coord[c].pc \in Locked
  BY DEF ListPacks, At, Locked, MaintSteps, storeVars
<1>3. lock = c /\ coord[c].maint \in MaintIds /\ MaintMemory(c) BY <1>2, HoldsLock DEF MaintSteps
<1> DEFINE s == IF Kind(c) = "RETENTION" THEN ListReclaimablePacks ELSE ListPacksForDeletion
<1>4. \A p \in s : Dead(p)
  <2>1. CASE Kind(c) = "RETENTION" BY <2>1 DEF ListReclaimablePacks, Dead
  <2>2. CASE Kind(c) = "DELETE_REPOSITORY"
    <3>1. job.status \in {"DELETING", "GONE"} BY <1>3, <2>2 DEF RepoInv, DeletionIsDeleting, Kind
    <3>2. \A g \in Gens : snaps[g].state \notin Visible BY <3>1 DEF DraftInv, DeletedHidesAll
    <3> QED BY <3>2 DEF Dead, Live
  <2> QED BY <1>2, <1>3, <2>1, <2>2 DEF MaintMemory
<1>5. coord' = [coord EXCEPT ![c].pc = "remove", ![c].list = s] BY DEF ListPacks
<1> HIDE DEF s
<1>6. coord'[c].pc = "remove" /\ coord'[c].list = s /\ coord'[c].maint = coord[c].maint BY <1>t, <1>5 DEF Coordinator
<1>7. \A p : Dead(p)' <=> Dead(p) BY <1>2 DEF Dead, InPack, Live, Linked
<1>8. MaintMemory(c)' BY <1>4, <1>6, <1>7 DEF MaintMemory
<1>9. RunMemory(c)' BY <1>6 DEF RunMemory, Drafted
<1>10. Memory(c)' BY <1>2, <1>3, <1>6, <1>8, <1>9 DEF Memory
<1> QED BY <1>1, <1>2, <1>6, <1>10, CalmStep

LEMMA RemoveStep ==
    ASSUME JobInv, DraftInv, RepoInv, Next, NEW c \in Coords, RemovePack(c)
    PROVE  RepoInv'
<1>t. Types /\ coord \in [Coords -> Coordinator] /\ coord[c] \in Coordinator BY DEF JobInv, Types
<1>1. MaintNext(c) /\ Acts(c) BY DEF MaintNext, Acts
<1>2. /\ UNCHANGED <<packs, blocks, lost, unmarked, lock, snaps>>
      /\ coord[c].pc = "remove" /\ coord[c].pc \in Locked
  BY DEF RemovePack, At, Locked, MaintSteps
<1>3. lock = c /\ coord[c].maint \in MaintIds /\ MaintMemory(c) BY <1>2, HoldsLock DEF MaintSteps
<1>4. CASE UNCHANGED remote /\ Goto(c, "retry") BY <1>1, <1>2, <1>4, LeavesMaint
<1>5. CASE UNCHANGED remote /\ (Goto(c, "enqueue") \/ Goto(c, "finalize"))
  BY <1>1, <1>2, <1>3, <1>5, PlainMaint DEF Plain
<1>6. ASSUME NEW p \in coord[c].list, remote' = remote \ {p}, coord' = [coord EXCEPT ![c].pc = "mark", ![c].pack = p]
      PROVE  RepoInv'
  <2>1. /\ coord'[c].pc = "mark" /\ coord'[c].pack = p
        /\ coord'[c].list = coord[c].list /\ coord'[c].maint = coord[c].maint
    BY <1>t, <1>6 DEF Coordinator
  <2>2. \A q : Dead(q)' <=> Dead(q) BY <1>2 DEF Dead, InPack, Live, Linked
  <2>3. \A q \in coord[c].list : Dead(q) BY <1>2, <1>3 DEF MaintMemory
  <2>4. MaintMemory(c)' BY <1>6, <2>1, <2>2, <2>3 DEF MaintMemory
  <2>5. RunMemory(c)' BY <2>1 DEF RunMemory, Drafted
  <2>6. Memory(c)' BY <1>2, <1>3, <2>1, <2>4, <2>5 DEF Memory
  <2>7. LiveIsStored' BY <1>2 DEF RepoInv, LiveIsStored, FindBackupBlock, Live, Linked
  <2>8. ASSUME NEW q \in PackIds, packs'[q] = "READY" PROVE HasObject(q)' \/ q \in unmarked' \/ Removing(q)'
    <3>1. CASE q = p BY <2>1, <3>1 DEF Removing
    <3>2. CASE q # p
      <4>1. HasObject(q) \/ q \in unmarked BY <1>2, <2>8, ReadyPacks
      <4> QED BY <1>2, <1>6, <3>2, <4>1 DEF HasObject
    <3> QED BY <3>1, <3>2
  <2>9. ReadyHasObject' BY <2>8 DEF ReadyHasObject
  <2> QED BY <1>1, <1>2, <2>6, <2>7, <2>9, LoudStep
<1> QED BY <1>4, <1>5, <1>6 DEF RemovePack, Breaks

\* The row of a pack no visible snapshot needs is marked
LEMMA MarkedPack ==
    ASSUME JobInv, DraftInv, RepoInv, Next, NEW c \in Coords, Acts(c), coord[c].pc \in Locked \ {"publish"},
           NEW p \in PackIds, MarkPackDeleted(p), Dead(p), UNCHANGED <<remote, lost, unmarked>>,
           coord[c].pc = "mark" => coord[c].pack = p
    PROVE  LiveIsStored' /\ ReadyHasObject' /\ \A q \in PackIds : Dead(q) => Dead(q)'
<1>t. packs \in [PackIds -> PackState] /\ blocks \in [Blocks -> PackIds \cup {NoPack}]
  BY DEF JobInv, Types
<1>1. /\ packs' = [packs EXCEPT ![p] = "DELETED"]
      /\ blocks' = [b \in Blocks |-> IF blocks[b] = p /\ ~StillLinked(b) THEN NoPack ELSE blocks[b]]
  BY DEF MarkPackDeleted
<1>2. \A b : Live(b)' => Live(b) BY NothingNew
<1>3. ASSUME NEW b \in Blocks, Live(b)' PROVE FindBackupBlock(b)'
  <2>1. Live(b) /\ FindBackupBlock(b) BY <1>2, <1>3 DEF RepoInv, LiveIsStored
  <2>2. blocks[b] # p BY <2>1 DEF Dead, InPack
  <2>3. blocks'[b] = blocks[b] BY <1>1, <2>2
  <2>4. packs'[blocks[b]] = packs[blocks[b]] BY <1>t, <1>1, <2>1, <2>2 DEF FindBackupBlock
  <2> QED BY <2>1, <2>3, <2>4 DEF FindBackupBlock
<1>4. LiveIsStored' BY <1>3 DEF LiveIsStored
<1>5. ASSUME NEW q \in PackIds, packs'[q] = "READY" PROVE HasObject(q)' \/ q \in unmarked'
  <2>1. packs[q] = "READY" /\ q # p BY <1>t, <1>1, <1>5
  <2> QED BY <2>1, ReadyPacks DEF HasObject
<1>6. ReadyHasObject' BY <1>5 DEF ReadyHasObject
<1>7. ASSUME NEW q \in PackIds, Dead(q) PROVE Dead(q)'
  <2>1. ASSUME NEW b \in InPack(q)' PROVE b \in InPack(q)
    <3>1. b \in Blocks /\ blocks'[b] = q BY <2>1 DEF InPack
    <3>2. q # NoPack BY DEF PackIds, NoPack
    <3> QED BY <1>1, <3>1, <3>2 DEF InPack
  <2> QED BY <1>2, <1>7, <2>1 DEF Dead
<1> QED BY <1>4, <1>6, <1>7

LEMMA MarkRemovedStep ==
    ASSUME JobInv, DraftInv, RepoInv, Next, NEW c \in Coords, MarkRemoved(c)
    PROVE  RepoInv'
<1>t. Types /\ coord \in [Coords -> Coordinator] /\ coord[c] \in Coordinator BY DEF JobInv, Types
<1>1. MaintNext(c) /\ Acts(c) BY DEF MaintNext, Acts
<1>2. /\ UNCHANGED <<remote, lost, lock>> /\ coord[c].pc = "mark" /\ coord[c].pc \in Locked \ {"publish"}
  BY DEF MarkRemoved, At, Locked, MaintSteps
<1>3. lock = c /\ coord[c].maint \in MaintIds /\ MaintMemory(c) BY <1>2, HoldsLock DEF MaintSteps
<1>4. CASE CanMarkDeleted(coord[c].pack)
  <2>p. PICK p, s : p = coord[c].pack /\ s = coord[c].list \ {p} OBVIOUS
  <2>1. /\ MarkPackDeleted(p) /\ UNCHANGED unmarked
        /\ coord' = [coord EXCEPT ![c].pc = "remove", ![c].list = s, ![c].pack = NoPack]
    BY <1>4, <2>p DEF MarkRemoved
  <2>2. p \in coord[c].list /\ \A q \in coord[c].list : Dead(q) BY <1>2, <1>3, <2>p DEF MaintMemory
  <2>3. coord[c].list \subseteq PackIds BY <1>t DEF Coordinator
  <2>4. LiveIsStored' /\ ReadyHasObject' /\ \A q \in PackIds : Dead(q) => Dead(q)'
    BY <1>1, <1>2, <2>p, <2>1, <2>2, <2>3, MarkedPack
  <2>5. coord'[c].pc = "remove" /\ coord'[c].list = s /\ coord'[c].maint = coord[c].maint BY <1>t, <2>1 DEF Coordinator
  <2>6. \A q \in s : Dead(q)' BY <2>p, <2>2, <2>3, <2>4
  <2>7. MaintMemory(c)' BY <2>5, <2>6 DEF MaintMemory
  <2>8. RunMemory(c)' BY <2>5 DEF RunMemory, Drafted
  <2>9. Memory(c)' BY <1>2, <1>3, <2>5, <2>7, <2>8 DEF Memory
  <2> QED BY <1>1, <1>2, <2>4, <2>9, LoudStep
<1>5. CASE ~CanMarkDeleted(coord[c].pack)
  <2>1. /\ Goto(c, "retry") /\ unmarked' = unmarked \cup {coord[c].pack} /\ UNCHANGED <<snaps, packs, blocks>>
    BY <1>5 DEF MarkRemoved
  <2>2. coord'[c].pc = "retry" /\ coord'[c].maint = coord[c].maint BY <1>t, <2>1, GotoFields
  <2>3. Memory(c)' BY <1>3, <2>2, FreeMemory DEF Locked, RunSteps, MaintSteps
  <2>4. Quiet BY <1>2, <2>1 DEF Quiet, HasObject, Live, Linked
  <2> QED BY <1>1, <2>1, <2>3, <2>4, QuietStep
<1> QED BY <1>4, <1>5

LEMMA MarkRetiredStep ==
    ASSUME JobInv, DraftInv, RepoInv, Next, NEW c \in Coords, MarkRetired(c)
    PROVE  RepoInv'
<1>t. Types /\ coord[c] \in Coordinator BY DEF JobInv, Types
<1>1. MaintNext(c) /\ Acts(c) BY DEF MaintNext, Acts
<1>2. /\ UNCHANGED <<remote, lost, lock, unmarked>> /\ coord[c].pc = "retireMark" /\ coord[c].pc \in Locked \ {"publish"}
  BY DEF MarkRetired, At, Locked, MaintSteps
<1>3. lock = c /\ coord[c].maint \in MaintIds /\ MaintMemory(c) BY <1>2, HoldsLock DEF MaintSteps
<1>4. CASE CanMarkDeleted(coord[c].pack)
  <2>1. MarkPackDeleted(coord[c].pack) /\ Goto(c, "enqueue") BY <1>4 DEF MarkRetired
  <2>2. Dead(coord[c].pack) BY <1>2, <1>3 DEF MaintMemory
  <2>3. coord[c].pack \in PackIds BY <1>2, <1>3 DEF MaintMemory
  <2>4. LiveIsStored' /\ ReadyHasObject' BY <1>1, <1>2, <2>1, <2>2, <2>3, MarkedPack
  <2>5. coord'[c].pc = "enqueue" /\ coord'[c].maint = coord[c].maint BY <1>t, <2>1, GotoFields
  <2>6. Memory(c)' BY <1>2, <1>3, <2>5, PlainMemory DEF Plain
  <2> QED BY <1>1, <1>2, <2>4, <2>6, LoudStep
<1>5. CASE ~CanMarkDeleted(coord[c].pack)
  <2>1. Goto(c, "retry") /\ UNCHANGED <<packs, blocks>> BY <1>5 DEF MarkRetired
  <2> QED BY <1>1, <1>2, <2>1, LeavesMaint
<1> QED BY <1>4, <1>5

\* The job goes with everything it has stored
LEMMA FinalizeStep ==
    ASSUME JobInv, DraftInv, RepoInv, Next, NEW c \in Coords, FinalizeDeletion(c)
    PROVE  RepoInv'
<1>1. MaintNext(c) /\ Acts(c) BY DEF MaintNext, Acts
<1>2. UNCHANGED <<remote, lost, unmarked>> /\ coord[c].pc = "finalize" /\ coord[c].pc \in Locked
  BY DEF FinalizeDeletion, At, Locked, MaintSteps
<1>3. CASE Goto(c, "retry") /\ UNCHANGED <<packs, blocks>> BY <1>1, <1>2, <1>3, LeavesMaint
<1>4. CASE DeleteJobAfterCleanup /\ Return(c)
  <2>1. snaps' = [g \in Gens |-> NoSnap] /\ packs' = [p \in PackIds |-> "NONE"] BY <1>4 DEF DeleteJobAfterCleanup
  <2>2. \A g \in Gens : snaps'[g].state \notin Visible BY <2>1 DEF NoSnap, Visible
  <2>3. LiveIsStored' BY <2>2 DEF LiveIsStored, Live
  <2>4. ReadyHasObject' BY <2>1 DEF ReadyHasObject
  <2>5. coord'[c].pc = "idle" BY <1>4, ReturnFields DEF JobInv
  <2>6. Memory(c)' BY <2>5, FreeMemory DEF Locked, RunSteps, MaintSteps
  <2> QED BY <1>1, <1>2, <2>3, <2>4, <2>6, LoudStep
<1> QED BY <1>3, <1>4 DEF FinalizeDeletion, Breaks

LEMMA CompactStep ==
    ASSUME JobInv, DraftInv, RepoInv, Next, NEW c \in Coords, CompactOnePack(c)
    PROVE  RepoInv'
<1>t. Types /\ coord \in [Coords -> Coordinator] /\ coord[c] \in Coordinator BY DEF JobInv, Types
<1>1. MaintNext(c) /\ Acts(c) BY DEF MaintNext, Acts
<1>2. UNCHANGED <<packs, blocks, snaps, lock>> /\ coord[c].pc = "compact" /\ coord[c].pc \in Locked
  BY DEF CompactOnePack, At, Locked, MaintSteps
<1>3. lock = c /\ coord[c].maint \in MaintIds BY <1>2, HoldsLock DEF MaintSteps
<1>4. CASE UNCHANGED <<remote, lost, unmarked>> /\ Goto(c, "retry") BY <1>1, <1>2, <1>4, LeavesMaint
<1>5. CASE UNCHANGED <<remote, lost, unmarked>> /\ Goto(c, "complete")
  BY <1>1, <1>2, <1>3, <1>5, PlainMaint DEF Plain
<1>6. ASSUME NEW p \in CompactionCandidates, NEW s, s = {b \in InPack(p) : Live(b)},
             remote' = remote \cup {s}, lost' = lost \ {s}, unmarked' = unmarked \ {s},
             coord' = [coord EXCEPT ![c].pc = "replace", ![c].pack = p, ![c].live = s]
      PROVE  RepoInv'
  <2>1. /\ coord'[c].pc = "replace" /\ coord'[c].pack = p /\ coord'[c].live = s
        /\ coord'[c].maint = coord[c].maint
    BY <1>t, <1>6 DEF Coordinator
  <2>2. p \in PackIds /\ packs[p] = "READY" /\ s # {} BY <1>6 DEF CompactionCandidates
  <2>3. s \in PackIds BY <1>6, <2>2 DEF PackIds, InPack
  <2>4. \A b : Live(b)' <=> Live(b) BY <1>2 DEF Live, Linked
  <2>5. InPack(p)' = InPack(p) BY <1>2 DEF InPack
  <2>6. Quiet BY <1>2, <1>6, <2>4 DEF Quiet, HasObject
  <2>7. \A b \in InPack(p)' : Live(b)' => b \in s BY <1>6, <2>4, <2>5
  <2>8. HasObject(s)' BY <1>6 DEF HasObject
  <2>9. MaintMemory(c)' BY <1>2, <2>1, <2>2, <2>3, <2>7, <2>8 DEF MaintMemory
  <2>10. RunMemory(c)' BY <2>1 DEF RunMemory, Drafted
  <2>11. Memory(c)' BY <1>2, <1>3, <2>1, <2>9, <2>10 DEF Memory
  <2> QED BY <1>1, <1>2, <2>6, <2>11, QuietStep
<1> QED BY <1>4, <1>5, <1>6 DEF CompactOnePack, Breaks

\* The live blocks of the old pack move into the new one
LEMMA ReplaceStep ==
    ASSUME JobInv, DraftInv, RepoInv, Next, NEW c \in Coords, ReplacePack(c)
    PROVE  RepoInv'
<1>t. /\ Types /\ coord[c] \in Coordinator
      /\ packs \in [PackIds -> PackState] /\ blocks \in [Blocks -> PackIds \cup {NoPack}]
  BY DEF JobInv, Types
<1>1. MaintNext(c) /\ Acts(c) BY DEF MaintNext, Acts
<1>2. UNCHANGED <<remote, lost, unmarked, lock>> /\ coord[c].pc = "replace" /\ coord[c].pc \in Locked
  BY DEF ReplacePack, At, Locked, MaintSteps
<1>3. lock = c /\ coord[c].maint \in MaintIds /\ MaintMemory(c) BY <1>2, HoldsLock DEF MaintSteps
<1>4. CASE CanReplacePack(coord[c].pack, coord[c].live)
  <2>p. PICK old, new : old = coord[c].pack /\ new = coord[c].live OBVIOUS
  <2>1. Goto(c, "retire") /\ ReplacePackLocators(old, new) BY <1>4, <2>p DEF ReplacePack
  <2>2. /\ old \in PackIds /\ packs[old] = "READY" /\ new \in PackIds /\ HasObject(new)
        /\ \A b \in InPack(old) : Live(b) => b \in new
    BY <1>2, <1>3, <2>p DEF MaintMemory
  <2>3. packs[new] = "NONE" /\ \A b \in new : blocks[b] = old BY <2>1 DEF ReplacePackLocators, CanReplacePack
  <2>4. packs' = [packs EXCEPT ![new] = "READY", ![old] = "DELETE_PENDING"]
    BY <1>t, <2>1, <2>2, <2>3 DEF ReplacePackLocators
  <2>5. ASSUME NEW b \in Blocks
        PROVE  /\ b \in new => blocks'[b] = new
               /\ b \notin new => blocks'[b] \in {blocks[b], NoPack}
               /\ b \notin new /\ blocks[b] # old => blocks'[b] = blocks[b]
    <3>1. blocks'[b] = CASE b \in new -> new
                         [] b \notin new /\ blocks[b] = old /\ ~StillLinked(b) -> NoPack
                         [] OTHER -> blocks[b]
      BY <2>1 DEF ReplacePackLocators
    <3>2. CASE b \in new BY <3>1, <3>2
    <3>3. CASE b \notin new /\ blocks[b] = old /\ ~StillLinked(b) BY <3>1, <3>3
    <3>4. CASE b \notin new /\ ~(blocks[b] = old /\ ~StillLinked(b)) BY <3>1, <3>4
    <3> QED BY <3>2, <3>3, <3>4
  <2>6. \A b : Live(b)' => Live(b) BY <1>1, <1>2, NothingNew
  <2>7. old # {} /\ new # old BY <2>2, <2>3 DEF PackIds
  <2>8. packs'[new] = "READY" /\ packs'[old] = "DELETE_PENDING" BY <1>t, <2>2, <2>4, <2>7
  <2>9. \A q \in PackIds : q # new /\ q # old => packs'[q] = packs[q] BY <1>t, <2>4
  <2>10. ASSUME NEW b \in Blocks, Live(b)' PROVE FindBackupBlock(b)'
    <3>1. Live(b) /\ FindBackupBlock(b) BY <2>6, <2>10 DEF RepoInv, LiveIsStored
    <3>2. CASE b \in new BY <2>2, <2>5, <2>8, <3>2 DEF FindBackupBlock, NoPack, PackIds
    <3>3. CASE b \notin new
      <4>1. blocks[b] # old BY <2>2, <3>1, <3>3 DEF InPack
      <4>2. blocks[b] # new BY <2>3, <3>1 DEF FindBackupBlock
      <4>3. blocks[b] \in PackIds BY <1>t, <3>1 DEF FindBackupBlock
      <4> QED BY <2>5, <2>9, <3>1, <3>3, <4>1, <4>2, <4>3 DEF FindBackupBlock
    <3> QED BY <3>2, <3>3
  <2>11. LiveIsStored' BY <2>10 DEF LiveIsStored
  <2>12. ASSUME NEW q \in PackIds, packs'[q] = "READY" PROVE HasObject(q)' \/ q \in unmarked'
    <3>1. CASE q = new BY <1>2, <2>2, <3>1 DEF HasObject
    <3>2. CASE q # new
      <4>1. packs[q] = "READY" BY <2>8, <2>9, <2>12, <3>2
      <4> QED BY <1>2, <4>1, ReadyPacks DEF HasObject
    <3> QED BY <3>1, <3>2
  <2>13. ReadyHasObject' BY <2>12 DEF ReadyHasObject
  <2>14. Dead(old)'
    <3>1. ASSUME NEW b \in InPack(old)', Live(b)' PROVE FALSE
      <4>1. b \in Blocks /\ blocks'[b] = old /\ Live(b) BY <2>6, <3>1 DEF InPack
      <4>2. b \notin new /\ blocks[b] = old BY <2>5, <2>7, <4>1 DEF NoPack
      <4> QED BY <2>2, <4>1, <4>2 DEF InPack
    <3> QED BY <3>1 DEF Dead
  <2>15. coord'[c].pc = "retire" /\ coord'[c].pack = old /\ coord'[c].maint = coord[c].maint
    BY <1>t, <2>p, <2>1, GotoFields
  <2>16. MaintMemory(c)' BY <2>2, <2>8, <2>14, <2>15 DEF MaintMemory
  <2>17. RunMemory(c)' BY <2>15 DEF RunMemory, Drafted
  <2>18. Memory(c)' BY <1>2, <1>3, <2>15, <2>16, <2>17 DEF Memory
  <2> QED BY <1>1, <1>2, <2>11, <2>13, <2>18, LoudStep
<1>5. CASE ~CanReplacePack(coord[c].pack, coord[c].live)
  <2>1. Goto(c, "retry") /\ UNCHANGED <<packs, blocks>> BY <1>5 DEF ReplacePack
  <2> QED BY <1>1, <1>2, <2>1, LeavesMaint
<1> QED BY <1>4, <1>5

LEMMA RetireStep ==
    ASSUME JobInv, DraftInv, RepoInv, Next, NEW c \in Coords, RetirePack(c)
    PROVE  RepoInv'
<1>t. Types /\ coord[c] \in Coordinator BY DEF JobInv, Types
<1>1. MaintNext(c) /\ Acts(c) BY DEF MaintNext, Acts
<1>2. UNCHANGED <<packs, blocks, snaps, lost, unmarked, lock>> /\ coord[c].pc = "retire" /\ coord[c].pc \in Locked
  BY DEF RetirePack, At, Locked, MaintSteps
<1>3. lock = c /\ coord[c].maint \in MaintIds /\ MaintMemory(c) BY <1>2, HoldsLock DEF MaintSteps
<1>4. CASE UNCHANGED remote /\ Goto(c, "retry") BY <1>1, <1>2, <1>4, LeavesMaint
<1>5. CASE remote' = remote \ {coord[c].pack} /\ Goto(c, "retireMark")
  <2>p. PICK p : p = coord[c].pack OBVIOUS
  <2>1. p \in PackIds /\ packs[p] # "READY" /\ Dead(p) BY <1>2, <1>3, <2>p DEF MaintMemory
  <2>2. coord'[c].pc = "retireMark" /\ coord'[c].pack = p /\ coord'[c].maint = coord[c].maint
    BY <1>t, <1>5, <2>p, GotoFields
  <2>3. Dead(p)' BY <1>2, <2>1 DEF Dead, InPack, Live, Linked
  <2>4. MaintMemory(c)' BY <1>2, <2>1, <2>2, <2>3 DEF MaintMemory
  <2>5. RunMemory(c)' BY <2>2 DEF RunMemory, Drafted
  <2>6. Memory(c)' BY <1>2, <1>3, <2>2, <2>4, <2>5 DEF Memory
  <2>7. LiveIsStored' BY <1>2 DEF RepoInv, LiveIsStored, FindBackupBlock, Live, Linked
  <2>8. ASSUME NEW q \in PackIds, packs'[q] = "READY" PROVE HasObject(q)' \/ q \in unmarked'
    <3>1. q # p BY <1>2, <2>1, <2>8
    <3>2. HasObject(q) \/ q \in unmarked BY <1>2, <2>8, ReadyPacks
    <3> QED BY <1>2, <1>5, <2>p, <3>1, <3>2 DEF HasObject
  <2>9. ReadyHasObject' BY <2>8 DEF ReadyHasObject
  <2> QED BY <1>1, <1>2, <2>6, <2>7, <2>9, LoudStep
<1> QED BY <1>4, <1>5 DEF RetirePack, Breaks

LEMMA MaintRepo ==
    ASSUME JobInv, DraftInv, RepoInv, Next, NEW c \in Coords, MaintNext(c)
    PROVE  RepoInv'
BY CheckSteps, DamagedStep, DispatchSteps, ListStep, RemoveStep, MarkRemovedStep, MarkRetiredStep, FinalizeStep,
   CompactStep, ReplaceStep, RetireStep DEF MaintNext

\* A coordinator that dies between the object and the row leaves the pack unmarked
LEMMA CrashRepo ==
    ASSUME JobInv, DraftInv, RepoInv, Next, NEW c \in Coords, Crash(c)
    PROVE  RepoInv'
<1>1. Acts(c) BY DEF Acts
<1>2. /\ UNCHANGED <<packs, blocks, snaps, remote, lost>> /\ unmarked \subseteq unmarked'
      /\ coord[c].pc = "mark" => coord[c].pack \in unmarked'
  BY DEF Crash, At
<1>3. Quiet BY <1>2 DEF Quiet, HasObject, Live, Linked
<1>4. coord'[c].pc = "idle" BY DEF Crash, JobInv, Types, Idle
<1>5. Memory(c)' BY <1>4, FreeMemory DEF Locked, RunSteps, MaintSteps
<1> QED BY <1>1, <1>2, <1>3, <1>5, QuietStep

LEMMA RepoStep == ASSUME JobInv, DraftInv, RepoInv, Next PROVE RepoInv'
<1>1. \/ \E c \in Coords : RunNext(c) \/ MaintNext(c) \/ Crash(c)
      \/ TimePasses \/ Users \/ Environment \/ (\E s \in Schedulers : SchedulerStep(s) \/ SchedulerDies(s))
      \/ (\E c \in Coords : Heartbeat(c))
  BY DEF Next, CoordinatorStep
<1> QED BY <1>1, RunRepo, MaintRepo, CrashRepo, OutsideRepo

LEMMA RepoStutter == ASSUME RepoInv, UNCHANGED vars PROVE RepoInv'
<1>1. UNCHANGED <<job, snaps, packs, blocks, maint, remote, lost, unmarked, coord, lock>>
  BY DEF vars, storeVars, coordVars
<1>2. \A b : (Live(b)' <=> Live(b)) /\ (FindBackupBlock(b)' <=> FindBackupBlock(b))
  BY <1>1 DEF Live, Linked, FindBackupBlock
<1>3. \A p : (HasObject(p)' <=> HasObject(p)) /\ InPack(p)' = InPack(p) /\ (Removing(p)' <=> Removing(p))
  BY <1>1 DEF HasObject, InPack, Removing
<1>4. \A p : Dead(p)' <=> Dead(p) BY <1>2, <1>3 DEF Dead
<1>5. ASSUME NEW c \in Coords PROVE Memory(c)'
  <2>1. Memory(c) BY DEF RepoInv
  <2>2. RunMemory(c) => RunMemory(c)' BY <1>1, <1>2, <1>3 DEF RunMemory
  <2>3. MaintMemory(c) => MaintMemory(c)' BY <1>1, <1>2, <1>3, <1>4 DEF MaintMemory, Kind
  <2> QED BY <1>1, <2>1, <2>2, <2>3 DEF Memory
<1>6. LiveIsStored' /\ ReadyHasObject' BY <1>1, <1>2, <1>3 DEF RepoInv, LiveIsStored, ReadyHasObject
<1> QED BY <1>1, <1>5, <1>6 DEF RepoInv, KindsKnown, DeletionIsDeleting

LEMMA RepoInit == ASSUME Init PROVE RepoInv
<1> DEFINE stored == {source[f] : f \in Files}
           done   == IF Boot = "published" THEN {1} ELSE {}
           full   == IF Boot = "published" THEN {stored} ELSE {}
<1>1. /\ source \in [Files -> Blocks] /\ maint = [m \in MaintIds |-> NoMaint]
      /\ snaps = [g \in Gens |-> IF g \in done
                                 THEN [state |-> "READY", scanned |-> source, links |-> source] ELSE NoSnap]
      /\ packs = [p \in PackIds |-> IF p \in full THEN "READY" ELSE "NONE"]
      /\ blocks = [b \in Blocks |-> IF full # {} /\ b \in stored THEN stored ELSE NoPack]
      /\ remote = full
  BY DEF Init, StoreInit
<1>2. KindsKnown /\ DeletionIsDeleting BY <1>1 DEF KindsKnown, DeletionIsDeleting, NoMaint
<1>3. ASSUME NEW b \in Blocks, Live(b) PROVE FindBackupBlock(b)
  <2>1. PICK g \in Gens : snaps[g].state \in Visible /\ b \in Linked(g) BY <1>3 DEF Live
  <2>2. g \in done BY <1>1, <2>1 DEF NoSnap, Visible
  <2>3. Boot = "published" /\ full = {stored} BY <2>2
  <2>4. snaps[g].links = source BY <1>1, <2>2
  <2>5. b \in stored BY <2>1, <2>4 DEF Linked
  <2>6. stored \in PackIds BY <1>1, <2>5 DEF PackIds
  <2>7. blocks[b] = stored /\ packs[stored] = "READY" BY <1>1, <2>3, <2>5, <2>6
  <2> QED BY <2>5, <2>7 DEF FindBackupBlock, NoPack
<1>4. LiveIsStored BY <1>3 DEF LiveIsStored
<1>5. ReadyHasObject BY <1>1 DEF ReadyHasObject, HasObject
<1>6. \A c \in Coords : coord[c].pc = "idle" BY DEF Init, CoordInit, Idle
<1>7. \A c \in Coords : Memory(c) BY <1>6 DEF Memory, Locked, RunSteps, MaintSteps
<1> QED BY <1>2, <1>4, <1>5, <1>7 DEF RepoInv

(***************************************************************************)
(* Every block of a snapshot the user can see lies in a READY pack whose   *)
(* object is on the target, unless somebody else destroyed it or a         *)
(* retention deleted it and never marked the row: reuse of stored blocks,  *)
(* retention, compaction, deletion and crashes keep published snapshots    *)
(* readable, for any number of coordinators, runs and packs (flush,        *)
(* applyRetention, compactOnePack, ReplaceBackupPackLocatorsContext).      *)
(***************************************************************************)
THEOREM SnapshotsAreReadable == Spec => []VisibleSnapshotsReadable
<1>1. Init => JobInv /\ DraftInv /\ RepoInv BY JobInit, DraftInit, RepoInit
<1>2. JobInv /\ DraftInv /\ RepoInv /\ [Next]_vars => (JobInv /\ DraftInv /\ RepoInv)'
  BY JobStep, JobStutter, DraftStep, DraftStutter, RepoStep, RepoStutter
<1>3. JobInv /\ RepoInv => VisibleSnapshotsReadable
  <2> SUFFICES ASSUME JobInv, RepoInv, NEW g \in Gens, snaps[g].state \in Visible, NEW b \in Linked(g)
               PROVE  /\ blocks[b] # NoPack /\ packs[blocks[b]] = "READY"
                      /\ blocks[b] \in remote \cup lost \cup unmarked
    BY DEF VisibleSnapshotsReadable
  <2>t. snaps \in [Gens -> Snapshot] /\ blocks \in [Blocks -> PackIds \cup {NoPack}] BY DEF JobInv, Types
  <2>1. b \in Blocks BY <2>t DEF Linked, Snapshot, Tree, Content
  <2>2. Live(b) BY DEF Live
  <2>3. FindBackupBlock(b) BY <2>1, <2>2 DEF RepoInv, LiveIsStored
  <2>p. PICK p \in PackIds : p = blocks[b] /\ packs[p] = "READY" BY <2>t, <2>1, <2>3 DEF FindBackupBlock
  <2>4. ~Removing(p)
    <3>1. ASSUME NEW c \in Coords, coord[c].pc = "mark", coord[c].pack = p PROVE FALSE
      <4>1. MaintMemory(c) BY <3>1, HoldsLock DEF Locked, MaintSteps
      <4>2. Dead(p) BY <3>1, <4>1 DEF MaintMemory
      <4> QED BY <2>1, <2>2, <2>p, <4>2 DEF Dead, InPack
    <3> QED BY <3>1 DEF Removing
  <2> QED BY <2>3, <2>p, <2>4 DEF RepoInv, ReadyHasObject, HasObject, FindBackupBlock
<1> QED BY <1>1, <1>2, <1>3, PTL DEF Spec
=============================================================================

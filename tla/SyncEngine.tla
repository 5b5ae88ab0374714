----------------------------- MODULE SyncEngine -----------------------------
(***************************************************************************)
(* runSyncPass of sync/engine.go: one coordinator per claimed pass, in the *)
(* API process.  The passes of a job take turns under an advisory lock,    *)
(* and each of them drains what workers still do for an earlier one, scans *)
(* both sides, creates the tasks of the difference, waits for them and     *)
(* stores the new baseline.                                                *)
(*                                                                         *)
(* disk is what the two providers hold, copies the versions that were      *)
(* moved aside on the target as conflict copies (paths of their own, whose *)
(* own synchronisation is not followed).                                   *)
(***************************************************************************)
EXTENDS SyncStore

VARIABLES coord,   \* the coordinator of each generation
          lock,    \* the generation whose coordinator holds the advisory lock
          disk, copies

engineVars == <<coord, lock, disk, copies>>

Disk == [file : 0..MaxVersion, dir : BOOLEAN]

\* c: the settings the pass read.  prev: the baseline it started from.
\* prune: directories to remove if empty.  empty: no tasks were created.
Coordinator ==
    [pc : {"none", "lock", "drain", "scanSource", "scanTarget", "plan", "start", "poll", "verify",
           "final", "prune", "remove", "commit", "done"},
     stop : BOOLEAN, c : Settings, prev : [Sides -> Listing], seen : [Sides -> Listing],
     prune : SUBSET Sides, empty : BOOLEAN, out : Outcomes]

NoCoordinator ==
    [pc |-> "none", stop |-> FALSE, c |-> [two |-> FALSE, strategy |-> "SKIP", del |-> FALSE, by |-> "hash"],
     prev |-> [s \in Sides |-> Nothing], seen |-> [s \in Sides |-> Nothing],
     prune |-> {}, empty |-> FALSE, out |-> "SUCCESS"]

EngineTypeOK ==
    /\ coord \in [Gens -> Coordinator]
    /\ lock \in 0..MaxGen
    /\ disk \in [Sides -> Disk]
    /\ copies \subseteq 1..MaxVersion

Goto(g, pc) == coord' = [coord EXCEPT ![g].pc = pc]

\* The coordinator returns: its deferred calls release the lock.
Finish(g) ==
    /\ coord' = [coord EXCEPT ![g] = [NoCoordinator EXCEPT !.pc = "done"]]
    /\ lock' = IF lock = g THEN 0 ELSE lock

\* The coordinators CancelPass reaches: they register after taking the lock.
Registered(g) == coord[g].pc \notin {"none", "lock", "done"}

Stopped(gens) == [g \in Gens |-> IF g \in gens /\ Registered(g) THEN [coord[g] EXCEPT !.stop = TRUE] ELSE coord[g]]

-----------------------------------------------------------------------------
(* The lock and the claim *)

LockPass(g) ==
    /\ coord[g].pc = "lock" /\ lock = 0
    /\ IF InPass(g, {"INDEXING"})
       THEN /\ coord' = [coord EXCEPT ![g].pc = "drain", ![g].c = cfg]
            /\ lock' = g
       ELSE Finish(g)
    /\ UNCHANGED <<rowVars, disk, copies, events>>

LockFails(g) ==
    /\ coord[g].pc = "lock" /\ Event
    /\ ReleaseUnstartedSyncPass(g) /\ Finish(g)
    /\ UNCHANGED <<cfg, sched, tasks, base, disk, copies>>

-----------------------------------------------------------------------------
(* Indexing *)

\* Mutant: the pass starts without waiting.
DrainedAtOnce(g) ==
    /\ coord[g].pc = "drain" /\ ~coord[g].stop
    /\ coord' = [coord EXCEPT ![g].pc = "scanSource", ![g].prev = base]
    /\ UNCHANGED <<rowVars, lock, disk, copies, events>>

\* drainRemainingTasks: no worker may still write for any pass.
Drained(g) ==
    /\ coord[g].pc = "drain" /\ ~coord[g].stop /\ ~AnyRunning
    /\ coord' = [coord EXCEPT ![g].pc = "scanSource", ![g].prev = base]
    /\ UNCHANGED <<rowVars, lock, disk, copies, events>>

\* listFiles: the files of a directory whose stored ETag is current are those
\* of the baseline.
ListFiles(s, prev) ==
    IF prev.tag # NoTag /\ prev.dir /\ disk[s].dir /\ prev.tag = disk[s].file THEN prev
    ELSE [file |-> disk[s].file, dir |-> disk[s].dir, tag |-> IF disk[s].dir THEN disk[s].file ELSE NoTag]

Scan(g, s, pc, next) ==
    /\ coord[g].pc = pc /\ ~coord[g].stop
    /\ coord' = [coord EXCEPT ![g].pc = next, ![g].seen[s] = ListFiles(s, coord[g].prev[s])]
    /\ UNCHANGED <<rowVars, lock, disk, copies, events>>

ScanSource(g) == Scan(g, "source", "scanSource", "scanTarget")
ScanTarget(g) == Scan(g, "target", "scanTarget", "plan")

\* A pass that is cancelled before its tasks exist just returns.
Interrupted(g) ==
    /\ coord[g].stop /\ coord[g].pc \in {"lock", "drain", "scanSource", "scanTarget"}
    /\ Finish(g)
    /\ UNCHANGED <<rowVars, disk, copies, events>>

\* failSync: a timeout, a refused connection, an incomplete listing, a statement
\* that fails.
FailSync(g) ==
    /\ coord[g].pc \in {"drain", "scanSource", "scanTarget", "plan", "start", "poll", "final", "commit"} /\ Event
    /\ coord[g].pc = "poll" => \A k \in Kinds : ~Open(g, k)
    /\ FailSyncJobPass(g) /\ Finish(g)
    /\ UNCHANGED <<cfg, sched, tasks, base, disk, copies>>

\* The rows of earlier passes go, the tasks of this one come.
Plan(g) ==
    /\ coord[g].pc = "plan"
    /\ LET planned == Delta(coord[g].c, coord[g].seen, coord[g].prev)
           pruned == Cleanup(coord[g].c, coord[g].seen, coord[g].prev)
       IN CASE planned = {} ->
                 /\ ClearOldTasks
                 /\ coord' = [coord EXCEPT ![g].pc = "prune", ![g].prune = pruned, ![g].empty = TRUE]
                 /\ UNCHANGED <<job, lock>>
            [] planned # {} /\ coord[g].stop ->
                 /\ ClearOldTasks /\ FailSyncJobPass(g) /\ Finish(g)
            [] OTHER ->
                 /\ BulkCreateSyncTasks(g, planned)
                 /\ coord' = [coord EXCEPT ![g].pc = "start", ![g].prune = pruned]
                 /\ UNCHANGED <<job, lock>>
    /\ UNCHANGED <<cfg, sched, base, disk, copies, events>>

\* UpdateSyncJobTotals and TransitionSyncJobToRunning, behind the same fence.
StartTasks(g) ==
    /\ coord[g].pc = "start"
    /\ TransitionSyncJobToRunning(g)
    /\ IF InPass(g, {"INDEXING"}) THEN Goto(g, "poll") /\ UNCHANGED lock ELSE Finish(g)
    /\ UNCHANGED <<cfg, sched, tasks, base, disk, copies, events>>

-----------------------------------------------------------------------------
(* Waiting for the tasks, verification *)

\* Cancelled, after the tasks of this pass were given 30 seconds.
PollStopped(g) ==
    /\ coord[g].pc = "poll" /\ coord[g].stop
    /\ Finish(g)
    /\ UNCHANGED <<rowVars, disk, copies, events>>

\* The poll asks for open tasks of its generation, whatever became of the job.
PollDone(g) ==
    /\ coord[g].pc = "poll" /\ ~coord[g].stop
    /\ \A k \in Kinds : ~Open(g, k)
    /\ IF \E k \in Kinds : Unverified(g, k)
       THEN /\ TransitionSyncJobToVerifying(g)
            /\ IF InPass(g, {"RUNNING"}) THEN Goto(g, "verify") /\ UNCHANGED lock ELSE Finish(g)
       ELSE Goto(g, "final") /\ UNCHANGED <<job, lock>>
    /\ UNCHANGED <<cfg, sched, tasks, base, disk, copies, events>>

VerifyDone(g) ==
    /\ coord[g].pc = "verify" /\ ~coord[g].stop
    /\ ~InPass(g, {"VERIFYING"}) \/ \A k \in Kinds : ~Unverified(g, k)
    /\ Goto(g, "final")
    /\ UNCHANGED <<rowVars, lock, disk, copies, events>>

VerifyStopped(g) ==
    /\ coord[g].pc = "verify" /\ coord[g].stop
    /\ AbortSyncJobVerification(g) /\ Goto(g, "final")
    /\ UNCHANGED <<cfg, sched, tasks, base, lock, disk, copies, events>>

-----------------------------------------------------------------------------
(* Outcome and baseline *)

OfPass(g) == {k \in Kinds : tasks[k].gen = g /\ tasks[k].st # "NONE"}
Done(g) == {<<k, tasks[k].to>> : k \in {j \in OfPass(g) : tasks[j].st = "COMPLETED"}}
Undone(g) == {<<k, tasks[k].to>> : k \in {j \in OfPass(g) : tasks[j].st # "COMPLETED"}}

Outcome(g) ==
    LET failed == {k \in OfPass(g) : tasks[k].st \in {"FAILED", "RETRY", "CANCELLED"}}
    IN IF failed = {} THEN "SUCCESS" ELSE IF failed = OfPass(g) THEN "FAILED" ELSE "PARTIAL"

\* Reads the outcomes and reconciles the listings with what the operations made;
\* a destination that cannot be inspected protects its path.
Final(g) ==
    /\ coord[g].pc = "final"
    /\ IF ~InPass(g, {"RUNNING", "VERIFYING"}) THEN Finish(g) /\ UNCHANGED job
       ELSE IF coord[g].stop THEN FailSyncJobPass(g) /\ Finish(g)
       ELSE \E inspected \in BOOLEAN :
            LET moved == {t \in Done(g) : t[1] = "move"}
                lost == {t \in moved : ~inspected \/ disk[t[2]].file = Absent}
                undone == Undone(g) \cup lost
                listing == Invalidated(Reconciled(coord[g].seen, Done(g) \ lost, disk), FileProtected(undone))
            IN /\ coord' = [coord EXCEPT ![g].pc = "prune", ![g].out = Outcome(g),
                                         ![g].seen = NextBaseline(listing, coord[g].prev, FileProtected(undone))]
               /\ UNCHANGED <<job, lock>>
    /\ UNCHANGED <<cfg, sched, tasks, base, disk, copies, events>>

\* cleanupEmptyDirectories: lists a directory, then deletes it with all it has.
EmptyDirectory(s) == disk[s].dir /\ disk[s].file = Absent /\ (s = "target" => copies = {})

Prune(g) ==
    /\ coord[g].pc = "prune"
    /\ LET empty == IF coord[g].stop THEN {} ELSE {s \in coord[g].prune : EmptyDirectory(s)}
       IN coord' = [coord EXCEPT ![g].pc = IF empty = {} THEN "commit" ELSE "remove", ![g].prune = empty]
    /\ UNCHANGED <<rowVars, lock, disk, copies, events>>

Remove(g) ==
    /\ coord[g].pc = "remove"
    /\ \E removed \in SUBSET coord[g].prune :
         /\ disk' = [s \in Sides |-> IF s \in removed THEN [file |-> Absent, dir |-> FALSE] ELSE disk[s]]
         /\ copies' = IF "target" \in removed THEN {} ELSE copies
         /\ coord' = [coord EXCEPT ![g].pc = "commit", ![g].seen = Pruned(@, removed)]
    /\ UNCHANGED <<rowVars, lock, events>>

Commit(g) ==
    /\ coord[g].pc = "commit"
    /\ FinalizeSyncJobPass(g, IF coord[g].empty THEN {"INDEXING"} ELSE {"RUNNING", "VERIFYING"},
                           coord[g].out, coord[g].seen)
    /\ Finish(g)
    /\ UNCHANGED <<cfg, sched, tasks, disk, copies, events>>

CoordinatorStep(g) ==
    \/ LockPass(g) \/ LockFails(g) \/ Drained(g) \/ ScanSource(g) \/ ScanTarget(g) \/ Interrupted(g)
    \/ FailSync(g) \/ Plan(g) \/ StartTasks(g) \/ PollStopped(g) \/ PollDone(g) \/ VerifyDone(g)
    \/ VerifyStopped(g) \/ Final(g) \/ Prune(g) \/ Remove(g) \/ Commit(g)

\* A coordinator has read both sides and may still act on what it read.
Scanned(g, s) == \/ s = "source" /\ coord[g].pc \notin {"none", "lock", "drain", "scanSource", "done"}
                 \/ s = "target" /\ coord[g].pc \notin {"none", "lock", "drain", "scanSource", "scanTarget", "done"}
=============================================================================

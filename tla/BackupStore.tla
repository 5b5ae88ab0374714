---------------------------- MODULE BackupStore ----------------------------
(***************************************************************************)
(* The tables of one backup job and the statements of db/backups.go that   *)
(* change them, each one transaction and so one atomic step.               *)
(*                                                                         *)
(* A file holds one block of content, and its modification time changes    *)
(* with the content.  Packs are content addressed: a pack IS the set of    *)
(* its blocks, which gives the two UNIQUE constraints on backup_packs      *)
(* their meaning.  Offsets, sizes and counters are left out.               *)
(***************************************************************************)
EXTENDS Integers, FiniteSets

CONSTANTS
    Files,          \* paths below the selected roots
    Blocks,         \* contents, named by their hash
    Coords,         \* coordinators, one per worker process
    MaxRuns,        \* bound: runs of one behaviour
    MaxMaint,       \* bound: backup_maintenance rows of one behaviour
    MaxPackBlocks,  \* blocks of a full pack (64 MiB in the code)
    Retention,      \* backup_jobs.retention_count
    MaxFaults,      \* bound: failures the environment injects
    Boot,           \* "new": no run yet; "published": one run has completed
    NoBlock,        \* the file does not exist
    NoCoord         \* nobody holds the advisory lock

ASSUME BackupAssumption ==
    /\ IsFiniteSet(Files) /\ IsFiniteSet(Blocks)
    /\ MaxRuns \in Nat \ {0} /\ MaxMaint \in Nat \ {0}
    /\ MaxPackBlocks \in Nat \ {0} /\ Retention \in Nat \ {0}
    /\ MaxFaults \in Nat /\ Boot \in {"new", "published"}
    /\ NoBlock \notin Blocks /\ NoCoord \notin Coords

VARIABLES
    job,       \* the backup_jobs row
    runs,      \* backup_runs, by generation
    snaps,     \* backup_snapshots with their items, by generation of their run
    packs,     \* backup_packs: the state of each pack
    blocks,    \* backup_blocks: the pack each block is stored in
    maint,     \* backup_maintenance
    targets,   \* backup_verify_targets, by maintenance row and pack
    pins,      \* restore_pack_pins: packs an unfinished restore needs
    schedule,  \* the schedules row of the job
    remote,    \* pack objects that exist, intact, on the target
    source,    \* the content of the source files
    lost,      \* packs whose object the environment destroyed (an observer)
    unmarked,  \* packs whose object retention deleted without marking the row (an observer)
    events,    \* notification_events: the generations that have one
    faults     \* failures the environment may still inject (a bound)

storeVars == <<job, runs, snaps, packs, blocks, maint, targets, pins, schedule,
               remote, source, lost, unmarked, events, faults>>

Gens     == 1..MaxRuns
MaintIds == 1..MaxMaint
PackIds  == (SUBSET Blocks) \ {{}}
NoPack   == {}   \* there is no backup_blocks row
Content  == Blocks \cup {NoBlock}
Tree     == [Files -> Content]
Nothing  == [f \in Files |-> NoBlock]

Active   == {"SCANNING", "RUNNING", "VERIFYING"}
Queueing == Active \cup {"QUEUED"}
Visible  == {"READY", "PARTIAL"}
Kinds    == {"RETENTION", "COMPACTION", "DELETE_REPOSITORY", "VERIFY"}
Open     == {"PENDING", "RUNNING", "RETRY_WAIT", "CANCELLING"}

\* GONE: the row has been deleted.
Job ==
    [ status   : Queueing \cup {"IDLE", "PAUSED", "FAILED", "DELETING", "GONE"},
      gen      : 0..MaxRuns,
      deleting : BOOLEAN ]

\* fresh: updated_at is less than ten minutes old.  key: the local time a
\* scheduled run was due at, 0 for a manual run.
Run ==
    [ state : Queueing \cup {"NONE", "COMPLETED", "PARTIAL", "FAILED", "CANCELLED"},
      fresh : BOOLEAN,
      key   : Nat ]

\* scanned: the tree the run found.  links: the block of every recorded item.
Snapshot ==
    [ state   : Visible \cup {"NONE", "PUBLISHING", "EXPIRED", "DAMAGED"},
      scanned : Tree,
      links   : Tree ]

PackState == {"NONE", "READY", "DELETE_PENDING", "DELETED", "DAMAGED"}

\* lease: coordinator_lease_until has not passed.
Maintenance ==
    [ kind  : Kinds \cup {"NONE"},
      state : Open \cup {"NONE", "COMPLETED", "CANCELLED"},
      lease : BOOLEAN ]

\* LAPSED: RUNNING, and claim_deadline has passed.
TargetState == {"NONE", "PENDING", "RUNNING", "LAPSED", "COMPLETED", "MISSING", "DAMAGED"}

Schedule == [active : BOOLEAN, due : BOOLEAN, key : Nat]

StoreTypeOK ==
    /\ job \in Job /\ runs \in [Gens -> Run] /\ snaps \in [Gens -> Snapshot]
    /\ packs \in [PackIds -> PackState] /\ blocks \in [Blocks -> PackIds \cup {NoPack}]
    /\ maint \in [MaintIds -> Maintenance]
    /\ targets \in [MaintIds -> [PackIds -> TargetState]]
    /\ pins \subseteq PackIds /\ schedule \in Schedule
    /\ remote \subseteq PackIds /\ source \in Tree /\ lost \subseteq PackIds /\ unmarked \subseteq PackIds
    /\ events \subseteq Gens /\ faults \in 0..MaxFaults

NoRun   == [state |-> "NONE", fresh |-> TRUE, key |-> 0]
NoSnap  == [state |-> "NONE", scanned |-> Nothing, links |-> Nothing]
NoMaint == [kind |-> "NONE", state |-> "NONE", lease |-> FALSE]

-----------------------------------------------------------------------------
(* What the queries of the package look for *)

\* Blocks an item of snapshot g refers to.
Linked(g) == {snaps[g].links[f] : f \in Files} \ {NoBlock}

\* A snapshot a user can see refers to the block.
Live(b) == \E g \in Gens : snaps[g].state \in Visible /\ b \in Linked(g)

AnyLink(b) == \E g \in Gens : snaps[g].state # "NONE" /\ b \in Linked(g)

InPack(p) == {b \in Blocks : blocks[b] = p}

\* A VERIFY that is not finished still needs the pack.
VerifyPinned(p) ==
    \E m \in MaintIds : /\ maint[m].kind = "VERIFY" /\ maint[m].state \in Open
                        /\ targets[m][p] # "NONE"

FindBackupBlock(b) == blocks[b] # NoPack /\ packs[blocks[b]] = "READY"

\* The fence a coordinator tests before it goes on.
BackupRunActive(g) ==
    /\ runs[g].state \in Active
    /\ job.gen = g /\ job.status = runs[g].state

\* The newest snapshot the next run may reuse blocks of (0: none), and the
\* files of it that every block of is in a READY pack.
LatestValidSnapshot ==
    LET valid == {g \in Gens : snaps[g].state \in Visible}
    IN  IF valid = {} THEN 0 ELSE CHOOSE g \in valid : \A h \in valid : h <= g

SnapshotFileCatalog(g) ==
    [f \in Files |-> IF /\ g # 0 /\ snaps[g].links[f] # NoBlock
                        /\ FindBackupBlock(snaps[g].links[f])
                     THEN snaps[g].links[f] ELSE NoBlock]

SnapshotPacks(g) == {blocks[b] : b \in Linked(g)} \ {NoPack}

\* Mutant: the packs of visible snapshots are not spared.
ReclaimAllUnpinned ==
    {p \in PackIds : packs[p] \in {"READY", "DELETE_PENDING"} /\ p \notin pins /\ ~VerifyPinned(p)}

ListReclaimablePacks ==
    {p \in PackIds : /\ packs[p] \in {"READY", "DELETE_PENDING"}
                     /\ p \notin pins /\ ~VerifyPinned(p)
                     /\ ~\E b \in InPack(p) : Live(b)}

ListPacksForDeletion ==
    {p \in PackIds : packs[p] \notin {"NONE", "DELETED"} /\ p \notin pins /\ ~VerifyPinned(p)}

CompactionCandidates ==
    {p \in PackIds : /\ packs[p] = "READY"
                     /\ \E b \in InPack(p) : Live(b)
                     /\ \E b \in InPack(p) : ~Live(b)}

FreeMaint == {m \in MaintIds : maint[m].state = "NONE" /\ \A n \in 1..(m - 1) : maint[n].state # "NONE"}

Inserted(kind) ==
    [m \in MaintIds |-> IF m \in FreeMaint THEN [kind |-> kind, state |-> "PENDING", lease |-> FALSE]
                        ELSE maint[m]]

-----------------------------------------------------------------------------
(* Runs *)

\* A pass is claimed for the job when no other is open, and once per due time.
ClaimOverlap == job.status \in Queueing

ClaimBlocked == ~ClaimOverlap /\ job.status \notin {"IDLE", "FAILED"}

ClaimDuplicate(key) == key # 0 /\ \E g \in Gens : runs[g].key = key

ClaimBackupJobPass(key) ==
    /\ ~ClaimOverlap /\ ~ClaimBlocked /\ ~ClaimDuplicate(key)
    /\ job.gen < MaxRuns
    /\ runs' = [runs EXCEPT ![job.gen + 1] = [state |-> "QUEUED", fresh |-> TRUE, key |-> key]]
    /\ job' = [job EXCEPT !.status = "QUEUED", !.gen = @ + 1]

ClaimNextQueuedBackupRun(g) ==
    /\ runs[g].state = "QUEUED" /\ job.status = "QUEUED" /\ job.gen = g /\ ~job.deleting
    /\ runs' = [runs EXCEPT ![g].state = "SCANNING", ![g].fresh = TRUE]
    /\ job' = [job EXCEPT !.status = "SCANNING"]

\* Mutant: a run that died while it was scanning is not looked for.
StaleTransfers == {g \in Gens : /\ runs[g].state \in Active \ {"SCANNING"} /\ ~runs[g].fresh
                                /\ job.gen = g /\ job.status \in Active}

StaleRuns == {g \in Gens : /\ runs[g].state \in Active /\ ~runs[g].fresh
                           /\ job.gen = g /\ job.status \in Active}

RecoverStaleBackupRuns ==
    /\ runs' = [g \in Gens |-> IF g \in StaleRuns THEN [runs[g] EXCEPT !.state = "FAILED"] ELSE runs[g]]
    /\ job' = IF StaleRuns # {} THEN [job EXCEPT !.status = "FAILED"] ELSE job
    /\ snaps' = [g \in Gens |-> IF g \in StaleRuns /\ snaps[g].state = "PUBLISHING"
                                THEN NoSnap ELSE snaps[g]]

TouchBackupRun(g) ==
    /\ runs[g].state \in Active /\ job.gen = g /\ job.status \in Active
    /\ runs' = [runs EXCEPT ![g].fresh = TRUE]

CanTransition(g, from) == runs[g].state = from /\ job.gen = g /\ job.status = from

TransitionBackupRun(g, from, to) ==
    /\ CanTransition(g, from)
    /\ runs' = [runs EXCEPT ![g].state = to, ![g].fresh = TRUE]
    /\ job' = [job EXCEPT !.status = to]

\* FinalizeBackupRun and FailBackupRun; nothing changes when the claim is lost.
CompleteBackupRun(g, from, terminal, jobState) ==
    IF CanTransition(g, from)
    THEN /\ runs' = [runs EXCEPT ![g].state = terminal]
         /\ job' = [job EXCEPT !.status = jobState]
         /\ events' = events \cup {g}
    ELSE UNCHANGED <<runs, job, events>>

-----------------------------------------------------------------------------
(* Snapshots, packs and blocks *)

CreateSnapshotDraft(g, tree) ==
    /\ snaps[g].state = "NONE"
    /\ snaps' = [snaps EXCEPT ![g] = [state |-> "PUBLISHING", scanned |-> tree, links |-> Nothing]]

DiscardSnapshotDraft(g) ==
    snaps' = [snaps EXCEPT ![g] = IF @.state = "PUBLISHING" THEN NoSnap ELSE @]

\* Both inserts are refused by a UNIQUE constraint when the row exists,
\* whatever its state is.
CanRecordPack(p) == packs[p] = "NONE" /\ \A b \in p : blocks[b] = NoPack

RecordPackAndBlocks(p) ==
    /\ CanRecordPack(p)
    /\ packs' = [packs EXCEPT ![p] = "READY"]
    /\ blocks' = [b \in Blocks |-> IF b \in p THEN p ELSE blocks[b]]

\* The foreign keys need the snapshot and every block.
CanCreateItems(g, tree) ==
    /\ snaps[g].state # "NONE"
    /\ \A b \in {tree[f] : f \in Files} \ {NoBlock} : blocks[b] # NoPack

BatchCreateSnapshotItems(g, tree) ==
    /\ CanCreateItems(g, tree)
    /\ snaps' = [snaps EXCEPT ![g].links = tree]

\* Mutant: publication does not look at the run.
CanPublishDraft(g) == snaps[g].state = "PUBLISHING"

CanPublish(g) == snaps[g].state = "PUBLISHING" /\ CanTransition(g, "VERIFYING")

PublishSnapshotAndFinalize(g, partial) ==
    /\ CanPublish(g)
    /\ FreeMaint # {}
    /\ snaps' = [snaps EXCEPT ![g].state = IF partial THEN "PARTIAL" ELSE "READY"]
    /\ runs' = [runs EXCEPT ![g].state = IF partial THEN "PARTIAL" ELSE "COMPLETED"]
    /\ job' = [job EXCEPT !.status = "IDLE"]
    /\ maint' = Inserted("RETENTION")
    /\ events' = events \cup {g}

MarkPackDamaged(p) ==
    /\ packs' = [packs EXCEPT ![p] = "DAMAGED"]
    /\ snaps' = [g \in Gens |->
                   IF snaps[g].state \in Visible \cup {"PUBLISHING"} /\ p \in SnapshotPacks(g)
                   THEN [snaps[g] EXCEPT !.state = "DAMAGED"] ELSE snaps[g]]

\* row_number() over the visible snapshots, newest first.
ExpireSnapshots ==
    snaps' = [g \in Gens |->
                IF /\ snaps[g].state \in Visible
                   /\ Cardinality({h \in Gens : h > g /\ snaps[h].state \in Visible}) >= Retention
                THEN [snaps[g] EXCEPT !.state = "EXPIRED"] ELSE snaps[g]]

\* Links of expired snapshots into pack p go, and then the blocks of p that
\* nothing links.
Unlinked(p) ==
    [g \in Gens |->
       IF snaps[g].state = "EXPIRED"
       THEN [snaps[g] EXCEPT !.links =
               [f \in Files |-> IF snaps[g].links[f] \in InPack(p) THEN NoBlock ELSE snaps[g].links[f]]]
       ELSE snaps[g]]

StillLinked(b) == \E g \in Gens : snaps[g].state \notin {"NONE", "EXPIRED"} /\ b \in Linked(g)

CanMarkDeleted(p) == p \notin pins /\ ~VerifyPinned(p)

MarkPackDeleted(p) ==
    /\ CanMarkDeleted(p)
    /\ snaps' = Unlinked(p)
    /\ blocks' = [b \in Blocks |-> IF blocks[b] = p /\ ~StillLinked(b) THEN NoPack ELSE blocks[b]]
    /\ packs' = [packs EXCEPT ![p] = "DELETED"]

\* Live blocks of old move into the new pack in the transaction that retires
\* old; a live block that moved meanwhile, or a pack row, refuses it.
CanReplacePack(old, new) == packs[new] = "NONE" /\ \A b \in new : blocks[b] = old

ReplacePackLocators(old, new) ==
    /\ CanReplacePack(old, new)
    /\ snaps' = [g \in Gens |->
         IF snaps[g].state = "EXPIRED"
         THEN [snaps[g] EXCEPT !.links =
                [f \in Files |-> IF snaps[g].links[f] \in InPack(old) \ new
                                 THEN NoBlock ELSE snaps[g].links[f]]]
         ELSE snaps[g]]
    /\ blocks' = [b \in Blocks |-> CASE b \in new -> new
                                     [] b \notin new /\ blocks[b] = old /\ ~StillLinked(b) -> NoPack
                                     [] OTHER -> blocks[b]]
    /\ packs' = [packs EXCEPT ![new] = "READY", ![old] = IF @ = "READY" THEN "DELETE_PENDING" ELSE @]

-----------------------------------------------------------------------------
(* Maintenance rows *)

\* A VERIFY whose coordinator is silent goes back to the queue, other kinds
\* do not.
Recovered ==
    [m \in MaintIds |-> IF maint[m].kind = "VERIFY" /\ maint[m].state = "RUNNING" /\ ~maint[m].lease
                        THEN [maint[m] EXCEPT !.state = "PENDING"] ELSE maint[m]]

Claimable ==
    {m \in MaintIds : /\ Recovered[m].state \in {"PENDING", "RETRY_WAIT"}
                      /\ \A n \in 1..(m - 1) : Recovered[n].state # "PENDING"}

ClaimNextMaintenance(m) ==
    /\ m \in Claimable
    /\ maint' = [Recovered EXCEPT ![m].state = "RUNNING", ![m].lease = TRUE]

CompleteMaintenance(m) ==
    maint' = [maint EXCEPT ![m].state = CASE @ = "RUNNING" -> "COMPLETED"
                                          [] @ = "CANCELLING" -> "CANCELLED"
                                          [] OTHER -> @]

RetryMaintenance(m) ==
    maint' = [maint EXCEPT ![m].state = IF @ = "RUNNING" THEN "RETRY_WAIT" ELSE @]

EnqueueMaintenance(kind) == FreeMaint # {} /\ maint' = Inserted(kind)

CreateBackupVerify ==
    /\ job.status # "GONE" /\ ~job.deleting
    /\ ~\E m \in MaintIds : maint[m].kind = "VERIFY" /\ maint[m].state \in Open
    /\ FreeMaint # {}
    /\ maint' = Inserted("VERIFY")

CancelBackupVerify(m) ==
    /\ maint[m].kind = "VERIFY" /\ maint[m].state \in {"PENDING", "RETRY_WAIT", "RUNNING"}
    /\ maint' = [maint EXCEPT ![m].state = IF @ = "RUNNING" THEN "CANCELLING" ELSE "CANCELLED"]

SnapshotVerifyTargets(m) ==
    targets' = [targets EXCEPT ![m] = [p \in PackIds |->
                  IF @[p] = "NONE" /\ packs[p] = "READY" /\ \E b \in InPack(p) : Live(b)
                  THEN "PENDING" ELSE @[p]]]

\* Targets whose claim ran out are open again.
OpenTargets(m) == {p \in PackIds : targets[m][p] \in {"PENDING", "LAPSED"}}

ClaimNextVerifyTarget(m, p) ==
    /\ p \in OpenTargets(m)
    /\ targets' = [targets EXCEPT ![m] = [q \in PackIds |->
                     CASE q = p -> "RUNNING" [] @[q] = "LAPSED" -> "PENDING" [] OTHER -> @[q]]]

SetTarget(m, p, state) ==
    targets' = [targets EXCEPT ![m][p] = IF @ \in {"PENDING", "RUNNING", "LAPSED"} THEN state ELSE @]

\* The delete cascades to every table of the job.
CanDeleteJob == job.status = "DELETING" /\ \A p \in PackIds : packs[p] \in {"NONE", "DELETED"}

DeleteJobAfterCleanup ==
    /\ CanDeleteJob
    /\ job' = [job EXCEPT !.status = "GONE"]
    /\ runs' = [g \in Gens |-> NoRun] /\ snaps' = [g \in Gens |-> NoSnap]
    /\ packs' = [p \in PackIds |-> "NONE"] /\ blocks' = [b \in Blocks |-> NoPack]
    /\ maint' = [m \in MaintIds |-> NoMaint]
    /\ targets' = [m \in MaintIds |-> [p \in PackIds |-> "NONE"]]

-----------------------------------------------------------------------------
\* The job has been created and has not run yet, or its first run and the
\* maintenance after it are over.
StoreInit ==
    /\ source \in [Files -> Blocks]
    /\ maint = [m \in MaintIds |-> NoMaint]
    /\ targets = [m \in MaintIds |-> [p \in PackIds |-> "NONE"]]
    /\ pins = {} /\ lost = {} /\ unmarked = {} /\ faults = MaxFaults
    /\ schedule = [active |-> TRUE, due |-> FALSE, key |-> 1]
    /\ LET stored == {source[f] : f \in Files}
           done   == IF Boot = "published" THEN {1} ELSE {}
           full   == IF Boot = "published" THEN {stored} ELSE {}
       IN  /\ job = [status |-> "IDLE", gen |-> Cardinality(done), deleting |-> FALSE]
           /\ runs = [g \in Gens |-> IF g \in done THEN [NoRun EXCEPT !.state = "COMPLETED"] ELSE NoRun]
           /\ snaps = [g \in Gens |-> IF g \in done
                                      THEN [state |-> "READY", scanned |-> source, links |-> source]
                                      ELSE NoSnap]
           /\ packs = [p \in PackIds |-> IF p \in full THEN "READY" ELSE "NONE"]
           /\ blocks = [b \in Blocks |-> IF full # {} /\ b \in stored THEN stored ELSE NoPack]
           /\ remote = full /\ events = done

Fault == faults > 0 /\ faults' = faults - 1
=============================================================================

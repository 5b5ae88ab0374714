---------------------------- MODULE RestoreStore ----------------------------
(***************************************************************************)
(* The rows of a restore job (db/restore.go) and the statements on them:   *)
(* previews, runs, the items a run has planned, the path reservations of   *)
(* the run, and the target the files are restored to.  Every operator that *)
(* primes a variable is one statement or one transaction.                  *)
(***************************************************************************)
EXTENDS Naturals, FiniteSets

CONSTANTS
    Items,        \* the selected entries of the snapshot
    Dirs,         \* those that are directories
    Parent,       \* the directory of each item, or NoItem
    Name,         \* the canonical (lower-case) name of each item
    NoItem,
    Workers,      \* restore coordinators
    MaxPreviews,  \* previews that are ever created
    MaxRuns,      \* runs the job ever has
    MaxGen,       \* bound: claims of a preview and of an item
    MaxSuffix,    \* bound: the " (n)" tried for a taken name; 100 in the code
    MaxAttempts,  \* failed claims before an item fails; 4 in the code
    Threads,      \* restore_jobs.threads
    MaxFaults,    \* bound: failures and crashes
    MaxRequests,  \* bound: requests of the user
    Boot,         \* "new": nothing exists yet; "planned": run 1 is RUNNING
    SlowWorkers   \* TRUE: a worker may be so slow that its claim lapses

ASSUME RestoreAssumption ==
    /\ Dirs \subseteq Items /\ NoItem \notin Items /\ Items \cap {"none", "orig", "dir", "part"} = {}
    /\ Parent \in [Items -> Dirs \cup {NoItem}]
    /\ Threads \in Nat \ {0} /\ MaxAttempts \in Nat \ {0} /\ MaxSuffix \in Nat
    /\ MaxRuns \in Nat \ {0} /\ MaxPreviews \in Nat /\ MaxGen \in Nat
    /\ MaxFaults \in Nat /\ MaxRequests \in Nat
    /\ SlowWorkers \in BOOLEAN /\ Boot \in {"new", "planned"}

VARIABLES
    previews,  \* restore_previews
    runs,      \* restore_runs; one job, its runs in order
    items,     \* restore_items of each run
    reserved,  \* restore_path_reservations of each run
    pins,      \* the runs that hold restore_pack_pins
    notices,   \* notification events per run
    snapshot,  \* the snapshot is READY or PARTIAL, undamaged and not being deleted
    strategy,  \* conflict_strategy
    atomic,    \* SupportsAtomicRename of the target
    target,    \* what lies at each target path
    stage,     \* staged uploads, next to the target path
    aside,     \* what was moved aside, next to the target path
    faults

storeVars == <<previews, runs, items, reserved, pins, notices, snapshot, strategy, atomic,
               target, stage, aside, faults>>
rowVars == <<previews, runs, items, reserved, pins, notices>>
targetVars == <<target, stage, aside>>

PreviewIds == 1..MaxPreviews
RunIds == 1..MaxRuns
Files == Items \ Dirs

\* A path is a canonical name, the suffix of the directory it lies in, and its own.
Paths == {Name[i] : i \in Items} \X (0..MaxSuffix) \X (0..MaxSuffix)

\* Nothing, a file of the user, a directory, a broken upload, or a restored item.
Content == {"none", "orig", "dir", "part"} \cup Items

Open == {"QUEUED", "PLANNING", "RUNNING", "CANCELLING"}
Closed == {"COMPLETED", "PARTIAL", "FAILED", "CANCELLED"}
OpenPreview == {"QUEUED", "RUNNING", "READY"}

Preview == [st : {"NONE", "FAILED", "CONSUMED", "EXPIRED", "CANCELLED"} \cup OpenPreview,
            gen : 0..MaxGen, fresh : BOOLEAN, retry : BOOLEAN, creds : BOOLEAN]
Run == [st : {"NONE", "GONE"} \cup Open \cup Closed, fresh : BOOLEAN, creds : BOOLEAN]
Item == [st : {"NONE", "PENDING", "RUNNING", "COMPLETED", "WARNING", "SKIPPED", "FAILED", "CANCELLED"},
         epoch : 0..MaxGen, fresh : BOOLEAN, tries : 0..MaxAttempts, root : 0..MaxSuffix, sfx : 0..MaxSuffix]

NoPreview == [st |-> "NONE", gen |-> 0, fresh |-> FALSE, retry |-> FALSE, creds |-> FALSE]
NoRun == [st |-> "NONE", fresh |-> FALSE, creds |-> FALSE]
NoRow == [st |-> "NONE", epoch |-> 0, fresh |-> FALSE, tries |-> 0, root |-> 0, sfx |-> 0]
Planned == [NoRow EXCEPT !.st = "PENDING"]
Unavailable == [NoRow EXCEPT !.st = "SKIPPED"]

StoreTypeOK ==
    /\ previews \in [PreviewIds -> Preview]
    /\ runs \in [RunIds -> Run]
    /\ items \in [RunIds -> [Items -> Item]]
    /\ reserved \in [RunIds -> [Paths -> Items \cup {NoItem}]]
    /\ pins \subseteq RunIds
    /\ notices \in [RunIds -> Nat]
    /\ snapshot \in BOOLEAN /\ atomic \in BOOLEAN
    /\ strategy \in {"SKIP", "OVERWRITE", "RENAME"}
    /\ target \in [Paths -> Content]
    /\ stage \subseteq RunIds \X Items \X Paths
    /\ aside \in [RunIds \X Items \X Paths -> Content]
    /\ faults \in 0..MaxFaults

PathOf(i, root, sfx) == <<Name[i], root, sfx>>

StoreInit ==
    /\ previews = [p \in PreviewIds |-> NoPreview]
    /\ runs = [r \in RunIds |-> IF Boot = "planned" /\ r = 1
                                THEN [st |-> "RUNNING", fresh |-> FALSE, creds |-> TRUE] ELSE NoRun]
    /\ items = [r \in RunIds |-> [i \in Items |-> IF Boot = "planned" /\ r = 1 THEN Planned ELSE NoRow]]
    /\ reserved = [r \in RunIds |-> [p \in Paths |-> NoItem]]
    /\ pins = IF Boot = "planned" THEN {1} ELSE {}
    /\ notices = [r \in RunIds |-> 0]
    /\ snapshot = TRUE
    /\ strategy \in {"SKIP", "OVERWRITE", "RENAME"}
    /\ atomic \in BOOLEAN
    /\ \E mine \in SUBSET {PathOf(i, 0, 0) : i \in Items} :
         target = [p \in Paths |-> IF p \in mine THEN "orig" ELSE "none"]
    /\ stage = {}
    /\ aside = [k \in RunIds \X Items \X Paths |-> "none"]
    /\ faults = 0

Fault == faults < MaxFaults /\ faults' = faults + 1

-----------------------------------------------------------------------------
(* Previews *)

CreateRestorePreview(p, retry) ==
    previews' = [previews EXCEPT ![p] = [st |-> "QUEUED", gen |-> 0, fresh |-> TRUE, retry |-> retry, creds |-> TRUE]]

\* The oldest queued preview; ids are given in the order of creation.
NextPreview(p) == previews[p].st = "QUEUED" /\ \A q \in PreviewIds : previews[q].st = "QUEUED" => p <= q

ClaimNextRestorePreview(p) ==
    /\ NextPreview(p) /\ previews[p].gen < MaxGen
    /\ previews' = [previews EXCEPT ![p].st = "RUNNING", ![p].gen = @ + 1, ![p].fresh = TRUE]

\* The claim is fenced by the generation of the preview.
OwnsPreview(p, gen) == previews[p].st = "RUNNING" /\ previews[p].gen = gen

EndPreview(p, gen, st) ==
    previews' = IF OwnsPreview(p, gen)
                THEN [previews EXCEPT ![p].st = st, ![p].fresh = TRUE, ![p].creds = (st = "READY")]
                ELSE previews

CompleteRestorePreview(p, gen) == EndPreview(p, gen, "READY")
FailRestorePreview(p, gen) == EndPreview(p, gen, "FAILED")

ClosePreview(p, st) == [previews[p] EXCEPT !.st = st, !.creds = FALSE]

CancelRestorePreview(p) ==
    /\ previews[p].st \in OpenPreview
    /\ previews' = [previews EXCEPT ![p] = ClosePreview(p, "CANCELLED")]

ExpireRestorePreviews ==
    previews' = [p \in PreviewIds |-> IF previews[p].st = "READY" /\ ~previews[p].fresh
                                      THEN ClosePreview(p, "EXPIRED") ELSE previews[p]]

\* Both phases change nothing on the target, so they are simply queued again.
RecoverStaleRestorePlanning ==
    /\ previews' = [p \in PreviewIds |-> IF previews[p].st = "RUNNING" /\ ~previews[p].fresh
                                         THEN [previews[p] EXCEPT !.st = "QUEUED"] ELSE previews[p]]
    /\ runs' = [r \in RunIds |-> IF runs[r].st = "PLANNING" /\ ~runs[r].fresh
                                 THEN [runs[r] EXCEPT !.st = "QUEUED"] ELSE runs[r]]

-----------------------------------------------------------------------------
(* Runs *)

HasOpenRun == \E r \in RunIds : runs[r].st \in Open

JobExists == \E r \in RunIds : runs[r].st \notin {"NONE", "GONE"}

\* An unexpired READY preview of a snapshot that can still be restored
\* becomes a queued run: the first of a new job, or one more of the job that
\* is retried.  This model follows one job.
ConsumeRestorePreview(p, r) ==
    /\ previews[p].st = "READY" /\ previews[p].fresh /\ snapshot
    /\ IF previews[p].retry THEN JobExists /\ ~HasOpenRun ELSE ~JobExists
    /\ runs[r].st = "NONE" /\ \A q \in RunIds : q < r => runs[q].st # "NONE"
    /\ runs' = [runs EXCEPT ![r] = [st |-> "QUEUED", fresh |-> TRUE, creds |-> previews[p].creds]]
    /\ previews' = [previews EXCEPT ![p] = ClosePreview(p, "CONSUMED")]

ClaimNextQueuedRestoreRun(r) ==
    /\ runs[r].st = "QUEUED"
    /\ runs' = [runs EXCEPT ![r].st = "PLANNING", ![r].fresh = TRUE]

\* One transaction freezes the recipes, pins the packs and starts the run.
\* It is fenced by the state of the run, not by the claim.  Files that a PARTIAL
\* snapshot does not have are skipped from the start.
PlanRestoreRun(r) ==
    /\ \E missing \in SUBSET Files :
         items' = [items EXCEPT ![r] = [i \in Items |-> IF i \in missing THEN Unavailable ELSE Planned]]
    /\ runs' = [runs EXCEPT ![r].st = "RUNNING"]
    /\ pins' = pins \cup {r}

CanPlan(r) == snapshot /\ runs[r].st = "PLANNING"

CloseRun(r, st) == [runs EXCEPT ![r].st = st, ![r].creds = FALSE]

Notify(r) == notices' = [notices EXCEPT ![r] = @ + 1]

FailRestoreRunPlanning(r) ==
    IF runs[r].st = "PLANNING"
    THEN runs' = CloseRun(r, "FAILED") /\ Notify(r)
    ELSE UNCHANGED <<runs, notices>>

InState(r, states) == {i \in Items : items[r][i].st \in states}

Done == {"COMPLETED", "WARNING"}
Imperfect == {"FAILED", "SKIPPED", "WARNING", "CANCELLED"}

\* Mutant: skipped files do not count as imperfect.
OutcomeIgnoresSkips(r) ==
    IF InState(r, Imperfect \ {"SKIPPED"}) = {} /\ InState(r, Done) # {} THEN "COMPLETED"
    ELSE IF InState(r, Done) # {} THEN "PARTIAL"
    ELSE "FAILED"

OutcomeOf(r) ==
    IF InState(r, Imperfect) = {} /\ InState(r, Done) # {} THEN "COMPLETED"
    ELSE IF InState(r, Done) # {} THEN "PARTIAL"
    ELSE "FAILED"

Drained(r) == runs[r].st = "RUNNING" /\ InState(r, {"PENDING", "RUNNING"}) = {}

FinalizeCompletedRestoreRuns ==
    LET ended == {r \in RunIds : Drained(r)} IN
    /\ runs' = [r \in RunIds |-> IF r \in ended THEN CloseRun(r, OutcomeOf(r))[r] ELSE runs[r]]
    /\ pins' = pins \ ended
    /\ notices' = [r \in RunIds |-> IF r \in ended THEN notices[r] + 1 ELSE notices[r]]

FinalizeCancellingRestoreRuns ==
    LET ended == {r \in RunIds : runs[r].st = "CANCELLING" /\ InState(r, {"RUNNING"}) = {}} IN
    /\ runs' = [r \in RunIds |-> IF r \in ended THEN CloseRun(r, "CANCELLED")[r] ELSE runs[r]]
    /\ pins' = pins \ ended

\* Items in the given states are cancelled.
CancelItems(r, states) ==
    [items EXCEPT ![r] = [i \in Items |-> IF items[r][i].st \in states
                                          THEN [items[r][i] EXCEPT !.st = "CANCELLED"] ELSE items[r][i]]]

CancelRestoreRun(r) ==
    /\ runs[r].st \in {"QUEUED", "PLANNING", "RUNNING"}
    /\ items' = CancelItems(r, {"PENDING"})
    /\ IF InState(r, {"RUNNING"}) = {}
       THEN runs' = CloseRun(r, "CANCELLED") /\ pins' = pins \ {r}
       ELSE runs' = [runs EXCEPT ![r].st = "CANCELLING"] /\ UNCHANGED pins

\* The rows of the job go with it (ON DELETE CASCADE).
DeleteRestoreJob ==
    /\ JobExists /\ ~HasOpenRun
    /\ runs' = [r \in RunIds |-> IF runs[r].st = "NONE" THEN runs[r] ELSE [NoRun EXCEPT !.st = "GONE"]]
    /\ items' = [r \in RunIds |-> [i \in Items |-> NoRow]]
    /\ reserved' = [r \in RunIds |-> [p \in Paths |-> NoItem]]
    /\ pins' = {}

\* The part of a suspension that concerns restores.
SuspendRestores ==
    /\ previews' = [p \in PreviewIds |-> IF previews[p].st \in OpenPreview
                                         THEN ClosePreview(p, "CANCELLED") ELSE previews[p]]
    /\ runs' = [r \in RunIds |-> IF runs[r].st \in Open THEN CloseRun(r, "CANCELLED")[r] ELSE runs[r]]
    /\ items' = [r \in RunIds |-> CancelItems(r, {"PENDING", "RUNNING"})[r]]
    /\ pins' = {r \in pins : runs[r].st \notin Open \cup {"CANCELLED"}}

\* Mutant: the session is stored whatever became of the run.
StoreSessionAlways(r) == runs' = [runs EXCEPT ![r].creds = TRUE]

\* A session or a rotated token is kept only while the run is open
\* (UpdateRestoreRunMegaSessionContext, UpdateRestoreRunOAuthTokens).
StoreSession(r) == runs' = IF runs[r].st \in Open THEN [runs EXCEPT ![r].creds = TRUE] ELSE runs

-----------------------------------------------------------------------------
(* Items *)

Ancestors(i) == IF Parent[i] = NoItem THEN {}
                ELSE {Parent[i]} \cup (IF Parent[Parent[i]] = NoItem THEN {} ELSE {Parent[Parent[i]]})

Blocked(r, i) == \E d \in Ancestors(i) : items[r][d].st \in {"PENDING", "RUNNING"}

\* Directories first, and nothing below a directory that is not there yet.
ClaimableItem(r, i) ==
    /\ runs[r].st = "RUNNING" /\ items[r][i].st = "PENDING"
    /\ Cardinality(InState(r, {"RUNNING"})) < Threads
    /\ ~Blocked(r, i)
    /\ i \in Dirs \/ ~\E d \in Dirs : items[r][d].st = "PENDING" /\ ~Blocked(r, d)

ClaimNextRestoreItem(r, i) ==
    /\ ClaimableItem(r, i) /\ items[r][i].epoch < MaxGen
    /\ items' = [items EXCEPT ![r][i].st = "RUNNING", ![r][i].epoch = @ + 1, ![r][i].fresh = TRUE]

\* Mutant: only the claim epoch is compared, which a cancellation does not change.
OwnsByEpoch(r, i, epoch) == items[r][i].epoch = epoch

\* What a worker writes about its item is fenced by state and claim epoch.
OwnsItem(r, i, epoch) == items[r][i].st = "RUNNING" /\ items[r][i].epoch = epoch

SetItem(r, i, epoch, st) ==
    items' = IF OwnsItem(r, i, epoch) THEN [items EXCEPT ![r][i].st = st] ELSE items

CompleteRestoreItem(r, i, epoch) == SetItem(r, i, epoch, "COMPLETED")
FailRestoreItem(r, i, epoch) == SetItem(r, i, epoch, "FAILED")
SkipRestoreItem(r, i, epoch) == SetItem(r, i, epoch, "SKIPPED")

WarnRestoreItem(r, i, epoch) ==
    items' = IF items[r][i].st = "COMPLETED" /\ items[r][i].epoch = epoch
             THEN [items EXCEPT ![r][i].st = "WARNING"] ELSE items

RetryRestoreItem(r, i, epoch) ==
    items' = IF OwnsItem(r, i, epoch)
             THEN [items EXCEPT ![r][i].tries = @ + 1,
                                ![r][i].st = IF items[r][i].tries + 1 >= MaxAttempts THEN "FAILED" ELSE "PENDING"]
             ELSE items

SetRestoreItemTargetPath(r, i, epoch, sfx) ==
    items' = IF OwnsItem(r, i, epoch) THEN [items EXCEPT ![r][i].sfx = sfx] ELSE items

\* A renamed directory takes the target paths of everything below it along.
SetRestoreDirectoryTargetPath(r, d, sfx) ==
    items' = [items EXCEPT ![r] = [i \in Items |->
                 CASE i = d -> [items[r][i] EXCEPT !.sfx = sfx]
                   [] i # d /\ d \in Ancestors(i) -> [items[r][i] EXCEPT !.root = sfx, !.sfx = 0]
                   [] OTHER -> items[r][i]]]

\* Mutant: reservations of other items do not count.
FreeForAll(r, i, path) == TRUE

\* A reservation belongs to the item; the same item gets it again.
FreeFor(r, i, path) == reserved[r][path] \in {NoItem, i}

ReserveRestoreTargetPath(r, i, path) ==
    FreeFor(r, i, path) /\ reserved' = [reserved EXCEPT ![r][path] = i]

\* All reservations of the item are given up for the new one.
MoveRestoreTargetReservation(r, i, path) ==
    /\ FreeFor(r, i, path)
    /\ reserved' = [reserved EXCEPT ![r] = [p \in Paths |-> IF p = path THEN i
                                              ELSE IF reserved[r][p] = i THEN NoItem ELSE reserved[r][p]]]

SkippedWithParent(r, i) ==
    items[r][i].st = "PENDING" /\ \E d \in Ancestors(i) : items[r][d].st \in {"SKIPPED", "FAILED", "CANCELLED"}

SkipBlockedRestoreItems ==
    items' = [r \in RunIds |-> [i \in Items |-> IF SkippedWithParent(r, i)
                                                THEN [items[r][i] EXCEPT !.st = "SKIPPED"] ELSE items[r][i]]]

Stale(r, i) == runs[r].st \in {"RUNNING", "CANCELLING"} /\ items[r][i].st = "RUNNING" /\ ~items[r][i].fresh

RecoverStaleRestoreItems ==
    items' = [r \in RunIds |-> [i \in Items |->
                 IF Stale(r, i)
                 THEN [items[r][i] EXCEPT !.st = IF runs[r].st = "CANCELLING" THEN "CANCELLED" ELSE "PENDING"]
                 ELSE items[r][i]]]

HeartbeatRestoreItem(r, i, epoch) ==
    /\ OwnsItem(r, i, epoch)
    /\ items' = [items EXCEPT ![r][i].fresh = TRUE]
=============================================================================

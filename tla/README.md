# Clumoove: a TLA+ model of its jobs, accounts and file manager

Clumoove moves, synchronises and backs up files, calendars and contacts between
storage providers. An API gateway and any number of worker processes coordinate
through PostgreSQL, which is both the system of record and the task queue; Redis
holds locks and liveness keys. This directory models what these processes do to
the shared rows: the four kinds of job (migration, sync, backup, restore), the
OAuth credentials they use, the notifications they send, the accounts they belong
to, and the file manager that works on a provider directly.

Paths below are relative to `src/`; `internal/` means `backend/internal/`, `api/`
means `backend/cmd/api/`.

## 1. Inventory

| Part | State | Operations | What is hard about it |
| :--- | :---- | :--------- | :-------------------- |
| Migration rows (`internal/db/migrations.go`, `tasks.go`) | `migrations`, `tasks`, `indexing_errors` | fenced task writes, counters, reconciliation, final retry, status updates | a statement decides by its snapshot and may wait for the row lock before it writes |
| Indexer (`internal/indexer`) | a goroutine per discovery; `discovery_generation`, `indexing_lease_until` | load, lease, heartbeat, walk, insert, record errors, totals, decide | successors after pause/resume, recovery and reindex; tasks run while discovery still inserts |
| Scheduler (`internal/scheduler`) | `schedules`; Redis locks | minute tick, trigger, deactivate; recovery of stale discoveries and passes | loops that change two tables in two statements |
| Queue (`internal/queue`) | `tasks.status`, `worker_hash`, `claim_epoch` | `DequeueSQL`, recovery of a dead worker's tasks | double claims, late writes, thread limit |
| Transfer workers (`internal/processor/processor.go`, `schedulers.go`) | threads; connection-loss counters in memory | `processTask`, `handleTaskFailure`, retry scheduler, orphan recovery, reconciler | retry against late results, pause and cancel in the middle of a task |
| Verification (`internal/processor/verifier.go`) | `verification_generation`, a lease, a list per pass | claim, renew, list, mark, finish, release | expired leases, marks on tasks that are copied again |
| Migration handlers (`api/migration_handlers.go`) | none | start, pause, resume, retry, reindex, cancel, threads | a status read in one statement and written in another |
| Backup rows and coordinator (`internal/db/backups.go`, `internal/backup`, `backuprepo`) | job, runs, snapshots, packs, blocks, maintenance rows; objects on the target | run: scan, pack, index, publish; retention, verification, compaction, deletion | a crash between upload, index and publication; garbage collection against a run that reuses a block |
| Restore (`internal/db/restore.go`, `internal/restore`) | previews, runs, items, reservations, pins; files on the target | preview, plan, restore items, promote, finalise, cancel | taken names, atomic replacement with undo, retries after a crash, cancellation under a working coordinator |
| Sync (`internal/db/sync.go`, `internal/sync`, `internal/processor/sync_task.go`) | job, pass generation, tasks, baseline with directory ETags; files on both sides | pass: lock, drain, scan, compare, transfer, finalise | late workers of an earlier pass, edits while a pass is at work, skipped subtrees |
| OAuth (`internal/oauth`, `internal/processor`) | token pair per job and profile; Redis lock; in-process lock | refresh, rotate, adopt a newer pair, mark failed, sign in again | single-use refresh tokens presented by several processes |
| Accounts (`internal/db/users.go`, `api/auth_*.go`, `totp_handlers.go`, `admin_handlers.go`) | `users`, `refresh_tokens`, one-time tokens | setup, login, rotation, suspension, demotion, deletion, reset, 2FA | transactions under READ COMMITTED, checks before a lock |
| Notifications (`internal/db/notifications.go`, `internal/processor/notifier.go`) | events, deliveries, channel and mailer settings | create events, claim, send, complete, repair | at-least-once delivery over crashes and expired leases |
| File manager (`api/file_*.go`, `internal/storage/manager_*.go`) | stream slots and tickets in Redis; the provider's tree | download, archive, upload, mkdir, rename, move, copy, delete, batches, listing | slots that expire under a stream; look, decide, act in several provider calls |
| Providers, cryptography, profiles and settings, support packages, frontend | no protocol between processes | input, output, formatting | not modelled (section 8) |

What makes the parts correct: a task has one writer; nothing is lost or done twice
between listing and verification; a visible snapshot can be read; a restore destroys
nothing it was not told to; a sync pass loses no edit; a stored credential stays
usable; there is always an administrator, and revoking a session is final; nothing is
reported as sent that was not; a stream slot is held by whoever streams and comes
free again; and what nobody stops ends. `PROJECT.json` lists the hazards line by line,
each with the properties that would show it going wrong.

## 2. Modules

| Module | Models | State |
| :----- | :----- | :---- |
| `MigrationStore` | the migration's rows and the statements of package `db` | `mig`, `progress`, `tasks`, `indexErrors`, `events`, `faults` |
| `Discovery` | `Indexer.Start` | `indexer` |
| `Scheduler` | one-shot schedules and recovery of stale discoveries | `schedule` |
| `TransferWorkers` | `DequeueSQL`, `processTask`, `handleTaskFailure`, the periodic jobs of a worker, file-manager transfers | `worker`, `up`, `connLoss`, `reconciler` |
| `Verification` | verification passes | `verifier` |
| `MigrationControl` | HTTP handlers and connection recovery | `handler`, `requests` |
| `MigrationSystem` | composition and properties of a migration | the above |
| `FencedClaim` | abstract: a resource is held under increasing epochs and finished only by its newest holder | `state`, `epoch`, `token` |
| `BackupStore` | rows and statements of a backup job, objects on its target | `job`, `runs`, `snaps`, `packs`, `blocks`, `maint`, `targets`, `pins`, `schedule`, `remote`, `source`; observers `lost`, `unmarked` |
| `BackupCoordinator`, `BackupMaintenance` | a coordinator's run; its retention, verification, compaction, deletion | `coord`, `lock` |
| `BackupControl`, `BackupSystem` | handlers and scheduler; composition and properties | `sched`, bounds |
| `RestoreStore` | rows and statements of a restore job, its target | `previews`, `runs`, `items`, `reserved`, `pins`, `target`, `stage`, `aside` |
| `RestoreCoordinator`, `RestoreSystem` | previews, planning and items by the coordinators; handlers, composition, properties | `worker`, `requests` |
| `SyncDelta` | the comparison of two sides with the baseline (pure operators) | |
| `SyncStore`, `SyncEngine`, `SyncWorkers` | rows and statements; a pass; the tasks of workers and the verifier | `job`, `cfg`, `sched`, `tasks`, `base`, `coord`, `lock`, `disk`, `copies`, `worker` |
| `SyncSystem` | handlers, recovery, the user who edits, composition, properties | `api` and history |
| `OAuthTokens` | rotation of one credential by every caller the code has | `row`, `lock`, `local`, `call`, `live`, `status` |
| `Accounts` | accounts, sessions, 2FA | `user`, `sessions`, locks, `req` |
| `Notifications` | outbox, notifiers, settings | `run`, `row`, `batch`, `channel`, `smtp` |
| `FileStreams`, `FileManager` | stream slots and tickets; the handlers and the provider's tree | `zset`, `ticket`, `active`; `tree`, `op`, `phase`, `mem`, `answer` |
| `MC...` | instances for TLC | |
| `MigrationSystemProofs`, `BackupSystemProofs`, `RestoreSystemProofs`, `SyncSystemProofs`, `OAuthTokensProofs`, `AccountsProofs`, `NotificationsProofs`, `FileManagerProofs` | theorems and proofs (section 6) | |

The components of one system share the rows of its store module and nothing else, as
the processes do. The systems are checked apart: they meet in the `tasks` queue (whose
claims `FencedClaim` describes), in a pinned pack (`pins` of `BackupStore` is what a
restore of `RestoreStore` does to it), in suspension (an action of `Accounts`, and of
every job system) and in the event of a run that ends (`events` there, `run` in
`Notifications`).

**Granularity.** One SQL statement or transaction is one step; the code between
two statements belongs to no step, so anything may happen there. Where
PostgreSQL's READ COMMITTED makes a single statement non-atomic the model splits
it: `reconcileMigrationProgress` collects its counts in one step (`...Snapshot`)
and updates the row in a later one (`Reconcile`, `Settle`, `FinishPass`,
`IndexerReconcile`), and the indexer's guarded `INSERT ... WHERE EXISTS` tests in
`IndexerInsert` and commits in `IndexerInsertCommit`, because it takes no lock
that excludes an update of the status. `DequeueSQL` locks task and migration row
`FOR UPDATE` and is one step.

The other systems follow the same rule. In `Accounts` a transaction of several
statements is several steps that keep their row and advisory locks, and of two
transactions that wait for each other one is rolled back. Calls to a provider are
steps of their own, between the statements around them, because rows change while a
provider is slow.

**Correspondence.** Every action carries the name of the function or statement it
models; `PROJECT.json` gives the lines. Some conventions:

* a lease is a BOOLEAN, "set and not expired" (in `BackupStore` a run is `fresh`, in
  `RestoreStore` and `Notifications` a row `LAPSED` or `stale`); an action of its own
  lets the time pass. With a living owner it expires only where the code allows it to;
* a row that does not exist is `NONE`, one that was removed `DELETED` or `GONE`;
  identities are never used twice;
* the outcome of a transfer, a send or a provider call is a choice; a failure uses up
  one of `MaxFaults` (in sync `MaxEvents`, shared with requests and edits);
* a statement whose error is only logged happens, or a fault is used up and the code
  goes on (`Logged` in `MigrationStore`);
* bytes, hashes, names and messages are left out where no property tells them apart:
  a block of a backup, a version of a file, a token and a secret are values that can be
  compared; a suffix ` (n)` of a renamed file is a number.

**Simplifications** a reader should know.

* Migration: a traversal that is interrupted records every path it has not reached,
  while the code, inside a folder, stops at the folder; `MaybeRetryFailedMigrationTasks`
  is one step; totals are read and written in one step; a pass has one checking thread; a
  crash of the API ends all indexers, handlers and loops at once, `IndexerCrash` a single
  one; `handleTaskFailure` always finds the migration row; one schedule at most.
* Recovery of tasks: `up` is the set of processes that run; `Crash` takes one out and `Restart`
  brings it back under the name it had (`hostname-pid`, the same in a container), when it requeues
  those of its rows that are two minutes old, any subset. `RecoverAbandonedTasks` is another process
  that finds the liveness key of one expired: of one that is not up, or, as a fault, of one that was
  cut off or stalled. The lock around recovery only delays it and is left out.
  `requeueOrphanedRunningTasks` needs the migration RUNNING or INDEXING, as in the code. A migration
  begins `fresh`, `indexed` (discovery is over) or `abandoned` (a prefix is inserted and its indexer
  is gone). `unlisted` is a history variable: the paths whose indexing error the code failed to
  record.
* Backup and restore: `PollOnce` may take up its kinds of work in any order; back-offs are
  choices; canonical paths only; one restore job with its runs. A file that is not AVAILABLE in a
  PARTIAL snapshot is planned SKIPPED. `VerifyTarget` compares the size, and the hash where the
  target has one: a file that differs in content and not in size passes where there is none.
* Sync: one file in one directory; a write to a side is one step; conflict copies are not
  synchronised further; deleting and inserting the tasks of a pass is one step; the wait
  for a graceful stop is part of the poll. Settings carry how versions are compared (`by`): by a
  hash both sides know, by the ETag a side had at the last pass, or by size and time, where
  `Alike` is the set of pairs of versions that look the same. Only transfers have a heartbeat: a
  worker on a directory, deletion or conflict-copy task goes on after its claim was taken away.
  Versions made while a pass that has already
  looked is at work (`raced`), and those present when the settings change, are excluded from
  `NoEditLost`, and so are edits that size and time do not show: the code does overwrite them
  (section 5).
* Files: one user, one path-backed profile; a provider call is one step; native identifiers and
  native copies are left out. A ticket sets the key all slots share to one minute, and renewals
  come once a minute: from then on the key may expire at any moment until the next renewal, and a
  renewal may fail. `exposed` is a history variable: the streams whose slot is not sure for either
  reason. A failed release leaves the slot to its expiry.
* Accounts: every request brings the right password or code; attempt counters and rate
  limits are left out. A backup code is used up by a login and by disabling 2FA, each in a
  statement of its own.
* Notifications: the repair sweep lists, then writes one event per migration; it stops at a deleted
  one or a failed statement, passes over one that was restarted meanwhile, and may crash at any
  point.
* OAuth: one credential with a row per job and profile; the clock is `fresh`, `soon`, `due`. The
  second look at the row before a job is failed may itself fail; a restore run that has ended takes
  no new tokens.

## 3. Runs

`CHECK_DEADLOCK FALSE` is set everywhere because a job that has ended, with no request
left, really stops.

| Run | Instance | Checks |
| :-- | :------- | :----- |
| `two_processes` (178 000 states) | 1 task, 2 processes with a thread and a verifier each, 1 indexer, 1 fault, after discovery or after one that was abandoned, fairness | `OneWriterPerTask`, `CheckedTasksAreAtRest`, `Settles`, `TasksAreFencedClaims` |
| `discovery` (730 000) | immediate start, 2 paths, 1 indexer, 1 thread, 2 faults, no requests | `EachPathOnce`, `CompletedLosesNothing` |
| `requests` (2 000 000) | scheduled migration settled like a file-manager transfer, 1 path, 2 task rows, 1 indexer, 1 thread, 2 handlers, 2 requests, 1 fault | `EachPathOnce`, `CancelledIsFinal` |
| `backup` (403 000) | a repository with a snapshot; 2 files, 2 blocks, 2 coordinators, 2 runs, 4 maintenance rows, 2 requests, 1 changed file, 1 fault | `OpenRunIsCurrent`, `VisibleSnapshotsReadable`, `PublishedIsComplete`, `OutcomeIsFinal` |
| `backup_schedule` (68 000) | a new job, 1 coordinator, 1 scheduler with 1 tick, 1 request, 1 fault, fairness | `EveryRunEnds`, `DueScheduleIsServed` |
| `restore` (794 000) | a directory with two files whose names differ in case only, every strategy and kind of target, 2 workers, 3 requests, 1 fault | `ClosedRunHoldsNothing`, `OutcomeMatchesItems`, `CompletedIsRestored`, `OriginalSurvives`, `ClosedRunIsFrozen` |
| `sync` (1 875 000) | 1 file in 1 directory on two sides, 3 settings (compared by hash, by ETag, by size and time), 3 versions, 2 passes, 1 worker, 2 events (crash, failure, request or edit) | `CachedSubtreeIsTrue`, `PassesDoNotOverlap`, `BaselineAgrees`, `NoEditLost` |
| `accounts` (733 000) | 2 accounts, 2 requests at a time, 5 in all | `AdminRemains`, `RevocationIsFinal`, `OneSessionPerChain`, `SecretsAreHonoured`, `SetupIsTheFirst` |
| `oauth_tokens` (250 000) | six worlds: each kind of job with the callers that meet on its row, single-use or reusable tokens; 2 calls, 1 fault, fairness | `StoredTokenIsUsable`, `FailedOnlyIfRevoked`, `StoredPairOnlyAdvances`, `DueIsRenewed` |
| `notifications` (130 000) | 1 run of any kind or 2 migrations, 2 channels, 2 notifiers, 2 attempts, 1 edit, 1 fault, fairness | `SentWasAccepted`, `DuplicatesHaveACause`, `EveryMigrationIsReported`, `DeliveriesSettle` |
| `files` (430 000) | 2 requests at once, the slot of a client that went away, 2 slots, pages of 2, 1 fault, fairness | `StreamsAreLimited`, `AcceptedUploadIsWhole`, `OnlyWhatWasAsked`, `EveryClientIsServed` |
| `reused_pack_missing` | the repository of `backup`, 1 coordinator, 3 runs, 4 maintenance rows, 2 requests, 3 changes of files (content that goes and comes back), 1 fault | `ReadableUnlessDestroyed`, which is violated (section 5) |

`TasksAreFencedClaims` is a refinement: `tasks` and `worker`, seen through the mapping in
`MigrationSystem`, behave like `FencedClaim`. `RUNNING` is *held*, `COMPLETED` and
`SKIPPED` are *done*, everything else is *free*; a thread's token is the pair of its task
and epoch. A task that finishes does so through the newest token.

`VisibleSnapshotsReadable` excuses two objects: one that somebody else destroyed (`lost`) and
one that retention deleted without coming to mark its row (`unmarked`, set when a coordinator
dies, or is refused by a pin, between the two). Both are observers that no step reads; a pack
that is uploaded again leaves both sets. `reused_pack_missing` shows that the second excuse is
needed.

`MCFiles` also carries `SelectionIsCovered`, an assumption that TLC evaluates: of every
selection of up to three out of five nested paths, `normalizeBatchReferences` leaves
nothing out and keeps no item below a selected directory.

Every module has a `TypeOK`. It holds in every run, and can be added to any of the
configurations; those of `MigrationSystem` and `Notifications` are proved, and the other proofs
carry the parts of the types they need.

**Bounds.** `MaxFaults` bounds the failures the environment injects (failed calls and
statements, crashes, missed heartbeats), `MaxRequests` (`MaxOps`, `MaxCalls`,
`MaxEdits`, `MaxTicks`, `MaxChanges`) what users and clocks do. One fault is one crash or
failure with everything after it; two are a failure of the recovery itself. Attempts are 2
instead of 3 or 4: there is still a retried and a final failure. Two actors are enough for
one to act between two steps of another, which is where the hazards are; two passes or runs
are enough for a late step of the first to meet the second. In `accounts` five requests are
enough to create an account, give it a session and let two transactions and a rotation meet
on it. `discovery` and `requests` have one indexer, and `discovery` and `two_processes` no request,
because the properties do *not* hold beyond (section 5); the same holds for `SlowWorkers =
FALSE` in `restore`, and in `sync`, where it says that the heartbeat of a transfer stops it once its
claim is gone (nothing stops the other tasks). `discovery` needs its two paths and two faults: one
path may then be listed, lost and unrecorded while the other arrives. `requests` joins the schedule
and the settlement of file-manager transfers, which the API never combines, so that requests meet
both in one run; `EachPathOnce` and `CancelledIsFinal` do not depend on how a migration ends. Symmetry is used where neither the model nor a liveness property tells the
elements apart (tasks and paths, where the task shown for an idle thread is never read; blocks, files and coordinators; restore workers; accounts
and requests).

## 4. Fairness

Weak fairness only, and only for what the code does by itself.

* `two_processes`: every thread, indexer and verification pass (goroutines that run as long as
  their process does), the reconciler and the requeueing jobs, the scheduler's tick and
  recovery loops (tickers), the expiry of leases nobody renews (time), the recovery of lost
  connections (the provider answers eventually), and the restart of a process that died
  (`restart: always` in `docker-compose.yml` and `docker-compose.prod.yml`).
* `backup_schedule`: the run loop of a worker, the expiry of a silent run, the scheduler.
* `oauth_tokens`: a call that was started goes on (its HTTP client has a timeout), the daemon
  ticks, the Redis key of a dead process expires.
* `notifications`: the notifiers poll and work off their batches (a send has a timeout), the
  repair sweep runs, leases expire.
* `files`: handlers run, clients that are refused ask again, tickers fire, time passes.

Nothing is owed by users, and no failure or crash is. Sync has a fair specification too; what was stated under it does
not hold (section 5).

## 5. Disagreements between code and text

One is kept as a run with a finding, because data is lost without a sign:
`reused_pack_missing`. `applyRetention` deletes the object of
an orphaned pack (`coordinator.go:363`) and then marks its row (`:366`). If the worker dies between
the two, or a restore has pinned the pack meanwhile and the statement is refused, the row stays
READY. A file that later has that content again is deduplicated against the row (`FindBackupBlock`
asks the table only), the sample that precedes publication may look at other packs (`:851`, `:862`),
and the snapshot becomes READY, against `docs/service_comparison.md:51`.

The following formulas state what a comment or a document says and are violated too. Each
is in its module, after the properties; put it into the configuration with the changes given.

| Formula | Configuration | What happens |
| :------ | :------------ | :----------- |
| `FinishedIsQuiescent` | `two_processes`, `Spec` | A reconciler decides by counts older than the row it updates: it ends a migration whose failed tasks another one has just requeued, and workers may not claim them any more (`migrations.go:983`, `tasks.go:526`). |
| `EachPathOnce` | `requests`, `MaxFaults = 0`, two indexers, no schedule, `FileManager = FALSE` | An indexer that loads the row only after a pause and a resume takes over the generation of its successor; both insert (`indexer.go:57` against `:86`). |
| `CompletedLosesNothing` | `requests`, no schedule, `FileManager = FALSE` | `retry` after a failed discovery makes the migration RUNNING although discovery never finished; it completes without the paths nobody listed (`migrations.go:966` against `:951`, `:979`). |
| `CompletedLosesNothing` | `discovery`, `FileManager = TRUE` | A file-manager transfer is settled from a snapshot that was taken before the indexer recorded a listing error and ended discovery: COMPLETED although an indexing error is recorded (`processor.go:236`, `migrations.go:979`). |
| `CompletedHoldsEverything` | `discovery` | The recording of an indexing error fails and is only logged; the path has neither a task nor an error, and the migration is COMPLETED without it (`indexer.go:356`, `docs/02-backend.md:302`). This is `CompletedLosesNothing` without the excuse `unlisted`. |
| `NothingIsLeftOver` | `discovery`, `FairSpec`, `Items = {a}`, `Tasks = {t1}`, no symmetry | The statement that marks a task SKIPPED fails and is only logged (`processor.go:852-856`). The migration is FAILED or COMPLETED_WITH_ERRORS meanwhile, so that `requeueOrphanedRunningTasks` passes the row over, and its worker lives: it stays RUNNING. |
| `ScheduledIsTriggered` | `discovery`, `FairSpec`, `HasSchedule = TRUE`, `Items = {a}`, `Tasks = {t1}`, `MaxFaults = 1`, no symmetry | The tick deactivates a schedule that recovery has just reactivated; the migration stays SCHEDULED (`scheduler.go:604` against `docs/02-backend.md:286`). |
| `MismatchIsRecopied` | `discovery`, `FairSpec`, `Boots = {"indexed"}`, no indexer, `Items = {a}`, `Tasks = {t1}`, `MaxFaults = 1`, no symmetry | A checksum mismatch clears the retry time, so the task is not copied again (`verifier.go:279`, `:286`, `:487`, `:588`). |
| `PinnedPacksStay` | `backup` | Compaction deletes a pack that a restore has pinned (`db/restore.go:843`, `docs/06-database.md:215`). |
| `DamageIsConfirmed` | `backup` | The sample of a new snapshot marks a pack DAMAGED after any read error (`coordinator.go:272`, `docs/06-database.md:338`). |
| `CompletedCheckLookedAtAll` | `backup` | A check taken over by another coordinator completes with a target of the first still RUNNING. |
| `WarningIsPartial` | `restore` | A warning is recorded after the run was finalised as COMPLETED. |
| `CompletedIsRestored` | `restore`, `SlowWorkers = TRUE` | A coordinator whose claim lapsed goes on and overwrites the target of its successor (`db/restore.go:563`, `:1157`). |
| `CompletedIsRestored` | `restore`, `Boot = "planned"`, `MaxRuns = 2`, `MaxPreviews = 2`, `MaxRequests = 4`, `MaxGen = 2`, the items `One`, no directories (`OneParent`, `OneName`) | The owner is suspended during an upload and, reactivated, retries the job. The upload was never cancelled, as the heartbeat ignores that its row is gone (`restore/coordinator.go:720`); when it breaks off, it leaves a part in the place of what the second run verified. |
| `OriginalSurvives` | `restore`, `SlowWorkers = TRUE` | A coordinator whose claim lapsed moves the file of the user aside; its successor, which replaces the same file, removes what it finds aside as a leftover (`restore/coordinator.go:785-794`). If the first then fails to put the restored file in place, neither exists. |
| `NobodyWorksForAnEarlierPass` | `sync` | `PassesDoNotOverlap` for every worker, not only for those that hold their claim. A directory, deletion or conflict-copy task has no heartbeat (`sync_task.go:137`, `:194`, `:223`); recovery frees its row, and the worker writes to a side while the next pass scans it. |
| `PauseIsKept` | `sync` | The end of a pass writes its status over PAUSED (`db/sync.go:330`, comment `users.go:449`). |
| `ClaimedPassGetsItsTurn` | `sync`, `FairSpec`, `MaxEvents = 1`, `Errors = {"network"}` | After a connection loss the coordinator polls for ever, and the next generation waits for its lock (`docs/02-backend.md:288`, `docs/01-architecture.md:172`). |
| `PassEnds` | `sync`, `FairSpec`, `MaxEvents = 1`, `Errors = {"other"}` | The same for a failed statement: a pass with an open row that nobody works on does not end. |
| `FailedOnlyIfRevoked` | `oauth_tokens`, `Setups <- Browsed` | Browsing a sync job refreshes without the lock; the daemon presents the used token and fails the job (comment `auth_oauth_handlers.go:319`). |
| `FailedOnlyIfRevoked` | `oauth_tokens`, `Setups <- Copied` | A job and a profile share a single-use refresh token (`docs/07-security.md:76`). |
| `MailerCanBeOpened` | `notifications` | The password of the mailer is stored for the domain of the mailer (`api/admin_smtp_handlers.go:85`; `auth_password_handlers.go:35` opens it so) and opened by the notifier for that of notification channels (`notifier.go:193`): every completion e-mail ends with `SMTP_DECRYPT_FAILED` (`docs/README.md:39`). |
| `RunningStreamsHoldSlots` | `files`, `Spec` | `StreamsAreLimited` without the excuse `exposed`. A ticket shortens the key all slots share to one minute (`file_handlers.go:165`), the interval of the renewals (`:1465`), or a renewal fails and is ignored (`:1478`): the key expires under a stream, and more than four can run (`docs/07-security.md:8`). |
| `SkipIsAnswered` | `files` | An upload that is skipped is then verified and answered with `FILES_UPLOAD_SIZE_MISMATCH` (`file_handlers.go:1220`, `docs/04-api-reference.md:46`). |

Seen while modelling, without a formula of their own:

* **Migration.** With two handlers a pause read before a cancel writes PAUSED after it
  (`migration_handlers.go:298-308`). Each attempt that will be retried is booked as processed, and so
  is the success (`processor.go:1593`, `:1278`); reconciliation repairs it. A NULL lease counts as
  expired (`migrations.go:498`, `:484`). A late insert leaves a PENDING task in a cancelled migration
  (`migrations.go:707`, `:684`). Final retry and reconciliation are two transactions
  (`schedulers.go:179`, `:186`, `migrations.go:585`). Skipped tasks do not count as errors
  (`migrations.go:988`, `docs/01-architecture.md:71`).
* **Backup.** Content whose pack is DELETED or DAMAGED is not stored again, as its block row exists
  (`schema.sql:513-529`, `docs/01-architecture.md:131`). Maintenance other than VERIFY stays RUNNING
  after a crash, a cancelled VERIFY stays CANCELLING, and a suspension that cancels the deletion of a
  repository leaves the job DELETING. A run that recovery closes has no event. A truncated format
  file blocks later runs. Reactivating a user reactivates schedules of paused jobs.
* **Restore.** An item noted for retry while its run is cancelled stays PENDING (`restore.go:652`). A
  SKIP item that a crash interrupted after its promotion is found taken and marked SKIPPED; a RENAME
  item is restored a second time. A directory alone counts as restored (`restore.go:585`).
* **Sync.** An edit made between the scan and the transfer is overwritten. A skipped conflict
  stores the two different versions as the baseline. Two-way without delete propagation brings a
  deleted file back. The deadline of
  `docs/02-backend.md:234` does not exist. A suspension cancels RUNNING rows, so that the next drain does
  not wait for their workers. A healthy pass whose tasks waited ten minutes is recovered.
* **OAuth.** A forced refresh returns the rejected token if the row was touched since
  (`processor.go:1847-1855`). The daemon marks a job FAILED without a condition, and a new sign-in
  writes IDLE over any status of a sync job. The coordinator of backups takes no lock.
* **Accounts.** A login that loaded the account before a suspension stores its session afterwards
  (the `late` of `RevocationIsFinal`). Changing the password is two statements outside a transaction. A
  registration before the setup closes the setup without an administrator.
* **Notifications.** Saving a channel reads and then writes: of two concurrent changes one secret is
  lost. A completion is not fenced by its claim. The repair sweep stops at a deleted migration,
  and those listed after it wait for the next sweep.
* **Files.** Archives and streamed batch copies do not renew their slot. A slot is released under the context of the request that was cut off
  (`:1391`, `:1454`). An upload of the wrong size leaves a truncated object. A failed copy of a directory
  leaves a part.

## 6. Theorems

For every value of the constants:

* `MigrationSystemProofs!TypeCorrect`: `Spec => []TypeOK`. The type invariant is inductive as it
  stands; one lemma per component (`WorkersNextType`, `VerificationNextType`,
  `DiscoveryNextType`, `SchedulerNextType`, `ControlNextType`), with lemmas for the rows the
  statements write.
* `ClaimsAreDistinct`, `OneWriter`, `RowsStayConsistent`: from one inductive invariant,
  `ClaimInv == TypeOK /\ RowsConsistent /\ ClaimsDistinct`. `OneWriterPerTask` is not inductive: it
  speaks of threads that still hold the newest epoch only, and a step that sets a row RUNNING
  again could give an old epoch back its rights. What excludes this is that no epoch is ever
  given out twice (`ClaimsDistinct`), for which every thread's epoch has to be at most the row's,
  and rows that do not exist must not have been claimed (the last conjunct of `RowConsistent`).
  `RowsConsistent` is needed with it because a fenced write copies the other columns of the row it
  has read: a RUNNING row carries neither a retry time nor a verified checksum, so what is written
  does not either. `OnlyDequeueClaims` shows that no step but `DequeueSQL` changes an epoch or gives
  a thread a claim.
* `PassesAreDistinct`: the same argument one level up. `OnlyClaimsStartPasses` shows that only
  `ClaimMigrationVerification` changes `verification_generation` or starts a pass.
* `AccountsProofs!AdministratorRemains`: `Spec => []AdminRemains`, for any number of accounts and of
  concurrent requests. `AdminRemains` is not inductive, as a demotion commits later than it
  counted. The invariant `AdminInv` adds what the transaction relies on in between: whoever is
  between the count and the commit holds the advisory lock (`AdminLocked`, so there is one such
  request), it holds the row it counted for (`RowLocked`, so nobody promotes or reactivates that
  account), and what it counted is still true (`CountStillTrue`). `CommitStep` is the step that needs
  all three; `CalmStep` disposes of the many that neither count nor commit.

* `AccountsProofs!RevocationHolds`, `ChainsStaySingle`, `SecretsStayHonoured`, `SetupStaysFirst`: from
  `SessionInv == AdminInv /\ RequestsInv /\ UsersInv /\ TokensInv /\ RevokedInv`. A request that
  is between two statements of its transaction holds the rows it has read `FOR UPDATE`, and what it
  remembers of them is what they contain (`RowsHeld`, `OldFits`); a token has at most one successor
  that is alive (`TokensInv`); whatever a rotation stores after a revocation, it loaded before
  (`RevokedInv`). The setup is the first because its count and its insert share one advisory lock
  (`SetupLocked`).
* `MigrationSystemProofs!TasksRefineClaims`: `Spec => TasksAreFencedClaims`, the refinement of
  `FencedClaim`. `StepKinds` sorts the steps of the whole system: one row is claimed, one row is
  finished by the thread with the newest epoch, claims are given up or taken away, results are
  thrown away, or nothing a client sees changes; each kind is a step of `FencedClaim` or a stutter.
  The side conditions come from `ClaimInv`.
* `MigrationSystemProofs!CheckedTasksRest`, `PathsOnce`, `CancelledStays`. The first two share
  `OtherRowsMove`: a step inserts a row, marks a mismatch, or leaves each row its path and takes no
  COMPLETED row back except by deleting it. From it, `RestInv`: while the generation is that of a pass,
  what the pass has still to look at is COMPLETED or deleted; a mark of another pass is excluded by
  `PassesDistinct`, and a claim raises the generation. `CheckedTasksAreAtRest` needs no hypothesis.
  `PathsInv` adds to `EachPathOnce` that an indexer's remaining paths are none of the table's from the
  moment it has loaded the keys. It holds as long as one indexer walks at a time (`OneWalk`), which
  section 5 shows to be necessary; goroutines in any other phase do no harm. `CancelledStays` rests on
  `StatusMoves`: every statement outside the handlers that enters or leaves CANCELLED tests the status it
  changes. A pause or a re-index reads the status in one statement and writes it in another
  (`migration_handlers.go:298`), so that one that read it before a cancel may undo it. The theorem is
  about what follows, for any number of concurrent requests: once none of these is on its way
  (`Unfinished = {}`), CANCELLED stays, and no request that comes later gets to such a point.
* `NotificationsProofs!SentIsAccepted`, `DuplicatesNeedAFault`, `TypeCorrect`: from `OutboxInv`. A
  delivery in a notifier's batch is RUNNING under a lease that has not run out, or its job is gone
  (`InHand`); nobody else has it (`OneHand`); one that is RUNNING in nobody's batch has met a fault
  (`Attended`); and what is still to be sent was not accepted before, unless by a fault (`NotYet`).
* `OAuthTokensProofs!PairsAdvance`: in every world a write stores a newer access token. It rests on
  `TokensAreKnown` (a successor is newer than the pair that was presented for it) and on the
  compare-and-set, which compares with the pair the caller presented. `RotationIsSafe` and
  `FailureMeansRevoked` have hypotheses about the world: a single-use credential belongs to one row
  (`OwnCredential`), and for the second, all who share it with the daemon refresh under the lock
  (`LockedWorld`). The invariant of the second says that whoever presents a token holds the lock
  (`Presented`) and that nobody else is in between (`Apart`), so that a refusal means the token is revoked
  or lost already; the daemon's second look at the row is not needed for it, and may fail. The hypotheses are what separates the six worlds of `oauth_tokens` from the two of section 5,
  `Browsed` and `Copied`, where the properties are violated.
* `RestoreSystemProofs!ClosedRunsAreEmpty`, `OutcomesMatch`, `ClosedRunsAreFrozen`: `RowsConsistent`
  shows `Inv`, what a run in each state of its life holds, and `RunStep` that every step leaves the row
  alone, moves it along its life cycle, or ends it. That the invariant is kept follows from `RunStep`
  alone, so a step of a coordinator whose claim lapsed is treated like any other.
* `RestoreSystemProofs!RestoredIsThere`, `RestoredAgainIsThere`: `CompletedIsRestored`, from `PlacesInv`. The
  property alone says nothing of what may still be written to the path of an item that is done.
  The invariant adds that a worker holds its item, RUNNING under its epoch, or cancelled by a
  suspension (`Holds`), and nobody else has it (`Alone`); that the path it writes to is reserved for
  the item, as is the path of what is done (`Writes`, `PlaceInv`), so that two items of a run never
  share one; that what it verified is there (`Writes`); that directories above an item that was started are
  settled, so that no rename moves it any more (`PlaceInv`); and that only the last run of the job is
  open (`RunsInOrder`). Every step is one of five kinds (`CalmStep`, `WriteStep`, `CompleteStep`,
  `ClaimStep`, `PathStep`) or deletes the job. Two hypotheses: `~SlowWorkers`, without which the
  property is false (section 5), and either one run or no suspension. With two runs and a
  suspension TLC finds a violation (section 5), as reservations belong to a run and nothing tells a
  worker that the suspension cancelled its item: it goes on, and writes to the path at which the next
  run has restored the item. TLC checked `PlacesInv` for one run with
  suspensions (794 000 states) and for two without (993 000).
* `RestoreSystemProofs!SkipAndRenameSpare`, `OriginalsSurvive`: `OriginalSurvives`. With SKIP and RENAME it
  has no hypothesis: a worker at a step that writes to the target has found nothing at its path when it
  looked (`Spares`), and what others put there meanwhile is theirs, not the user's, as no step creates a
  file of the user. With OVERWRITE, where the target can rename, the invariant `ReplacesInv` says what a worker finds
  at each call of `promoteRestoreUpload`: a file in place before it removes a leftover, no leftover
  before it moves the file aside, nothing of the user in place when it puts a file in or back, the
  restored file in place before it deletes what is aside. None of it is stable unless no other worker is at that
  path, which is `PlacesInv` together with `Held` (a worker at work has its item, as long as nobody is
  suspended). `~SlowWorkers` is needed (section 5). `~SuspendUser` is needed for `Held`, and so by the
  proof; TLC finds no violation with two runs and a suspension (3 700 000 states), as what is moved
  aside is named after the row of the run.
* `BackupSystemProofs`: three invariants, each on top of the one before.
  `JobInv` (`OpenRunsAreCurrent`, `OutcomesAreFinal`): the rows of the job and of its runs move
  together, no run exists beyond the generation of the job, and no two coordinators execute one run.
  `DraftInv` (`SnapshotsAreComplete`): what a coordinator remembers of the files it is done with is what
  its draft will link, and only the run's own coordinator fills and publishes the draft.
  `RepoInv` (`SnapshotsAreReadable`): every live block is in a READY pack, every READY pack has its
  object, and what a coordinator remembers of the repository stays true while it holds the advisory
  lock (`RunMemory`, `MaintMemory`): a block it decided not to upload is still stored, a pack it listed
  for removal is still needed by nobody, the blocks it left out of a compacted pack are still dead.
  `QuietStep` disposes of steps that leave packs and objects alone, `LoudStep` of those under the lock.
  `VisibleSnapshotsReadable` alone is not inductive in either half: reuse of a block depends on the
  memory of the run, removal on that of the maintenance.
* `SyncSystemProofs`: four invariants, for every number of workers, passes and versions.
  `Ordered` (`PassesAreOrdered`): who is registered for a pass has the lock of the job, a task row or a
  worker belongs to a pass that has planned, and once a pass has drained the only rows RUNNING are
  its own. `SyncPassesDoNotOverlap` follows without a hypothesis: it speaks of workers that hold
  their claim. Those that lost it are `NobodyWorksForAnEarlierPass` of section 5.
  `TagsAreTrue` (`TagsHold`, `SyncCachedSubtreeIsTrue`): a stored ETag and the version stored with it are
  of one moment, in the baseline, in what a pass has loaded and in what it has listed; every step that
  writes one of them copies both or clears the tag.
  `Agreed` (`SyncBaselineAgrees`): the baseline holds one version of the file on both sides, and so does
  whatever a pass that has looked will make of it. `PassAgrees` says what that rests on in each phase:
  the listings (`ListingsAgree`), the transfer the pass planned (`MoveIsPlanned`), the content the
  worker carries (`MoveIsTrue`) and what is on the sides meanwhile (`DiskIsKnown`). `BaselineAgrees`
  excepts passes that an edit raced with; so does the invariant. It is proved for all three ways to
  compare: what looks alike by size and time counts as one version. The hypothesis is
  `~SlowWorkers`: the heartbeat of a *transfer* cancels it when its claim is gone; no assumption
  is made about the other tasks. `Ordered` is needed for it: only the
  pass with the lock writes the baseline.
* `FileManagerProofs`: `FilesInv` is `StreamInv /\ FileInv`.
  `StreamsStayLimited` needs, beside the bound on the set, that every stream that runs owns its
  member (`Owned`), that an issued ticket stands for a member (`TicketsOut`), and how long the score of a
  member and the key itself have left before and after the renewal of a period (`Running`). The last
  is claimed only of streams that are not `exposed`: for one whose own renewal failed, or whose key a
  ticket shortened, nothing is known until a renewal finds it again.
  `AcceptedUploadsAreWhole`: bytes an upload verified are whole wherever they are moved or copied to
  (`Whole`, `Accepted`). A copy reads and writes in one step of the provider, so that what it reads
  is whole at that moment.
  `OnlyAskedIsDestroyed` is an action property: `Allowed(r)` describes what one step of request `r` may
  do to the tree, and follows from what `r` remembers (`Remembered`): the name it decided on was not
  in the listing it read unless the strategy is OVERWRITE (`Decided`), and a recursive copy writes below
  that name (`Below`). What other requests do in between does not matter, as the memory of a request
  is its own; of an object created after the listing was read the property says nothing.

The proofs use the assumptions on the constants only: for migrations `StoreAssumption`,
`WorkersAssumption`, `DiscoveryAssumption`, `ControlAssumption` (`Tasks` is finite and not empty,
thresholds are natural numbers, every thread belongs to a process), for accounts
`NobodyAssumption` (no request is called `Nobody`), for backups `BackupAssumption` and those of the
other modules that declare constants, for sync `SyncVersionsAssumption` and `SyncBoundsAssumption`, for restores
`RestoreAssumption`, for files
`MaxStreamsAssumption`, `AbandonedAssumption`, `OperationsAssumption`, `SuffixAssumption` and
`TreesAssumption` (the requests and initial trees are well-formed paths). The two hypotheses of
`OAuthTokens`, `~SlowWorkers` of `SyncSystem` (for `SyncBaselineAgrees` only) and `RestoreSystem`, one
run or no suspension of the latter (`OriginalsSurvive`: no suspension), and `OneWalk` of
`MigrationSystem` are named in the theorems.

Three properties were changed by the attempt to prove them. `StoredPairOnlyAdvances` was
strengthened: it holds in every world. `ClosedRunIsFrozen` had missed the third of the
late changes it now names. `VisibleSnapshotsReadable` was false beyond the bound of the run
that checked it: the step that removes an object before its row is marked could not be proved, and
TLC, given one more run and a file that changes back, found the snapshot of section 5 (the constants
of `reused_pack_missing`, under which the corrected property holds in all 1 500 000 states).

Model-checked only. Liveness under fairness (`Settles`, `EveryRunEnds`, `DueScheduleIsServed`,
`DueIsRenewed`, `EveryMigrationIsReported`, `DeliveriesSettle`, `EveryClientIsServed`) is outside the
prover's reach. `CompletedLosesNothing` (migrations) holds under the bounds of section 3 only: beyond
them (a request, the settlement of a file-manager transfer) section 5 has a counterexample each, and
what excludes both is not an assumption about the environment but a different program. `NoEditLost` (sync) is a
property of the whole history of a version: an invariant would have to follow every copy of it through
listing, plan, transfer and conflict name.

## 7. Plan

1. Done: the migration, backup, restore and sync systems, OAuth tokens, accounts, notifications,
   files; the theorems of section 6.
2. Theorems next: `OriginalSurvives` with suspensions; `NoEditLost`.
3. Later: a directory with several files in `SyncDelta`, so that renames and collisions of names can
   be stated; the settings a migration can be edited with; deletion of a migration under its
   workers.

## 8. Not modelled

* **Storage providers** (22 000 of the 59 000 lines): clients of remote protocols without state that
  the system shares. A provider is the environment: a call succeeds, fails or loses its answer.
* **Transfer core and inline verification**: streaming and hashing of bytes, present as the
  outcome of a transfer; the comparison of hashes is a choice.
* **Pack format, encryption, hashing, password and code checks**: pure functions on bytes.
* **Profiles, settings, audit, statistics, listings and reports**: statements on one row, or reads.
* **Cron times**: when a schedule is due is a choice; the arithmetic of dates is left to its tests.
* **LISTEN/NOTIFY, bandwidth limits, rate limits, logging, routing, configuration**: they change when
  something happens, or what a reader sees, and not what may happen.
* **Frontend**: reads what the API publishes.

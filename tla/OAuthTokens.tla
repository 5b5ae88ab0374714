---------------------------- MODULE OAuthTokens ----------------------------
(***************************************************************************)
(* The OAuth token pair stored in a row, and everyone who renews it.       *)
(*                                                                         *)
(* Two rows hold a credential: a connection profile, and one job (one role *)
(* of a migration, sync job, backup job or restore run).  Seven pieces of  *)
(* code refresh the pair of such a row: the worker threads of a process,   *)
(* the indexer and the sync engine (which take the Redis lock and retry),  *)
(* the rotation daemon (one attempt at the lock), the backup coordinator,  *)
(* the restore readers, a browse request and the profile resolver (which   *)
(* take no lock at all).  All of them end in a compare-and-set on the      *)
(* ciphertext of the refresh token they presented.                         *)
(*                                                                         *)
(* Tokens are numbers, in the order the provider issued them: rt is the    *)
(* refresh token, at the access token.  Encrypting twice gives two         *)
(* ciphertexts, and every pair that is written has an access token of its  *)
(* own, so `at' also names the ciphertext the writes are conditional on.   *)
(* The age of an access token is "fresh" (five minutes and more are left), *)
(* "soon" (the daemon rotates, nobody else does) or "due" (less than two   *)
(* minutes: everybody refreshes).                                          *)
(***************************************************************************)
EXTENDS Naturals

CONSTANTS
    Setups,     \* [kind, single, shared, slow, callers]: the worlds to look at
    MaxCalls,   \* bound: calls made by others than the daemon
    MaxFaults,  \* bound: failed or lost calls, crashes
    MaxAge      \* bound: how often the stored pair gets older

Workers   == {"w1", "w2"}               \* threads of one worker process
Waiting   == Workers \cup {"indexer", "engine"}
Locking   == Waiting \cup {"daemon"}
Readers   == {"reader1", "reader2"}
Adopting  == Waiting \cup Readers
Resolvers == {"resolver1", "resolver2"}
Caller    == Locking \cup Readers \cup Resolvers
                \cup {"coordinator", "browser", "user"}
None      == "none"

Kinds == {"migration", "sync", "backup", "restore"}

ASSUME SetupsAssumption ==
    \A s \in Setups : /\ s.kind \in Kinds
                      /\ {s.single, s.shared, s.slow} \subseteq BOOLEAN
                      /\ s.callers \subseteq Caller
ASSUME BoundsAssumption == {MaxCalls, MaxFaults, MaxAge} \subseteq Nat

VARIABLES
    setup,    \* the world this behaviour is about (never changes)
    row,      \* "job" and "profile": the stored pair
    status,   \* the job's status
    lock,     \* oauth:lock:{type}:{id}:{role}: who holds it
    local,    \* keyedMutexes of the worker process: who holds it
    call,     \* what every caller is doing
    live,     \* refresh tokens the provider still accepts
    revoked,  \* refresh tokens the user took back at the provider
    next,     \* the number the next token gets
    lost,     \* refresh tokens whose successor was never stored: a fault, or a
              \* restore run that had ended meanwhile
    calls, faults, age

job  == <<row, status>>
cloud == <<live, revoked, next>>
vars == <<setup, job, lock, local, call, cloud, lost, calls, faults, age>>

Ages == {"fresh", "soon", "due"}

(***************************************************************************)
(* The struct a caller works with: its copy of the row (rt, at), whether   *)
(* the row was written since (the test on updated_at), whether it refreshes *)
(* by force, and the pair the provider handed it.                          *)
(***************************************************************************)
Idle == [pc |-> "idle", rt |-> 0, at |-> 0, touched |-> FALSE,
         force |-> FALSE, newRt |-> 0, newAt |-> 0]

RowOf(c) == IF c \in Resolvers THEN "profile" ELSE "job"

Init ==
    /\ setup \in Setups
    /\ row = [job     |-> [rt |-> 1, at |-> 1, age |-> "fresh"],
              profile |-> [rt |-> IF setup.shared THEN 1 ELSE 2,
                           at |-> 2, age |-> "fresh"]]
    /\ status = "RUNNING"
    /\ lock = None
    /\ local = None
    /\ call = [c \in Caller |-> Idle]
    /\ live = {row.job.rt, row.profile.rt}
    /\ revoked = {}
    /\ next = 3
    /\ lost = {}
    /\ calls = 0
    /\ faults = 0
    /\ age = 0

-----------------------------------------------------------------------------
(* The two locks and the row.                                              *)

Is(c, p) == c \in setup.callers /\ call[c].pc = p

(* The caller returns; its deferred unlocks run (ReleaseOAuthLock deletes the
   key only while it still holds this caller's token).                      *)
Return(c) ==
    /\ call' = [call EXCEPT ![c] = Idle]
    /\ lock' = IF lock = c THEN None ELSE lock
    /\ local' = IF local = c THEN None ELSE local

GoTo(c, p) == call' = [call EXCEPT ![c].pc = p] /\ UNCHANGED <<lock, local>>

(* Every other struct loaded from row r is now older than the row.         *)
Touched(r, c, f) ==
    [d \in Caller |-> IF d # c /\ RowOf(d) = r /\ f[d].pc # "idle"
                        THEN [f[d] EXCEPT !.touched = TRUE] ELSE f[d]]

Load(f, c, p) == [f EXCEPT ![c].pc = p, ![c].rt = row[RowOf(c)].rt,
                           ![c].at = row[RowOf(c)].at]

(* UPDATE ... WHERE refresh_token_encrypted = expected                     *)
MatchesAnyPair(c) == row[RowOf(c)].at >= call[c].at

Matches(c) == row[RowOf(c)].at = call[c].at

StorePresented(c) ==
    row' = [row EXCEPT ![RowOf(c)] =
              [rt |-> call[c].rt, at |-> call[c].newAt, age |-> "fresh"]]

StorePair(c) ==
    row' = [row EXCEPT ![RowOf(c)] =
              [rt |-> call[c].newRt, at |-> call[c].newAt, age |-> "fresh"]]

Fault == faults < MaxFaults /\ faults' = faults + 1

-----------------------------------------------------------------------------
(* Starting a refresh.                                                     *)

(* The caller loads the row and goes on at step p.                          *)
Starts(c, p) ==
    /\ Is(c, "idle")
    /\ calls < MaxCalls /\ calls' = calls + 1
    /\ call' = Load(call, c, p)
    /\ UNCHANGED <<setup, job, lock, local, cloud, lost, faults, age>>

shouldRefreshToken == row.job.age = "due"

(* Worker threads, before the transfer of a task: first the mutex of the
   process, then the Redis lock.                                            *)
refreshOAuthTokenIfNeeded(c) ==
    /\ c \in Workers /\ setup.kind = "migration" /\ shouldRefreshToken
    /\ Starts(c, "local")

refreshSyncOAuthTokenIfNeeded(c) ==
    /\ c \in Workers /\ setup.kind = "sync" /\ shouldRefreshToken
    /\ Starts(c, "local")

(* The indexer before it lists, the sync engine before it scans.           *)
ensureFreshSourceToken == shouldRefreshToken /\ Starts("indexer", "lock")

ensureFreshToken == shouldRefreshToken /\ Starts("engine", "lock")

(* The restore readers, the backup coordinator and the browse request of a
   sync job take no lock.                                                   *)
ensureFreshRestoreToken(c) ==
    c \in Readers /\ shouldRefreshToken /\ Starts(c, "refresh")

ensureFreshBackupToken == shouldRefreshToken /\ Starts("coordinator", "refresh")

syncJobBrowseCredentials == shouldRefreshToken /\ Starts("browser", "refresh")

(* The profile handlers refresh whatever the expiry is, the file manager
   when the pair of the profile is due.                                     *)
loadProfile(c) == c \in Resolvers /\ Starts(c, "refresh")

resolveFileProfile(c) ==
    c \in Resolvers /\ row.profile.age = "due" /\ Starts(c, "refresh")

(* rotateExpiringOAuthTokens: one entry of the daemon's scan.              *)
DaemonEntry ==
    /\ Is("daemon", "idle") /\ status = "RUNNING" /\ row.job.age # "fresh"
    /\ call' = Load(call, "daemon", "lock")
    /\ UNCHANGED <<setup, job, lock, local, cloud, lost, calls, faults, age>>

RotateMigration == setup.kind = "migration" /\ DaemonEntry
RotateSync      == setup.kind = "sync" /\ DaemonEntry
RotateRestore   == setup.kind = "restore" /\ DaemonEntry

Begin(c) ==
    \/ refreshOAuthTokenIfNeeded(c) \/ refreshSyncOAuthTokenIfNeeded(c)
    \/ ensureFreshRestoreToken(c) \/ loadProfile(c)
    \/ resolveFileProfile(c)

BeginAny ==
    \/ ensureFreshSourceToken \/ ensureFreshToken \/ ensureFreshBackupToken
    \/ syncJobBrowseCredentials
    \/ RotateMigration \/ RotateSync \/ RotateRestore

(* refreshOAuthToken after a 401: `force' is set.                          *)
BeginForced(c) ==
    /\ Is(c, "idle") /\ c \in Workers
    /\ calls < MaxCalls /\ calls' = calls + 1
    /\ call' = [Load(call, c, "local") EXCEPT ![c].force = TRUE]
    /\ UNCHANGED <<setup, job, lock, local, cloud, lost, faults, age>>

(* refreshLocks.lock(key): threads of one process queue here.              *)
TakeLocalLock(c) ==
    /\ Is(c, "local") /\ local = None
    /\ local' = c
    /\ call' = [call EXCEPT ![c].pc = "lock"]
    /\ UNCHANGED <<setup, job, lock, cloud, lost, calls, faults, age>>

TryClaimAlways(c) ==
    /\ Is(c, "lock")
    /\ lock' = c
    /\ call' = [call EXCEPT ![c].pc = "read"]
    /\ UNCHANGED <<setup, job, local, cloud, lost, calls, faults, age>>

TryClaimOAuthLock(c) ==
    /\ Is(c, "lock")
    /\ \/ /\ lock = None
          /\ lock' = c
          /\ call' = [call EXCEPT ![c].pc = "read"]
          /\ UNCHANGED local
       \/ \* claimed elsewhere: the daemon returns, the others wait, look at
          \* the row again and adopt a pair that is no longer due, or give up
          /\ lock # None
          /\ Return(c)
    /\ UNCHANGED <<setup, job, cloud, lost, calls, faults, age>>

(* The row is read again under the lock.                                   *)
Rereads(c) ==
    /\ Is(c, "read")
    /\ LET stored == row[RowOf(c)]
           skip   == IF c = "daemon"
                       THEN status # "RUNNING" \/ stored.age = "fresh"
                     ELSE IF call[c].force THEN call[c].touched
                     ELSE stored.age # "due"
       IN IF skip THEN Return(c)
          ELSE /\ call' = Load(call, c, "refresh")
               /\ UNCHANGED <<lock, local>>
    /\ UNCHANGED <<setup, job, cloud, lost, calls, faults, age>>

-----------------------------------------------------------------------------
(* oauth.RefreshToken: the call to the provider.                           *)

(* A provider with single-use tokens replaces the presented one; the others
   keep accepting it, and the response names no new one.                    *)
RefreshToken(c) ==
    /\ Is(c, "refresh") /\ call[c].rt \in live
    /\ next' = next + 1
    /\ live' = IF setup.single THEN (live \ {call[c].rt}) \cup {next} ELSE live
    /\ LET newRt == IF setup.single THEN next ELSE call[c].rt IN
       \/ /\ call' = [call EXCEPT ![c].pc = "persist", ![c].newRt = newRt,
                                  ![c].newAt = next]
          /\ UNCHANGED <<lock, local, lost, faults>>
       \/ \* the response is lost (timeout, broken connection)
          /\ Fault
          /\ lost' = IF setup.single THEN lost \cup {call[c].rt} ELSE lost
          /\ Return(c)
    /\ UNCHANGED <<setup, job, revoked, calls, age>>

(* 429, 5xx, no connection: nothing happened at the provider.              *)
RefreshFails(c) ==
    /\ Is(c, "refresh") /\ Fault
    /\ Return(c)
    /\ UNCHANGED <<setup, job, cloud, lost, calls, age>>

(* ErrRefreshTokenInvalid: the daemon looks whether someone else rotated the
   pair of a migration or sync job; a restore run is left alone.            *)
RefreshTokenInvalid(c) ==
    /\ Is(c, "refresh") /\ call[c].rt \notin live
    /\ IF c = "daemon" /\ setup.kind # "restore" THEN GoTo(c, "confirm")
       ELSE Return(c)
    /\ UNCHANGED <<setup, job, cloud, lost, calls, faults, age>>

isOAuthRotationAlreadyResolved(c) == row.job.at # call[c].at

(* A row that cannot be read tells the daemon nothing: it goes by the word of
   the provider.                                                            *)
ConfirmInvalid ==
    /\ Is("daemon", "confirm")
    /\ \/ isOAuthRotationAlreadyResolved("daemon") /\ Return("daemon")
       \/ GoTo("daemon", "fail")
    /\ UNCHANGED <<setup, job, cloud, lost, calls, faults, age>>

(* UpdateMigrationStatus / UpdateSyncJobStatus (FAILED): no condition.     *)
MarkFailed ==
    /\ Is("daemon", "fail")
    /\ status' = "FAILED"
    /\ Return("daemon")
    /\ UNCHANGED <<setup, row, cloud, lost, calls, faults, age>>

-----------------------------------------------------------------------------
(* Persisting the new pair: one compare-and-set per table.                 *)

UpdateOAuthTokens(c) ==
    /\ Is(c, "persist") /\ c # "user" /\ Matches(c)
    /\ StorePair(c)
    /\ call' = Touched(RowOf(c), c, [call EXCEPT ![c] = Idle])
    /\ lock' = IF lock = c THEN None ELSE lock
    /\ local' = IF local = c THEN None ELSE local
    /\ UNCHANGED <<setup, status, cloud, lost, calls, faults, age>>

UpdateMigrationOAuthTokens(c) ==
    RowOf(c) = "job" /\ setup.kind = "migration" /\ UpdateOAuthTokens(c)
UpdateSyncJobOAuthTokens(c) ==
    RowOf(c) = "job" /\ setup.kind = "sync" /\ UpdateOAuthTokens(c)
UpdateBackupJobOAuthTokens(c) ==
    RowOf(c) = "job" /\ setup.kind = "backup" /\ UpdateOAuthTokens(c)
UpdateRestoreRunOAuthTokens(c) ==
    /\ RowOf(c) = "job" /\ setup.kind = "restore" /\ status = "RUNNING"
    /\ UpdateOAuthTokens(c)
UpdateConnectionProfileOAuthTokens(c) ==
    RowOf(c) = "profile" /\ UpdateOAuthTokens(c)

(* ErrOAuthTokenConflict: workers, indexer, engine and restore readers adopt
   the stored winner; the daemon leaves; the others return the error.       *)
OAuthTokenConflict(c) ==
    /\ Is(c, "persist") /\ c # "user" /\ ~ Matches(c)
    /\ IF c \in Adopting THEN GoTo(c, "adopt") ELSE Return(c)
    /\ UNCHANGED <<setup, job, cloud, lost, calls, faults, age>>

(* The same error from a restore run that has ended, whose row takes no pair
   any more.                                                                *)
RestoreRunEnded(c) ==
    /\ Is(c, "persist") /\ c # "user" /\ RowOf(c) = "job" /\ setup.kind = "restore"
    /\ status # "RUNNING" /\ Matches(c)
    /\ lost' = IF setup.single THEN lost \cup {call[c].rt} ELSE lost
    /\ IF c \in Adopting THEN GoTo(c, "adopt") ELSE Return(c)
    /\ UNCHANGED <<setup, job, cloud, calls, faults, age>>

AdoptWinner(c) ==
    /\ Is(c, "adopt")
    /\ Return(c)
    /\ UNCHANGED <<setup, job, cloud, lost, calls, faults, age>>

(* The database cannot be reached: the pair is dropped with the error.     *)
PersistFails(c) ==
    /\ Is(c, "persist") /\ c # "user" /\ Fault
    /\ lost' = IF setup.single THEN lost \cup {call[c].rt} ELSE lost
    /\ Return(c)
    /\ UNCHANGED <<setup, job, cloud, calls, age>>

-----------------------------------------------------------------------------
(* The user signs in again: handleMigrationReauth and handleSyncReauth.    *)

ReauthLoad ==
    /\ Is("user", "idle") /\ setup.kind \in {"migration", "sync"}
    /\ calls < MaxCalls /\ calls' = calls + 1
    /\ call' = [Load(call, "user", "persist") EXCEPT !["user"].newRt = next,
                                                     !["user"].newAt = next]
    /\ live' = live \cup {next}
    /\ next' = next + 1
    /\ UNCHANGED <<setup, job, lock, local, revoked, lost, faults, age>>

ReauthStore ==
    /\ Is("user", "persist")
    /\ IF Matches("user")
       THEN /\ StorePair("user")
            /\ call' = Touched("job", "user", [call EXCEPT !["user"].pc = "status"])
       ELSE /\ call' = [call EXCEPT !["user"] = Idle]
            /\ UNCHANGED row
    /\ UNCHANGED <<setup, status, lock, local, cloud, lost, calls, faults, age>>

(* ResetFailedTasksForRetry; UpdateSyncJobStatus writes IDLE over any status *)
ReauthStatus ==
    /\ Is("user", "status")
    /\ status' = IF setup.kind = "sync" THEN "IDLE"
                 ELSE IF status = "FAILED" THEN "RUNNING" ELSE status
    /\ call' = Touched("job", "user", [call EXCEPT !["user"] = Idle])
    /\ UNCHANGED <<setup, row, lock, local, cloud, lost, calls, faults, age>>

-----------------------------------------------------------------------------
(* Time, crashes, the rest of the system.                                  *)

LockWithoutExpiry ==
    /\ lock # None
    /\ setup.slow /\ call[lock].pc # "idle"
    /\ lock' = None
    /\ UNCHANGED <<setup, job, local, call, cloud, lost, calls, faults, age>>

(* The 30 seconds of the Redis lock run out: for a holder that is gone, or
   in a slow world for one that is still at work.                           *)
LockExpires ==
    /\ lock # None
    /\ setup.slow \/ call[lock].pc = "idle"
    /\ lock' = None
    /\ UNCHANGED <<setup, job, local, call, cloud, lost, calls, faults, age>>

GrowOlder(r) ==
    /\ age < MaxAge /\ row[r].age # "due"
    /\ age' = age + 1
    /\ row' = [row EXCEPT ![r].age = IF @ = "fresh" THEN "soon" ELSE "due"]
    /\ UNCHANGED <<setup, status, lock, local, call, cloud, lost, calls, faults>>

(* A process dies: its in-process mutex goes, its Redis locks stay.        *)
WorkerProcess == Workers \cup Readers \cup {"coordinator"}

Crash(P) ==
    /\ \E c \in P : call[c].pc # "idle"
    /\ Fault
    /\ call' = [c \in Caller |-> IF c \in P THEN Idle ELSE call[c]]
    /\ local' = IF local \in P THEN None ELSE local
    /\ lost' = lost \cup {call[c].rt : c \in {d \in P \ {"user"} :
                                setup.single /\ Is(d, "persist")}}
    /\ UNCHANGED <<setup, job, lock, cloud, calls, age>>

(* The user withdraws the grant at the provider.                           *)
Revoke ==
    /\ revoked = {} /\ Fault
    /\ revoked' = live
    /\ live' = {}
    /\ UNCHANGED <<setup, job, lock, local, call, next, lost, calls, age>>

(* Counters, leases and status changes write updated_at of the job's row.  *)
JobGoesOn ==
    /\ \E c \in Workers : call[c].pc # "idle" /\ ~ call[c].touched
    /\ call' = Touched("job", None, call)
    /\ UNCHANGED <<setup, job, lock, local, cloud, lost, calls, faults, age>>

(* Jobs are paused and resumed; a restore run ends once.                   *)
JobStartsOrStops ==
    /\ setup.kind = "restore" => status = "RUNNING"
    /\ calls < MaxCalls /\ calls' = calls + 1
    /\ status' = CASE status = "RUNNING" -> "IDLE" [] OTHER -> "RUNNING"
    /\ call' = Touched("job", None, call)
    /\ UNCHANGED <<setup, row, lock, local, cloud, lost, faults, age>>

-----------------------------------------------------------------------------
Step(c) ==
    \/ TakeLocalLock(c) \/ TryClaimOAuthLock(c) \/ Rereads(c)
    \/ RefreshToken(c) \/ RefreshTokenInvalid(c)
    \/ UpdateMigrationOAuthTokens(c) \/ UpdateSyncJobOAuthTokens(c)
    \/ UpdateBackupJobOAuthTokens(c) \/ UpdateRestoreRunOAuthTokens(c)
    \/ UpdateConnectionProfileOAuthTokens(c)
    \/ OAuthTokenConflict(c) \/ RestoreRunEnded(c) \/ AdoptWinner(c)

Next ==
    \/ \E c \in Caller : \/ Begin(c) \/ BeginForced(c) \/ Step(c)
                         \/ RefreshFails(c) \/ PersistFails(c)
    \/ BeginAny
    \/ \E P \in {WorkerProcess, Caller \ WorkerProcess} : Crash(P)
    \/ ConfirmInvalid \/ MarkFailed
    \/ ReauthLoad \/ ReauthStore \/ ReauthStatus
    \/ LockExpires \/ Revoke \/ JobGoesOn \/ JobStartsOrStops
    \/ \E r \in {"job", "profile"} : GrowOlder(r)

(* A call that was started goes on, the daemon ticks every five minutes and
   the Redis key of a dead process expires.                                 *)
Fairness ==
    /\ \A c \in Caller : WF_vars(Step(c))
    /\ WF_vars(RotateMigration \/ RotateSync \/ RotateRestore) /\ WF_vars(ConfirmInvalid) /\ WF_vars(MarkFailed)
    /\ WF_vars(ReauthStore \/ ReauthStatus)
    /\ WF_vars(LockExpires /\ call[lock].pc = "idle")

Spec     == Init /\ [][Next]_vars
FairSpec == Spec /\ Fairness

-----------------------------------------------------------------------------
Steps == {"idle", "local", "lock", "read", "refresh", "persist", "adopt",
          "confirm", "fail", "status"}

(* Every variable keeps its type: a caller is at one of its steps with a
   struct of tokens that were issued, and a refresh lock has one owner.     *)
TypeOK ==
    /\ setup \in Setups
    /\ \A r \in {"job", "profile"} :
         row[r].rt < next /\ row[r].at < next /\ row[r].age \in Ages
    /\ status \in {"RUNNING", "IDLE", "FAILED"}
    /\ lock \in Locking \cup {None} /\ local \in Workers \cup {None}
    /\ \A c \in Caller : /\ call[c].pc \in Steps
                         /\ call[c].newAt < next /\ call[c].rt < next
                         /\ call[c].pc = "persist" => call[c].newRt # 0
    /\ live \cup revoked \cup lost \subseteq 1..(next - 1)
    /\ calls \in 0..MaxCalls /\ faults \in 0..MaxFaults /\ age \in 0..MaxAge

(* The worlds in which no two rows hold the same single-use token (a profile
   and the job copied from it do: see the README on copied credentials).    *)
OwnCredential(s) == s.single => ~ s.shared

(* The worlds in which everybody who shares a single-use credential with the
   daemon takes the lock, and the lock outlives a refresh.  Restore readers
   and the backup coordinator take none, but the daemon never fails their
   rows; a browse request takes none either (see the README).               *)
LockedWorld(s) ==
    s.single /\ s.kind # "restore" /\ "daemon" \in s.callers
        => ~ s.slow /\ s.callers \subseteq Locking \cup Resolvers \cup {"user"}

(* A rotation is never lost by a race: the refresh token of a row is accepted
   by the provider, or a caller holds the successor and will store it over
   exactly this row, unless the user revoked the grant, a crash, a lost
   response or a failed write dropped the successor, or the row is that of a
   restore run that has ended
   (processor.go:1847-1850, docs/07-security.md: "encrypted and persisted
   atomically before the old refresh token is considered consumed").        *)
StoredTokenIsUsable ==
    \A r \in {"job", "profile"} :
        \/ row[r].rt \in live \cup revoked \cup lost
        \/ \E c \in Caller : /\ RowOf(c) = r /\ call[c].pc = "persist"
                             /\ call[c].newRt \in live \cup revoked
                             /\ call[c].at = row[r].at

(* The daemon fails a job only because its credential was revoked or lost,
   never because it lost the race against another refresh
   (isOAuthRotationAlreadyResolved: "caused by rotation race rather than real
   revocation").                                                            *)
FailedOnlyIfRevoked ==
    [][status' = "FAILED" /\ status # "FAILED"
         => call["daemon"].rt \in revoked \cup lost]_vars

(* Nobody puts an older access token over a newer one, neither a refresh
   that took long nor a sign-in of the user (UpdateSyncJobOAuthTokens:
   "prevent concurrent token rotation from overwriting a newer token pair").*)
StoredPairOnlyAdvances ==
    [][\A r \in {"job", "profile"} : row'[r].at >= row[r].at]_vars

(* The credential of a running job that is due does not stay due: the daemon
   or a worker renews it, or the job stops, or its grant is gone.  Nobody
   keeps the refresh lock for ever.                                         *)
JobUsesToken == /\ status = "RUNNING" /\ row.job.age = "due"
                /\ row.job.rt \in live /\ setup.kind # "backup"

DueIsRenewed == JobUsesToken ~> ~ JobUsesToken
=============================================================================

------------------------------ MODULE Accounts ------------------------------
(***************************************************************************)
(* Accounts, administration and renewable sessions.                        *)
(*                                                                         *)
(* The state is the users table, the refresh_tokens table and the one-time *)
(* tokens; the actors are requests that the API serves concurrently.  A    *)
(* handler is modelled statement by statement where another request can    *)
(* come between: what it read before is in its request record.  A          *)
(* transaction keeps its row locks (rowLock for a users row, `old' for a   *)
(* refresh token it deleted) and its advisory lock until it commits, and   *)
(* its writes are seen by others only then.  PostgreSQL runs it READ       *)
(* COMMITTED: a DELETE works on the rows that were there when it started,  *)
(* waits for the ones another transaction holds, and of two transactions   *)
(* that wait for each other one is rolled back.                            *)
(*                                                                         *)
(* Passwords, codes and tokens are numbers.  Every request comes with the  *)
(* right password or code, as a wrong one changes nothing but the attempt  *)
(* counters, which are left out like the rate limits.  must_change_password *)
(* is FALSE for every account the code creates and is left out too.        *)
(***************************************************************************)
EXTENDS Naturals

CONSTANTS
    Users,     \* ids of accounts, never used twice
    Requests,  \* requests served at the same time
    MaxOps,    \* bound: requests in a behaviour
    Nobody     \* no holder, no user

ASSUME NobodyAssumption == Nobody \notin Users \cup Requests
ASSUME MaxOpsAssumption == MaxOps \in Nat

VARIABLES
    user,       \* users: the committed row of every id
    sessions,   \* refresh_tokens: [id, user, chain, epoch, late]
    adminLock,  \* activeAdminMutationLockID
    setupLock,  \* initialAdminSetupLockID
    rowLock,    \* who holds the users row of an id
    req,        \* what every request is doing
    serial,     \* the next number for a token, a secret or a session chain
    hadAdmin,   \* history: there was an active administrator
    ops

tables == <<user, sessions>>
locks  == <<adminLock, setupLock, rowLock>>
vars   == <<tables, locks, req, serial, hadAdmin, ops>>

(* A users row.  secret and on are totp_secret_enc and totp_enabled, code is
   TRUE while the backup code is unused; reset and mail are the user's
   password reset and e-mail change tokens; the codes of two activations are
   not told apart.  History: proved is the secret a
   code was verified against when 2FA was enabled, spent how often the backup
   code or the reset token was accepted, epoch how often a transaction ended
   all sessions.                                                            *)
Row(role, active) ==
    [role |-> role, active |-> active, secret |-> 0, on |-> FALSE,
     code |-> FALSE, reset |-> "none", mail |-> "none",
     proved |-> 0, spentCode |-> 0, spentReset |-> 0, epoch |-> 0]

Exists(u)      == user[u].role \in {"USER", "ADMIN"}
ActiveAdmin(u) == user[u].role = "ADMIN" /\ user[u].active

(* The request record: its step, its operation, the account it is about, the
   refresh token it consumed, what it read.                                 *)
Free == [pc |-> "free", op |-> "none", user |-> Nobody, old |-> 0,
         chain |-> 0, epoch |-> 0, secret |-> 0, snap |-> {}]

Init ==
    /\ \/ user = [u \in Users |-> Row("NONE", FALSE)]      \* a new installation
       \/ \E A, U \in SUBSET Users :
            /\ A # {} /\ A \cap U = {}
            /\ user = [u \in Users |-> IF u \in A THEN Row("ADMIN", TRUE)
                                       ELSE IF u \in U THEN Row("USER", TRUE)
                                       ELSE Row("NONE", FALSE)]
    /\ sessions = {}
    /\ adminLock = Nobody
    /\ setupLock = Nobody
    /\ rowLock = [u \in Users |-> Nobody]
    /\ req = [r \in Requests |-> Free]
    /\ serial = 1
    /\ hadAdmin = (\E u \in Users : ActiveAdmin(u))
    /\ ops = 0

-----------------------------------------------------------------------------
At(r, p)   == req[r].pc = p
Goto(r, p) == req' = [req EXCEPT ![r].pc = p]
Finish(r)  == req' = [req EXCEPT ![r] = Free]

(* A request arrives: op about account u, first step p.                    *)
Arrive(r, op, u, p) ==
    /\ At(r, "free") /\ ops < MaxOps
    /\ ops' = ops + 1
    /\ req' = [req EXCEPT ![r] = [Free EXCEPT !.pc = p, !.op = op, !.user = u,
                                              !.epoch = user[u].epoch,
                                              !.secret = user[u].secret]]

(* COMMIT or ROLLBACK: every lock of the transaction is released.          *)
Unlock(r) ==
    /\ adminLock' = IF adminLock = r THEN Nobody ELSE adminLock
    /\ setupLock' = IF setupLock = r THEN Nobody ELSE setupLock
    /\ rowLock' = [u \in Users |-> IF rowLock[u] = r THEN Nobody ELSE rowLock[u]]

RowFree(r, u) == rowLock[u] \in {Nobody, r}

(* The refresh token s was deleted by a transaction that is still open.    *)
HeldByOther(r, s) == \E q \in Requests \ {r} : req[q].old = s.id

SessionsOf(u) == {s \in sessions : s.user = u}

SeenAdmin == hadAdmin' = (hadAdmin \/ \E u \in Users : user'[u].role = "ADMIN"
                                                        /\ user'[u].active)

-----------------------------------------------------------------------------
(* Creating accounts.                                                      *)

(* handleRegister, handleAdminCreateUser: one INSERT; the e-mail is unique. *)
CreateUser(u, role) ==
    /\ user[u].role = "NONE" /\ ops < MaxOps
    /\ role = "ADMIN" => \E a \in Users : ActiveAdmin(a)
    /\ ops' = ops + 1
    /\ user' = [user EXCEPT ![u] = Row(role, TRUE)]
    /\ SeenAdmin
    /\ UNCHANGED <<sessions, locks, req, serial>>

(* handleSetupAdmin: IsSetupRequired, then CreateInitialAdmin, which checks
   again under its advisory lock.                                           *)
SetupRequired == \A u \in Users : ~ Exists(u)

SetupAdmin(r, u) ==
    /\ user[u].role = "NONE" /\ SetupRequired
    /\ Arrive(r, "setup", u, "setup_lock")
    /\ UNCHANGED <<tables, locks, serial, hadAdmin>>

SetupWithoutLock(r) ==
    /\ At(r, "setup_lock")
    /\ Goto(r, "setup_check")
    /\ UNCHANGED <<tables, locks, serial, hadAdmin, ops>>

SetupLock(r) ==
    /\ At(r, "setup_lock") /\ setupLock = Nobody
    /\ setupLock' = r
    /\ Goto(r, "setup_check")
    /\ UNCHANGED <<tables, adminLock, rowLock, serial, hadAdmin, ops>>

SetupCheck(r) ==
    /\ At(r, "setup_check")
    /\ IF SetupRequired THEN Goto(r, "setup_insert") /\ UNCHANGED locks
       ELSE Finish(r) /\ Unlock(r)
    /\ UNCHANGED <<tables, serial, hadAdmin, ops>>

SetupInsert(r) ==
    /\ At(r, "setup_insert")
    /\ IF user[req[r].user].role = "NONE"
       THEN /\ user' = [user EXCEPT ![req[r].user] = Row("ADMIN", TRUE)]
            /\ Goto(r, "issue")
       ELSE UNCHANGED user /\ Finish(r)          \* unique violation
    /\ Unlock(r)
    /\ SeenAdmin
    /\ UNCHANGED <<sessions, serial, ops>>

-----------------------------------------------------------------------------
(* Administration: SuspendUser, DeleteUser, UpdateUserRole.                *)

(* adminActorID read the actor's role when the request arrived; nobody
   suspends, deletes or demotes himself.                                    *)
AdminRequest(r, op, u) ==
    /\ \E a \in Users \ {u} : ActiveAdmin(a)
    /\ Exists(u)
    /\ Arrive(r, op, u, "admin_lock")
    /\ UNCHANGED <<tables, locks, serial, hadAdmin>>

handleAdminSuspendUser(r, u) == AdminRequest(r, "suspend", u)
handleAdminDeleteUser(r, u)  == AdminRequest(r, "delete", u)
handleAdminUpdateRole(r, u)  == AdminRequest(r, "demote", u)

NoAdminLock(r) ==
    /\ At(r, "admin_lock")
    /\ Goto(r, "ensure")
    /\ UNCHANGED <<tables, locks, serial, hadAdmin, ops>>

beginActiveAdminMutation(r) ==
    /\ At(r, "admin_lock") /\ adminLock = Nobody
    /\ adminLock' = r
    /\ Goto(r, "ensure")
    /\ UNCHANGED <<tables, setupLock, rowLock, serial, hadAdmin, ops>>

LastActiveAdmin(u) == ActiveAdmin(u) /\ \A a \in Users \ {u} : ~ ActiveAdmin(a)

(* SELECT ... FOR UPDATE on the target, then the count.                    *)
ensureNotLastActiveAdmin(r) ==
    /\ At(r, "ensure")
    /\ LET u == req[r].user IN
       IF ~ Exists(u) \/ LastActiveAdmin(u)
       THEN Finish(r) /\ Unlock(r)
       ELSE /\ RowFree(r, u)
            /\ rowLock' = [rowLock EXCEPT ![u] = r]
            /\ Goto(r, "mutate")
            /\ UNCHANGED <<adminLock, setupLock>>
    /\ UNCHANGED <<tables, serial, hadAdmin, ops>>

(* UPDATE users SET role; commit.                                          *)
DemoteCommit(r) ==
    /\ At(r, "mutate") /\ req[r].op = "demote"
    /\ user' = [user EXCEPT ![req[r].user].role = "USER"]
    /\ Finish(r) /\ Unlock(r)
    /\ UNCHANGED <<sessions, serial, hadAdmin, ops>>

(* handleAdminUpdateRole to ADMIN and UpdateUserActive(true).              *)
Promote(u) ==
    /\ user[u].role = "USER" /\ rowLock[u] = Nobody
    /\ \E a \in Users : ActiveAdmin(a)
    /\ ops < MaxOps /\ ops' = ops + 1
    /\ user' = [user EXCEPT ![u].role = "ADMIN"]
    /\ SeenAdmin
    /\ UNCHANGED <<sessions, locks, req, serial>>

Reactivate(u) ==
    /\ Exists(u) /\ ~ user[u].active /\ rowLock[u] = Nobody
    /\ \E a \in Users : ActiveAdmin(a)
    /\ ops < MaxOps /\ ops' = ops + 1
    /\ user' = [user EXCEPT ![u].active = TRUE]
    /\ SeenAdmin
    /\ UNCHANGED <<sessions, locks, req, serial>>

-----------------------------------------------------------------------------
(* Transactions that end every session of an account: SuspendUser,
   DeleteUser (by cascade), ClaimPasswordResetToken, ClaimEmailChangeToken.  *)

(* What the transaction writes to the users row before it deletes.         *)
SuspendUser(row) == [row EXCEPT !.active = FALSE]
DeleteUser(row)  == [row EXCEPT !.role = "GONE", !.active = FALSE]
ClaimPasswordResetToken(row) ==
    [row EXCEPT !.reset = "used", !.spentReset = @ + 1]
ClaimEmailChangeToken(row) == [row EXCEPT !.mail = "used"]

Written(op, row) == CASE op = "suspend" -> SuspendUser(row)
                      [] op = "delete"  -> DeleteUser(row)
                      [] op = "reset"   -> ClaimPasswordResetToken(row)
                      [] op = "email"   -> ClaimEmailChangeToken(row)

(* DELETE FROM refresh_tokens WHERE user_id = ... sees the tokens that are
   there when it starts.                                                    *)
DeleteStarts(r) ==
    /\ \/ At(r, "mutate") /\ req[r].op # "demote"
       \/ At(r, "delete_all")
    /\ req' = [req EXCEPT
         ![r].pc = IF @ = "mutate" THEN "delete_commit" ELSE "delete_seen",
         ![r].snap = {s.id : s \in SessionsOf(req[r].user)}]
    /\ UNCHANGED <<tables, locks, serial, hadAdmin, ops>>

SeenTokensAreFree(r) ==
    \A s \in sessions : s.id \in req[r].snap => ~ HeldByOther(r, s)

(* handleConfirmEmailChange deletes the sessions once more after the commit. *)
DeleteAgain(r) ==
    req' = [req EXCEPT ![r] = [Free EXCEPT !.pc = "delete_all", !.op = "email",
                                           !.user = req[r].user]]

(* It waits for the ones a rotation holds; then the transaction commits.   *)
DeleteSessions(r) ==
    /\ At(r, "delete_commit") /\ SeenTokensAreFree(r)
    /\ sessions' = {IF s.user = req[r].user /\ s.id = s.chain
                      THEN [s EXCEPT !.late = TRUE] ELSE s :
                     s \in {t \in sessions : t.id \notin req[r].snap}}
    /\ LET u == req[r].user IN
       user' = [user EXCEPT ![u] = [Written(req[r].op, user[u]) EXCEPT
                                         !.epoch = user[u].epoch + 1]]
    /\ IF req[r].op = "email" THEN DeleteAgain(r) ELSE Finish(r)
    /\ Unlock(r)
    /\ UNCHANGED <<serial, hadAdmin, ops>>

(* A token is stored and mailed to the user, who need not be active.       *)
CreateToken(u, row) ==
    /\ Exists(u) /\ rowLock[u] = Nobody
    /\ ops < MaxOps /\ ops' = ops + 1
    /\ user' = [user EXCEPT ![u] = row]
    /\ UNCHANGED <<sessions, locks, req, serial, hadAdmin>>

handleForgotPassword(u) ==
    CreateToken(u, [user[u] EXCEPT !.reset = "open", !.spentReset = 0])

handleChangeEmail(u) ==
    user[u].active /\ CreateToken(u, [user[u] EXCEPT !.mail = "open"])

(* The token is looked up, then claimed.                                   *)
handleResetPassword(r, u) ==
    /\ Exists(u) /\ user[u].reset = "open"
    /\ Arrive(r, "reset", u, "claim")
    /\ UNCHANGED <<tables, locks, serial, hadAdmin>>

handleConfirmEmailChange(r, u) ==
    /\ Exists(u) /\ user[u].mail = "open"
    /\ Arrive(r, "email", u, "claim")
    /\ UNCHANGED <<tables, locks, serial, hadAdmin>>

(* UPDATE ... WHERE used = FALSE is checked again once the row lock is free;
   the e-mail token was only read, and is marked without a condition.       *)
TokenStillOpen(r) ==
    /\ Exists(req[r].user)
    /\ req[r].op = "reset" => user[req[r].user].reset = "open"

ClaimToken(r) ==
    /\ At(r, "claim") /\ RowFree(r, req[r].user)
    /\ IF TokenStillOpen(r)
       THEN rowLock' = [rowLock EXCEPT ![req[r].user] = r] /\ Goto(r, "mutate")
       ELSE UNCHANGED rowLock /\ Finish(r)
    /\ UNCHANGED <<tables, adminLock, setupLock, serial, hadAdmin, ops>>

-----------------------------------------------------------------------------
(* Sessions: handleLogin, handleTOTP, handleRefresh, handleLogout.         *)

(* The account is loaded once; active and totp_enabled are tested on that. *)
Login(r, u) ==
    /\ Exists(u) /\ user[u].active
    /\ Arrive(r, "login", u, IF user[u].on THEN "totp" ELSE "issue")
    /\ UNCHANGED <<tables, locks, serial, hadAdmin>>

(* handleTOTP loads the account again and accepts a code of its secret ...  *)
VerifyCode(r) ==
    /\ At(r, "totp")
    /\ IF Exists(req[r].user) /\ user[req[r].user].on
       THEN \/ Goto(r, "issue")
            \/ user[req[r].user].code /\ Goto(r, "backup_code")
       ELSE Finish(r)
    /\ UNCHANGED <<tables, locks, serial, hadAdmin, ops>>

CodeWasThere(r) == Exists(req[r].user)

(* ... or consumes a backup code, as handle2FADisable does: the UPDATE requires
   it to be there still.                                                    *)
CodeIsThere(r) == /\ Exists(req[r].user)
                  /\ user[req[r].user].on /\ user[req[r].user].code

ConsumeTOTPBackupCode(r) ==
    /\ At(r, "backup_code") /\ RowFree(r, req[r].user)
    /\ IF CodeIsThere(r)
       THEN /\ user' = [user EXCEPT ![req[r].user].code = FALSE,
                                    ![req[r].user].spentCode = @ + 1]
            /\ Goto(r, IF req[r].op = "disable2fa" THEN "write2fa" ELSE "issue")
       ELSE UNCHANGED user /\ Finish(r)
    /\ UNCHANGED <<sessions, locks, serial, hadAdmin, ops>>

(* issueTokens: INSERT INTO refresh_tokens.  Its foreign key waits for a
   transaction that locked the users row FOR UPDATE; a password reset holds
   the weaker lock of an UPDATE that changes no key.  `late' marks a session
   whose account was revoked after the handler loaded it.                   *)
issueTokens(r) ==
    /\ At(r, "issue")
    /\ rowLock[req[r].user] # Nobody => req[rowLock[req[r].user]].op = "reset"
    /\ IF Exists(req[r].user)
       THEN sessions' = sessions \cup
              {[id |-> serial, user |-> req[r].user, chain |-> serial,
                epoch |-> user[req[r].user].epoch,
                late |-> req[r].epoch # user[req[r].user].epoch]}
       ELSE UNCHANGED sessions
    /\ serial' = serial + 1
    /\ Finish(r)
    /\ UNCHANGED <<user, locks, hadAdmin, ops>>

ConsumeUnlocked(r, s) ==
    /\ s \in sessions
    /\ At(r, "free") /\ ops < MaxOps
    /\ ops' = ops + 1
    /\ req' = [req EXCEPT ![r] = [Free EXCEPT !.pc = "lock_user", !.op = "refresh",
                  !.user = s.user, !.old = s.id, !.chain = s.chain,
                  !.epoch = s.epoch]]
    /\ UNCHANGED <<tables, locks, serial, hadAdmin>>

(* DELETE ... RETURNING: waits while another transaction holds the token.  *)
ConsumeRefreshToken(r, s) ==
    /\ s \in sessions /\ ~ HeldByOther(r, s)
    /\ At(r, "free") /\ ops < MaxOps
    /\ ops' = ops + 1
    /\ req' = [req EXCEPT ![r] = [Free EXCEPT !.pc = "lock_user", !.op = "refresh",
                  !.user = s.user, !.old = s.id, !.chain = s.chain,
                  !.epoch = s.epoch]]
    /\ UNCHANGED <<tables, locks, serial, hadAdmin>>

RefreshUnlocked(r) ==
    /\ At(r, "lock_user")
    /\ Goto(r, "rotate")
    /\ UNCHANGED <<tables, locks, serial, hadAdmin, ops>>

(* SELECT active ... FOR UPDATE: a disabled account loses all its sessions. *)
RefreshLockUser(r) ==
    /\ At(r, "lock_user") /\ RowFree(r, req[r].user)
    /\ LET u == req[r].user IN
       /\ rowLock' = [rowLock EXCEPT ![u] = r]
       /\ Goto(r, IF user[u].active THEN "rotate" ELSE "delete_all")
    /\ UNCHANGED <<tables, adminLock, setupLock, serial, hadAdmin, ops>>

RefreshCommit(r) ==
    /\ At(r, "rotate")
    /\ sessions' = {s \in sessions : s.id # req[r].old} \cup
         {[id |-> serial, user |-> req[r].user, chain |-> req[r].chain,
           epoch |-> req[r].epoch,
           late |-> \E s \in sessions : s.id = req[r].old /\ s.late]}
    /\ serial' = serial + 1
    /\ Finish(r) /\ Unlock(r)
    /\ UNCHANGED <<user, hadAdmin, ops>>

(* handleLogout, handleDeleteSession.                                      *)
DeleteRefreshToken(s) ==
    /\ s \in sessions /\ \A q \in Requests : req[q].old # s.id
    /\ ops < MaxOps /\ ops' = ops + 1
    /\ sessions' = sessions \ {s}
    /\ UNCHANGED <<user, locks, req, serial, hadAdmin>>

(* handleChangePassword: two statements outside a transaction; the DELETE
   works on the tokens it saw and waits for the ones held by a rotation.    *)
ChangePassword(r, u) ==
    /\ Exists(u) /\ user[u].active /\ rowLock[u] = Nobody
    /\ Arrive(r, "password", u, "delete_all")
    /\ UNCHANGED <<tables, locks, serial, hadAdmin>>

DeleteAllRefreshTokensForUser(r) ==
    /\ At(r, "delete_seen") /\ SeenTokensAreFree(r)
    /\ sessions' = {s \in sessions : s.id \notin req[r].snap}
    /\ Finish(r) /\ Unlock(r)
    /\ UNCHANGED <<user, serial, hadAdmin, ops>>

(* Two transactions wait for each other, one of them is rolled back.       *)
WaitsForRow(r, q) == /\ req[r].pc \in {"lock_user", "claim", "ensure"}
                     /\ req[r].user # Nobody /\ rowLock[req[r].user] = q
WaitsForToken(r, q) == /\ req[r].pc \in {"delete_commit", "delete_seen"}
                       /\ req[q].old # 0 /\ req[q].old \in req[r].snap

DeadlockAbort(r) ==
    /\ \E q \in Requests \ {r} : \/ WaitsForRow(r, q) /\ WaitsForToken(q, r)
                                 \/ WaitsForRow(q, r) /\ WaitsForToken(r, q)
    /\ Finish(r) /\ Unlock(r)
    /\ UNCHANGED <<tables, serial, hadAdmin, ops>>

-----------------------------------------------------------------------------
(* Two-factor authentication: setup, enable, disable.                      *)

Request2FA(r, op, u, p) ==
    /\ Exists(u) /\ user[u].active
    /\ Arrive(r, op, u, p)
    /\ UNCHANGED <<tables, locks, serial, hadAdmin>>

handle2FASetup(r, u) == ~ user[u].on /\ Request2FA(r, "setup2fa", u, "write2fa")

(* The code that came with the request was checked against the secret.     *)
handle2FAEnable(r, u) ==
    ~ user[u].on /\ user[u].secret # 0 /\ Request2FA(r, "enable2fa", u, "write2fa")

(* A code of the secret is enough; a backup code is consumed first.        *)
handle2FADisable(r, u) ==
    /\ user[u].on
    /\ \/ Request2FA(r, "disable2fa", u, "write2fa")
       \/ user[u].code /\ Request2FA(r, "disable2fa", u, "backup_code")

SetUserTOTPSecret(r) ==
    /\ At(r, "write2fa") /\ req[r].op = "setup2fa" /\ RowFree(r, req[r].user)
    /\ user' = IF ~ Exists(req[r].user) \/ user[req[r].user].on THEN user
               ELSE [user EXCEPT ![req[r].user].secret = serial]
    /\ serial' = serial + 1
    /\ Finish(r)
    /\ UNCHANGED <<sessions, locks, hadAdmin, ops>>

(* WHERE totp_enabled = FALSE AND totp_secret_enc = the verified one       *)
CanEnable(r) == /\ Exists(req[r].user) /\ ~ user[req[r].user].on
                /\ user[req[r].user].secret = req[r].secret

EnableUserTOTP(r) ==
    /\ At(r, "write2fa") /\ req[r].op = "enable2fa" /\ RowFree(r, req[r].user)
    /\ user' = IF CanEnable(r)
                 THEN [user EXCEPT ![req[r].user].on = TRUE,
                                   ![req[r].user].code = TRUE,
                                   ![req[r].user].spentCode = 0,
                                   ![req[r].user].proved = req[r].secret]
               ELSE user
    /\ Finish(r)
    /\ UNCHANGED <<sessions, locks, serial, hadAdmin, ops>>

(* handle2FADisable: the write carries no condition.                       *)
DisableUserTOTP(r) ==
    /\ At(r, "write2fa") /\ req[r].op = "disable2fa" /\ RowFree(r, req[r].user)
    /\ user' = IF Exists(req[r].user)
                 THEN [user EXCEPT ![req[r].user].on = FALSE,
                                   ![req[r].user].secret = 0,
                                   ![req[r].user].code = FALSE]
               ELSE user
    /\ Finish(r)
    /\ UNCHANGED <<sessions, locks, serial, hadAdmin, ops>>

-----------------------------------------------------------------------------
Arrivals(r) ==
    \E u \in Users :
        \/ SetupAdmin(r, u) \/ Login(r, u) \/ ChangePassword(r, u)
        \/ handleAdminSuspendUser(r, u) \/ handleAdminDeleteUser(r, u)
        \/ handleAdminUpdateRole(r, u)
        \/ handleResetPassword(r, u) \/ handleConfirmEmailChange(r, u)
        \/ handle2FASetup(r, u) \/ handle2FAEnable(r, u) \/ handle2FADisable(r, u)

Statements(r) ==
    \/ SetupLock(r) \/ SetupCheck(r) \/ SetupInsert(r)
    \/ beginActiveAdminMutation(r) \/ ensureNotLastActiveAdmin(r)
    \/ DemoteCommit(r) \/ DeleteSessions(r) \/ ClaimToken(r)
    \/ VerifyCode(r) \/ ConsumeTOTPBackupCode(r) \/ issueTokens(r)
    \/ RefreshLockUser(r) \/ RefreshCommit(r)
    \/ DeleteStarts(r) \/ DeleteAllRefreshTokensForUser(r) \/ DeadlockAbort(r)
    \/ SetUserTOTPSecret(r) \/ EnableUserTOTP(r) \/ DisableUserTOTP(r)

Next ==
    \/ \E r \in Requests : \/ Arrivals(r) \/ Statements(r)
                           \/ \E s \in sessions : ConsumeRefreshToken(r, s)
    \/ \E s \in sessions : DeleteRefreshToken(s)
    \/ \E u \in Users : \/ \E role \in {"USER", "ADMIN"} : CreateUser(u, role)
                        \/ Promote(u) \/ Reactivate(u)
                        \/ handleForgotPassword(u) \/ handleChangeEmail(u)

Spec == Init /\ [][Next]_vars

-----------------------------------------------------------------------------
(* The tables and locks keep their types; a row lock is held by a request
   that is inside a transaction on that row.                                *)
TypeOK ==
    /\ \A u \in Users : /\ user[u].role \in {"NONE", "USER", "ADMIN", "GONE"}
                        /\ user[u].active \in BOOLEAN
                        /\ rowLock[u] \in Requests \cup {Nobody}
                        /\ rowLock[u] # Nobody => req[rowLock[u]].user = u
    /\ {adminLock, setupLock} \subseteq Requests \cup {Nobody}
    /\ \A s \in sessions : Exists(s.user) /\ s.id < serial /\ s.chain <= s.id

(* Once there is an active administrator there is always one, whatever two
   administrators do to each other and to themselves at the same time
   (beginActiveAdminMutation, ensureNotLastActiveAdmin).                    *)
AdminRemains == hadAdmin => \E u \in Users : ActiveAdmin(u)

(* A suspension, a deletion, a password reset or a confirmed e-mail change
   ends every session opened before it: no rotation that runs at the same
   time carries one over (SuspendUser: "prevents a refresh request from
   surviving the suspension by rotating its token concurrently").  Only a
   login that had loaded the account before stores one afterwards.          *)
RevocationIsFinal ==
    \A s \in sessions : s.late \/ s.epoch = user[s.user].epoch

(* Concurrent uses of one refresh token leave one successor: no two sessions
   come from the same login (handleRefresh: "exactly one request able to
   continue").                                                              *)
OneSessionPerChain ==
    \A s, t \in sessions : s.chain = t.chain => s = t

(* 2FA is only ever enabled with the secret a code was checked against, even
   if another setup replaced the secret in between.  A backup code is accepted
   once, by a login or by the request that disables 2FA, and a password reset
   token is (EnableUserTOTP, ConsumeTOTPBackupCode, ClaimPasswordResetToken). *)
SecretsAreHonoured ==
    \A u \in Users : /\ user[u].on => user[u].secret = user[u].proved
                     /\ user[u].spentCode <= 1 /\ user[u].spentReset <= 1

(* The setup of an empty installation creates the first administrator and
   never another one, however many browsers send it at once
   (CreateInitialAdmin: "atomically claims an empty installation").         *)
SetupIsTheFirst ==
    [][(\E r \in Requests : At(r, "setup_insert") /\ req'[r].pc = "issue")
         => \A u \in Users : user[u].role # "ADMIN"]_vars

=============================================================================

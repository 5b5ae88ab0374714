--------------------------- MODULE AccountsProofs ---------------------------
(***************************************************************************)
(* An installation that ever had an active administrator keeps one; no     *)
(* rotation outlives a revocation; a chain has one session; secrets, backup *)
(* codes and reset tokens are honoured once; the setup makes the first     *)
(* administrator only: for any numbers of accounts and requests.           *)
(*                                                                         *)
(* AdminRemains is not inductive: a demotion that has counted the other    *)
(* administrators commits later.  Three facts carry the argument.  Whoever *)
(* is between the count and the commit holds the advisory lock, so there   *)
(* is one such request (AdminLocked); it holds the row of the account it   *)
(* counted for, so nobody promotes or reactivates that account meanwhile   *)
(* (RowLocked); and what it counted is still true (CountStillTrue).        *)
(***************************************************************************)
EXTENDS Accounts, TLAPS

TokenStates == {"none", "open", "used"}

UserRow ==
    [role : {"NONE", "USER", "ADMIN", "GONE"}, active : BOOLEAN, secret : Nat,
     on : BOOLEAN, code : BOOLEAN, reset : TokenStates, mail : TokenStates,
     proved : Nat, spentCode : Nat, spentReset : Nat, epoch : Nat]

Session == [id : Nat, user : Users, chain : Nat, epoch : Nat, late : BOOLEAN]

Pcs == {"free", "setup_lock", "setup_check", "setup_insert", "issue", "admin_lock",
        "ensure", "mutate", "delete_commit", "delete_all", "delete_seen", "claim",
        "totp", "backup_code", "lock_user", "rotate", "write2fa"}

Ops == {"none", "setup", "suspend", "delete", "demote", "reset", "email", "login",
        "refresh", "password", "setup2fa", "enable2fa", "disable2fa"}

RequestRecord ==
    [pc : Pcs, op : Ops, user : Users \cup {Nobody}, old : Nat,
     chain : Nat, epoch : Nat, secret : Nat, snap : SUBSET Nat]

Holder == Requests \cup {Nobody}

\* The types of the tables, the locks and the request records.
Types ==
    /\ user \in [Users -> UserRow]
    /\ sessions \subseteq Session
    /\ adminLock \in Holder /\ setupLock \in Holder
    /\ rowLock \in [Users -> Holder]
    /\ req \in [Requests -> RequestRecord]
    /\ serial \in Nat /\ ops \in Nat /\ hadAdmin \in BOOLEAN
    /\ \A r \in Requests : req[r].pc # "free" => req[r].user \in Users

AdminOps == {"suspend", "delete", "demote"}

\* r has counted the other administrators and not committed yet.
Counted(r) == req[r].op \in AdminOps /\ req[r].pc \in {"mutate", "delete_commit"}

OpsFit ==
    \A r \in Requests :
        /\ req[r].pc \in {"admin_lock", "ensure"} => req[r].op \in AdminOps
        /\ req[r].pc = "claim" => req[r].op \in {"reset", "email"}
        /\ req[r].pc = "mutate" => req[r].op \in AdminOps \cup {"reset", "email"}
        /\ req[r].pc = "delete_commit" =>
              req[r].op \in {"suspend", "delete", "reset", "email"}

AdminLocked ==
    \A r \in Requests : req[r].pc = "ensure" \/ Counted(r) => adminLock = r

RowLocked ==
    \A r \in Requests : Counted(r) => rowLock[req[r].user] = r

CountStillTrue ==
    \A r \in Requests : Counted(r) =>
        /\ Exists(req[r].user)
        /\ ActiveAdmin(req[r].user) => \E a \in Users \ {req[r].user} : ActiveAdmin(a)

\* What a request holds between the count and the commit.
Guarded == AdminLocked /\ RowLocked /\ CountStillTrue

\* The inductive invariant.
AdminInv == Types /\ OpsFit /\ Guarded /\ AdminRemains

-----------------------------------------------------------------------------
(* What most steps have in common.                                         *)

\* No account changes its role or its active flag.
SameStanding ==
    \A u \in Users : user'[u].role = user[u].role /\ user'[u].active = user[u].active

\* A step of r that neither counts nor commits, and releases only r's locks.
Calm(r) ==
    /\ \A q \in Requests \ {r} : req'[q] = req[q]
    /\ req'[r].pc # "ensure" /\ ~ Counted(r)'
    /\ adminLock' = adminLock \/ adminLock = r
    /\ \A u \in Users : rowLock'[u] = rowLock[u] \/ rowLock[u] \in {Nobody, r}

\* A request between the count and the commit still holds what it held.
LEMMA CalmStep ==
    ASSUME AdminInv, NEW r \in Requests, Calm(r), SameStanding, hadAdmin' = hadAdmin
    PROVE  Guarded' /\ AdminRemains'
<1> USE DEF AdminInv
<1>1. ASSUME NEW q \in Requests, req'[q].pc = "ensure" \/ Counted(q)'
      PROVE  q # r /\ req'[q] = req[q]
  BY <1>1 DEF Calm, Counted
<1>2. ASSUME NEW q \in Requests, Counted(q)'
      PROVE  Counted(q) /\ req'[q].user = req[q].user /\ req[q].user \in Users /\ q # Nobody
  BY <1>1, <1>2, NobodyAssumption DEF Counted, Types
<1>3. AdminLocked'
  BY <1>1 DEF AdminLocked, Guarded, Counted, Calm
<1>4. RowLocked'
  BY <1>1, <1>2 DEF RowLocked, Guarded, Calm
<1>5. CountStillTrue'
  BY <1>2 DEF CountStillTrue, Guarded, SameStanding, Exists, ActiveAdmin
<1>6. AdminRemains'
  BY DEF AdminRemains, SameStanding, ActiveAdmin
<1> QED  BY <1>3, <1>4, <1>5, <1>6 DEF Guarded

\* The types of the parts that a request changes without touching a row.
LEMMA UnlockTypes ==
    ASSUME Types, NEW r \in Requests, Unlock(r)
    PROVE  /\ adminLock' \in Holder /\ setupLock' \in Holder /\ rowLock' \in [Users -> Holder]
           /\ adminLock' = adminLock \/ adminLock = r
           /\ \A u \in Users : rowLock'[u] = rowLock[u] \/ rowLock[u] \in {Nobody, r}
  BY DEF Types, Unlock, Holder

LEMMA FreeTypes ==
    Free \in RequestRecord /\ Free.pc = "free" /\ Free.op = "none"
<1>1. {} \in SUBSET Nat  OBVIOUS
<1>2. Free \in RequestRecord  BY <1>1 DEF Free, RequestRecord, Pcs, Ops
<1>3. Free.pc = "free" /\ Free.op = "none"  BY DEF Free
<1> QED  BY <1>2, <1>3

LEMMA FinishTypes ==
    ASSUME Types, OpsFit, NEW r \in Requests, Finish(r)
    PROVE  /\ req' \in [Requests -> RequestRecord] /\ OpsFit'
           /\ \A q \in Requests : req'[q].pc # "free" => req'[q].user \in Users
           /\ \A q \in Requests \ {r} : req'[q] = req[q]
           /\ req'[r].pc # "ensure" /\ ~ Counted(r)'
  BY FreeTypes DEF Types, OpsFit, Finish, Counted, AdminOps

LEMMA AgainFields ==
    ASSUME Types, NEW r \in Requests, DeleteAgain(r), req[r].user \in Users
    PROVE  /\ req'[r] \in RequestRecord /\ \A q \in Requests \ {r} : req'[q] = req[q]
           /\ req' \in [Requests -> RequestRecord]
           /\ req'[r].pc = "delete_all" /\ req'[r].op = "email"
           /\ req'[r].user = req[r].user /\ req'[r].old = 0
<1> DEFINE v == req[r].user
           new == [Free EXCEPT !.pc = "delete_all", !.op = "email", !.user = v]
<1>1. req' = [req EXCEPT ![r] = new]  BY DEF DeleteAgain
<1> HIDE DEF v
<1>2. v \in Users  BY DEF v
<1>3. new \in RequestRecord  BY <1>2, FreeTypes DEF RequestRecord, Pcs, Ops
<1>4. new.pc = "delete_all" /\ new.op = "email" /\ new.user = v /\ new.old = 0
  BY DEF Free
<1> HIDE DEF new
<1>5. req'[r] = new /\ \A q \in Requests \ {r} : req'[q] = req[q]  BY <1>1 DEF Types
<1>6. req' \in [Requests -> RequestRecord]  BY <1>1, <1>3 DEF Types
<1> QED  BY <1>3, <1>4, <1>5, <1>6 DEF v

LEMMA AgainTypes ==
    ASSUME Types, OpsFit, NEW r \in Requests, DeleteAgain(r), req[r].user \in Users
    PROVE  /\ req' \in [Requests -> RequestRecord] /\ OpsFit'
           /\ \A q \in Requests : req'[q].pc # "free" => req'[q].user \in Users
           /\ \A q \in Requests \ {r} : req'[q] = req[q]
           /\ req'[r].pc # "ensure" /\ ~ Counted(r)'
  BY AgainFields DEF Types, OpsFit, Counted, AdminOps

LEMMA GotoTypes ==
    ASSUME Types, NEW r \in Requests, NEW p \in Pcs, Goto(r, p), req[r].pc # "free"
    PROVE  /\ req' \in [Requests -> RequestRecord]
           /\ \A q \in Requests : req'[q].pc # "free" => req'[q].user \in Users
           /\ \A q \in Requests \ {r} : req'[q] = req[q]
           /\ req'[r] = [req[r] EXCEPT !.pc = p]
           /\ req'[r].pc = p /\ req'[r].op = req[r].op /\ req'[r].user = req[r].user
           /\ req[r].user \in Users
  BY DEF Types, Goto, RequestRecord

\* A request goes on to a step outside an administrator's transaction.
LEMMA PlainGoto ==
    ASSUME Types, OpsFit, NEW r \in Requests, NEW p \in Pcs, Goto(r, p), req[r].pc # "free",
           p \notin {"admin_lock", "ensure", "claim", "mutate", "delete_commit"}
    PROVE  OpsFit' /\ req'[r].pc # "ensure" /\ ~ Counted(r)'
<1>1. /\ \A q \in Requests \ {r} : req'[q] = req[q]
      /\ req'[r].pc = p
  BY GotoTypes
<1>2. OpsFit'
  <2> SUFFICES ASSUME NEW q \in Requests
               PROVE  /\ req'[q].pc \in {"admin_lock", "ensure"} => req'[q].op \in AdminOps
                      /\ req'[q].pc = "claim" => req'[q].op \in {"reset", "email"}
                      /\ req'[q].pc = "mutate" => req'[q].op \in AdminOps \cup {"reset", "email"}
                      /\ req'[q].pc = "delete_commit" =>
                           req'[q].op \in {"suspend", "delete", "reset", "email"}
    BY DEF OpsFit
  <2>1. CASE q = r  BY <2>1, <1>1
  <2>2. CASE q # r  BY <2>2, <1>1 DEF OpsFit
  <2> QED  BY <2>1, <2>2
<1> QED  BY <1>1, <1>2 DEF Counted

LEMMA ArriveTypes ==
    ASSUME Types, OpsFit, NEW r \in Requests, NEW u \in Users, NEW op \in Ops,
           NEW p \in Pcs \ {"ensure", "mutate", "delete_commit"}, Arrive(r, op, u, p),
           p = "admin_lock" => op \in AdminOps, p = "claim" => op \in {"reset", "email"}
    PROVE  /\ req' \in [Requests -> RequestRecord] /\ OpsFit' /\ ops' \in Nat
           /\ \A q \in Requests : req'[q].pc # "free" => req'[q].user \in Users
           /\ \A q \in Requests \ {r} : req'[q] = req[q]
           /\ req'[r].pc # "ensure" /\ ~ Counted(r)'
<1> DEFINE new == [Free EXCEPT !.pc = p, !.op = op, !.user = u,
                               !.epoch = user[u].epoch, !.secret = user[u].secret]
<1>1. new \in RequestRecord /\ new.pc = p /\ new.op = op /\ new.user = u
  BY DEF Free, RequestRecord, Types, UserRow
<1>2. req' = [req EXCEPT ![r] = new] /\ ops' = ops + 1
  BY DEF Arrive
<1> HIDE DEF new
<1>3. /\ req' \in [Requests -> RequestRecord] /\ req'[r] = new
      /\ \A q \in Requests \ {r} : req'[q] = req[q]
  BY <1>1, <1>2 DEF Types
<1>4. OpsFit'
  BY <1>1, <1>3 DEF OpsFit
<1> QED  BY <1>1, <1>2, <1>3, <1>4 DEF Types, Counted

-----------------------------------------------------------------------------
(* The steps, in the order of the module.                                  *)

ArrivalSteps == {"setup_lock", "totp", "issue", "delete_all", "admin_lock", "claim", "write2fa",
                 "backup_code"}

\* The arrivals in one form.
LEMMA ArrivalForm ==
    ASSUME NEW r \in Requests, Arrivals(r)
    PROVE  /\ \E u \in Users, op \in Ops \ {"refresh"}, p \in ArrivalSteps :
                /\ Arrive(r, op, u, p)
                /\ p = "admin_lock" => op \in AdminOps
                /\ p = "claim" => op \in {"reset", "email"}
           /\ UNCHANGED <<tables, locks, serial, hadAdmin>>
<1>1. PICK u \in Users :
        \/ SetupAdmin(r, u) \/ Login(r, u) \/ ChangePassword(r, u)
        \/ handleAdminSuspendUser(r, u) \/ handleAdminDeleteUser(r, u)
        \/ handleAdminUpdateRole(r, u)
        \/ handleResetPassword(r, u) \/ handleConfirmEmailChange(r, u)
        \/ handle2FASetup(r, u) \/ handle2FAEnable(r, u) \/ handle2FADisable(r, u)
  BY DEF Arrivals
<1> USE DEF Ops, ArrivalSteps
<1>2. CASE SetupAdmin(r, u)  BY <1>2 DEF SetupAdmin
<1>3. CASE Login(r, u)
  <2>1. CASE user[u].on  BY <1>3, <2>1 DEF Login
  <2>2. CASE ~ user[u].on  BY <1>3, <2>2 DEF Login
  <2> QED  BY <2>1, <2>2
<1>4. CASE ChangePassword(r, u)  BY <1>4 DEF ChangePassword
<1>5. CASE handleAdminSuspendUser(r, u) \/ handleAdminDeleteUser(r, u) \/ handleAdminUpdateRole(r, u)
  BY <1>5 DEF handleAdminSuspendUser, handleAdminDeleteUser, handleAdminUpdateRole, AdminRequest, AdminOps
<1>6. CASE handleResetPassword(r, u) \/ handleConfirmEmailChange(r, u)
  BY <1>6 DEF handleResetPassword, handleConfirmEmailChange
<1>7. CASE handle2FASetup(r, u) \/ handle2FAEnable(r, u) \/ handle2FADisable(r, u)
  BY <1>7 DEF handle2FASetup, handle2FAEnable, handle2FADisable, Request2FA
<1> QED  BY <1>1, <1>2, <1>3, <1>4, <1>5, <1>6, <1>7

LEMMA ArrivalStep ==
    ASSUME AdminInv, NEW r \in Requests, Arrivals(r)
    PROVE  AdminInv'
<1> USE DEF AdminInv
<1>1. PICK u \in Users, op \in Ops \ {"refresh"}, p \in ArrivalSteps :
        /\ Arrive(r, op, u, p)
        /\ p = "admin_lock" => op \in AdminOps
        /\ p = "claim" => op \in {"reset", "email"}
        /\ UNCHANGED <<tables, locks, serial, hadAdmin>>
  BY ArrivalForm
<1>2. p \in Pcs \ {"ensure", "mutate", "delete_commit"}  BY DEF Pcs, ArrivalSteps
<1>3. /\ req' \in [Requests -> RequestRecord] /\ OpsFit' /\ ops' \in Nat
      /\ \A q \in Requests : req'[q].pc # "free" => req'[q].user \in Users
      /\ \A q \in Requests \ {r} : req'[q] = req[q]
      /\ req'[r].pc # "ensure" /\ ~ Counted(r)'
  BY <1>1, <1>2, ArriveTypes
<1>4. Types'
  BY <1>1, <1>3 DEF Types, tables, locks
<1>5. Calm(r) /\ SameStanding
  BY <1>1, <1>3 DEF Calm, SameStanding, tables, locks
<1> QED  BY <1>1, <1>3, <1>4, <1>5, CalmStep

\* Steps that leave the users table alone and do not count.
LEMMA QuietStep ==
    ASSUME AdminInv, NEW r \in Requests,
           \/ SetupLock(r) \/ SetupCheck(r) \/ VerifyCode(r) \/ RefreshLockUser(r)
           \/ ClaimToken(r) \/ DeadlockAbort(r)
    PROVE  AdminInv'
<1> USE DEF AdminInv
<1>1. CASE SetupLock(r)
  <2>1. Goto(r, "setup_check") /\ req[r].pc # "free" /\ "setup_check" \in Pcs
    BY <1>1 DEF SetupLock, At, Pcs
  <2>2. Types'  BY <1>1, <2>1, GotoTypes DEF Types, SetupLock, tables, Holder
  <2>3. OpsFit'  BY <2>1, PlainGoto
  <2>4. Calm(r) /\ SameStanding /\ hadAdmin' = hadAdmin
    BY <1>1, <2>1, GotoTypes, PlainGoto DEF Calm, SameStanding, SetupLock, tables
  <2> QED  BY <2>2, <2>3, <2>4, CalmStep
<1>2. CASE SetupCheck(r)
  <2>1. CASE SetupRequired
    <3>1. Goto(r, "setup_insert") /\ req[r].pc # "free" /\ "setup_insert" \in Pcs /\ UNCHANGED locks
      BY <1>2, <2>1 DEF SetupCheck, At, Pcs
    <3>2. Types'  BY <1>2, <3>1, GotoTypes DEF Types, SetupCheck, tables, locks
    <3>3. OpsFit'  BY <3>1, PlainGoto
    <3>4. Calm(r) /\ SameStanding /\ hadAdmin' = hadAdmin
      BY <1>2, <3>1, GotoTypes, PlainGoto DEF Calm, SameStanding, SetupCheck, tables, locks
    <3> QED  BY <3>2, <3>3, <3>4, CalmStep
  <2>2. CASE ~ SetupRequired
    <3>1. Finish(r) /\ Unlock(r)  BY <1>2, <2>2 DEF SetupCheck
    <3>2. Types' /\ OpsFit'
      BY <1>2, <3>1, FinishTypes, UnlockTypes DEF Types, SetupCheck, tables
    <3>3. Calm(r) /\ SameStanding /\ hadAdmin' = hadAdmin
      BY <1>2, <3>1, FinishTypes, UnlockTypes DEF Calm, SameStanding, SetupCheck, tables
    <3> QED  BY <3>2, <3>3, CalmStep
  <2> QED  BY <2>1, <2>2
<1>3. CASE VerifyCode(r)
  <2>0. UNCHANGED <<tables, locks, serial, hadAdmin, ops>> /\ req[r].pc # "free"
    BY <1>3 DEF VerifyCode, At
  <2>1. CASE Finish(r)
    <3>1. Types' /\ OpsFit'  BY <2>0, <2>1, FinishTypes DEF Types, tables, locks
    <3>2. Calm(r) /\ SameStanding /\ hadAdmin' = hadAdmin
      BY <2>0, <2>1, FinishTypes DEF Calm, SameStanding, tables, locks
    <3> QED  BY <3>1, <3>2, CalmStep
  <2>2. ASSUME NEW p \in {"issue", "backup_code"}, Goto(r, p)  PROVE AdminInv'
    <3>1. p \in Pcs  BY DEF Pcs
    <3>2. Types'  BY <2>0, <2>2, <3>1, GotoTypes DEF Types, tables, locks
    <3>3. OpsFit'  BY <2>0, <2>2, <3>1, PlainGoto
    <3>4. Calm(r) /\ SameStanding /\ hadAdmin' = hadAdmin
      BY <2>0, <2>2, <3>1, GotoTypes, PlainGoto DEF Calm, SameStanding, tables, locks
    <3> QED  BY <3>2, <3>3, <3>4, CalmStep
  <2> QED  BY <1>3, <2>1, <2>2 DEF VerifyCode
<1>4. CASE RefreshLockUser(r)
  <2>0. PICK p \in {"rotate", "delete_all"} :
          /\ Goto(r, p) /\ req[r].pc # "free"
          /\ rowLock' = [rowLock EXCEPT ![req[r].user] = r] /\ RowFree(r, req[r].user)
          /\ UNCHANGED <<tables, adminLock, setupLock, serial, hadAdmin, ops>>
    BY <1>4 DEF RefreshLockUser, At
  <2>1. p \in Pcs  BY DEF Pcs
  <2>2. Types'  BY <2>0, <2>1, GotoTypes DEF Types, tables, Holder
  <2>3. OpsFit'  BY <2>0, <2>1, PlainGoto
  <2>4. Calm(r) /\ SameStanding /\ hadAdmin' = hadAdmin
    BY <2>0, <2>1, GotoTypes, PlainGoto DEF Calm, SameStanding, tables, RowFree, Types
  <2> QED  BY <2>2, <2>3, <2>4, CalmStep
<1>5. CASE ClaimToken(r)
  <2>0. /\ UNCHANGED <<tables, adminLock, setupLock, serial, hadAdmin, ops>>
        /\ req[r].pc = "claim" /\ req[r].pc # "free" /\ RowFree(r, req[r].user)
    BY <1>5 DEF ClaimToken, At
  <2>1. CASE Finish(r) /\ UNCHANGED rowLock
    <3>1. Types' /\ OpsFit'  BY <2>0, <2>1, FinishTypes DEF Types, tables
    <3>2. Calm(r) /\ SameStanding /\ hadAdmin' = hadAdmin
      BY <2>0, <2>1, FinishTypes DEF Calm, SameStanding, tables
    <3> QED  BY <3>1, <3>2, CalmStep
  <2>2. CASE Goto(r, "mutate") /\ rowLock' = [rowLock EXCEPT ![req[r].user] = r]
    <3>1. "mutate" \in Pcs  BY DEF Pcs
    <3>2. Types'  BY <2>0, <2>2, <3>1, GotoTypes DEF Types, tables, Holder
    <3>a. /\ req'[r].pc = "mutate" /\ req'[r].op = req[r].op
          /\ \A q \in Requests \ {r} : req'[q] = req[q]
      BY <2>0, <2>2, <3>1, GotoTypes
    <3>b. req[r].op \in {"reset", "email"}  BY <2>0 DEF OpsFit
    <3>3. OpsFit' /\ ~ Counted(r)'
      BY <3>a, <3>b DEF OpsFit, Counted, AdminOps
    <3>4. Calm(r) /\ SameStanding /\ hadAdmin' = hadAdmin
      BY <2>0, <2>2, <3>1, <3>3, GotoTypes DEF Calm, SameStanding, tables, RowFree, Types
    <3> QED  BY <3>2, <3>3, <3>4, CalmStep
  <2> QED  BY <1>5, <2>1, <2>2 DEF ClaimToken
<1>6. CASE DeadlockAbort(r)
  <2>1. Finish(r) /\ Unlock(r) /\ UNCHANGED <<tables, serial, hadAdmin, ops>>
    BY <1>6 DEF DeadlockAbort
  <2>2. Types' /\ OpsFit'  BY <2>1, FinishTypes, UnlockTypes DEF Types, tables
  <2>3. Calm(r) /\ SameStanding /\ hadAdmin' = hadAdmin
    BY <2>1, FinishTypes, UnlockTypes DEF Calm, SameStanding, tables
  <2> QED  BY <2>2, <2>3, CalmStep
<1> QED  BY <1>1, <1>2, <1>3, <1>4, <1>5, <1>6

-----------------------------------------------------------------------------
(* Steps on the sessions.                                                  *)

LEMMA SessionType ==
    ASSUME NEW i \in Nat, NEW u \in Users, NEW c \in Nat, NEW e \in Nat, NEW l \in BOOLEAN
    PROVE  [id |-> i, user |-> u, chain |-> c, epoch |-> e, late |-> l] \in Session
  BY DEF Session

LEMMA SessionStep ==
    ASSUME AdminInv, NEW r \in Requests,
           issueTokens(r) \/ RefreshCommit(r) \/ DeleteAllRefreshTokensForUser(r)
    PROVE  AdminInv'
<1> USE DEF AdminInv
<1>0. Finish(r) /\ UNCHANGED <<user, hadAdmin, ops>> /\ (Unlock(r) \/ UNCHANGED locks)
  BY DEF issueTokens, RefreshCommit, DeleteAllRefreshTokensForUser
<1>1. /\ adminLock' \in Holder /\ setupLock' \in Holder /\ rowLock' \in [Users -> Holder]
      /\ adminLock' = adminLock \/ adminLock = r
      /\ \A u \in Users : rowLock'[u] = rowLock[u] \/ rowLock[u] \in {Nobody, r}
  <2>1. CASE Unlock(r)  BY <2>1, UnlockTypes
  <2>2. CASE UNCHANGED locks  BY <2>2 DEF locks, Types
  <2> QED  BY <1>0, <2>1, <2>2
<1>2. sessions' \subseteq Session /\ serial' \in Nat
  <2>1. CASE issueTokens(r)
    <3>1. req[r].user \in Users  BY <2>1 DEF issueTokens, At, Types
    <3>2. (req[r].epoch # user[req[r].user].epoch) \in BOOLEAN  OBVIOUS
    <3>3. user[req[r].user].epoch \in Nat  BY <3>1 DEF Types, UserRow
    <3>4. [id |-> serial, user |-> req[r].user, chain |-> serial,
           epoch |-> user[req[r].user].epoch,
           late |-> req[r].epoch # user[req[r].user].epoch] \in Session
      BY <3>1, <3>2, <3>3, SessionType DEF Types
    <3> QED  BY <2>1, <3>4 DEF issueTokens, Types
  <2>2. CASE RefreshCommit(r)
    <3>1. req[r].user \in Users  BY <2>2 DEF RefreshCommit, At, Types
    <3>2. (\E s \in sessions : s.id = req[r].old /\ s.late) \in BOOLEAN  OBVIOUS
    <3>3. req[r].chain \in Nat /\ req[r].epoch \in Nat  BY DEF Types, RequestRecord
    <3>4. [id |-> serial, user |-> req[r].user, chain |-> req[r].chain,
           epoch |-> req[r].epoch,
           late |-> \E s \in sessions : s.id = req[r].old /\ s.late] \in Session
      BY <3>1, <3>2, <3>3, SessionType DEF Types
    <3>5. PICK n \in Session : sessions' = {s \in sessions : s.id # req[r].old} \cup {n}
      BY <2>2, <3>4, Zenon DEF RefreshCommit
    <3>6. sessions' \subseteq Session  BY <3>5 DEF Types
    <3>7. serial' \in Nat  BY <2>2 DEF RefreshCommit, Types
    <3> QED  BY <3>6, <3>7
  <2>3. CASE DeleteAllRefreshTokensForUser(r)
    BY <2>3 DEF DeleteAllRefreshTokensForUser, Types
  <2> QED  BY <2>1, <2>2, <2>3
<1>3. Types' /\ OpsFit'
  BY <1>0, <1>1, <1>2, FinishTypes DEF Types
<1>4. Calm(r) /\ SameStanding
  BY <1>0, <1>1, FinishTypes DEF Calm, SameStanding
<1> QED  BY <1>0, <1>3, <1>4, CalmStep

LEMMA ConsumeStep ==
    ASSUME AdminInv, NEW r \in Requests, NEW s \in sessions, ConsumeRefreshToken(r, s)
    PROVE  AdminInv'
<1> USE DEF AdminInv
<1> DEFINE new == [Free EXCEPT !.pc = "lock_user", !.op = "refresh", !.user = s.user,
                               !.old = s.id, !.chain = s.chain, !.epoch = s.epoch]
<1>0. s \in Session  BY DEF Types
<1>1. new \in RequestRecord /\ new.pc = "lock_user" /\ new.user = s.user /\ s.user \in Users
  BY <1>0, FreeTypes DEF RequestRecord, Session, Pcs, Ops
<1>2. /\ req' = [req EXCEPT ![r] = new] /\ ops' = ops + 1
      /\ UNCHANGED <<tables, locks, serial, hadAdmin>>
  BY DEF ConsumeRefreshToken
<1> HIDE DEF new
<1>3. /\ req' \in [Requests -> RequestRecord] /\ req'[r] = new
      /\ \A q \in Requests \ {r} : req'[q] = req[q]
  BY <1>1, <1>2 DEF Types
<1>4. Types'  BY <1>1, <1>2, <1>3 DEF Types, tables, locks
<1>5. OpsFit'  BY <1>1, <1>3 DEF OpsFit
<1>6. Calm(r) /\ SameStanding
  BY <1>1, <1>2, <1>3 DEF Calm, SameStanding, Counted, tables, locks
<1> QED  BY <1>2, <1>4, <1>5, <1>6, CalmStep

\* A step that changes no request and no lock.
LEMMA IdleStep ==
    ASSUME AdminInv, Types', UNCHANGED <<locks, req>>, SameStanding, hadAdmin' = hadAdmin
    PROVE  AdminInv'
<1> USE DEF AdminInv
<1>1. OpsFit'  BY DEF OpsFit
<1>2. AdminLocked' /\ RowLocked'
  BY DEF Guarded, AdminLocked, RowLocked, Counted, locks
<1>3. CountStillTrue'
  <2> SUFFICES ASSUME NEW q \in Requests, Counted(q)
               PROVE  /\ Exists(req[q].user)'
                      /\ ActiveAdmin(req[q].user)' =>
                           \E a \in Users \ {req[q].user} : ActiveAdmin(a)'
    BY DEF CountStillTrue, Counted
  <2>1. req[q].user \in Users  BY DEF Types, Counted
  <2> QED  BY <2>1 DEF Guarded, CountStillTrue, SameStanding, Exists, ActiveAdmin
<1>4. AdminRemains'  BY DEF AdminRemains, SameStanding, ActiveAdmin
<1> QED  BY <1>1, <1>2, <1>3, <1>4 DEF Guarded

LEMMA DeleteTokenStep ==
    ASSUME AdminInv, NEW s \in sessions, DeleteRefreshToken(s)
    PROVE  AdminInv'
<1>1. Types'  BY DEF AdminInv, DeleteRefreshToken, Types, locks
<1>2. SameStanding /\ UNCHANGED <<locks, req>> /\ hadAdmin' = hadAdmin
  BY DEF DeleteRefreshToken, SameStanding
<1> QED  BY <1>1, <1>2, IdleStep

-----------------------------------------------------------------------------
(* Steps on a users row that leave role and active alone.                  *)

LEMMA RowWrite ==
    ASSUME Types, NEW u \in Users, NEW row \in UserRow,
           row.role = user[u].role, row.active = user[u].active,
           user' = [user EXCEPT ![u] = row]
    PROVE  user' \in [Users -> UserRow] /\ SameStanding
  BY DEF Types, SameStanding

LEMMA TokenStep ==
    ASSUME AdminInv, NEW u \in Users, handleForgotPassword(u) \/ handleChangeEmail(u)
    PROVE  AdminInv'
<1> USE DEF AdminInv
<1>1. user[u] \in UserRow  BY DEF Types
<1>2. PICK row \in UserRow : /\ row.role = user[u].role /\ row.active = user[u].active
                             /\ CreateToken(u, row)
  <2>1. CASE handleForgotPassword(u)
    <3> DEFINE row == [user[u] EXCEPT !.reset = "open", !.spentReset = 0]
    <3>1. row \in UserRow /\ row.role = user[u].role /\ row.active = user[u].active
      BY <1>1 DEF UserRow, TokenStates
    <3> QED  BY <2>1, <3>1 DEF handleForgotPassword
  <2>2. CASE handleChangeEmail(u)
    <3> DEFINE row == [user[u] EXCEPT !.mail = "open"]
    <3>1. row \in UserRow /\ row.role = user[u].role /\ row.active = user[u].active
      BY <1>1 DEF UserRow, TokenStates
    <3> QED  BY <2>2, <3>1 DEF handleChangeEmail
  <2> QED  BY <2>1, <2>2
<1>3. /\ user' = [user EXCEPT ![u] = row] /\ ops' = ops + 1
      /\ UNCHANGED <<sessions, locks, req, serial, hadAdmin>>
  BY <1>2 DEF CreateToken
<1>4. user' \in [Users -> UserRow] /\ SameStanding  BY <1>2, <1>3, RowWrite
<1>5. Types'  BY <1>3, <1>4 DEF Types, locks
<1> QED  BY <1>3, <1>4, <1>5, IdleStep

LEMMA FactorStep ==
    ASSUME AdminInv, NEW r \in Requests,
           \/ ConsumeTOTPBackupCode(r) \/ SetUserTOTPSecret(r)
           \/ EnableUserTOTP(r) \/ DisableUserTOTP(r)
    PROVE  AdminInv'
<1> USE DEF AdminInv
<1> DEFINE u == req[r].user
<1>0. /\ req[r].pc # "free" /\ UNCHANGED <<sessions, locks, hadAdmin, ops>>
      /\ (Finish(r) \/ \E p \in {"issue", "write2fa"} : Goto(r, p))
      /\ u \in Users /\ serial' \in Nat
  BY DEF ConsumeTOTPBackupCode, SetUserTOTPSecret, EnableUserTOTP, DisableUserTOTP, At, Types
<1>1. user[u] \in UserRow /\ req[r].secret \in Nat  BY <1>0, SMTT(40) DEF Types, RequestRecord
<1>2. user' \in [Users -> UserRow] /\ SameStanding
  <2>0. CASE user' = user  BY <2>0 DEF Types, SameStanding
  <2>1. CASE user' = [user EXCEPT ![u].code = FALSE, ![u].spentCode = @ + 1]
    <3> DEFINE n == user[u].spentCode + 1
               row == [user[u] EXCEPT !.code = FALSE, !.spentCode = n]
    <3>0. n \in Nat  BY <1>1 DEF UserRow
    <3> HIDE DEF n
    <3>1. row \in UserRow /\ row.role = user[u].role /\ row.active = user[u].active
      BY <1>1, <3>0 DEF UserRow
    <3> USE DEF n
    <3>2. user' = [user EXCEPT ![u] = row]  BY <1>0, <2>1 DEF Types
    <3> QED  BY <1>0, <3>1, <3>2, RowWrite
  <2>2. CASE user' = [user EXCEPT ![u].secret = serial]
    <3> DEFINE row == [user[u] EXCEPT !.secret = serial]
    <3>1. row \in UserRow /\ row.role = user[u].role /\ row.active = user[u].active
      BY <1>1 DEF UserRow, Types
    <3>2. user' = [user EXCEPT ![u] = row]  BY <1>0, <2>2 DEF Types
    <3> QED  BY <1>0, <3>1, <3>2, RowWrite
  <2>3. CASE user' = [user EXCEPT ![u].on = TRUE, ![u].code = TRUE, ![u].spentCode = 0,
                                  ![u].proved = req[r].secret]
    <3> DEFINE row == [user[u] EXCEPT !.on = TRUE, !.code = TRUE, !.spentCode = 0,
                                      !.proved = req[r].secret]
    <3>1. row \in UserRow /\ row.role = user[u].role /\ row.active = user[u].active
      BY <1>1 DEF UserRow
    <3>2. user' = [user EXCEPT ![u] = row]  BY <1>0, <2>3 DEF Types
    <3> QED  BY <1>0, <3>1, <3>2, RowWrite
  <2>4. CASE user' = [user EXCEPT ![u].on = FALSE, ![u].secret = 0, ![u].code = FALSE]
    <3> DEFINE row == [user[u] EXCEPT !.on = FALSE, !.secret = 0, !.code = FALSE]
    <3>1. row \in UserRow /\ row.role = user[u].role /\ row.active = user[u].active
      BY <1>1 DEF UserRow
    <3>2. user' = [user EXCEPT ![u] = row]  BY <1>0, <2>4 DEF Types
    <3> QED  BY <1>0, <3>1, <3>2, RowWrite
  <2> QED  BY <2>0, <2>1, <2>2, <2>3, <2>4
           DEF ConsumeTOTPBackupCode, SetUserTOTPSecret, EnableUserTOTP, DisableUserTOTP
<1>3. CASE Finish(r)
  <2>1. Types' /\ OpsFit'  BY <1>0, <1>2, <1>3, FinishTypes DEF Types, locks
  <2>2. Calm(r)  BY <1>0, <1>3, FinishTypes DEF Calm, locks
  <2> QED  BY <1>0, <1>2, <2>1, <2>2, CalmStep
<1>4. ASSUME NEW p \in {"issue", "write2fa"}, Goto(r, p)  PROVE AdminInv'
  <2>0. p \in Pcs  BY DEF Pcs
  <2>1. OpsFit' /\ req'[r].pc # "ensure" /\ ~ Counted(r)'  BY <1>0, <1>4, <2>0, PlainGoto
  <2>2. Types'  BY <1>0, <1>2, <1>4, <2>0, GotoTypes DEF Types, locks
  <2>3. Calm(r)  BY <1>0, <1>4, <2>0, <2>1, GotoTypes DEF Calm, locks
  <2> QED  BY <1>0, <1>2, <2>1, <2>2, <2>3, CalmStep
<1> QED  BY <1>0, <1>3, <1>4

-----------------------------------------------------------------------------
(* Steps that create, promote or reactivate an account.                    *)

LEMMA SeenAdminRemains ==
    ASSUME AdminRemains, SeenAdmin,
           (\E a \in Users : ActiveAdmin(a)) => \E a \in Users : ActiveAdmin(a)'
    PROVE  AdminRemains' /\ hadAdmin' \in BOOLEAN
  BY Zenon DEF AdminRemains, SeenAdmin, ActiveAdmin

\* The account is new, or nobody holds its row.
LEMMA GainStep ==
    ASSUME AdminInv, Types', NEW u \in Users, UNCHANGED <<locks, req>>, SeenAdmin,
           \A v \in Users \ {u} : user'[v] = user[v],
           ~ Exists(u) \/ rowLock[u] = Nobody,
           ActiveAdmin(u) => ActiveAdmin(u)'
    PROVE  AdminInv'
<1> USE DEF AdminInv
<1>1. OpsFit'  BY DEF OpsFit
<1>2. AdminLocked' /\ RowLocked'
  BY DEF Guarded, AdminLocked, RowLocked, Counted, locks
<1>3. \A a \in Users : ActiveAdmin(a) => ActiveAdmin(a)'
  BY DEF ActiveAdmin
<1>4. CountStillTrue'
  <2> SUFFICES ASSUME NEW q \in Requests, Counted(q)
               PROVE  /\ Exists(req[q].user)'
                      /\ ActiveAdmin(req[q].user)' =>
                           \E a \in Users \ {req[q].user} : ActiveAdmin(a)'
    BY DEF CountStillTrue, Counted
  <2>1. req[q].user \in Users  BY DEF Types, Counted
  <2>2. /\ Exists(req[q].user) /\ rowLock[req[q].user] = q
        /\ ActiveAdmin(req[q].user) => \E a \in Users \ {req[q].user} : ActiveAdmin(a)
    BY DEF Guarded, CountStillTrue, RowLocked
  <2>3. req[q].user # u  BY <2>2, NobodyAssumption
  <2>4. user'[req[q].user] = user[req[q].user]  BY <2>1, <2>3
  <2> QED  BY <2>2, <2>4, <1>3 DEF Exists, ActiveAdmin
<1>5. AdminRemains'  BY <1>3, SeenAdminRemains
<1> QED  BY <1>1, <1>2, <1>4, <1>5 DEF Guarded

LEMMA RowType ==
    ASSUME NEW role \in {"USER", "ADMIN"}
    PROVE  Row(role, TRUE) \in UserRow
  BY DEF Row, UserRow, TokenStates

LEMMA AccountStep ==
    ASSUME AdminInv, NEW u \in Users,
           \/ \E role \in {"USER", "ADMIN"} : CreateUser(u, role)
           \/ Promote(u) \/ Reactivate(u)
    PROVE  AdminInv'
<1> USE DEF AdminInv
<1>0. /\ ops' = ops + 1 /\ SeenAdmin /\ UNCHANGED <<sessions, locks, req, serial>>
      /\ ~ Exists(u) \/ rowLock[u] = Nobody
  BY DEF CreateUser, Promote, Reactivate, Exists
<1>1. PICK row \in UserRow : /\ user' = [user EXCEPT ![u] = row]
                             /\ ActiveAdmin(u) => row.role = "ADMIN" /\ row.active
  <2>0. user[u] \in UserRow  BY DEF Types
  <2>1. CASE \E role \in {"USER", "ADMIN"} : CreateUser(u, role)
    <3>1. PICK role \in {"USER", "ADMIN"} : CreateUser(u, role)  BY <2>1
    <3>2. ~ ActiveAdmin(u)  BY <3>1 DEF CreateUser, ActiveAdmin
    <3> QED  BY <3>1, <3>2, RowType DEF CreateUser
  <2>2. CASE Promote(u)
    <3> DEFINE row == [user[u] EXCEPT !.role = "ADMIN"]
    <3>1. row \in UserRow  BY <2>0 DEF UserRow
    <3>2. ~ ActiveAdmin(u)  BY <2>2 DEF Promote, ActiveAdmin
    <3>3. user' = [user EXCEPT ![u] = row]  BY <2>2 DEF Promote, Types
    <3> QED  BY <3>1, <3>2, <3>3
  <2>3. CASE Reactivate(u)
    <3> DEFINE row == [user[u] EXCEPT !.active = TRUE]
    <3>1. row \in UserRow  BY <2>0 DEF UserRow
    <3>2. ~ ActiveAdmin(u)  BY <2>3 DEF Reactivate, ActiveAdmin
    <3>3. user' = [user EXCEPT ![u] = row]  BY <2>3 DEF Reactivate, Types
    <3> QED  BY <3>1, <3>2, <3>3
  <2> QED  BY <2>1, <2>2, <2>3
<1>2. /\ user' \in [Users -> UserRow] /\ user'[u] = row
      /\ \A v \in Users \ {u} : user'[v] = user[v]
  BY <1>1 DEF Types
<1>3. ActiveAdmin(u) => ActiveAdmin(u)'
  BY <1>1, <1>2 DEF ActiveAdmin
<1>4. \A a \in Users : ActiveAdmin(a) => ActiveAdmin(a)'
  BY <1>2, <1>3 DEF ActiveAdmin
<1>5. hadAdmin' \in BOOLEAN  BY <1>0, <1>4, SeenAdminRemains
<1>6. Types'  BY <1>0, <1>2, <1>5 DEF Types, locks
<1> QED  BY <1>0, <1>2, <1>3, <1>6, GainStep

LEMMA SetupInsertStep ==
    ASSUME AdminInv, NEW r \in Requests, SetupInsert(r)
    PROVE  AdminInv'
<1> USE DEF AdminInv
<1> DEFINE u == req[r].user
<1>0. /\ req[r].pc = "setup_insert" /\ u \in Users /\ Unlock(r) /\ SeenAdmin
      /\ UNCHANGED <<sessions, serial, ops>>
  BY DEF SetupInsert, At, Types
<1>1. /\ req' \in [Requests -> RequestRecord] /\ OpsFit'
      /\ \A q \in Requests : req'[q].pc # "free" => req'[q].user \in Users
      /\ \A q \in Requests \ {r} : req'[q] = req[q]
      /\ req'[r].pc # "ensure" /\ ~ Counted(r)'
  <2>1. CASE Finish(r)  BY <2>1, FinishTypes
  <2>2. CASE Goto(r, "issue")
    <3>1. "issue" \in Pcs /\ req[r].pc # "free"  BY <1>0 DEF Pcs
    <3> QED  BY <2>2, <3>1, GotoTypes, PlainGoto
  <2> QED  BY <2>1, <2>2 DEF SetupInsert
<1>2. /\ user' \in [Users -> UserRow]
      /\ \A v \in Users : user'[v] = user[v] \/ ~ Exists(v)
  <2>1. CASE user' = user  BY <2>1 DEF Types
  <2>2. CASE user[u].role = "NONE" /\ user' = [user EXCEPT ![u] = Row("ADMIN", TRUE)]
    BY <1>0, <2>2, RowType DEF Types, Exists
  <2> QED  BY <2>1, <2>2 DEF SetupInsert
<1>3. \A a \in Users : ActiveAdmin(a) => ActiveAdmin(a)'
  BY <1>2 DEF ActiveAdmin, Exists
<1>4. AdminRemains' /\ hadAdmin' \in BOOLEAN  BY <1>0, <1>3, SeenAdminRemains
<1>5. Types'  BY <1>0, <1>1, <1>2, <1>4, UnlockTypes DEF Types
<1>6. Calm(r)  BY <1>0, <1>1, UnlockTypes DEF Calm
<1>7. ASSUME NEW q \in Requests, req'[q].pc = "ensure" \/ Counted(q)'
      PROVE  q # r /\ req'[q] = req[q] /\ q # Nobody
  BY <1>7, <1>6, NobodyAssumption DEF Calm
<1>8. ASSUME NEW q \in Requests, Counted(q)'
      PROVE  Counted(q) /\ req'[q].user = req[q].user /\ req[q].user \in Users
  BY <1>7, <1>8 DEF Counted, Types
<1>9. AdminLocked'  BY <1>6, <1>7 DEF AdminLocked, Guarded, Counted, Calm
<1>10. RowLocked'  BY <1>6, <1>7, <1>8 DEF RowLocked, Guarded, Calm
<1>11. CountStillTrue'
  <2> SUFFICES ASSUME NEW q \in Requests, Counted(q)'
               PROVE  /\ Exists(req[q].user)'
                      /\ ActiveAdmin(req[q].user)' =>
                           \E a \in Users \ {req'[q].user} : ActiveAdmin(a)'
    BY DEF CountStillTrue
  <2>1. Counted(q) /\ req'[q].user = req[q].user /\ req[q].user \in Users  BY <1>8
  <2>2. /\ Exists(req[q].user)
        /\ ActiveAdmin(req[q].user) => \E a \in Users \ {req[q].user} : ActiveAdmin(a)
    BY <2>1 DEF Guarded, CountStillTrue
  <2>3. user'[req[q].user] = user[req[q].user]  BY <1>2, <2>1, <2>2
  <2> QED  BY <1>3, <2>1, <2>2, <2>3 DEF Exists, ActiveAdmin
<1> QED  BY <1>1, <1>4, <1>5, <1>9, <1>10, <1>11 DEF Guarded

-----------------------------------------------------------------------------
(* The administrators' transactions.                                       *)

\* Whoever holds the advisory lock is alone between the lock and the commit.
LEMMA Alone ==
    ASSUME AdminInv, NEW r \in Requests, adminLock \in {Nobody, r},
           NEW q \in Requests \ {r}
    PROVE  req[q].pc # "ensure" /\ ~ Counted(q)
  BY NobodyAssumption DEF AdminInv, Guarded, AdminLocked

LEMMA LockStep ==
    ASSUME AdminInv, NEW r \in Requests, beginActiveAdminMutation(r)
    PROVE  AdminInv'
<1> USE DEF AdminInv
<1>0. /\ req[r].pc = "admin_lock" /\ req[r].pc # "free" /\ adminLock = Nobody
      /\ adminLock' = r /\ Goto(r, "ensure") /\ "ensure" \in Pcs
      /\ UNCHANGED <<tables, setupLock, rowLock, serial, hadAdmin, ops>>
  BY DEF beginActiveAdminMutation, At, Pcs
<1>1. /\ \A q \in Requests \ {r} : req'[q] = req[q]
      /\ req'[r].pc = "ensure" /\ req'[r].op = req[r].op
  BY <1>0, GotoTypes
<1>2. Types'  BY <1>0, GotoTypes DEF Types, tables, Holder
<1>3. OpsFit'  BY <1>0, <1>1 DEF OpsFit
<1>4. \A q \in Requests \ {r} : req'[q].pc # "ensure" /\ ~ Counted(q)'
  BY <1>0, <1>1, Alone DEF Counted
<1>5. Guarded'
  BY <1>0, <1>1, <1>4 DEF Guarded, AdminLocked, RowLocked, CountStillTrue, Counted
<1>6. AdminRemains'  BY <1>0 DEF AdminRemains, ActiveAdmin, tables
<1> QED  BY <1>2, <1>3, <1>5, <1>6

LEMMA CountStep ==
    ASSUME AdminInv, NEW r \in Requests, ensureNotLastActiveAdmin(r)
    PROVE  AdminInv'
<1> USE DEF AdminInv
<1> DEFINE u == req[r].user
<1>0. /\ req[r].pc = "ensure" /\ req[r].pc # "free" /\ u \in Users
      /\ UNCHANGED <<tables, serial, hadAdmin, ops>>
  BY DEF ensureNotLastActiveAdmin, At, Types
<1>1. CASE ~ Exists(u) \/ LastActiveAdmin(u)
  <2>1. Finish(r) /\ Unlock(r)  BY <1>1 DEF ensureNotLastActiveAdmin
  <2>2. Types' /\ OpsFit'  BY <1>0, <2>1, FinishTypes, UnlockTypes DEF Types, tables
  <2>3. Calm(r) /\ SameStanding
    BY <1>0, <2>1, FinishTypes, UnlockTypes DEF Calm, SameStanding, tables
  <2> QED  BY <1>0, <2>2, <2>3, CalmStep
<1>2. CASE Exists(u) /\ ~ LastActiveAdmin(u)
  <2>0. /\ rowLock' = [rowLock EXCEPT ![u] = r] /\ Goto(r, "mutate") /\ "mutate" \in Pcs
        /\ UNCHANGED <<adminLock, setupLock>>
    BY <1>2 DEF ensureNotLastActiveAdmin, Pcs
  <2>1. /\ \A q \in Requests \ {r} : req'[q] = req[q]
        /\ req'[r].pc = "mutate" /\ req'[r].op = req[r].op /\ req'[r].user = u
    BY <1>0, <2>0, GotoTypes
  <2>2. adminLock = r /\ req[r].op \in AdminOps
    BY <1>0 DEF Guarded, AdminLocked, OpsFit
  <2>3. Types'  BY <1>0, <2>0, GotoTypes DEF Types, tables, Holder
  <2>4. OpsFit'  BY <2>1, <2>2 DEF OpsFit
  <2>5. \A q \in Requests \ {r} : req'[q].pc # "ensure" /\ ~ Counted(q)'
    BY <2>1, <2>2, Alone DEF Counted
  <2>6. AdminLocked' /\ RowLocked'
    BY <1>0, <2>0, <2>1, <2>2, <2>5 DEF AdminLocked, RowLocked, Types
  <2>7. CountStillTrue'
    BY <1>0, <1>2, <2>1, <2>5 DEF CountStillTrue, LastActiveAdmin, ActiveAdmin, Exists, tables
  <2>8. AdminRemains'  BY <1>0 DEF AdminRemains, ActiveAdmin, tables
  <2> QED  BY <2>3, <2>4, <2>6, <2>7, <2>8 DEF Guarded
<1> QED  BY <1>1, <1>2

\* The commit of a request that counted: what it counted on is still there.
LEMMA CommitStep ==
    ASSUME AdminInv, NEW r \in Requests, Counted(r), Finish(r), Unlock(r),
           sessions' \subseteq Session, NEW row \in UserRow,
           user' = [user EXCEPT ![req[r].user] = row],
           UNCHANGED <<serial, hadAdmin, ops>>
    PROVE  AdminInv'
<1> USE DEF AdminInv
<1> DEFINE u == req[r].user
<1>0. u \in Users /\ adminLock = r  BY DEF Types, Counted, Guarded, AdminLocked
<1>1. /\ user' \in [Users -> UserRow]
      /\ \A v \in Users \ {u} : user'[v] = user[v]
  BY <1>0 DEF Types
<1>2. Types' /\ OpsFit'  BY <1>1, FinishTypes, UnlockTypes DEF Types
<1>3. \A q \in Requests : req'[q].pc # "ensure" /\ ~ Counted(q)'
  BY <1>0, FinishTypes, Alone DEF Counted
<1>4. Guarded'  BY <1>3 DEF Guarded, AdminLocked, RowLocked, CountStillTrue
<1>5. hadAdmin => \E a \in Users \ {u} : ActiveAdmin(a)
  BY DEF AdminRemains, Guarded, CountStillTrue
<1>6. AdminRemains'  BY <1>1, <1>5 DEF AdminRemains, ActiveAdmin
<1> QED  BY <1>2, <1>4, <1>6

LEMMA DemoteStep ==
    ASSUME AdminInv, NEW r \in Requests, DemoteCommit(r)
    PROVE  AdminInv'
<1> DEFINE u == req[r].user
           row == [user[u] EXCEPT !.role = "USER"]
<1>1. Counted(r) /\ u \in Users
  BY DEF AdminInv, Types, DemoteCommit, At, Counted, AdminOps
<1>2. row \in UserRow  BY <1>1 DEF AdminInv, Types, UserRow
<1>3. user' = [user EXCEPT ![u] = row]  BY <1>1 DEF DemoteCommit, AdminInv, Types
<1>4. /\ Finish(r) /\ Unlock(r) /\ UNCHANGED <<serial, hadAdmin, ops>>
      /\ sessions' \subseteq Session
  BY DEF DemoteCommit, AdminInv, Types
<1> HIDE DEF row
<1> QED  BY <1>1, <1>2, <1>3, <1>4, CommitStep

LEMMA DeleteStartsStep ==
    ASSUME AdminInv, NEW r \in Requests, DeleteStarts(r)
    PROVE  AdminInv'
<1> USE DEF AdminInv
<1> DEFINE seen == {s.id : s \in SessionsOf(req[r].user)}
           p == IF req[r].pc = "mutate" THEN "delete_commit" ELSE "delete_seen"
<1>0. /\ (req[r].pc = "mutate" /\ req[r].op # "demote") \/ req[r].pc = "delete_all"
      /\ req' = [req EXCEPT ![r] = [req[r] EXCEPT !.pc = p, !.snap = seen]]
      /\ UNCHANGED <<tables, locks, serial, hadAdmin, ops>>
  BY DEF DeleteStarts, At, Types
<1>1. seen \in SUBSET Nat  BY DEF SessionsOf, Types, Session
<1>2. p \in Pcs  BY DEF Pcs
<1> HIDE DEF seen
<1>3. /\ req'[r] \in RequestRecord
      /\ req'[r].pc = p /\ req'[r].op = req[r].op /\ req'[r].user = req[r].user
  BY <1>0, <1>1, <1>2 DEF Types, RequestRecord
<1>4. /\ req' \in [Requests -> RequestRecord]
      /\ \A q \in Requests \ {r} : req'[q] = req[q]
  BY <1>0, <1>3 DEF Types
<1>5. Types'  BY <1>0, <1>3, <1>4 DEF Types, tables, locks
<1>6. OpsFit'  BY <1>0, <1>3, <1>4 DEF OpsFit, AdminOps
<1>7. \A q \in Requests : /\ req'[q].user = req[q].user
                          /\ req'[q].pc = "ensure" => req[q].pc = "ensure"
                          /\ Counted(q)' => Counted(q)
  BY <1>0, <1>3, <1>4 DEF Counted
<1>8. Guarded'
  BY <1>0, <1>7 DEF Guarded, AdminLocked, RowLocked, CountStillTrue, Exists, ActiveAdmin,
                    tables, locks
<1>9. AdminRemains'  BY <1>0 DEF AdminRemains, ActiveAdmin, tables
<1> QED  BY <1>5, <1>6, <1>8, <1>9

LEMMA DeleteSessionsStep ==
    ASSUME AdminInv, NEW r \in Requests, DeleteSessions(r)
    PROVE  AdminInv'
<1> USE DEF AdminInv
<1> DEFINE u == req[r].user
           base == Written(req[r].op, user[u])
           row == [base EXCEPT !.epoch = user[u].epoch + 1]
<1>0. /\ req[r].pc = "delete_commit" /\ u \in Users /\ user[u] \in UserRow
      /\ req[r].op \in {"suspend", "delete", "reset", "email"}
      /\ (Finish(r) \/ (req[r].op = "email" /\ DeleteAgain(r)))
      /\ Unlock(r) /\ UNCHANGED <<serial, hadAdmin, ops>>
  BY DEF DeleteSessions, At, Types, OpsFit
<1>1. /\ base \in UserRow
      /\ req[r].op \in {"reset", "email"} =>
           base.role = user[u].role /\ base.active = user[u].active
  <2>1. CASE req[r].op = "suspend"
    BY <1>0, <2>1 DEF Written, SuspendUser, UserRow
  <2>2. CASE req[r].op = "delete"
    BY <1>0, <2>2 DEF Written, DeleteUser, UserRow
  <2>3. CASE req[r].op = "reset"
    <3> DEFINE n == user[u].spentReset + 1
    <3>1. n \in Nat  BY <1>0 DEF UserRow
    <3>2. base = [user[u] EXCEPT !.reset = "used", !.spentReset = n]
      BY <2>3 DEF Written, ClaimPasswordResetToken
    <3> HIDE DEF n
    <3> QED  BY <1>0, <3>1, <3>2 DEF UserRow, TokenStates
  <2>4. CASE req[r].op = "email"
    BY <1>0, <2>4 DEF Written, ClaimEmailChangeToken, UserRow, TokenStates
  <2> QED  BY <1>0, <2>1, <2>2, <2>3, <2>4
<1>2. user' = [user EXCEPT ![u] = row]  BY DEF DeleteSessions
<1> HIDE DEF base
<1>3. row \in UserRow /\ row.role = base.role /\ row.active = base.active
  <2> DEFINE n == user[u].epoch + 1
  <2>1. n \in Nat  BY <1>0 DEF UserRow
  <2> HIDE DEF n
  <2>2. [base EXCEPT !.epoch = n] \in UserRow  BY <1>1, <2>1 DEF UserRow
  <2>3. /\ [base EXCEPT !.epoch = n].role = base.role
        /\ [base EXCEPT !.epoch = n].active = base.active
    BY <1>1 DEF UserRow
  <2> QED  BY <2>2, <2>3 DEF n
<1> HIDE DEF row
<1>4. sessions' \subseteq Session
  BY ZenonT(40) DEF DeleteSessions, Types, Session
<1>5. CASE req[r].op \in {"suspend", "delete"}
  <2>2. Counted(r)  BY <1>0, <1>5 DEF Counted, AdminOps
  <2>3. Finish(r)  BY <1>0, <1>5
  <2> QED  BY <1>0, <1>2, <1>4, <1>3, <2>2, <2>3, CommitStep
<1>6. CASE req[r].op \in {"reset", "email"}
  <2>1. row \in UserRow /\ row.role = user[u].role /\ row.active = user[u].active
    BY <1>6, <1>1, <1>3
  <2>2. user' \in [Users -> UserRow] /\ SameStanding  BY <1>0, <1>2, <2>1, RowWrite
  <2>3. Types' /\ OpsFit'  BY <1>0, <1>4, <2>2, FinishTypes, AgainTypes, UnlockTypes DEF Types
  <2>4. Calm(r)  BY <1>0, FinishTypes, AgainTypes, UnlockTypes DEF Calm
  <2> QED  BY <1>0, <2>2, <2>3, <2>4, CalmStep
<1> QED  BY <1>0, <1>5, <1>6

-----------------------------------------------------------------------------
LEMMA AdminInvInit == Init => AdminInv
<1> SUFFICES ASSUME Init PROVE AdminInv  OBVIOUS
<1>1. \A role \in {"NONE", "USER", "ADMIN"}, b \in BOOLEAN : Row(role, b) \in UserRow
  BY DEF Row, UserRow, TokenStates
<1>2. user \in [Users -> UserRow]
  <2>1. CASE user = [u \in Users |-> Row("NONE", FALSE)]  BY <1>1, <2>1
  <2>2. CASE \E A, U \in SUBSET Users :
               user = [u \in Users |-> IF u \in A THEN Row("ADMIN", TRUE)
                                       ELSE IF u \in U THEN Row("USER", TRUE)
                                       ELSE Row("NONE", FALSE)]
    BY <1>1, <2>2
  <2> QED  BY <2>1, <2>2 DEF Init
<1>3. \A r \in Requests : req[r] = Free  BY DEF Init
<1>4. req \in [Requests -> RequestRecord]  BY FreeTypes DEF Init
<1>5. hadAdmin \in BOOLEAN /\ AdminRemains  BY Zenon DEF Init, AdminRemains
<1>6. Types
  BY <1>2, <1>3, <1>4, <1>5, FreeTypes DEF Types, Init, Holder
<1>7. OpsFit /\ Guarded
  BY <1>3, FreeTypes DEF OpsFit, Guarded, AdminLocked, RowLocked, CountStillTrue, Counted
<1> QED  BY <1>5, <1>6, <1>7 DEF AdminInv

LEMMA AdminInvNext == AdminInv /\ [Next]_vars => AdminInv'
<1> SUFFICES ASSUME AdminInv, [Next]_vars PROVE AdminInv'  OBVIOUS
<1>1. CASE UNCHANGED vars
  <2>1. Types'  BY <1>1 DEF vars, tables, locks, AdminInv, Types
  <2>2. SameStanding /\ UNCHANGED <<locks, req>> /\ hadAdmin' = hadAdmin
    BY <1>1 DEF vars, tables, locks, SameStanding
  <2> QED  BY <2>1, <2>2, IdleStep
<1>2. ASSUME NEW r \in Requests, Arrivals(r)  PROVE AdminInv'  BY <1>2, ArrivalStep
<1>3. ASSUME NEW r \in Requests, Statements(r)  PROVE AdminInv'
  BY <1>3, QuietStep, SessionStep, FactorStep, SetupInsertStep, LockStep, CountStep,
     DemoteStep, DeleteStartsStep, DeleteSessionsStep DEF Statements
<1>4. ASSUME NEW r \in Requests, NEW s \in sessions, ConsumeRefreshToken(r, s)  PROVE AdminInv'
  BY <1>4, ConsumeStep
<1>5. ASSUME NEW s \in sessions, DeleteRefreshToken(s)  PROVE AdminInv'
  BY <1>5, DeleteTokenStep
<1>6. ASSUME NEW u \in Users,
             \/ \E role \in {"USER", "ADMIN"} : CreateUser(u, role)
             \/ Promote(u) \/ Reactivate(u)
      PROVE  AdminInv'
  BY <1>6, AccountStep
<1>7. ASSUME NEW u \in Users, handleForgotPassword(u) \/ handleChangeEmail(u)
      PROVE  AdminInv'
  BY <1>7, TokenStep
<1> QED  BY <1>1, <1>2, <1>3, <1>4, <1>5, <1>6, <1>7 DEF Next

(* However many administrators suspend, delete or demote each other at the
   same time, and whatever else the API does meanwhile, an installation that
   had an active administrator has one (beginActiveAdminMutation,
   ensureNotLastActiveAdmin and the commits that follow them).              *)
THEOREM AdministratorRemains == Spec => []AdminRemains
<1>1. AdminInv => AdminRemains  BY DEF AdminInv
<1> QED  BY <1>1, AdminInvInit, AdminInvNext, PTL DEF Spec

-----------------------------------------------------------------------------
(***************************************************************************)
(* Sessions, secrets and the setup.                                        *)
(*                                                                         *)
(* None of the other properties is inductive either.  What they rest on is *)
(* that a transaction holds the users row it works on (RowsHeld) and that a *)
(* refresh token is held by one rotation at a time and stays in the table  *)
(* until that rotation ends (TokensHeld): whoever ends all sessions of an  *)
(* account therefore knows that what appeared after its DELETE started is  *)
(* the session of a login and not a rotated one (SeenOrNew).               *)
(***************************************************************************)

\* r is inside a transaction that locked the users row.
Transaction(r) ==
    \/ req[r].pc \in {"mutate", "delete_commit", "rotate"}
    \/ req[r].op = "refresh" /\ req[r].pc \in {"delete_all", "delete_seen"}

RowsHeld == \A r \in Requests : Transaction(r) => rowLock[req[r].user] = r

\* A rotation knows the token it consumed.
OldFits ==
    \A r \in Requests : req[r].pc \in {"lock_user", "rotate"} => req[r].old # 0

SetupLocked ==
    \A r \in Requests : req[r].pc \in {"setup_check", "setup_insert"} => setupLock = r

\* Nobody can become an administrator between the check and the insert.
SetupPending ==
    (\E r \in Requests : req[r].pc = "setup_insert") =>
        \A u \in Users : user[u].role # "ADMIN"

FactorsFit(row) ==
    /\ row.on => row.secret = row.proved
    /\ row.spentCode <= 1 /\ row.spentReset <= 1
    /\ row.code => row.spentCode = 0
    /\ row.reset = "open" => row.spentReset = 0

FactorsHold == \A u \in Users : FactorsFit(user[u])

Resetting(r) == req[r].op = "reset" /\ req[r].pc \in {"mutate", "delete_commit"}

\* The token a reset claimed is open until it commits.
ResetPending ==
    \A r \in Requests :
        Resetting(r) => Exists(req[r].user) /\ user[req[r].user].reset = "open"

Numbered ==
    /\ serial # 0
    /\ \A s \in sessions : s.id # 0 /\ s.id < serial /\ s.chain < serial

IdsDistinct == \A s, t \in sessions : s.id = t.id => s = t

\* The token that r consumed.
Consumed(r, s) == /\ s.id = req[r].old /\ s.chain = req[r].chain
                  /\ s.user = req[r].user /\ s.epoch = req[r].epoch

TokensHeld ==
    \A r \in Requests : req[r].old # 0 =>
        /\ \E s \in sessions : Consumed(r, s)
        /\ \A q \in Requests : req[q].old = req[r].old => q = r

OwnersKnown == \A s \in sessions : user[s.user].role # "NONE"

SeenOrNew ==
    \A r \in Requests : req[r].pc = "delete_commit" =>
        \A s \in SessionsOf(req[r].user) : s.id \in req[r].snap \/ s.id = s.chain

\* The parts of the invariant by what they depend on.
RequestsInv == RowsHeld /\ OldFits /\ SetupLocked
UsersInv    == SetupPending /\ FactorsHold /\ ResetPending
TokensInv   == Numbered /\ IdsDistinct /\ OneSessionPerChain /\ TokensHeld
RevokedInv  == OwnersKnown /\ SeenOrNew /\ RevocationIsFinal

SessionInv == AdminInv /\ RequestsInv /\ UsersInv /\ TokensInv /\ RevokedInv

-----------------------------------------------------------------------------
(* What a step of r does to the requests and the locks.                    *)

Own(r) ==
    /\ \A q \in Requests \ {r} : req'[q] = req[q]
    /\ \A u \in Users : rowLock'[u] = rowLock[u] \/ rowLock[u] \in {Nobody, r}
    /\ setupLock' = setupLock \/ setupLock \in {Nobody, r}
    /\ Transaction(r)' => rowLock'[req'[r].user] = r
    /\ req'[r].pc \in {"lock_user", "rotate"} => req'[r].old # 0
    /\ req'[r].pc \in {"setup_check", "setup_insert"} => setupLock' = r

\* What the step leaves to be shown about the tables.
Pending(r) ==
    /\ req'[r].pc = "setup_insert" => SetupRequired
    /\ Resetting(r)' => Exists(req'[r].user) /\ user[req'[r].user].reset = "open"
    /\ req'[r].pc = "delete_commit" =>
         \A s \in SessionsOf(req'[r].user) : s.id \in req'[r].snap \/ s.id = s.chain

OldKept(r) ==
    \/ req'[r].old = 0
    \/ /\ req'[r].old = req[r].old /\ req'[r].chain = req[r].chain
       /\ req'[r].user = req[r].user /\ req'[r].epoch = req[r].epoch

LEMMA RequestsStep ==
    ASSUME Types, Types', RequestsInv, NEW r \in Requests, Own(r)
    PROVE  RequestsInv'
<1>1. RowsHeld'
  <2> SUFFICES ASSUME NEW q \in Requests, Transaction(q)'
               PROVE  rowLock'[req'[q].user] = q
    BY DEF RowsHeld
  <2>1. CASE q = r  BY <2>1 DEF Own
  <2>2. CASE q # r
    <3>1. req'[q] = req[q] /\ Transaction(q)  BY <2>2 DEF Own, Transaction
    <3>2. req[q].user \in Users  BY <3>1 DEF Transaction, Types
    <3>3. rowLock[req[q].user] = q  BY <3>1 DEF RequestsInv, RowsHeld
    <3> QED  BY <2>2, <3>1, <3>2, <3>3, NobodyAssumption DEF Own
  <2> QED  BY <2>1, <2>2
<1>2. OldFits'  BY DEF OldFits, RequestsInv, Own
<1>3. SetupLocked'  BY NobodyAssumption DEF SetupLocked, RequestsInv, Own
<1> QED  BY <1>1, <1>2, <1>3 DEF RequestsInv

LEMMA FreeFields ==
    Free.pc = "free" /\ Free.op = "none" /\ Free.old = 0
  BY DEF Free

LEMMA OwnFinish ==
    ASSUME Types, NEW r \in Requests, Finish(r), Unlock(r) \/ UNCHANGED locks
    PROVE  Own(r) /\ Pending(r) /\ OldKept(r) /\ req'[r] = Free
<1>1. /\ req'[r] = Free /\ \A q \in Requests \ {r} : req'[q] = req[q]
  BY DEF Finish, Types
<1>2. /\ \A u \in Users : rowLock'[u] = rowLock[u] \/ rowLock[u] \in {Nobody, r}
      /\ setupLock' = setupLock \/ setupLock \in {Nobody, r}
  BY DEF Unlock, locks
<1> QED  BY <1>1, <1>2, FreeFields DEF Own, Pending, OldKept, Transaction, Resetting

LEMMA GotoFields ==
    ASSUME Types, NEW r \in Requests, NEW p \in Pcs, Goto(r, p)
    PROVE  /\ \A q \in Requests \ {r} : req'[q] = req[q]
           /\ req'[r].pc = p /\ req'[r].op = req[r].op /\ req'[r].user = req[r].user
           /\ req'[r].old = req[r].old /\ req'[r].chain = req[r].chain
           /\ req'[r].epoch = req[r].epoch /\ req'[r].snap = req[r].snap
           /\ req'[r].secret = req[r].secret
  BY DEF Types, Goto, RequestRecord

\* A request goes on outside of every transaction.
LEMMA OwnGoto ==
    ASSUME Types, NEW r \in Requests,
           NEW p \in {"issue", "write2fa", "backup_code", "ensure"}, Goto(r, p),
           \/ Unlock(r)
           \/ UNCHANGED <<setupLock, rowLock>>
    PROVE  Own(r) /\ Pending(r) /\ OldKept(r)
<1>0. p \in Pcs  BY DEF Pcs
<1>2. /\ \A u \in Users : rowLock'[u] = rowLock[u] \/ rowLock[u] \in {Nobody, r}
      /\ setupLock' = setupLock \/ setupLock \in {Nobody, r}
  BY DEF Unlock
<1> QED  BY <1>0, <1>2, GotoFields DEF Own, Pending, OldKept, Transaction, Resetting

LEMMA OwnAgain ==
    ASSUME Types, NEW r \in Requests, req[r].user \in Users, DeleteAgain(r), Unlock(r)
    PROVE  Own(r) /\ Pending(r) /\ OldKept(r)
<1>1. /\ \A u \in Users : rowLock'[u] = rowLock[u] \/ rowLock[u] \in {Nobody, r}
      /\ setupLock' = setupLock \/ setupLock \in {Nobody, r}
  BY DEF Unlock
<1> QED  BY <1>1, AgainFields DEF Own, Pending, OldKept, Transaction, Resetting

LEMMA OwnArrive ==
    ASSUME Types, NEW r \in Requests, NEW u \in Users, NEW op \in Ops \ {"refresh"},
           NEW p \in ArrivalSteps, Arrive(r, op, u, p), UNCHANGED locks
    PROVE  Own(r) /\ Pending(r) /\ OldKept(r)
<1> DEFINE new == [Free EXCEPT !.pc = p, !.op = op, !.user = u,
                               !.epoch = user[u].epoch, !.secret = user[u].secret]
<1>1. new.pc = p /\ new.op = op /\ new.user = u /\ new.old = 0
  BY DEF Free
<1>2. req' = [req EXCEPT ![r] = new]
  BY DEF Arrive
<1> HIDE DEF new
<1>3. req'[r] = new /\ \A q \in Requests \ {r} : req'[q] = req[q]
  BY <1>2 DEF Types
<1> QED  BY <1>1, <1>3 DEF Own, Pending, OldKept, Transaction, Resetting, ArrivalSteps, locks

\* The steps that start, continue or lock.
LEMMA OwnTransaction ==
    ASSUME SessionInv, NEW r \in Requests,
           \/ SetupLock(r) \/ SetupCheck(r) \/ ensureNotLastActiveAdmin(r)
           \/ ClaimToken(r) \/ RefreshLockUser(r) \/ DeleteStarts(r)
    PROVE  Own(r) /\ Pending(r) /\ OldKept(r) /\ UNCHANGED <<tables, serial>>
<1> USE DEF SessionInv, AdminInv
<1>0. UNCHANGED <<tables, serial>> /\ req[r].pc # "free" /\ req[r].user \in Users
  BY DEF SetupLock, SetupCheck, ensureNotLastActiveAdmin, ClaimToken, RefreshLockUser,
         DeleteStarts, At, Types
<1>1. CASE Finish(r) /\ (Unlock(r) \/ UNCHANGED locks)
  BY <1>0, <1>1, OwnFinish
<1>2. CASE SetupLock(r)
  <2>1. "setup_check" \in Pcs /\ Goto(r, "setup_check")  BY <1>2 DEF SetupLock, Pcs
  <2> QED  BY <1>0, <1>2, <2>1, GotoFields
           DEF SetupLock, Own, Pending, OldKept, Transaction, Resetting
<1>3. CASE SetupCheck(r) /\ SetupRequired
  <2>1. "setup_insert" \in Pcs /\ Goto(r, "setup_insert") /\ UNCHANGED locks
    BY <1>3 DEF SetupCheck, Pcs
  <2>2. setupLock = r  BY <1>3 DEF SetupCheck, At, RequestsInv, SetupLocked
  <2> QED  BY <1>0, <1>3, <2>1, <2>2, GotoFields
           DEF Own, Pending, OldKept, Transaction, Resetting, locks
<1>4. CASE \/ ensureNotLastActiveAdmin(r) /\ Goto(r, "mutate")
           \/ ClaimToken(r) /\ Goto(r, "mutate")
  <2>1. /\ "mutate" \in Pcs /\ Goto(r, "mutate") /\ setupLock' = setupLock
        /\ rowLock' = [rowLock EXCEPT ![req[r].user] = r] /\ RowFree(r, req[r].user)
        /\ req[r].op = "reset" => Exists(req[r].user) /\ user[req[r].user].reset = "open"
    <3>1. CASE ClaimToken(r)
      <4>1. ~ Finish(r)
        <5>1. "mutate" \in Pcs  BY DEF Pcs
        <5> QED  BY <1>4, <5>1, FinishTypes, GotoFields, FreeFields DEF Finish, Types
      <4> QED  BY <1>4, <3>1, <4>1 DEF ClaimToken, TokenStillOpen, Pcs
    <3>2. CASE ensureNotLastActiveAdmin(r)
      <4>1. ~ Finish(r)
        <5>1. "mutate" \in Pcs  BY DEF Pcs
        <5> QED  BY <1>4, <5>1, GotoFields, FreeFields DEF Finish, Types
      <4>2. req[r].op # "reset"  BY <3>2 DEF ensureNotLastActiveAdmin, At, OpsFit, AdminOps
      <4> QED  BY <1>4, <3>2, <4>1, <4>2 DEF ensureNotLastActiveAdmin, Pcs
    <3> QED  BY <1>4, <3>1, <3>2
  <2>2. \A u \in Users : rowLock'[u] = rowLock[u] \/ rowLock[u] \in {Nobody, r}
    BY <2>1 DEF RowFree, Types
  <2>3. rowLock'[req[r].user] = r  BY <1>0, <2>1 DEF Types
  <2> QED  BY <1>0, <2>1, <2>2, <2>3, GotoFields
           DEF Own, Pending, OldKept, Transaction, Resetting
<1>5. CASE RefreshLockUser(r)
  <2>1. PICK p \in {"rotate", "delete_all"} : Goto(r, p)  BY <1>5 DEF RefreshLockUser
  <2>2. /\ p \in Pcs /\ setupLock' = setupLock /\ req[r].old # 0
        /\ rowLock' = [rowLock EXCEPT ![req[r].user] = r] /\ RowFree(r, req[r].user)
    BY <1>5 DEF RefreshLockUser, Pcs, At, RequestsInv, OldFits
  <2>3. \A u \in Users : rowLock'[u] = rowLock[u] \/ rowLock[u] \in {Nobody, r}
    BY <2>2 DEF RowFree, Types
  <2>4. rowLock'[req[r].user] = r  BY <1>0, <2>2 DEF Types
  <2> QED  BY <1>0, <2>1, <2>2, <2>3, <2>4, GotoFields
           DEF Own, Pending, OldKept, Transaction, Resetting
<1>6. CASE DeleteStarts(r)
  <2> DEFINE seen == {s.id : s \in SessionsOf(req[r].user)}
             p == IF req[r].pc = "mutate" THEN "delete_commit" ELSE "delete_seen"
  <2>0. /\ (req[r].pc = "mutate" /\ req[r].op # "demote") \/ req[r].pc = "delete_all"
        /\ req' = [req EXCEPT ![r] = [req[r] EXCEPT !.pc = p, !.snap = seen]]
        /\ UNCHANGED locks
    BY <1>6 DEF DeleteStarts, At, Types
  <2>1. \A s \in SessionsOf(req[r].user) : s.id \in seen  OBVIOUS
  <2> HIDE DEF seen
  <2>2. /\ req'[r].pc = p /\ req'[r].op = req[r].op /\ req'[r].user = req[r].user
        /\ req'[r].old = req[r].old /\ req'[r].chain = req[r].chain
        /\ req'[r].epoch = req[r].epoch /\ req'[r].snap = seen
        /\ \A q \in Requests \ {r} : req'[q] = req[q]
    BY <2>0 DEF Types, RequestRecord
  <2>3. Transaction(r)' => Transaction(r)  BY <2>0, <2>2 DEF Transaction
  <2>4. Resetting(r)' => Resetting(r)  BY <2>0, <2>2 DEF Resetting
  <2>5. Own(r)  BY <2>0, <2>2, <2>3 DEF Own, locks, RequestsInv, RowsHeld
  <2>6. Pending(r)  BY <2>0, <2>1, <2>2, <2>4 DEF Pending, UsersInv, ResetPending
  <2>7. OldKept(r)  BY <2>2 DEF OldKept
  <2> QED  BY <1>0, <2>5, <2>6, <2>7
<1> QED  BY <1>1, <1>2, <1>3, <1>4, <1>5, <1>6
         DEF SetupCheck, ensureNotLastActiveAdmin, ClaimToken, locks

\* A step that changes neither table.
LEMMA TablesKept ==
    ASSUME SessionInv, AdminInv', NEW r \in Requests, Own(r), Pending(r), OldKept(r),
           UNCHANGED <<tables, serial>>
    PROVE  SessionInv'
<1> USE DEF SessionInv, AdminInv, tables
<1>1. RequestsInv'  BY RequestsStep
<1>2. UsersInv'
  <2>1. SetupPending'
    BY DEF SetupPending, UsersInv, Own, Pending, SetupRequired, Exists
  <2>2. FactorsHold'  BY DEF FactorsHold, UsersInv, FactorsFit
  <2>3. ResetPending'
    BY DEF ResetPending, UsersInv, Own, Pending, Resetting, Exists
  <2> QED  BY <2>1, <2>2, <2>3 DEF UsersInv
<1>3. TokensInv'
  <2>1. Numbered' /\ IdsDistinct' /\ OneSessionPerChain'
    BY DEF TokensInv, Numbered, IdsDistinct, OneSessionPerChain
  <2>2. TokensHeld'
    BY DEF TokensHeld, TokensInv, Own, OldKept, Consumed
  <2> QED  BY <2>1, <2>2 DEF TokensInv
<1>4. RevokedInv'
  BY DEF RevokedInv, OwnersKnown, RevocationIsFinal, SeenOrNew, SessionsOf, Own, Pending
<1> QED  BY <1>1, <1>2, <1>3, <1>4

LEMMA RequestSteps ==
    ASSUME SessionInv, AdminInv', NEW r \in Requests,
           \/ Arrivals(r) \/ SetupLock(r) \/ SetupCheck(r) \/ beginActiveAdminMutation(r)
           \/ ensureNotLastActiveAdmin(r) \/ ClaimToken(r) \/ VerifyCode(r)
           \/ RefreshLockUser(r) \/ DeleteStarts(r) \/ DeadlockAbort(r)
    PROVE  SessionInv'
<1> USE DEF SessionInv, AdminInv
<1>1. CASE Arrivals(r)
  <2>1. Own(r) /\ Pending(r) /\ OldKept(r)  BY <1>1, ArrivalForm, OwnArrive
  <2> QED  BY <1>1, <2>1, ArrivalForm, TablesKept
<1>2. CASE beginActiveAdminMutation(r)
  <2>1. Own(r) /\ Pending(r) /\ OldKept(r)
    BY <1>2, OwnGoto DEF beginActiveAdminMutation
  <2> QED  BY <1>2, <2>1, TablesKept DEF beginActiveAdminMutation
<1>3. CASE VerifyCode(r)
  <2>1. Own(r) /\ Pending(r) /\ OldKept(r)
    BY <1>3, OwnGoto, OwnFinish DEF VerifyCode, locks
  <2> QED  BY <1>3, <2>1, TablesKept DEF VerifyCode
<1>4. CASE DeadlockAbort(r)
  <2>1. Own(r) /\ Pending(r) /\ OldKept(r)  BY <1>4, OwnFinish DEF DeadlockAbort
  <2> QED  BY <1>4, <2>1, TablesKept DEF DeadlockAbort
<1> QED  BY <1>1, <1>2, <1>3, <1>4, OwnTransaction, TablesKept

-----------------------------------------------------------------------------
(* Steps that write a users row and leave the sessions alone.              *)

\* Whoever moves goes to a step that promises nothing about the tables.
Calmed ==
    \A q \in Requests : \/ req'[q] = req[q]
                        \/ req'[q].pc \in {"free", "issue", "write2fa"} /\ OldKept(q)

LEMMA OwnCalmed ==
    ASSUME NEW r \in Requests, Own(r), OldKept(r), req'[r].pc \in {"free", "issue", "write2fa"}
    PROVE  Calmed
  BY DEF Own, Calmed

LEMMA TokensKept ==
    ASSUME TokensInv, Types, Calmed, sessions' = sessions,
           serial' \in {serial, serial + 1}
    PROVE  TokensInv'
<1>1. serial \in Nat /\ \A s \in sessions : s.id \in Nat /\ s.chain \in Nat
  BY DEF Types, Session
<1>2. Numbered'  BY <1>1 DEF TokensInv, Numbered
<1>3. IdsDistinct' /\ OneSessionPerChain'
  BY DEF TokensInv, IdsDistinct, OneSessionPerChain
<1>4. \A q \in Requests : req'[q].old # 0 =>
        /\ req'[q].old = req[q].old /\ req'[q].chain = req[q].chain
        /\ req'[q].user = req[q].user /\ req'[q].epoch = req[q].epoch
  BY DEF Calmed, OldKept
<1>5. TokensHeld'  BY <1>4 DEF TokensInv, TokensHeld, Consumed
<1> QED  BY <1>2, <1>3, <1>5 DEF TokensInv

LEMMA UserStep ==
    ASSUME SessionInv, AdminInv', RequestsInv', Calmed, sessions' = sessions,
           serial' \in {serial, serial + 1}, NEW u \in Users,
           \A v \in Users \ {u} : user'[v] = user[v], FactorsFit(user'[u]),
           \/ user[u].role = "NONE"
           \/ user'[u].epoch = user[u].epoch /\ user'[u].role # "NONE",
           \/ Exists(u) /\ user[u].reset = "open" => Exists(u)' /\ user'[u].reset = "open"
           \/ rowLock[u] = Nobody,
           \/ user'[u].role = "ADMIN" => user[u].role = "ADMIN"
           \/ \A q \in Requests : req'[q].pc # "setup_insert"
    PROVE  SessionInv'
<1> USE DEF SessionInv, AdminInv
<1>1. TokensInv'  BY TokensKept
<1>2. FactorsHold'  BY DEF UsersInv, FactorsHold
<1>3. SetupPending'
  <2>1. \A q \in Requests : req'[q].pc = "setup_insert" => req[q].pc = "setup_insert"
    BY DEF Calmed
  <2> QED  BY <2>1 DEF UsersInv, SetupPending
<1>4. ResetPending'
  <2> SUFFICES ASSUME NEW q \in Requests, Resetting(q)'
               PROVE  Exists(req[q].user)' /\ user'[req'[q].user].reset = "open"
    BY DEF ResetPending
  <2>1. req'[q] = req[q] /\ Resetting(q)  BY DEF Calmed, Resetting
  <2>2. Exists(req[q].user) /\ user[req[q].user].reset = "open"
    BY <2>1 DEF UsersInv, ResetPending
  <2>3. req[q].user \in Users /\ rowLock[req[q].user] = q
    BY <2>1 DEF RequestsInv, RowsHeld, Types, Transaction, Resetting
  <2>4. CASE req[q].user = u  BY <2>1, <2>2, <2>3, <2>4, NobodyAssumption
  <2>5. CASE req[q].user # u  BY <2>1, <2>2, <2>3, <2>5 DEF Exists
  <2> QED  BY <2>1, <2>4, <2>5
<1>5. RevokedInv'
  <2>1. \A s \in sessions : s.user \in Users /\ user[s.user].role # "NONE"
    BY DEF Types, Session, RevokedInv, OwnersKnown
  <2>2. \A s \in sessions : user'[s.user].epoch = user[s.user].epoch /\ user'[s.user].role # "NONE"
    BY <2>1
  <2>3. OwnersKnown' /\ RevocationIsFinal'
    BY <2>2 DEF OwnersKnown, RevokedInv, RevocationIsFinal
  <2>4. SeenOrNew'  BY DEF RevokedInv, SeenOrNew, Calmed, SessionsOf
  <2> QED  BY <2>3, <2>4 DEF RevokedInv
<1> QED  BY <1>1, <1>2, <1>3, <1>4, <1>5 DEF UsersInv

LEMMA RequestsIdle ==
    ASSUME RequestsInv, UNCHANGED <<locks, req>>
    PROVE  RequestsInv' /\ Calmed
  BY DEF RequestsInv, RowsHeld, OldFits, SetupLocked, Transaction, locks, Calmed

LEMMA NewRowFits ==
    ASSUME NEW role, NEW b PROVE FactorsFit(Row(role, b)) /\ Row(role, b).role = role
  BY DEF FactorsFit, Row

LEMMA AccountSteps ==
    ASSUME SessionInv, AdminInv', NEW u \in Users,
           \/ \E role \in {"USER", "ADMIN"} : CreateUser(u, role)
           \/ Promote(u) \/ Reactivate(u) \/ handleForgotPassword(u) \/ handleChangeEmail(u)
    PROVE  SessionInv'
<1> USE DEF SessionInv, AdminInv
<1>0. UNCHANGED <<locks, req>> /\ sessions' = sessions /\ serial' = serial
  BY DEF CreateUser, Promote, Reactivate, handleForgotPassword, handleChangeEmail, CreateToken
<1>1. RequestsInv' /\ Calmed  BY <1>0, RequestsIdle
<1>2. user[u] \in UserRow /\ FactorsFit(user[u])  BY DEF Types, UsersInv, FactorsHold
\* A new administrator is made by an administrator.
<1>3. ASSUME \E a \in Users : ActiveAdmin(a)
      PROVE  \A q \in Requests : req'[q].pc # "setup_insert"
  BY <1>0, <1>3 DEF ActiveAdmin, UsersInv, SetupPending
<1>4. CASE \E role \in {"USER", "ADMIN"} : CreateUser(u, role)
  <2>1. PICK role \in {"USER", "ADMIN"} : CreateUser(u, role)  BY <1>4
  <2>2. /\ user' = [user EXCEPT ![u] = Row(role, TRUE)] /\ user[u].role = "NONE"
        /\ role = "ADMIN" => \E a \in Users : ActiveAdmin(a)
    BY <2>1 DEF CreateUser
  <2>3. user'[u] = Row(role, TRUE) /\ \A v \in Users \ {u} : user'[v] = user[v]
    BY <2>2 DEF Types
  <2>4. ~ Exists(u)  BY <2>2 DEF Exists
  <2>5. FactorsFit(user'[u]) /\ user'[u].role = role  BY <2>3, NewRowFits
  <2> QED  BY <1>0, <1>1, <1>3, <2>2, <2>3, <2>4, <2>5, UserStep
<1>5. CASE Promote(u)
  <2> DEFINE row == [user[u] EXCEPT !.role = "ADMIN"]
  <2>1. user' = [user EXCEPT ![u] = row] /\ rowLock[u] = Nobody /\ \E a \in Users : ActiveAdmin(a)
    BY <1>5 DEF Promote, Types
  <2>2. row.role = "ADMIN" /\ row.epoch = user[u].epoch /\ FactorsFit(row)
    BY <1>2 DEF UserRow, FactorsFit
  <2> HIDE DEF row
  <2>3. user'[u] = row /\ \A v \in Users \ {u} : user'[v] = user[v]
    BY <2>1 DEF Types
  <2> QED  BY <1>0, <1>1, <1>3, <2>1, <2>2, <2>3, UserStep
<1>6. CASE Reactivate(u)
  <2> DEFINE row == [user[u] EXCEPT !.active = TRUE]
  <2>1. user' = [user EXCEPT ![u] = row] /\ rowLock[u] = Nobody /\ Exists(u)
    BY <1>6 DEF Reactivate, Types
  <2>2. row.role = user[u].role /\ row.epoch = user[u].epoch /\ FactorsFit(row)
    BY <1>2 DEF UserRow, FactorsFit
  <2> HIDE DEF row
  <2>3. user'[u] = row /\ \A v \in Users \ {u} : user'[v] = user[v]
    BY <2>1 DEF Types
  <2>4. user[u].role # "NONE"  BY <2>1 DEF Exists
  <2> QED  BY <1>0, <1>1, <2>1, <2>2, <2>3, <2>4, UserStep
<1>7. CASE handleForgotPassword(u) \/ handleChangeEmail(u)
  <2>1. PICK row : /\ CreateToken(u, row) /\ FactorsFit(row)
                   /\ row.role = user[u].role /\ row.epoch = user[u].epoch
    <3>1. CASE handleForgotPassword(u)
      <4> DEFINE row == [user[u] EXCEPT !.reset = "open", !.spentReset = 0]
      <4>1. /\ row.role = user[u].role /\ row.epoch = user[u].epoch
            /\ row.on = user[u].on /\ row.secret = user[u].secret /\ row.proved = user[u].proved
            /\ row.code = user[u].code /\ row.spentCode = user[u].spentCode
            /\ row.spentReset = 0
        BY <1>2 DEF UserRow
      <4>2. FactorsFit(row)  BY <1>2, <4>1 DEF FactorsFit
      <4> QED  BY <3>1, <4>1, <4>2 DEF handleForgotPassword
    <3>2. CASE handleChangeEmail(u)
      <4> DEFINE row == [user[u] EXCEPT !.mail = "open"]
      <4>1. row.role = user[u].role /\ row.epoch = user[u].epoch /\ FactorsFit(row)
        BY <1>2 DEF UserRow, FactorsFit
      <4> QED  BY <3>2, <4>1 DEF handleChangeEmail
    <3> QED  BY <1>7, <3>1, <3>2
  <2>2. rowLock[u] = Nobody /\ Exists(u) /\ user' = [user EXCEPT ![u] = row]
    BY <2>1 DEF CreateToken
  <2>3. user'[u] = row /\ \A v \in Users \ {u} : user'[v] = user[v]
    BY <2>2 DEF Types
  <2>4. user[u].role # "NONE"  BY <2>2, SMTT(40) DEF Exists
  <2> QED  BY <1>0, <1>1, <2>1, <2>2, <2>3, <2>4, UserStep
<1> QED  BY <1>4, <1>5, <1>6, <1>7

LEMMA FactorSteps ==
    ASSUME SessionInv, AdminInv', NEW r \in Requests,
           \/ ConsumeTOTPBackupCode(r) \/ SetUserTOTPSecret(r)
           \/ EnableUserTOTP(r) \/ DisableUserTOTP(r)
    PROVE  SessionInv'
<1> USE DEF SessionInv, AdminInv
<1> PICK u \in Users : u = req[r].user
  BY DEF ConsumeTOTPBackupCode, SetUserTOTPSecret, EnableUserTOTP, DisableUserTOTP, At, Types
<1>0. /\ req[r].pc # "free" /\ UNCHANGED locks /\ sessions' = sessions
      /\ (Finish(r) \/ \E p \in {"issue", "write2fa"} : Goto(r, p))
      /\ serial' \in {serial, serial + 1}
  BY DEF ConsumeTOTPBackupCode, SetUserTOTPSecret, EnableUserTOTP, DisableUserTOTP, At, Types
<1>1. Own(r) /\ OldKept(r) /\ req'[r].pc \in {"free", "issue", "write2fa"}
  <2>1. CASE Finish(r)  BY <1>0, <2>1, OwnFinish, FreeFields
  <2>2. ASSUME NEW p \in {"issue", "write2fa"}, Goto(r, p)
        PROVE  Own(r) /\ OldKept(r) /\ req'[r].pc \in {"free", "issue", "write2fa"}
    <3>1. p \in Pcs  BY DEF Pcs
    <3> QED  BY <1>0, <2>2, <3>1, OwnGoto, GotoFields DEF locks
  <2> QED  BY <1>0, <2>1, <2>2
<1>2. RequestsInv' /\ Calmed  BY <1>1, RequestsStep, OwnCalmed
<1>3. user[u] \in UserRow /\ FactorsFit(user[u])  BY <1>0 DEF Types, UsersInv, FactorsHold
<1>4. ASSUME NEW row, user' = [user EXCEPT ![u] = row], FactorsFit(row),
             row.role = user[u].role, row.epoch = user[u].epoch, row.reset = user[u].reset
      PROVE  SessionInv'
  <2>1. user'[u] = row /\ \A v \in Users \ {u} : user'[v] = user[v]
    BY <1>0, <1>4 DEF Types
  <2>2. Exists(u)' <=> Exists(u)  BY <1>4, <2>1 DEF Exists
  <2> QED  BY <1>0, <1>2, <1>4, <2>1, <2>2, UserStep
<1>5. CASE user' = user
  <2>1. \A v \in Users \ {u} : user'[v] = user[v]  BY <1>5
  <2>2. Exists(u)' <=> Exists(u)  BY <1>5 DEF Exists
  <2> QED  BY <1>0, <1>2, <1>3, <1>5, <2>1, <2>2, UserStep
<1>6. CASE ConsumeTOTPBackupCode(r) /\ CodeIsThere(r)
  <2> DEFINE n == user[u].spentCode + 1
             row == [user[u] EXCEPT !.code = FALSE, !.spentCode = n]
  <2>0. n <= 1  BY <1>3, <1>6 DEF FactorsFit, CodeIsThere
  <2>1. user' = [user EXCEPT ![u] = row]
    BY <1>0, <1>6 DEF ConsumeTOTPBackupCode, Types
  <2> HIDE DEF n
  <2>2. /\ row.role = user[u].role /\ row.epoch = user[u].epoch /\ row.reset = user[u].reset
        /\ row.on = user[u].on /\ row.secret = user[u].secret /\ row.proved = user[u].proved
        /\ row.code = FALSE /\ row.spentCode = n /\ row.spentReset = user[u].spentReset
    BY <1>3 DEF UserRow
  <2>3. FactorsFit(row)  BY <1>3, <2>0, <2>2 DEF FactorsFit
  <2> QED  BY <1>4, <2>1, <2>2, <2>3
<1>7. CASE SetUserTOTPSecret(r) /\ user' # user
  <2> DEFINE row == [user[u] EXCEPT !.secret = serial]
  <2>0. ~ user[u].on  BY <1>7 DEF SetUserTOTPSecret
  <2>1. user' = [user EXCEPT ![u] = row]
    BY <1>0, <1>7 DEF SetUserTOTPSecret, Types
  <2>2. /\ row.role = user[u].role /\ row.epoch = user[u].epoch /\ row.reset = user[u].reset
        /\ row.on = user[u].on /\ row.code = user[u].code
        /\ row.spentCode = user[u].spentCode /\ row.spentReset = user[u].spentReset
    BY <1>3 DEF UserRow
  <2>3. FactorsFit(row)  BY <1>3, <2>0, <2>2 DEF FactorsFit
  <2> QED  BY <1>4, <2>1, <2>2, <2>3
<1>8. CASE EnableUserTOTP(r) /\ CanEnable(r)
  <2> DEFINE row == [user[u] EXCEPT !.on = TRUE, !.code = TRUE, !.spentCode = 0,
                                    !.proved = req[r].secret]
  <2>0. user[u].secret = req[r].secret  BY <1>8 DEF CanEnable
  <2>1. user' = [user EXCEPT ![u] = row]
    BY <1>0, <1>8 DEF EnableUserTOTP, Types
  <2>2. /\ row.role = user[u].role /\ row.epoch = user[u].epoch /\ row.reset = user[u].reset
        /\ row.secret = user[u].secret /\ row.proved = req[r].secret
        /\ row.spentCode = 0 /\ row.spentReset = user[u].spentReset
    BY <1>3 DEF UserRow
  <2>3. FactorsFit(row)  BY <1>3, <2>0, <2>2 DEF FactorsFit
  <2> QED  BY <1>4, <2>1, <2>2, <2>3
<1>9. CASE DisableUserTOTP(r) /\ user' # user
  <2> DEFINE row == [user[u] EXCEPT !.on = FALSE, !.secret = 0, !.code = FALSE]
  <2>1. user' = [user EXCEPT ![u] = row]
    BY <1>0, <1>9 DEF DisableUserTOTP, Types
  <2>2. /\ row.role = user[u].role /\ row.epoch = user[u].epoch /\ row.reset = user[u].reset
        /\ row.on = FALSE /\ row.code = FALSE
        /\ row.spentCode = user[u].spentCode /\ row.spentReset = user[u].spentReset
    BY <1>3 DEF UserRow
  <2>3. FactorsFit(row)  BY <1>3, <2>2 DEF FactorsFit
  <2> QED  BY <1>4, <2>1, <2>2, <2>3
<1> QED  BY <1>5, <1>6, <1>7, <1>8, <1>9
         DEF ConsumeTOTPBackupCode, SetUserTOTPSecret, EnableUserTOTP, DisableUserTOTP

LEMMA InsertAndDemoteSteps ==
    ASSUME SessionInv, AdminInv', NEW r \in Requests, SetupInsert(r) \/ DemoteCommit(r)
    PROVE  SessionInv'
<1> USE DEF SessionInv, AdminInv
<1> PICK u \in Users : u = req[r].user
  BY DEF SetupInsert, DemoteCommit, At, Types
<1>0. /\ req[r].pc \in {"setup_insert", "mutate"} /\ Unlock(r)
      /\ (Finish(r) \/ Goto(r, "issue")) /\ sessions' = sessions /\ serial' = serial
  BY DEF SetupInsert, DemoteCommit, At, Types
<1>1. Own(r) /\ OldKept(r) /\ req'[r].pc \in {"free", "issue"}
  <2>1. CASE Finish(r)  BY <1>0, <2>1, OwnFinish, FreeFields
  <2>2. CASE Goto(r, "issue")
    <3>1. "issue" \in Pcs  BY DEF Pcs
    <3> QED  BY <1>0, <2>2, <3>1, OwnGoto, GotoFields
  <2> QED  BY <1>0, <2>1, <2>2
<1>2. RequestsInv' /\ Calmed  BY <1>1, RequestsStep, OwnCalmed
<1>3. user[u] \in UserRow /\ FactorsFit(user[u])  BY <1>0 DEF Types, UsersInv, FactorsHold
<1>4. CASE user' = user
  <2>1. \A v \in Users \ {u} : user'[v] = user[v]  BY <1>4
  <2>2. Exists(u)' <=> Exists(u)  BY <1>4 DEF Exists
  <2> QED  BY <1>0, <1>2, <1>3, <1>4, <2>1, <2>2, UserStep
<1>5. CASE SetupInsert(r) /\ user' # user
  <2>1. user[u].role = "NONE" /\ user' = [user EXCEPT ![u] = Row("ADMIN", TRUE)]
    BY <1>5 DEF SetupInsert
  <2>2. user'[u] = Row("ADMIN", TRUE) /\ \A v \in Users \ {u} : user'[v] = user[v]
    BY <1>0, <2>1 DEF Types
  <2>3. \A q \in Requests : req'[q].pc # "setup_insert"
    <3>1. setupLock = r  BY <1>5 DEF SetupInsert, At, RequestsInv, SetupLocked
    <3> QED  BY <1>1, <3>1 DEF Own, RequestsInv, SetupLocked
  <2>4. ~ Exists(u)  BY <2>1 DEF Exists
  <2>5. FactorsFit(user'[u])
    <3>1. FactorsFit(Row("ADMIN", TRUE))  BY NewRowFits
    <3> QED  BY <2>2, <3>1, Zenon
  <2> QED  BY <1>0, <1>2, <2>1, <2>2, <2>3, <2>4, <2>5, UserStep
<1>6. CASE DemoteCommit(r)
  <2> DEFINE row == [user[u] EXCEPT !.role = "USER"]
  <2>1. user' = [user EXCEPT ![u] = row]  BY <1>0, <1>6 DEF DemoteCommit, Types
  <2>2. /\ row.role = "USER" /\ row.epoch = user[u].epoch /\ row.reset = user[u].reset
        /\ FactorsFit(row)
    BY <1>3 DEF UserRow, FactorsFit
  <2> HIDE DEF row
  <2>3. user'[u] = row /\ \A v \in Users \ {u} : user'[v] = user[v]
    BY <1>0, <2>1 DEF Types
  <2>4. Exists(u)'  BY <2>2, <2>3 DEF Exists
  <2> QED  BY <1>0, <1>2, <2>2, <2>3, <2>4, UserStep
<1> QED  BY <1>4, <1>5, <1>6

-----------------------------------------------------------------------------
(* Steps that write the sessions.                                          *)

LEMMA ConsumeSteps ==
    ASSUME SessionInv, AdminInv', NEW r \in Requests, NEW s \in sessions,
           ConsumeRefreshToken(r, s)
    PROVE  SessionInv'
<1> USE DEF SessionInv, AdminInv
<1> DEFINE new == [Free EXCEPT !.pc = "lock_user", !.op = "refresh", !.user = s.user,
                               !.old = s.id, !.chain = s.chain, !.epoch = s.epoch]
<1>1. /\ new.pc = "lock_user" /\ new.op = "refresh" /\ new.user = s.user /\ new.old = s.id
      /\ new.chain = s.chain /\ new.epoch = s.epoch
  BY DEF Free
<1>2. /\ req' = [req EXCEPT ![r] = new] /\ UNCHANGED <<tables, locks, serial>>
      /\ ~ HeldByOther(r, s)
  BY DEF ConsumeRefreshToken
<1> HIDE DEF new
<1>3. req'[r] = new /\ \A q \in Requests \ {r} : req'[q] = req[q]
  BY <1>2 DEF Types
<1>4. s.id # 0  BY DEF TokensInv, Numbered
<1>5. Own(r) /\ Pending(r)
  BY <1>1, <1>2, <1>3, <1>4 DEF Own, Pending, Transaction, Resetting, locks
<1>6. RequestsInv'  BY <1>5, RequestsStep
<1>7. UsersInv'
  <2>1. SetupPending' /\ ResetPending'
    BY <1>2, <1>5 DEF SetupPending, ResetPending, UsersInv, Own, Pending, SetupRequired,
                      Resetting, Exists, tables
  <2>2. FactorsHold'  BY <1>2 DEF FactorsHold, UsersInv, FactorsFit, tables
  <2> QED  BY <2>1, <2>2 DEF UsersInv
<1>8. TokensInv'
  <2>1. Numbered' /\ IdsDistinct' /\ OneSessionPerChain'
    BY <1>2 DEF TokensInv, Numbered, IdsDistinct, OneSessionPerChain, tables
  <2>2. \A q \in Requests \ {r} : req[q].old # s.id  BY <1>2 DEF HeldByOther
  <2>3. Consumed(r, s)'  BY <1>1, <1>3 DEF Consumed
  <2>4. \A q \in Requests \ {r}, t \in sessions : Consumed(q, t)' <=> Consumed(q, t)
    BY <1>3 DEF Consumed
  <2>5. TokensHeld'
    BY <1>1, <1>2, <1>3, <2>2, <2>3, <2>4 DEF TokensInv, TokensHeld, tables
  <2> QED  BY <2>1, <2>5 DEF TokensInv
<1>9. RevokedInv'
  BY <1>1, <1>2, <1>3 DEF RevokedInv, OwnersKnown, RevocationIsFinal, SeenOrNew, SessionsOf, tables
<1> QED  BY <1>6, <1>7, <1>8, <1>9

\* A step of r on the sessions alone, after which r is done.
LEMMA UsersKept ==
    ASSUME SessionInv, AdminInv', NEW r \in Requests, Finish(r),
           Unlock(r) \/ UNCHANGED locks, user' = user
    PROVE  RequestsInv' /\ UsersInv'
<1> USE DEF SessionInv, AdminInv
<1>1. Own(r) /\ Pending(r)  BY OwnFinish
<1>2. RequestsInv'  BY <1>1, RequestsStep
<1>3. SetupPending' /\ ResetPending'
  BY <1>1 DEF SetupPending, ResetPending, UsersInv, Own, Pending, SetupRequired,
              Resetting, Exists
<1>4. FactorsHold'  BY DEF FactorsHold, UsersInv, FactorsFit
<1> QED  BY <1>2, <1>3, <1>4 DEF UsersInv

\* Some sessions go, none of them held by a rotation that goes on.
LEMMA TokensRemoved ==
    ASSUME TokensInv, NEW old, NEW new, new \subseteq old, old = sessions, sessions' = new,
           serial' = serial,
           \A q \in Requests : req'[q].old # 0 =>
               /\ req'[q] = req[q]
               /\ \A s \in old : s.id = req[q].old => s \in new
    PROVE  TokensInv'
<1>1. Numbered' /\ IdsDistinct' /\ OneSessionPerChain'
  BY DEF TokensInv, Numbered, IdsDistinct, OneSessionPerChain
<1>2. TokensHeld'  BY DEF TokensInv, TokensHeld, Consumed
<1> QED  BY <1>1, <1>2 DEF TokensInv

LEMMA RemoveSteps ==
    ASSUME SessionInv, AdminInv',
           \/ \E r \in Requests : DeleteAllRefreshTokensForUser(r)
           \/ \E s \in sessions : DeleteRefreshToken(s)
    PROVE  SessionInv'
<1> USE DEF SessionInv, AdminInv
<1>1. ASSUME NEW r \in Requests, DeleteAllRefreshTokensForUser(r)  PROVE SessionInv'
  <2>1. /\ Finish(r) /\ Unlock(r) /\ user' = user /\ serial' = serial
        /\ sessions' = {s \in sessions : s.id \notin req[r].snap} /\ SeenTokensAreFree(r)
    BY <1>1 DEF DeleteAllRefreshTokensForUser
  <2>2. RequestsInv' /\ UsersInv'  BY <2>1, UsersKept
  <2>3. /\ req'[r].old = 0 /\ req'[r].pc = "free" /\ sessions' \subseteq sessions
        /\ \A q \in Requests \ {r} : req'[q] = req[q]
    BY <2>1, OwnFinish, FreeFields DEF Own
  <2>4. TokensInv'
    BY <2>1, <2>3, TokensRemoved DEF SeenTokensAreFree, HeldByOther
  <2>5. RevokedInv'
    BY <2>1, <2>3 DEF RevokedInv, OwnersKnown, RevocationIsFinal, SeenOrNew, SessionsOf
  <2> QED  BY <2>2, <2>4, <2>5
<1>2. ASSUME NEW s \in sessions, DeleteRefreshToken(s)  PROVE SessionInv'
  <2>1. /\ UNCHANGED <<user, locks, req, serial>> /\ sessions' = sessions \ {s}
        /\ \A q \in Requests : req[q].old # s.id
    BY <1>2 DEF DeleteRefreshToken
  <2>2. RequestsInv'  BY <2>1, RequestsIdle
  <2>3. UsersInv'
    BY <2>1 DEF UsersInv, SetupPending, FactorsHold, FactorsFit, ResetPending, Resetting, Exists
  <2>4. TokensInv'  BY <2>1, TokensRemoved
  <2>5. RevokedInv'
    BY <2>1 DEF RevokedInv, OwnersKnown, RevocationIsFinal, SeenOrNew, SessionsOf
  <2> QED  BY <2>2, <2>3, <2>4, <2>5
<1> QED  BY <1>1, <1>2

\* A session of a chain that no other session and no other request knows.
LEMMA TokenAdded ==
    ASSUME Types, Types', TokensInv, NEW r \in Requests, NEW n \in Session, NEW old \in Nat,
           sessions' = {s \in sessions : s.id # old} \cup {n}, n.id = serial,
           n.chain <= serial, serial # 0,
           serial' = serial + 1, req'[r].old = 0,
           \A q \in Requests \ {r} : req'[q] = req[q] /\ (req[q].old # 0 => req[q].old # old),
           \A s \in sessions : s.chain = n.chain => s.id = old
    PROVE  TokensInv'
<1>1. serial \in Nat /\ \A s \in sessions : s.id \in Nat /\ s.chain \in Nat
  BY DEF Types, Session
<1>2. \A s \in sessions : s.id < serial /\ s.id # 0 /\ s.chain < serial
  BY DEF TokensInv, Numbered
<1>3. Numbered'  BY <1>1, <1>2 DEF Numbered, Session
<1>4. \A s \in sessions : s.id # n.id  BY <1>1, <1>2
<1>5. IdsDistinct'  BY <1>4 DEF TokensInv, IdsDistinct
<1>6. OneSessionPerChain'  BY DEF TokensInv, OneSessionPerChain
<1>7. TokensHeld'  BY DEF TokensInv, TokensHeld, Consumed
<1> QED  BY <1>3, <1>5, <1>6, <1>7 DEF TokensInv

LEMMA IssueSteps ==
    ASSUME SessionInv, AdminInv', NEW r \in Requests, issueTokens(r)
    PROVE  SessionInv'
<1> USE DEF SessionInv, AdminInv
<1>0. /\ Finish(r) /\ UNCHANGED <<user, locks>> /\ serial' = serial + 1
      /\ req[r].user \in Users
  BY DEF issueTokens, At, Types
<1>1. RequestsInv' /\ UsersInv'  BY <1>0, UsersKept
<1>2. /\ req'[r].old = 0 /\ req'[r].pc = "free" /\ Calmed
      /\ \A q \in Requests \ {r} : req'[q] = req[q]
  BY <1>0, OwnFinish, OwnCalmed, FreeFields DEF Own
<1>3. CASE ~ Exists(req[r].user)
  <2>1. sessions' = sessions  BY <1>3 DEF issueTokens
  <2>2. TokensInv'  BY <1>0, <1>2, <2>1, TokensKept
  <2>3. RevokedInv'
    BY <1>0, <1>2, <2>1 DEF RevokedInv, OwnersKnown, RevocationIsFinal, SeenOrNew, SessionsOf
  <2> QED  BY <1>1, <2>2, <2>3
<1>4. CASE Exists(req[r].user)
  <2> DEFINE n == [id |-> serial, user |-> req[r].user, chain |-> serial,
                   epoch |-> user[req[r].user].epoch,
                   late |-> req[r].epoch # user[req[r].user].epoch]
  <2>1. sessions' = sessions \cup {n}  BY <1>4 DEF issueTokens
  <2>2. n \in Session
    <3>1. (req[r].epoch # user[req[r].user].epoch) \in BOOLEAN  OBVIOUS
    <3>2. user[req[r].user].epoch \in Nat  BY <1>0 DEF Types, UserRow
    <3> QED  BY <1>0, <3>1, <3>2, SessionType DEF Types
  <2>3. /\ n.id = serial /\ n.chain = serial /\ n.user = req[r].user
        /\ n.epoch = user[req[r].user].epoch
    OBVIOUS
  <2> HIDE DEF n
  <2>4. /\ \A s \in sessions : s.id # 0 /\ s.chain # serial /\ s.id \in Nat /\ s.chain \in Nat
        /\ serial \in Nat /\ serial # 0
    BY DEF TokensInv, Numbered, Types, Session
  <2>5. sessions' = {s \in sessions : s.id # 0} \cup {n}  BY <2>1, <2>4
  <2>6. TokensInv'  BY <1>0, <1>2, <2>2, <2>3, <2>4, <2>5, TokenAdded
  <2>7. user[req[r].user].role # "NONE"  BY <1>4 DEF Exists
  <2>8. RevokedInv'
    BY <1>0, <1>2, <2>1, <2>3, <2>7
       DEF RevokedInv, OwnersKnown, RevocationIsFinal, SeenOrNew, SessionsOf
  <2> QED  BY <1>1, <2>6, <2>8
<1> QED  BY <1>3, <1>4

\* The successor belongs to the chain, the account and the epoch of the
\* session it replaces, and is late if that one was.
LEMMA RefreshSteps ==
    ASSUME SessionInv, AdminInv', NEW r \in Requests, RefreshCommit(r)
    PROVE  SessionInv'
<1> USE DEF SessionInv, AdminInv
<1>0. /\ Finish(r) /\ Unlock(r) /\ user' = user /\ serial' = serial + 1
      /\ req[r].user \in Users /\ req[r].pc = "rotate" /\ req[r].old # 0
  BY DEF RefreshCommit, At, Types, RequestsInv, OldFits
<1>1. RequestsInv' /\ UsersInv'  BY <1>0, UsersKept
<1>2. /\ req'[r].old = 0 /\ req'[r].pc = "free"
      /\ \A q \in Requests \ {r} : req'[q] = req[q]
  BY <1>0, OwnFinish, FreeFields DEF Own
<1>3. PICK t \in sessions : Consumed(r, t)  BY <1>0 DEF TokensInv, TokensHeld
<1> DEFINE l == \E s \in sessions : s.id = req[r].old /\ s.late
           n == [id |-> serial, user |-> req[r].user, chain |-> req[r].chain,
                 epoch |-> req[r].epoch, late |-> l]
<1>4. sessions' = {s \in sessions : s.id # req[r].old} \cup {n}
  BY DEF RefreshCommit
<1>5. l \in BOOLEAN /\ (t.late => l)  BY <1>3, Zenon DEF Consumed
<1>6. req[r].chain \in Nat /\ req[r].epoch \in Nat /\ req[r].old \in Nat
  BY DEF Types, RequestRecord
<1> HIDE DEF l
<1>7. n \in Session  BY <1>0, <1>5, <1>6, SessionType DEF Types
<1>8. /\ n.id = serial /\ n.chain = req[r].chain /\ n.user = req[r].user
      /\ n.epoch = req[r].epoch /\ n.late = l
  OBVIOUS
<1> HIDE DEF n
<1>9. TokensInv'
  <2>1. serial # 0 /\ n.chain <= serial
    BY <1>3, <1>6, <1>8 DEF TokensInv, Numbered, Consumed, Types
  <2>2. \A q \in Requests \ {r} : req[q].old # req[r].old
    BY <1>0 DEF TokensInv, TokensHeld
  <2>3. \A s \in sessions : s.chain = n.chain => s.id = req[r].old
    BY <1>3, <1>8 DEF TokensInv, OneSessionPerChain, Consumed
  <2> QED  BY <1>0, <1>2, <1>4, <1>6, <1>7, <1>8, <2>1, <2>2, <2>3, TokenAdded
<1>10. n.late \/ n.epoch = user[n.user].epoch
  <2>1. t.late \/ t.epoch = user[t.user].epoch  BY DEF RevokedInv, RevocationIsFinal
  <2>2. CASE t.late  BY <1>5, <1>8, <2>2, Zenon
  <2>3. CASE t.epoch = user[t.user].epoch  BY <1>3, <1>8, <2>3 DEF Consumed
  <2> QED  BY <2>1, <2>2, <2>3
<1>11. OwnersKnown' /\ RevocationIsFinal'
  <2>1. user[n.user].role # "NONE"  BY <1>3, <1>8 DEF RevokedInv, OwnersKnown, Consumed
  <2>2. OwnersKnown'  BY <1>0, <1>4, <2>1 DEF RevokedInv, OwnersKnown
  <2>3. RevocationIsFinal'  BY <1>0, <1>4, <1>10, Zenon DEF RevokedInv, RevocationIsFinal
  <2> QED  BY <2>2, <2>3
<1>12. SeenOrNew'
  <2> SUFFICES ASSUME NEW q \in Requests, req'[q].pc = "delete_commit",
                      NEW s \in sessions', s.user = req'[q].user
               PROVE  s.id \in req'[q].snap \/ s.id = s.chain
    BY DEF SeenOrNew, SessionsOf
  <2>1. q # r /\ req'[q] = req[q]  BY <1>2
  <2>2. rowLock[req[q].user] = q /\ rowLock[req[r].user] = r
    BY <1>0, <2>1 DEF RequestsInv, RowsHeld, Transaction
  <2>3. s # n  BY <1>8, <2>1, <2>2
  <2> QED  BY <1>4, <2>1, <2>3 DEF RevokedInv, SeenOrNew, SessionsOf
<1> QED  BY <1>1, <1>9, <1>11, <1>12 DEF RevokedInv

\* A DELETE that ended all sessions of an account.
LEMMA RevokeSteps ==
    ASSUME SessionInv, AdminInv', NEW r \in Requests, DeleteSessions(r)
    PROVE  SessionInv'
<1> USE DEF SessionInv, AdminInv
<1> PICK u \in Users : u = req[r].user  BY DEF DeleteSessions, At, Types
<1> DEFINE base == Written(req[r].op, user[u])
           row == [base EXCEPT !.epoch = user[u].epoch + 1]
           mark(s) == IF s.user = u /\ s.id = s.chain THEN [s EXCEPT !.late = TRUE] ELSE s
           left == {t \in sessions : t.id \notin req[r].snap}
<1>0. /\ req[r].pc = "delete_commit" /\ user[u] \in UserRow /\ FactorsFit(user[u])
      /\ req[r].op \in {"suspend", "delete", "reset", "email"}
      /\ (Finish(r) \/ (req[r].op = "email" /\ DeleteAgain(r)))
      /\ Unlock(r) /\ serial' = serial /\ SeenTokensAreFree(r)
  BY DEF DeleteSessions, At, Types, OpsFit, UsersInv, FactorsHold
<1>1. Own(r) /\ Pending(r) /\ req'[r].old = 0 /\ req'[r].pc \in {"free", "delete_all"}
  <2>1. CASE Finish(r)  BY <1>0, <2>1, OwnFinish, FreeFields
  <2>2. CASE DeleteAgain(r)  BY <1>0, <2>2, OwnAgain, AgainFields
  <2> QED  BY <1>0, <2>1, <2>2
<1>2. RequestsInv'  BY <1>1, RequestsStep
<1>3. rowLock[u] = r  BY <1>0 DEF RequestsInv, RowsHeld, Transaction
<1>4. sessions' = {mark(s) : s \in left}  BY DEF DeleteSessions
<1>5. user' = [user EXCEPT ![u] = row]  BY DEF DeleteSessions
<1>6. /\ base \in UserRow /\ FactorsFit(base) /\ base.role \in {user[u].role, "GONE"}
  <2>1. CASE req[r].op = "suspend"
    BY <1>0, <2>1 DEF Written, SuspendUser, UserRow, FactorsFit
  <2>2. CASE req[r].op = "delete"
    BY <1>0, <2>2 DEF Written, DeleteUser, UserRow, FactorsFit
  <2>3. CASE req[r].op = "reset"
    <3> DEFINE n == user[u].spentReset + 1
    <3>1. n \in Nat /\ n <= 1
      BY <1>0, <2>3 DEF UserRow, UsersInv, ResetPending, Resetting, FactorsFit
    <3>2. base = [user[u] EXCEPT !.reset = "used", !.spentReset = n]
      BY <2>3 DEF Written, ClaimPasswordResetToken
    <3> HIDE DEF n
    <3>3. /\ base \in UserRow /\ base.role = user[u].role /\ base.on = user[u].on
          /\ base.secret = user[u].secret /\ base.proved = user[u].proved
          /\ base.code = user[u].code /\ base.spentCode = user[u].spentCode
          /\ base.reset = "used" /\ base.spentReset = n
      BY <1>0, <3>1, <3>2, ZenonT(40) DEF UserRow, TokenStates
    <3> HIDE DEF base
    <3> QED  BY <1>0, <3>1, <3>3 DEF FactorsFit
  <2>4. CASE req[r].op = "email"
    BY <1>0, <2>4 DEF Written, ClaimEmailChangeToken, UserRow, TokenStates, FactorsFit
  <2> QED  BY <1>0, <2>1, <2>2, <2>3, <2>4
<1> HIDE DEF base
<1>7. FactorsFit(row) /\ row.role = base.role
  <2> DEFINE n == user[u].epoch + 1
             new == [base EXCEPT !.epoch = n]
  <2> HIDE DEF n
  <2>1. /\ new.role = base.role /\ new.on = base.on /\ new.secret = base.secret
        /\ new.proved = base.proved /\ new.code = base.code /\ new.spentCode = base.spentCode
        /\ new.reset = base.reset /\ new.spentReset = base.spentReset
    BY <1>6 DEF UserRow
  <2> HIDE DEF new
  <2>2. FactorsFit(new) /\ new.role = base.role  BY <1>6, <2>1 DEF FactorsFit
  <2> QED  BY <2>2 DEF new, n
<1> HIDE DEF row
<1>8. user'[u] = row /\ \A v \in Users \ {u} : user'[v] = user[v]
  BY <1>5 DEF Types
<1>9. UsersInv'
  <2>1. FactorsHold'  BY <1>7, <1>8 DEF UsersInv, FactorsHold
  <2>2. SetupPending'
    BY <1>1, <1>6, <1>7, <1>8 DEF UsersInv, SetupPending, Own
  <2>3. ResetPending'
    <3> SUFFICES ASSUME NEW q \in Requests, Resetting(q)'
                 PROVE  Exists(req[q].user)' /\ user'[req'[q].user].reset = "open"
      BY DEF ResetPending
    <3>1. q # r /\ req'[q] = req[q] /\ Resetting(q)  BY <1>1 DEF Own, Resetting
    <3>2. req[q].user \in Users /\ rowLock[req[q].user] = q
      BY <3>1 DEF RequestsInv, RowsHeld, Types, Transaction, Resetting
    <3>3. user'[req[q].user] = user[req[q].user]  BY <1>3, <1>8, <3>1, <3>2
    <3> QED  BY <3>1, <3>3 DEF UsersInv, ResetPending, Exists
  <2> QED  BY <2>1, <2>2, <2>3 DEF UsersInv
\* The marked sessions are the sessions that are left.
<1>10. \A s \in sessions : /\ mark(s).id = s.id /\ mark(s).chain = s.chain
                           /\ mark(s).user = s.user /\ mark(s).epoch = s.epoch
  BY DEF Types, Session
<1>11. \A s \in sessions : s.user = u /\ s.id = s.chain => mark(s).late
  BY DEF Types, Session
<1>12. \A s \in sessions : s.user # u => mark(s) = s
  OBVIOUS
<1> HIDE DEF mark
<1>13. TokensInv'
  <2>1. Numbered'  BY <1>0, <1>4, <1>10 DEF TokensInv, Numbered
  <2>2. IdsDistinct' /\ OneSessionPerChain'
    BY <1>4, <1>10 DEF TokensInv, IdsDistinct, OneSessionPerChain
  <2>3. TokensHeld'
    <3> SUFFICES ASSUME NEW q \in Requests, req'[q].old # 0
                 PROVE  /\ \E s \in sessions' : Consumed(q, s)'
                        /\ \A p \in Requests : req'[p].old = req'[q].old => p = q
      BY DEF TokensHeld
    <3>1. q # r /\ req'[q] = req[q]  BY <1>1 DEF Own
    <3>2. PICK s \in sessions : Consumed(q, s)  BY <3>1 DEF TokensInv, TokensHeld
    <3>3. s \in left
      BY <1>0, <3>1, <3>2 DEF SeenTokensAreFree, HeldByOther, Consumed
    <3>4. Consumed(q, mark(s))'  BY <1>10, <3>1, <3>2 DEF Consumed
    <3>5. \A p \in Requests : req'[p].old = req'[q].old => p = q
      BY <1>1, <3>1 DEF Own, TokensInv, TokensHeld
    <3> QED  BY <1>4, <3>3, <3>4, <3>5
  <2> QED  BY <2>1, <2>2, <2>3 DEF TokensInv
<1>14. RevokedInv'
  <2>1. ASSUME NEW s \in left
        PROVE  /\ mark(s).late \/ mark(s).epoch = user'[mark(s).user].epoch
               /\ user'[mark(s).user].role # "NONE"
    <3>1. s.user \in Users /\ user[s.user].role # "NONE"
      BY DEF Types, Session, RevokedInv, OwnersKnown
    <3>2. CASE s.user = u
      <4>1. s.id = s.chain
        BY <1>0, <3>2 DEF RevokedInv, SeenOrNew, SessionsOf
      <4> QED  BY <1>6, <1>7, <1>8, <1>10, <1>11, <3>1, <3>2, <4>1
    <3>3. CASE s.user # u
      <4>1. s.late \/ s.epoch = user[s.user].epoch  BY DEF RevokedInv, RevocationIsFinal
      <4> QED  BY <1>8, <1>12, <3>1, <3>3, <4>1
    <3> QED  BY <3>2, <3>3
  <2>2. OwnersKnown' /\ RevocationIsFinal'
    BY <1>4, <2>1 DEF OwnersKnown, RevocationIsFinal
  <2>3. SeenOrNew'
    BY <1>1, <1>4, <1>10 DEF RevokedInv, SeenOrNew, SessionsOf, Own
  <2> QED  BY <2>2, <2>3 DEF RevokedInv
<1> QED  BY <1>2, <1>9, <1>13, <1>14

-----------------------------------------------------------------------------
LEMMA SessionInvInit == Init => SessionInv
<1> SUFFICES ASSUME Init PROVE SessionInv  OBVIOUS
<1>1. AdminInv  BY AdminInvInit
<1>2. \A r \in Requests : req[r].pc = "free" /\ req[r].op = "none" /\ req[r].old = 0
  BY FreeFields DEF Init
<1>3. RequestsInv
  BY <1>2 DEF RequestsInv, RowsHeld, OldFits, SetupLocked, Transaction
<1>4. FactorsHold
  <2>1. \A u \in Users : \E role, b : user[u] = Row(role, b)
    <3>1. CASE user = [u \in Users |-> Row("NONE", FALSE)]  BY <3>1
    <3>2. CASE \E A, U \in SUBSET Users :
                 user = [u \in Users |-> IF u \in A THEN Row("ADMIN", TRUE)
                                         ELSE IF u \in U THEN Row("USER", TRUE)
                                         ELSE Row("NONE", FALSE)]
      BY <3>2
    <3> QED  BY <3>1, <3>2 DEF Init
  <2> QED  BY <2>1, NewRowFits DEF FactorsHold
<1>5. UsersInv  BY <1>2, <1>4 DEF UsersInv, SetupPending, ResetPending, Resetting
<1>6. TokensInv
  BY <1>2 DEF Init, TokensInv, Numbered, IdsDistinct, OneSessionPerChain, TokensHeld
<1>7. RevokedInv
  BY <1>2 DEF Init, RevokedInv, OwnersKnown, SeenOrNew, RevocationIsFinal
<1> QED  BY <1>1, <1>3, <1>5, <1>6, <1>7 DEF SessionInv

LEMMA SessionInvNext == SessionInv /\ [Next]_vars => SessionInv'
<1> SUFFICES ASSUME SessionInv, [Next]_vars PROVE SessionInv'  OBVIOUS
<1>0. AdminInv'  BY AdminInvNext DEF SessionInv
<1>1. CASE UNCHANGED vars
  <2>1. UNCHANGED <<user, sessions, locks, req, serial>>  BY <1>1 DEF vars, tables
  <2>2. RequestsInv'  BY <2>1, RequestsIdle DEF SessionInv
  <2>3. UsersInv'
    BY <2>1 DEF SessionInv, UsersInv, SetupPending, FactorsHold, FactorsFit, ResetPending,
                Resetting, Exists
  <2>4. TokensInv'
    BY <2>1 DEF SessionInv, TokensInv, Numbered, IdsDistinct, OneSessionPerChain, TokensHeld,
                Consumed
  <2>5. RevokedInv'
    BY <2>1 DEF SessionInv, RevokedInv, OwnersKnown, SeenOrNew, RevocationIsFinal, SessionsOf
  <2> QED  BY <1>0, <2>2, <2>3, <2>4, <2>5 DEF SessionInv
<1>2. ASSUME NEW r \in Requests, Arrivals(r) \/ Statements(r)  PROVE SessionInv'
  BY <1>0, <1>2, RequestSteps, FactorSteps, InsertAndDemoteSteps, RemoveSteps, IssueSteps,
     RefreshSteps, RevokeSteps DEF Statements
<1>3. ASSUME NEW r \in Requests, NEW s \in sessions, ConsumeRefreshToken(r, s)  PROVE SessionInv'
  BY <1>0, <1>3, ConsumeSteps
<1>4. ASSUME NEW s \in sessions, DeleteRefreshToken(s)  PROVE SessionInv'
  BY <1>0, <1>4, RemoveSteps
<1>5. ASSUME NEW u \in Users,
             \/ \E role \in {"USER", "ADMIN"} : CreateUser(u, role)
             \/ Promote(u) \/ Reactivate(u) \/ handleForgotPassword(u) \/ handleChangeEmail(u)
      PROVE  SessionInv'
  BY <1>0, <1>5, AccountSteps
<1> QED  BY <1>1, <1>2, <1>3, <1>4, <1>5 DEF Next

(* No rotation carries a session over a suspension, a deletion, a password
   reset or a confirmed e-mail change of its account: the transactions of
   SuspendUser, DeleteUser, ClaimPasswordResetToken and ClaimEmailChangeToken
   and that of handleRefresh lock the same users row.                       *)
THEOREM RevocationHolds == Spec => []RevocationIsFinal
<1>1. SessionInv => RevocationIsFinal  BY DEF SessionInv, RevokedInv
<1> QED  BY <1>1, SessionInvInit, SessionInvNext, PTL DEF Spec

(* However many requests present a refresh token at the same time, its chain
   has one session afterwards (ConsumeRefreshToken, RefreshCommit).         *)
THEOREM ChainsStaySingle == Spec => []OneSessionPerChain
<1>1. SessionInv => OneSessionPerChain  BY DEF SessionInv, TokensInv
<1> QED  BY <1>1, SessionInvInit, SessionInvNext, PTL DEF Spec

(* 2FA is enabled with the verified secret only, a backup code and a reset
   token are accepted once, whatever requests come between the check and the
   write (EnableUserTOTP, ConsumeTOTPBackupCode, ClaimPasswordResetToken).  *)
THEOREM SecretsStayHonoured == Spec => []SecretsAreHonoured
<1>1. SessionInv => SecretsAreHonoured
  BY DEF SessionInv, UsersInv, FactorsHold, FactorsFit, SecretsAreHonoured
<1> QED  BY <1>1, SessionInvInit, SessionInvNext, PTL DEF Spec

(* The setup handler never creates a second administrator, although an
   account may be registered between its check and its insert
   (CreateInitialAdmin).                                                    *)
THEOREM SetupStaysFirst == Spec => SetupIsTheFirst
<1>1. SessionInv => ((\E r \in Requests : At(r, "setup_insert") /\ req'[r].pc = "issue")
                       => \A u \in Users : user[u].role # "ADMIN")
  BY DEF SessionInv, UsersInv, SetupPending, At
<1>2. SessionInv /\ [Next]_vars =>
        [(\E r \in Requests : At(r, "setup_insert") /\ req'[r].pc = "issue")
           => \A u \in Users : user[u].role # "ADMIN"]_vars
  BY <1>1
<1> QED  BY <1>2, SessionInvInit, SessionInvNext, PTL DEF Spec, SetupIsTheFirst

=============================================================================

------------------------- MODULE OAuthTokensProofs --------------------------
(***************************************************************************)
(* Proofs about the stored OAuth pairs, for every set of worlds and every  *)
(* bound.                                                                  *)
(*                                                                         *)
(* The invariant has four parts.  Types; what is known of the numbers      *)
(* (everything in a row or a struct was issued, a successor is newer than  *)
(* the pair it replaces); in worlds where a provider's refresh token works *)
(* once, that a refresh token names its pair and is in nobody else's hands *)
(* before it is stored; and that whoever works between the Redis lock and  *)
(* the write holds the lock, where the lock does not expire under him.     *)
(***************************************************************************)
EXTENDS OAuthTokens, TLAPS

Rows == {"job", "profile"}

Struct == [pc : Steps, rt : Nat, at : Nat, touched : BOOLEAN, force : BOOLEAN,
           newRt : Nat, newAt : Nat]
Pair   == [rt : Nat, at : Nat, age : Ages]

Types ==
    /\ setup \in Setups
    /\ row \in [Rows -> Pair]
    /\ call \in [Caller -> Struct]
    /\ next \in Nat

(* Rows and structs hold tokens that were issued; a struct with a pair to
   store holds a newer one than it loaded.                                  *)
RowKnown(r) == /\ 0 < row[r].rt /\ row[r].rt < next
               /\ 0 < row[r].at /\ row[r].at < next

CallKnown(c) ==
    /\ call[c].pc = "idle" => call[c] = Idle
    /\ c = "user" => call[c].pc \in {"idle", "persist", "status"}
    /\ call[c].pc # "idle" => /\ c \in setup.callers
                              /\ 0 < call[c].rt /\ call[c].rt < next
                              /\ 0 < call[c].at /\ call[c].at < next
    /\ call[c].pc = "persist" => /\ call[c].at < call[c].newAt
                                 /\ call[c].newAt < next
                                 /\ 0 < call[c].newRt /\ call[c].newRt < next

Known == /\ \A r \in Rows : RowKnown(r)
         /\ \A c \in Caller : CallKnown(c)

-----------------------------------------------------------------------------
(* The shapes of a step. *)

(* Caller d keeps his step and his tokens; only `touched' may change.      *)
Same(d) == /\ call'[d].pc = call[d].pc
           /\ call'[d].rt = call[d].rt /\ call'[d].at = call[d].at
           /\ call'[d].newRt = call[d].newRt /\ call'[d].newAt = call[d].newAt
           /\ call[d].pc = "idle" => call'[d] = call[d]

SameBut(c) == \A d \in Caller \ {c} : Same(d)

RowsSame == \A r \in Rows : row'[r].rt = row[r].rt /\ row'[r].at = row[r].at

Loads(c) ==
    /\ c \in setup.callers /\ c # "user" /\ call[c].pc # "persist" /\ SameBut(c)
    /\ call'[c].pc \in {"local", "lock", "refresh"}
    /\ call'[c].rt = row[RowOf(c)].rt /\ call'[c].at = row[RowOf(c)].at
    /\ RowsSame /\ UNCHANGED <<setup, live, revoked, next, lost>>

(* A successor is dropped only where it could not be stored, or is counted
   as lost.                                                                 *)
Drops(c) == call[c].pc = "persist" /\ c # "user" =>
                ~ Matches(c) \/ (setup.single => call[c].rt \in lost')

Leaves(c) ==
    /\ call'[c] = Idle /\ SameBut(c) /\ Drops(c)
    /\ RowsSame /\ lost \subseteq lost'
    /\ UNCHANGED <<setup, live, revoked, next>>

Moves(c) ==
    /\ c # "user" /\ SameBut(c) /\ Drops(c)
    /\ call[c].pc # "idle" /\ call'[c].pc \notin {"idle", "refresh", "persist"}
    /\ call'[c].rt = call[c].rt /\ call'[c].at = call[c].at
    /\ RowsSame /\ lost \subseteq lost'
    /\ UNCHANGED <<setup, live, revoked, next>>

(* The provider issues a token.                                            *)
Presents(c) ==
    /\ call[c].pc = "refresh" /\ call[c].rt \in live
    /\ call'[c].rt = call[c].rt /\ call'[c].at = call[c].at
    /\ setup.single => live' = (live \ {call[c].rt}) \cup {next} /\ call'[c].newRt = next
    /\ ~ setup.single => live' = live /\ call'[c].newRt = call[c].rt

SignsIn(c) ==
    /\ c = "user" /\ call[c].pc = "idle" /\ c \in setup.callers
    /\ call'[c].rt = row.job.rt /\ call'[c].at = row.job.at
    /\ live' = live \cup {next} /\ call'[c].newRt = next

Issues(c) ==
    /\ SameBut(c) /\ call'[c].pc = "persist" /\ call'[c].newAt = next
    /\ next' = next + 1
    /\ Presents(c) \/ SignsIn(c)
    /\ RowsSame /\ UNCHANGED <<setup, revoked, lost>>

(* The answer of the provider is lost.                                     *)
Misses(c) ==
    /\ call[c].pc = "refresh" /\ call[c].rt \in live
    /\ SameBut(c) /\ call'[c] = Idle
    /\ next' = next + 1
    /\ live' = IF setup.single THEN (live \ {call[c].rt}) \cup {next} ELSE live
    /\ lost' = IF setup.single THEN lost \cup {call[c].rt} ELSE lost
    /\ RowsSame /\ UNCHANGED <<setup, revoked>>

Stores(c) ==
    /\ call[c].pc = "persist" /\ Matches(c)
    /\ row'[RowOf(c)].rt = call[c].newRt /\ row'[RowOf(c)].at = call[c].newAt
    /\ \A r \in Rows \ {RowOf(c)} : row'[r] = row[r]
    /\ \/ call'[c] = Idle
       \/ /\ call'[c].pc = "status"
          /\ call'[c].rt = call[c].rt /\ call'[c].at = call[c].at
    /\ SameBut(c) /\ UNCHANGED <<setup, live, revoked, next, lost>>

Rests ==
    /\ \A d \in Caller : Same(d)
    /\ RowsSame /\ UNCHANGED <<setup, live, revoked, next, lost>>

Dies(P) ==
    /\ P \subseteq Caller
    /\ \A d \in P : call'[d] = Idle
    /\ \A d \in Caller \ P : Same(d)
    /\ \A d \in P : Drops(d)
    /\ RowsSame /\ lost \subseteq lost'
    /\ UNCHANGED <<setup, live, revoked, next>>

Withdrawn ==
    /\ \A d \in Caller : Same(d)
    /\ revoked = {} /\ revoked' = live /\ live' = {}
    /\ RowsSame /\ UNCHANGED <<setup, next, lost>>

Shaped ==
    \/ \E c \in Caller : \/ Loads(c) \/ Leaves(c) \/ Moves(c)
                         \/ Issues(c) \/ Misses(c) \/ Stores(c)
    \/ Rests \/ Withdrawn
    \/ \E P \in SUBSET Caller : Dies(P)

-----------------------------------------------------------------------------
(* Every caller works on the row of a job or of a profile.                 *)
LEMMA RowOfCaller == \A c \in Caller : RowOf(c) \in Rows
BY DEF RowOf, Rows

(* The struct of an idle caller is a struct.                               *)
LEMMA IdleStruct == Idle \in Struct /\ Idle.pc = "idle" /\ Idle.rt = 0
BY DEF Idle, Struct, Steps

(* Loading the row changes the loader's struct only (the SELECT of the
   refresh functions).                                                      *)
LEMMA LoadShape ==
    ASSUME Types, NEW c \in Caller, NEW p \in {"local", "lock", "refresh", "persist"},
           NEW f, f = Load(call, c, p)
    PROVE  /\ f \in [Caller -> Struct]
           /\ \A d \in Caller \ {c} : f[d] = call[d]
           /\ f[c].pc = p /\ f[c].rt = row[RowOf(c)].rt /\ f[c].at = row[RowOf(c)].at
<1>1. RowOf(c) \in Rows BY RowOfCaller
<1>2. row[RowOf(c)].rt \in Nat /\ row[RowOf(c)].at \in Nat BY <1>1 DEF Types, Pair
<1>3. p \in Steps BY DEF Steps
<1> DEFINE n == [call[c] EXCEPT !.pc = p, !.rt = row[RowOf(c)].rt, !.at = row[RowOf(c)].at]
<1>4. n \in Struct /\ n.pc = p /\ n.rt = row[RowOf(c)].rt /\ n.at = row[RowOf(c)].at
  BY <1>2, <1>3 DEF Types, Struct
<1>5. f = [call EXCEPT ![c] = n] BY DEF Load, Types, Struct
<1> HIDE DEF n
<1>6. f \in [Caller -> Struct] /\ f[c] = n /\ \A d \in Caller \ {c} : f[d] = call[d]
  BY <1>4, <1>5 DEF Types
<1> QED BY <1>4, <1>6

(* A write to the row marks the structs of others as old, and leaves their
   steps and tokens alone.                                                  *)
LEMMA TouchedShape ==
    ASSUME NEW r, NEW c, NEW f \in [Caller -> Struct], NEW g, g = Touched(r, c, f)
    PROVE  /\ g \in [Caller -> Struct]
           /\ \A d \in Caller : /\ g[d].pc = f[d].pc /\ g[d].rt = f[d].rt /\ g[d].at = f[d].at
                                /\ g[d].newRt = f[d].newRt /\ g[d].newAt = f[d].newAt
                                /\ f[d].pc = "idle" => g[d] = f[d]
           /\ c \in Caller => g[c] = f[c]
<1>1. \A d \in Caller : g[d] = f[d] \/ (g[d] = [f[d] EXCEPT !.touched = TRUE] /\ f[d].pc # "idle")
  BY DEF Touched
<1>2. \A d \in Caller : g[d] \in Struct
  BY <1>1, ZenonT(40) DEF Struct
<1>3. g = [d \in Caller |-> g[d]] BY DEF Touched
<1>4. g \in [Caller -> Struct] BY <1>2, <1>3
<1>5. \A d \in Caller : /\ g[d].pc = f[d].pc /\ g[d].rt = f[d].rt /\ g[d].at = f[d].at
                        /\ g[d].newRt = f[d].newRt /\ g[d].newAt = f[d].newAt
                        /\ f[d].pc = "idle" => g[d] = f[d]
  BY <1>1 DEF Struct
<1>6. c \in Caller => g[c] = f[c] BY DEF Touched
<1> QED BY <1>4, <1>5, <1>6

(* A caller that returns has an empty struct, the others keep theirs.      *)
LEMMA ReturnShape ==
    ASSUME Types, NEW c \in Caller, call' = [call EXCEPT ![c] = Idle]
    PROVE  call' \in [Caller -> Struct] /\ call'[c] = Idle /\ SameBut(c)
<1>1. call' \in [Caller -> Struct] /\ call'[c] = Idle BY IdleStruct DEF Types
<1>2. \A d \in Caller \ {c} : call'[d] = call[d] BY DEF Types
<1>3. SameBut(c) BY <1>2 DEF SameBut, Same
<1> QED BY <1>1, <1>3

(* A caller that goes on keeps his tokens.                                 *)
LEMMA GoToShape ==
    ASSUME Types, NEW c \in Caller, NEW p \in Steps, call' = [call EXCEPT ![c].pc = p]
    PROVE  /\ call' \in [Caller -> Struct] /\ SameBut(c)
           /\ call'[c].pc = p /\ call'[c].rt = call[c].rt /\ call'[c].at = call[c].at
<1> DEFINE n == [call[c] EXCEPT !.pc = p]
<1>1. n \in Struct /\ n.pc = p /\ n.rt = call[c].rt /\ n.at = call[c].at BY DEF Types, Struct
<1>2. call' = [call EXCEPT ![c] = n] OBVIOUS
<1> HIDE DEF n
<1>3. call' \in [Caller -> Struct] /\ call'[c] = n /\ \A d \in Caller \ {c} : call'[d] = call[d]
  BY <1>1, <1>2 DEF Types
<1>4. SameBut(c) BY <1>3 DEF SameBut, Same
<1> QED BY <1>1, <1>3, <1>4

(* The rows of a step that does not write them.                            *)
LEMMA RowsKept ==
    ASSUME UNCHANGED row
    PROVE  RowsSame
BY DEF RowsSame

-----------------------------------------------------------------------------
(* What each action does to rows, structs and provider. *)

(* Whoever starts a refresh loads the row, the daemon too.                 *)
LEMMA BeginStep ==
    ASSUME Types, NEW c \in Caller \ {"user"}, NEW p \in {"local", "lock", "refresh"},
           Is(c, "idle"), call' = Load(call, c, p),
           UNCHANGED <<setup, row, cloud, lost>>
    PROVE  Types' /\ Loads(c)
<1>1. /\ call' \in [Caller -> Struct]
      /\ \A d \in Caller \ {c} : call'[d] = call[d]
      /\ call'[c].pc = p /\ call'[c].rt = row[RowOf(c)].rt /\ call'[c].at = row[RowOf(c)].at
  BY LoadShape
<1>2. SameBut(c) BY <1>1 DEF SameBut, Same
<1>3. Types' BY <1>1 DEF Types, cloud
<1>4. RowsSame BY RowsKept
<1>5. Loads(c) BY <1>1, <1>2, <1>4 DEF Loads, Is, cloud
<1> QED BY <1>3, <1>5

(* Begin and BeginAny: every way to start without force.                   *)
LEMMA BeginsLoad ==
    ASSUME Types, (\E c \in Caller : Begin(c)) \/ BeginAny
    PROVE  Types' /\ \E c \in Caller : Loads(c)
<1>1. ASSUME NEW c \in Caller \ {"user"}, NEW p \in {"local", "lock", "refresh"}, Starts(c, p)
      PROVE  Types' /\ \E d \in Caller : Loads(d)
  <2>1. /\ Is(c, "idle") /\ call' = Load(call, c, p)
        /\ UNCHANGED <<setup, row, cloud, lost>>
    BY <1>1 DEF Starts, job
  <2>2. Types' /\ Loads(c) BY <2>1, BeginStep
  <2> QED BY <2>2
<1>2. ASSUME DaemonEntry
      PROVE  Types' /\ \E d \in Caller : Loads(d)
  <2>1. /\ Is("daemon", "idle") /\ call' = Load(call, "daemon", "lock")
        /\ UNCHANGED <<setup, row, cloud, lost>>
    BY <1>2 DEF DaemonEntry, job
  <2>2. "daemon" \in Caller BY DEF Caller, Locking
  <2>3. Types' /\ Loads("daemon") BY <2>1, <2>2, BeginStep
  <2> QED BY <2>2, <2>3
<1>3. ASSUME NEW c \in Caller, Begin(c)
      PROVE  Types' /\ \E d \in Caller : Loads(d)
  <2>1. c # "user" /\ (Starts(c, "local") \/ Starts(c, "refresh"))
    BY <1>3 DEF Begin, refreshOAuthTokenIfNeeded, refreshSyncOAuthTokenIfNeeded,
                ensureFreshRestoreToken, loadProfile, resolveFileProfile,
                Workers, Readers, Resolvers
  <2> QED BY <2>1, <1>1
<1>4. ASSUME BeginAny
      PROVE  Types' /\ \E d \in Caller : Loads(d)
  <2>1. \/ Starts("indexer", "lock") \/ Starts("engine", "lock")
        \/ Starts("coordinator", "refresh") \/ Starts("browser", "refresh") \/ DaemonEntry
    BY <1>4 DEF BeginAny, ensureFreshSourceToken, ensureFreshToken, ensureFreshBackupToken,
                syncJobBrowseCredentials, RotateMigration, RotateSync, RotateRestore
  <2>2. {"indexer", "engine", "coordinator", "browser"} \subseteq Caller
    BY DEF Caller, Locking, Waiting
  <2> QED BY <2>1, <2>2, <1>1, <1>2
<1> QED BY <1>3, <1>4

(* refreshOAuthToken after a 401 loads and sets `force'.                   *)
LEMMA ForcedLoads ==
    ASSUME Types, NEW c \in Caller, BeginForced(c)
    PROVE  Types' /\ Loads(c)
<1> DEFINE f == Load(call, c, "local")
           n == [f[c] EXCEPT !.force = TRUE]
<1>1. /\ f \in [Caller -> Struct]
      /\ \A d \in Caller \ {c} : f[d] = call[d]
      /\ f[c].pc = "local" /\ f[c].rt = row[RowOf(c)].rt /\ f[c].at = row[RowOf(c)].at
  BY LoadShape
<1>2. call' = [f EXCEPT ![c].force = TRUE] BY DEF BeginForced
<1> HIDE DEF f
<1>3. /\ n \in Struct /\ n.pc = "local"
      /\ n.rt = row[RowOf(c)].rt /\ n.at = row[RowOf(c)].at
  BY <1>1 DEF Struct
<1>4. call' = [f EXCEPT ![c] = n] BY <1>2
<1> HIDE DEF n
<1>5. call' \in [Caller -> Struct] /\ call'[c] = n /\ \A d \in Caller \ {c} : call'[d] = call[d]
  BY <1>1, <1>3, <1>4
<1>6. SameBut(c) BY <1>5 DEF SameBut, Same
<1>7. /\ c \in setup.callers /\ c # "user" /\ call[c].pc # "persist"
      /\ UNCHANGED <<setup, row, cloud, lost>>
  BY DEF BeginForced, Is, job, Workers
<1>8. Types' BY <1>5, <1>7 DEF Types, cloud
<1>9. RowsSame BY <1>7, RowsKept
<1>10. Loads(c) BY <1>3, <1>5, <1>6, <1>7, <1>9 DEF Loads, cloud
<1> QED BY <1>8, <1>10

(* A caller that leaves, whatever the reason.                              *)
LEMMA LeaveStep ==
    ASSUME Types, NEW c \in Caller, call' = [call EXCEPT ![c] = Idle], Drops(c),
           lost \subseteq lost', UNCHANGED <<setup, row, cloud>>
    PROVE  Types' /\ Leaves(c)
<1>1. call' \in [Caller -> Struct] /\ call'[c] = Idle /\ SameBut(c) BY ReturnShape
<1>2. RowsSame BY RowsKept
<1>3. Types' BY <1>1 DEF Types, cloud
<1>4. Leaves(c) BY <1>1, <1>2 DEF Leaves, cloud
<1> QED BY <1>3, <1>4

(* A caller that goes on to his next step.                                 *)
LEMMA MoveStep ==
    ASSUME Types, NEW c \in Caller \ {"user"}, NEW p \in Steps \ {"idle", "refresh", "persist"},
           call[c].pc # "idle", call' = [call EXCEPT ![c].pc = p], Drops(c),
           lost \subseteq lost', UNCHANGED <<setup, row, cloud>>
    PROVE  Types' /\ Moves(c)
<1>1. /\ call' \in [Caller -> Struct] /\ SameBut(c)
      /\ call'[c].pc = p /\ call'[c].rt = call[c].rt /\ call'[c].at = call[c].at
  BY GoToShape
<1>2. RowsSame BY RowsKept
<1>3. Types' BY <1>1 DEF Types, cloud
<1>4. Moves(c) BY <1>1, <1>2 DEF Moves, cloud
<1> QED BY <1>3, <1>4

(* Locks, the second look at the row, and the errors of the provider: the
   caller goes on, loads again or leaves.                                   *)
LEMMA WaitStep ==
    ASSUME Types, Known, NEW c \in Caller,
           \/ TakeLocalLock(c) \/ TryClaimOAuthLock(c) \/ Rereads(c)
           \/ RefreshTokenInvalid(c) \/ RefreshFails(c)
           \/ OAuthTokenConflict(c) \/ RestoreRunEnded(c) \/ AdoptWinner(c)
    PROVE  Types' /\ (Moves(c) \/ Leaves(c) \/ Loads(c))
<1>0. c # "user"
  <2>1. \/ c # "user"
        \/ call[c].pc \in {"local", "lock", "read", "refresh", "adopt"}
    BY DEF TakeLocalLock, TryClaimOAuthLock, Rereads, RefreshTokenInvalid, RefreshFails,
           OAuthTokenConflict, RestoreRunEnded, AdoptWinner, Is
  <2>2. c = "user" => call[c].pc \in {"idle", "persist", "status"} BY DEF Known, CallKnown
  <2> QED BY <2>1, <2>2
<1>1. CASE TakeLocalLock(c) \/ (TryClaimOAuthLock(c) /\ lock = None)
  <2>1. \E p \in {"lock", "read"} : call' = [call EXCEPT ![c].pc = p]
    BY <1>1 DEF TakeLocalLock, TryClaimOAuthLock
  <2>2. call[c].pc \notin {"idle", "persist"} /\ UNCHANGED <<setup, row, cloud, lost>>
    BY <1>1 DEF TakeLocalLock, TryClaimOAuthLock, Is, job
  <2>3. Drops(c) BY <2>2 DEF Drops
  <2>4. {"lock", "read"} \subseteq Steps \ {"idle", "refresh", "persist"} BY DEF Steps
  <2>5. Types' /\ Moves(c) BY <1>0, <2>1, <2>2, <2>3, <2>4, MoveStep
  <2> QED BY <2>5
<1>2. CASE \/ TryClaimOAuthLock(c) /\ lock # None
           \/ RefreshFails(c) \/ AdoptWinner(c)
  <2>1. call[c].pc # "persist" /\ Return(c) /\ UNCHANGED <<setup, row, cloud, lost>>
    BY <1>2 DEF TryClaimOAuthLock, RefreshFails, AdoptWinner, Is, job
  <2>2. Drops(c) BY <2>1 DEF Drops
  <2>3. Types' /\ Leaves(c) BY <2>1, <2>2, LeaveStep DEF Return
  <2> QED BY <2>3
<1>3. CASE Rereads(c)
  <2>1. /\ call[c].pc = "read" /\ c \in setup.callers /\ UNCHANGED <<setup, row, cloud, lost>>
        /\ Return(c) \/ call' = Load(call, c, "refresh")
    BY <1>3 DEF Rereads, Is, job
  <2>2. CASE Return(c)
    <3>1. Drops(c) BY <2>1 DEF Drops
    <3>2. Types' /\ Leaves(c) BY <2>1, <2>2, <3>1, LeaveStep DEF Return
    <3> QED BY <3>2
  <2>3. CASE call' = Load(call, c, "refresh")
    <3>1. /\ call' \in [Caller -> Struct]
          /\ \A d \in Caller \ {c} : call'[d] = call[d]
          /\ call'[c].pc = "refresh"
          /\ call'[c].rt = row[RowOf(c)].rt /\ call'[c].at = row[RowOf(c)].at
      BY <2>3, LoadShape
    <3>2. SameBut(c) BY <3>1 DEF SameBut, Same
    <3>3. RowsSame BY <2>1, RowsKept
    <3>4. Types' BY <2>1, <3>1 DEF Types, cloud
    <3>5. Loads(c) BY <1>0, <2>1, <3>1, <3>2, <3>3 DEF Loads, cloud
    <3> QED BY <3>4, <3>5
  <2> QED BY <2>1, <2>2, <2>3
<1>4. CASE RefreshTokenInvalid(c) \/ OAuthTokenConflict(c) \/ RestoreRunEnded(c)
  <2>1. /\ call[c].pc \in {"refresh", "persist"} /\ lost \subseteq lost'
        /\ UNCHANGED <<setup, row, cloud>>
        /\ call[c].pc = "persist" => ~ Matches(c) \/ (setup.single => call[c].rt \in lost')
        /\ Return(c) \/ GoTo(c, "confirm") \/ GoTo(c, "adopt")
    BY <1>4 DEF RefreshTokenInvalid, OAuthTokenConflict, RestoreRunEnded, Is, job
  <2>2. Drops(c) BY <2>1 DEF Drops
  <2>3. CASE Return(c)
    BY <2>1, <2>2, <2>3, LeaveStep DEF Return
  <2>4. CASE GoTo(c, "confirm") \/ GoTo(c, "adopt")
    <3>1. \E p \in {"confirm", "adopt"} : call' = [call EXCEPT ![c].pc = p]
      BY <2>4 DEF GoTo
    <3>2. {"confirm", "adopt"} \subseteq Steps \ {"idle", "refresh", "persist"} BY DEF Steps
    <3>3. call[c].pc # "idle" BY <2>1
    <3>4. Types' /\ Moves(c) BY <1>0, <2>1, <2>2, <3>1, <3>2, <3>3, MoveStep
    <3> QED BY <3>4
  <2> QED BY <2>1, <2>3, <2>4
<1> QED BY <1>1, <1>2, <1>3, <1>4

(* The write that fails, and the end of the daemon's failed entry.         *)
LEMMA DropStep ==
    ASSUME Types, NEW c \in Caller, PersistFails(c)
    PROVE  Types' /\ Leaves(c)
<1>1. /\ Return(c) /\ lost \subseteq lost' /\ UNCHANGED <<setup, row, cloud>>
      /\ setup.single => call[c].rt \in lost'
  BY DEF PersistFails, job
<1>2. Drops(c) BY <1>1 DEF Drops
<1> QED BY <1>1, <1>2, LeaveStep DEF Return

LEMMA DaemonStep ==
    ASSUME Types, ConfirmInvalid \/ MarkFailed
    PROVE  Types' /\ \E c \in Caller : Leaves(c) \/ Moves(c)
<1>1. "daemon" \in Caller BY DEF Caller, Locking
<1>2. /\ call["daemon"].pc \in {"confirm", "fail"} /\ UNCHANGED <<setup, row, cloud, lost>>
      /\ Return("daemon") \/ GoTo("daemon", "fail")
  BY DEF ConfirmInvalid, MarkFailed, Is, job
<1>3. Drops("daemon") BY <1>2 DEF Drops
<1>4. CASE Return("daemon")
  <2>1. Types' /\ Leaves("daemon") BY <1>1, <1>2, <1>3, <1>4, LeaveStep DEF Return
  <2> QED BY <1>1, <2>1
<1>5. CASE GoTo("daemon", "fail")
  <2>1. "fail" \in Steps \ {"idle", "refresh", "persist"} BY DEF Steps
  <2>2. call["daemon"].pc # "idle" /\ call' = [call EXCEPT !["daemon"].pc = "fail"] BY <1>2, <1>5 DEF GoTo
  <2>3. Types' /\ Moves("daemon") BY <1>1, <1>2, <1>3, <2>1, <2>2, MoveStep
  <2> QED BY <1>1, <2>3
<1> QED BY <1>2, <1>4, <1>5

(* oauth.RefreshToken: the answer arrives or is lost.                      *)
LEMMA RefreshStep ==
    ASSUME Types, NEW c \in Caller, RefreshToken(c)
    PROVE  Types' /\ (Issues(c) \/ Misses(c))
<1>1. /\ call[c].pc = "refresh" /\ call[c].rt \in live
      /\ next' = next + 1 /\ UNCHANGED <<setup, row, revoked>>
      /\ live' = IF setup.single THEN (live \ {call[c].rt}) \cup {next} ELSE live
  BY DEF RefreshToken, Is, job
<1>2. RowsSame BY <1>1, RowsKept
<1>3. next' \in Nat BY <1>1 DEF Types
<1>4. setup.single \in BOOLEAN BY SetupsAssumption DEF Types
<1> DEFINE newRt == IF setup.single THEN next ELSE call[c].rt
           n == [call[c] EXCEPT !.pc = "persist", !.newRt = newRt, !.newAt = next]
<1>5. CASE /\ call' = [call EXCEPT ![c].pc = "persist", ![c].newRt = newRt, ![c].newAt = next]
           /\ UNCHANGED lost
  <2>1. newRt \in Nat BY DEF Types, Struct
  <2>2. call' = [call EXCEPT ![c] = n] BY <1>5
  <2> HIDE DEF newRt
  <2>3. /\ n \in Struct /\ n.pc = "persist" /\ n.newRt = newRt /\ n.newAt = next
        /\ n.rt = call[c].rt /\ n.at = call[c].at
    BY <2>1 DEF Types, Struct, Steps
  <2> HIDE DEF n
  <2>4. call' \in [Caller -> Struct] /\ call'[c] = n /\ \A d \in Caller \ {c} : call'[d] = call[d]
    BY <2>2, <2>3 DEF Types
  <2>5. SameBut(c) BY <2>4 DEF SameBut, Same
  <2>6. Types' BY <1>1, <1>3, <2>4 DEF Types
  <2>7. call'[c].newRt = newRt /\ call'[c].rt = call[c].rt /\ call'[c].at = call[c].at
    BY <2>3, <2>4
  <2>8. Presents(c) BY <1>1, <2>7 DEF Presents, newRt
  <2>9. Issues(c) BY <1>1, <1>2, <1>5, <2>3, <2>4, <2>5, <2>8 DEF Issues
  <2> QED BY <2>6, <2>9
<1>6. CASE Return(c) /\ lost' = IF setup.single THEN lost \cup {call[c].rt} ELSE lost
  <2>1. call' \in [Caller -> Struct] /\ call'[c] = Idle /\ SameBut(c)
    BY <1>6, ReturnShape DEF Return
  <2>2. Types' BY <1>1, <1>3, <2>1 DEF Types
  <2>3. Misses(c) BY <1>1, <1>2, <1>6, <2>1 DEF Misses
  <2> QED BY <2>2, <2>3
<1> QED BY <1>5, <1>6 DEF RefreshToken

(* The writes: the row gets the new pair.                                  *)
LEMMA PairStored ==
    ASSUME Types, NEW c \in Caller, StorePair(c)
    PROVE  /\ row' \in [Rows -> Pair]
           /\ row'[RowOf(c)].rt = call[c].newRt /\ row'[RowOf(c)].at = call[c].newAt
           /\ \A r \in Rows \ {RowOf(c)} : row'[r] = row[r]
<1> DEFINE n == [rt |-> call[c].newRt, at |-> call[c].newAt, age |-> "fresh"]
<1>1. n \in Pair BY DEF Types, Struct, Pair, Ages
<1>2. n.rt = call[c].newRt /\ n.at = call[c].newAt OBVIOUS
<1>3. row' = [row EXCEPT ![RowOf(c)] = n] BY DEF StorePair
<1>4. RowOf(c) \in Rows BY RowOfCaller
<1> HIDE DEF n
<1>5. /\ row' \in [Rows -> Pair] /\ row'[RowOf(c)] = n
      /\ \A r \in Rows \ {RowOf(c)} : row'[r] = row[r]
  BY <1>1, <1>3, <1>4 DEF Types
<1> QED BY <1>2, <1>5

LEMMA UpdateStep ==
    ASSUME Types, NEW c \in Caller, UpdateOAuthTokens(c)
    PROVE  Types' /\ Stores(c)
<1> DEFINE f == [call EXCEPT ![c] = Idle]
<1>1. /\ call[c].pc = "persist" /\ Matches(c) /\ StorePair(c)
      /\ call' = Touched(RowOf(c), c, f) /\ UNCHANGED <<setup, cloud, lost>>
  BY DEF UpdateOAuthTokens, Is
<1>2. f \in [Caller -> Struct] /\ f[c] = Idle /\ \A d \in Caller \ {c} : f[d] = call[d]
  BY IdleStruct DEF Types
<1> HIDE DEF f
<1>3. /\ call' \in [Caller -> Struct]
      /\ \A d \in Caller : /\ call'[d].pc = f[d].pc /\ call'[d].rt = f[d].rt /\ call'[d].at = f[d].at
                           /\ call'[d].newRt = f[d].newRt /\ call'[d].newAt = f[d].newAt
                           /\ f[d].pc = "idle" => call'[d] = f[d]
      /\ call'[c] = f[c]
  BY <1>1, <1>2, TouchedShape
<1>4. SameBut(c) BY <1>2, <1>3 DEF SameBut, Same
<1>5. /\ row' \in [Rows -> Pair]
      /\ row'[RowOf(c)].rt = call[c].newRt /\ row'[RowOf(c)].at = call[c].newAt
      /\ \A r \in Rows \ {RowOf(c)} : row'[r] = row[r]
  BY <1>1, PairStored
<1>6. Types' BY <1>1, <1>3, <1>5 DEF Types, cloud
<1>7. Stores(c) BY <1>1, <1>2, <1>3, <1>4, <1>5 DEF Stores, cloud
<1> QED BY <1>6, <1>7

(* The user's new sign-in.                                                 *)
LEMMA SignInStep ==
    ASSUME Types, ReauthLoad
    PROVE  Types' /\ Issues("user")
<1> DEFINE f == Load(call, "user", "persist")
           n == [f["user"] EXCEPT !.newRt = next, !.newAt = next]
<1>1. "user" \in Caller BY DEF Caller
<1>2. RowOf("user") = "job" BY DEF RowOf, Resolvers
<1>3. /\ f \in [Caller -> Struct]
      /\ \A d \in Caller \ {"user"} : f[d] = call[d]
      /\ f["user"].pc = "persist"
      /\ f["user"].rt = row.job.rt /\ f["user"].at = row.job.at
  BY <1>1, <1>2, LoadShape
<1>4. /\ "user" \in setup.callers /\ call["user"].pc = "idle"
      /\ call' = [f EXCEPT !["user"].newRt = next, !["user"].newAt = next]
      /\ live' = live \cup {next} /\ next' = next + 1
      /\ UNCHANGED <<setup, row, revoked, lost>>
  BY DEF ReauthLoad, Is, job
<1> HIDE DEF f
<1>5. /\ n \in Struct /\ n.pc = "persist" /\ n.newRt = next /\ n.newAt = next
      /\ n.rt = row.job.rt /\ n.at = row.job.at
  BY <1>1, <1>3 DEF Types, Struct
<1>6. call' = [f EXCEPT !["user"] = n] BY <1>4
<1> HIDE DEF n
<1>7. /\ call' \in [Caller -> Struct] /\ call'["user"] = n
      /\ \A d \in Caller \ {"user"} : call'[d] = call[d]
  BY <1>1, <1>3, <1>5, <1>6
<1>8. SameBut("user") BY <1>7 DEF SameBut, Same
<1>9. next' \in Nat BY <1>4 DEF Types
<1>10. Types' BY <1>4, <1>7, <1>9 DEF Types
<1>11. RowsSame BY <1>4, RowsKept
<1>12. SignsIn("user") BY <1>4, <1>5, <1>7 DEF SignsIn
<1>13. Issues("user") BY <1>4, <1>5, <1>7, <1>8, <1>11, <1>12 DEF Issues
<1> QED BY <1>10, <1>13

LEMMA SignInStored ==
    ASSUME Types, ReauthStore
    PROVE  Types' /\ (Stores("user") \/ Leaves("user"))
<1>1. "user" \in Caller BY DEF Caller
<1>2. RowOf("user") = "job" BY DEF RowOf, Resolvers
<1>3. call["user"].pc = "persist" /\ UNCHANGED <<setup, cloud, lost>>
  BY DEF ReauthStore, Is
<1>4. CASE Matches("user")
  <2> DEFINE f == [call EXCEPT !["user"].pc = "status"]
             n == [call["user"] EXCEPT !.pc = "status"]
  <2>1. StorePair("user") /\ call' = Touched("job", "user", f) BY <1>4 DEF ReauthStore
  <2>2. n \in Struct /\ n.pc = "status" /\ n.rt = call["user"].rt /\ n.at = call["user"].at
    BY <1>1 DEF Types, Struct, Steps
  <2>3. f = [call EXCEPT !["user"] = n] OBVIOUS
  <2> HIDE DEF n, f
  <2>4. f \in [Caller -> Struct] /\ f["user"] = n /\ \A d \in Caller \ {"user"} : f[d] = call[d]
    BY <1>1, <2>2, <2>3 DEF Types
  <2>5. /\ call' \in [Caller -> Struct]
        /\ \A d \in Caller : /\ call'[d].pc = f[d].pc /\ call'[d].rt = f[d].rt /\ call'[d].at = f[d].at
                             /\ call'[d].newRt = f[d].newRt /\ call'[d].newAt = f[d].newAt
                             /\ f[d].pc = "idle" => call'[d] = f[d]
        /\ call'["user"] = f["user"]
    BY <1>1, <2>1, <2>4, TouchedShape
  <2>6. SameBut("user") BY <2>4, <2>5 DEF SameBut, Same
  <2>7. /\ row' \in [Rows -> Pair]
        /\ row'[RowOf("user")].rt = call["user"].newRt /\ row'[RowOf("user")].at = call["user"].newAt
        /\ \A r \in Rows \ {RowOf("user")} : row'[r] = row[r]
    BY <1>1, <2>1, PairStored
  <2>8. Types' BY <1>3, <2>5, <2>7 DEF Types, cloud
  <2>9. Stores("user") BY <1>3, <1>4, <2>2, <2>4, <2>5, <2>6, <2>7 DEF Stores, cloud
  <2> QED BY <2>8, <2>9
<1>5. CASE ~ Matches("user")
  <2>1. call' = [call EXCEPT !["user"] = Idle] /\ UNCHANGED row BY <1>5 DEF ReauthStore
  <2>2. Drops("user") BY DEF Drops
  <2>3. Types' /\ Leaves("user") BY <1>1, <1>3, <2>1, <2>2, LeaveStep
  <2> QED BY <2>3
<1> QED BY <1>4, <1>5

LEMMA SignInEnds ==
    ASSUME Types, ReauthStatus
    PROVE  Types' /\ Leaves("user")
<1> DEFINE f == [call EXCEPT !["user"] = Idle]
<1>1. "user" \in Caller BY DEF Caller
<1>2. /\ call["user"].pc = "status" /\ call' = Touched("job", "user", f)
      /\ UNCHANGED <<setup, row, cloud, lost>>
  BY DEF ReauthStatus, Is
<1>3. f \in [Caller -> Struct] /\ f["user"] = Idle /\ \A d \in Caller \ {"user"} : f[d] = call[d]
  BY <1>1, IdleStruct DEF Types
<1> HIDE DEF f
<1>4. /\ call' \in [Caller -> Struct]
      /\ \A d \in Caller : /\ call'[d].pc = f[d].pc /\ call'[d].rt = f[d].rt /\ call'[d].at = f[d].at
                           /\ call'[d].newRt = f[d].newRt /\ call'[d].newAt = f[d].newAt
                           /\ f[d].pc = "idle" => call'[d] = f[d]
      /\ call'["user"] = f["user"]
  BY <1>1, <1>2, <1>3, TouchedShape
<1>5. SameBut("user") BY <1>3, <1>4 DEF SameBut, Same
<1>6. Drops("user") BY DEF Drops
<1>7. RowsSame BY <1>2, RowsKept
<1>8. Types' BY <1>2, <1>4 DEF Types, cloud
<1>9. Leaves("user") BY <1>2, <1>3, <1>4, <1>5, <1>6, <1>7 DEF Leaves, cloud
<1> QED BY <1>8, <1>9

(* Time, locks that expire, and the rest of the system change no token.    *)
LEMMA RestStep ==
    ASSUME Types,
           \/ LockExpires \/ JobGoesOn \/ JobStartsOrStops
           \/ \E r \in Rows : GrowOlder(r)
    PROVE  Types' /\ Rests
<1>1. CASE LockExpires
  <2>1. UNCHANGED <<setup, row, call, cloud, lost>> BY <1>1 DEF LockExpires, job
  <2> QED BY <2>1 DEF Rests, RowsSame, Same, Types, cloud
<1>2. CASE JobGoesOn \/ JobStartsOrStops
  <2>1. call' = Touched("job", None, call) /\ UNCHANGED <<setup, row, cloud, lost>>
    BY <1>2 DEF JobGoesOn, JobStartsOrStops, job
  <2>2. /\ call' \in [Caller -> Struct]
        /\ \A d \in Caller : /\ call'[d].pc = call[d].pc /\ call'[d].rt = call[d].rt
                             /\ call'[d].at = call[d].at
                             /\ call'[d].newRt = call[d].newRt /\ call'[d].newAt = call[d].newAt
                             /\ call[d].pc = "idle" => call'[d] = call[d]
    BY <2>1, TouchedShape DEF Types
  <2>3. \A d \in Caller : Same(d) BY <2>2 DEF Same
  <2>4. RowsSame BY <2>1, RowsKept
  <2>5. Types' BY <2>1, <2>2 DEF Types, cloud
  <2> QED BY <2>1, <2>3, <2>4, <2>5 DEF Rests, cloud
<1>3. ASSUME NEW r \in Rows, GrowOlder(r)
      PROVE  Types' /\ Rests
  <2> DEFINE a == IF row[r].age = "fresh" THEN "soon" ELSE "due"
             n == [row[r] EXCEPT !.age = a]
  <2>1. row' = [row EXCEPT ![r].age = a] /\ UNCHANGED <<setup, call, cloud, lost>>
    BY <1>3 DEF GrowOlder
  <2>2. a \in Ages BY DEF Ages
  <2> HIDE DEF a
  <2>3. n \in Pair /\ n.rt = row[r].rt /\ n.at = row[r].at BY <2>2 DEF Types, Pair
  <2>4. row' = [row EXCEPT ![r] = n] BY <2>1
  <2> HIDE DEF n
  <2>5. row' \in [Rows -> Pair] /\ row'[r] = n /\ \A q \in Rows \ {r} : row'[q] = row[q]
    BY <2>3, <2>4 DEF Types
  <2>6. RowsSame BY <2>3, <2>5 DEF RowsSame
  <2>7. \A d \in Caller : Same(d) BY <2>1 DEF Same
  <2>8. Types' BY <2>1, <2>5 DEF Types, cloud
  <2> QED BY <2>1, <2>6, <2>7, <2>8 DEF Rests, cloud
<1> QED BY <1>1, <1>2, <1>3

(* A process dies with the successors it has not stored.                   *)
LEMMA CrashStep ==
    ASSUME Types, Known, NEW P \in SUBSET Caller, Crash(P)
    PROVE  Types' /\ Dies(P)
<1>1. /\ call' = [c \in Caller |-> IF c \in P THEN Idle ELSE call[c]]
      /\ UNCHANGED <<setup, row, cloud>>
      /\ lost' = lost \cup {call[c].rt : c \in {d \in P \ {"user"} :
                                setup.single /\ Is(d, "persist")}}
  BY DEF Crash, job
<1>2. call' \in [Caller -> Struct] BY <1>1, IdleStruct DEF Types
<1>3. \A d \in P : call'[d] = Idle BY <1>1
<1>4. \A d \in Caller \ P : Same(d) BY <1>1 DEF Same
<1>5. ASSUME NEW d \in P PROVE Drops(d)
  <2>1. SUFFICES ASSUME call[d].pc = "persist", d # "user", setup.single
                 PROVE  call[d].rt \in lost'
    BY DEF Drops
  <2>2. d \in setup.callers BY <2>1 DEF Known, CallKnown
  <2>3. Is(d, "persist") BY <2>1, <2>2 DEF Is
  <2> QED BY <1>1, <2>1, <2>3
<1>6. RowsSame BY <1>1, RowsKept
<1>7. Types' BY <1>1, <1>2 DEF Types, cloud
<1>8. Dies(P) BY <1>1, <1>3, <1>4, <1>5, <1>6 DEF Dies, cloud
<1> QED BY <1>7, <1>8

LEMMA RevokeStep ==
    ASSUME Types, Revoke
    PROVE  Types' /\ Withdrawn
<1>1. /\ revoked = {} /\ revoked' = live /\ live' = {}
      /\ UNCHANGED <<setup, row, call, next, lost>>
  BY DEF Revoke, job
<1>2. RowsSame BY <1>1, RowsKept
<1>3. \A d \in Caller : Same(d) BY <1>1 DEF Same
<1> QED BY <1>1, <1>2, <1>3 DEF Types, Withdrawn

(* Every step has one of the shapes.                                       *)
LEMMA StepIsShaped ==
    ASSUME Types, Known, [Next]_vars
    PROVE  Types' /\ Shaped
<1>1. CASE UNCHANGED vars
  <2>1. UNCHANGED <<setup, row, call, cloud, lost>> BY <1>1 DEF vars, job
  <2>2. Types' /\ Rests BY <2>1 DEF Rests, RowsSame, Same, Types, cloud
  <2> QED BY <2>2 DEF Shaped
<1>2. ASSUME NEW c \in Caller, Step(c) \/ RefreshFails(c) \/ PersistFails(c)
      PROVE  Types' /\ Shaped
  <2>1. \/ /\ \/ TakeLocalLock(c) \/ TryClaimOAuthLock(c) \/ Rereads(c)
              \/ RefreshTokenInvalid(c) \/ RefreshFails(c)
              \/ OAuthTokenConflict(c) \/ RestoreRunEnded(c) \/ AdoptWinner(c)
        \/ RefreshToken(c) \/ UpdateOAuthTokens(c) \/ PersistFails(c)
    BY <1>2 DEF Step, UpdateMigrationOAuthTokens, UpdateSyncJobOAuthTokens,
                UpdateBackupJobOAuthTokens, UpdateRestoreRunOAuthTokens,
                UpdateConnectionProfileOAuthTokens
  <2>2. Types' /\ (Moves(c) \/ Leaves(c) \/ Loads(c) \/ Issues(c) \/ Misses(c) \/ Stores(c))
    BY <2>1, WaitStep, RefreshStep, UpdateStep, DropStep
  <2> QED BY <2>2 DEF Shaped
<1>3. ASSUME \/ \E c \in Caller : Begin(c) \/ BeginForced(c)
             \/ BeginAny
      PROVE  Types' /\ Shaped
  <2>1. Types' /\ \E c \in Caller : Loads(c) BY <1>3, BeginsLoad, ForcedLoads
  <2> QED BY <2>1 DEF Shaped
<1>4. ASSUME ConfirmInvalid \/ MarkFailed \/ ReauthLoad \/ ReauthStore \/ ReauthStatus
      PROVE  Types' /\ Shaped
  <2>1. "user" \in Caller BY DEF Caller
  <2>2. Types' /\ \E c \in Caller : Leaves(c) \/ Moves(c) \/ Issues(c) \/ Stores(c)
    BY <1>4, <2>1, DaemonStep, SignInStep, SignInStored, SignInEnds
  <2> QED BY <2>2 DEF Shaped
<1>5. ASSUME \/ LockExpires \/ JobGoesOn \/ JobStartsOrStops
             \/ \E r \in {"job", "profile"} : GrowOlder(r)
      PROVE  Types' /\ Shaped
  <2>1. Types' /\ Rests BY <1>5, RestStep DEF Rows
  <2> QED BY <2>1 DEF Shaped
<1>6. ASSUME Revoke PROVE Types' /\ Shaped
  BY <1>6, RevokeStep DEF Shaped
<1>7. ASSUME NEW P \in {WorkerProcess, Caller \ WorkerProcess}, Crash(P)
      PROVE  Types' /\ Shaped
  <2>1. P \in SUBSET Caller BY DEF WorkerProcess, Caller, Locking, Waiting
  <2>2. Types' /\ Dies(P) BY <1>7, <2>1, CrashStep
  <2> QED BY <2>1, <2>2 DEF Shaped
<1> QED BY <1>1, <1>2, <1>3, <1>4, <1>5, <1>6, <1>7 DEF Next

-----------------------------------------------------------------------------
(* The numbers. *)

(* The struct of a caller that keeps it, with the same rows and setup.     *)
LEMMA SameKnown ==
    ASSUME Types, Types', NEW d \in Caller, CallKnown(d), Same(d), UNCHANGED setup,
           next <= next'
    PROVE  CallKnown(d)'
BY DEF CallKnown, Same, Types, Struct

LEMMA IdleKnown ==
    ASSUME NEW d \in Caller, call'[d] = Idle
    PROVE  CallKnown(d)'
BY IdleStruct DEF CallKnown, Idle

(* Rows and structs hold issued tokens, whatever the step.                 *)
LEMMA KnownStep ==
    ASSUME Types, Types', Known, Shaped
    PROVE  Known'
<1>1. ASSUME NEW c \in Caller, RowsSame, SameBut(c), CallKnown(c)', UNCHANGED setup,
             next <= next'
      PROVE  Known'
  <2>1. \A r \in Rows : RowKnown(r)' BY <1>1 DEF Known, RowKnown, RowsSame, Types, Pair
  <2>2. \A d \in Caller \ {c} : CallKnown(d)' BY <1>1, SameKnown DEF Known, SameBut
  <2> QED BY <1>1, <2>1, <2>2 DEF Known
<1>2. next <= next BY DEF Types
<1>3. ASSUME NEW c \in Caller, Loads(c) PROVE Known'
  <2>1. RowOf(c) \in Rows BY RowOfCaller
  <2>2. RowKnown(RowOf(c)) BY <2>1 DEF Known
  <2>3. CallKnown(c)' BY <1>3, <2>2 DEF Loads, CallKnown, RowKnown
  <2> QED BY <1>1, <1>2, <1>3, <2>3 DEF Loads
<1>4. ASSUME NEW c \in Caller, Leaves(c) PROVE Known'
  <2>1. CallKnown(c)' BY <1>4, IdleKnown DEF Leaves
  <2> QED BY <1>1, <1>2, <1>4, <2>1 DEF Leaves
<1>5. ASSUME NEW c \in Caller, Moves(c) PROVE Known'
  <2>1. CallKnown(c) BY DEF Known
  <2>2. CallKnown(c)' BY <1>5, <2>1 DEF Moves, CallKnown
  <2> QED BY <1>1, <1>2, <1>5, <2>2 DEF Moves
<1>6. ASSUME NEW c \in Caller, Issues(c) PROVE Known'
  <2>1. next <= next' BY <1>6 DEF Issues, Types
  <2>2. CallKnown(c) /\ RowKnown("job") BY DEF Known, Rows
  <2>3. ASSUME Presents(c) PROVE CallKnown(c)'
    <3>1. /\ c \in setup.callers /\ 0 < call[c].rt /\ call[c].rt < next
          /\ 0 < call[c].at /\ call[c].at < next
      BY <2>2, <2>3 DEF Presents, CallKnown
    <3>2. call'[c].newRt = next \/ call'[c].newRt = call[c].rt
      BY <2>3 DEF Presents
    <3>3. 0 < call'[c].newRt /\ call'[c].newRt < next'
      BY <1>6, <3>1, <3>2 DEF Issues, Types, Struct
    <3>4. /\ call'[c].rt < next' /\ call'[c].at < next'
          /\ call'[c].at < call'[c].newAt /\ call'[c].newAt < next'
      BY <1>6, <2>3, <3>1 DEF Issues, Presents, Types, Struct
    <3> QED BY <1>6, <2>3, <3>1, <3>3, <3>4 DEF CallKnown, Issues, Presents
  <2>4. ASSUME SignsIn(c) PROVE CallKnown(c)'
    <3>1. /\ 0 < row.job.rt /\ row.job.rt < next
          /\ 0 < row.job.at /\ row.job.at < next
      BY <2>2 DEF RowKnown
    <3>2. 0 < next /\ next < next' BY <1>6, <3>1 DEF Issues, Types, Pair, Rows
    <3>3. /\ call'[c].rt < next' /\ call'[c].at < next'
          /\ call'[c].at < call'[c].newAt
      BY <1>6, <2>4, <3>1 DEF Issues, SignsIn, Types, Pair, Rows
    <3> QED BY <1>6, <2>4, <3>1, <3>2, <3>3 DEF CallKnown, Issues, SignsIn
  <2>5. CallKnown(c)' BY <1>6, <2>3, <2>4 DEF Issues
  <2> QED BY <1>1, <1>6, <2>1, <2>5 DEF Issues
<1>7. ASSUME NEW c \in Caller, Misses(c) PROVE Known'
  <2>1. CallKnown(c)' BY <1>7, IdleKnown DEF Misses
  <2>2. next <= next' BY <1>7 DEF Misses, Types
  <2> QED BY <1>1, <1>7, <2>1, <2>2 DEF Misses
<1>8. ASSUME NEW c \in Caller, Stores(c) PROVE Known'
  <2>1. CallKnown(c) /\ RowOf(c) \in Rows BY RowOfCaller DEF Known
  <2>2. RowKnown(RowOf(c))'
    BY <1>8, <2>1 DEF Stores, CallKnown, RowKnown, Types, Struct
  <2>3. \A r \in Rows \ {RowOf(c)} : RowKnown(r)' BY <1>8 DEF Stores, Known, RowKnown
  <2>4. CallKnown(c)'
    <3>1. CASE call'[c] = Idle BY <3>1, IdleKnown
    <3>2. CASE call'[c].pc = "status" /\ call'[c].rt = call[c].rt /\ call'[c].at = call[c].at
      BY <1>8, <2>1, <3>2 DEF CallKnown, Stores
    <3> QED BY <1>8, <3>1, <3>2 DEF Stores
  <2>5. \A d \in Caller \ {c} : CallKnown(d)' BY <1>2, <1>8, SameKnown DEF Known, SameBut, Stores
  <2> QED BY <2>1, <2>2, <2>3, <2>4, <2>5 DEF Known
<1>9. ASSUME Rests \/ Withdrawn PROVE Known'
  <2>1. \A r \in Rows : RowKnown(r)'
    BY <1>9 DEF Rests, Withdrawn, Known, RowKnown, RowsSame, Types, Pair
  <2>2. \A d \in Caller : CallKnown(d)'
    BY <1>2, <1>9, SameKnown DEF Known, Rests, Withdrawn
  <2> QED BY <2>1, <2>2 DEF Known
<1>10. ASSUME NEW P \in SUBSET Caller, Dies(P) PROVE Known'
  <2>1. \A r \in Rows : RowKnown(r)'
    BY <1>10 DEF Dies, Known, RowKnown, RowsSame, Types, Pair
  <2>2. \A d \in Caller \ P : CallKnown(d)'
    BY <1>2, <1>10, SameKnown DEF Known, Dies
  <2>3. \A d \in P : CallKnown(d)' BY <1>10, IdleKnown DEF Dies
  <2> QED BY <2>1, <2>2, <2>3 DEF Known
<1> QED BY <1>3, <1>4, <1>5, <1>6, <1>7, <1>8, <1>9, <1>10 DEF Shaped

LEMMA InitKnown == Init => Types /\ Known
<1> SUFFICES ASSUME Init PROVE Types /\ Known
  OBVIOUS
<1>1. /\ setup \in Setups /\ next = 3 /\ row \in [Rows -> Pair]
      /\ row.job.rt = 1 /\ row.job.at = 1 /\ row.profile.rt \in {1, 2} /\ row.profile.at = 2
  <2>1. setup.shared \in BOOLEAN BY SetupsAssumption DEF Init
  <2>2. row.job.rt = 1 /\ row.job.at = 1 /\ row.profile.rt \in {1, 2} /\ row.profile.at = 2
    BY <2>1 DEF Init
  <2>3. row \in [Rows -> Pair] BY <2>1 DEF Init, Rows, Pair, Ages
  <2> QED BY <2>2, <2>3 DEF Init
<1>2. call \in [Caller -> Struct] /\ \A c \in Caller : call[c] = Idle
  BY IdleStruct DEF Init
<1>3. \A c \in Caller : CallKnown(c) BY <1>2, IdleStruct DEF CallKnown, Idle
<1>4. \A r \in Rows : RowKnown(r) BY <1>1 DEF RowKnown, Rows
<1> QED BY <1>1, <1>2, <1>3, <1>4 DEF Types, Known

(* Rows store and callers hold only tokens the provider has issued, and a
   successor is newer than the pair that was presented for it, in any world
   (Types and Known, on which the other theorems rest).                     *)
THEOREM TokensAreKnown == Spec => [](Types /\ Known)
<1>1. Types /\ Known /\ [Next]_vars => (Types /\ Known)'
  BY StepIsShaped, KnownStep
<1> QED BY <1>1, InitKnown, PTL DEF Spec

(* No write puts an older access token over a newer one
   (StoredPairOnlyAdvances), in any world: the compare-and-set compares with
   the pair the caller presented, and a successor is newer than that.       *)
THEOREM PairsAdvance == Spec => StoredPairOnlyAdvances
<1>1. ASSUME Types, Known, [Next]_vars
      PROVE  \A r \in {"job", "profile"} : row'[r].at >= row[r].at
  <2>1. Types' /\ Shaped BY <1>1, StepIsShaped
  <2>2. \A r \in Rows : row[r].at \in Nat BY <1>1 DEF Types, Pair
  <2>3. CASE RowsSame BY <2>2, <2>3 DEF RowsSame, Rows
  <2>4. ASSUME NEW c \in Caller, Stores(c)
        PROVE  \A r \in Rows : row'[r].at >= row[r].at
    <3>1. RowOf(c) \in Rows BY RowOfCaller
    <3>2. call[c].at < call[c].newAt /\ call[c].at \in Nat /\ call[c].newAt \in Nat
      BY <1>1, <2>4 DEF Known, CallKnown, Stores, Types, Struct
    <3>3. row'[RowOf(c)].at >= row[RowOf(c)].at
      BY <2>4, <3>2 DEF Stores, Matches
    <3>4. \A r \in Rows \ {RowOf(c)} : row'[r].at >= row[r].at
      BY <2>2, <2>4 DEF Stores
    <3> QED BY <3>1, <3>3, <3>4
  <2>5. RowsSame \/ \E c \in Caller : Stores(c)
    BY <2>1 DEF Shaped, Loads, Leaves, Moves, Issues, Misses, Rests, Withdrawn, Dies
  <2> QED BY <2>3, <2>4, <2>5 DEF Rows
<1>2. Types /\ Known /\ [Next]_vars
        => [\A r \in {"job", "profile"} : row'[r].at >= row[r].at]_vars
  BY <1>1
<1> QED BY <1>2, TokensAreKnown, PTL DEF Spec, StoredPairOnlyAdvances

-----------------------------------------------------------------------------
(* Providers with single-use refresh tokens. *)

Accepted == live \cup revoked

(* A refresh token names its pair, and no two rows share one.              *)
RowNamed(r) == /\ row[r].rt = row[r].at
               /\ \A q \in Rows \ {r} : row[q].rt # row[r].rt

(* A struct holds a pair of its own row, never that of another.            *)
CallNamed(c) == call[c].pc # "idle" =>
    /\ call[c].rt = call[c].at
    /\ \A r \in Rows \ {RowOf(c)} : call[c].rt # row[r].rt

(* A successor that is not stored yet is accepted, and is in nobody else's
   hands: no row, no struct, no other successor.                            *)
Successor(c) == call[c].pc = "persist" =>
    /\ call[c].newRt = call[c].newAt /\ call[c].newRt \in Accepted
    /\ \A r \in Rows : call[c].newRt # row[r].rt
    /\ \A d \in Caller : call[c].newRt # call[d].rt
    /\ \A d \in Caller \ {c} : call[d].pc = "persist" => call[c].newRt # call[d].newRt

(* Somebody other than the user is about to store the successor of row r.  *)
Awaited(r) == \E c \in Caller \ {"user"} : /\ RowOf(c) = r /\ call[c].pc = "persist"
                                           /\ call[c].at = row[r].at
Usable(r) == row[r].rt \in Accepted \cup lost \/ Awaited(r)

SingleUse ==
    /\ \A r \in Rows : RowNamed(r) /\ Usable(r)
    /\ \A c \in Caller : CallNamed(c) /\ Successor(c)

(* Providers that keep accepting a refresh token: all that is in use is
   accepted.                                                                *)
Reusable ==
    /\ \A r \in Rows : row[r].rt \in Accepted
    /\ \A c \in Caller : /\ call[c].pc # "idle" => call[c].rt \in Accepted
                         /\ call[c].pc = "persist" => call[c].newRt \in Accepted

TokenInv == Types /\ Known /\ (setup.single => SingleUse) /\ (~ setup.single => Reusable)

(* Steps after which everyone but c holds what he held.                    *)
LEMMA OthersNamed ==
    ASSUME Types, Types', SingleUse, NEW d \in Caller, Same(d), RowsSame
    PROVE  CallNamed(d)'
<1>1. CallNamed(d) BY DEF SingleUse
<1> QED BY <1>1 DEF CallNamed, Same, RowsSame

LEMMA RowsNamed ==
    ASSUME SingleUse, RowsSame
    PROVE  \A r \in Rows : RowNamed(r)'
BY DEF SingleUse, RowNamed, RowsSame

(* The successor of d, when nobody got hold of it.                         *)
LEMMA SuccessorKept ==
    ASSUME Types, Types', SingleUse, NEW d \in Caller, Same(d),
           call[d].pc = "persist" =>
             /\ call[d].newRt \in Accepted'
             /\ \A r \in Rows : call[d].newRt # row'[r].rt
             /\ \A e \in Caller : call[d].newRt # call'[e].rt
             /\ \A e \in Caller \ {d} : call'[e].pc = "persist" => call[d].newRt # call'[e].newRt
    PROVE  Successor(d)'
<1>1. Successor(d) BY DEF SingleUse
<1> QED BY <1>1 DEF Successor, Same

(* Whoever stores nothing and gets nothing new keeps all rows usable, as
   long as no successor of a row is dropped.                                *)
LEMMA QuietStep ==
    ASSUME Types, Types', Known, Known', SingleUse, RowsSame, NEW P \in SUBSET Caller,
           \A d \in Caller \ P : Same(d),
           \A d \in P : call'[d].pc # "persist" /\ Drops(d) /\ CallNamed(d)',
           \A d \in P : call'[d].rt = 0 \/ call'[d].rt = call[d].rt \/ \E r \in Rows : call'[d].rt = row[r].rt,
           Accepted \subseteq Accepted', lost \subseteq lost', setup.single
    PROVE  SingleUse'
<1>1. \A r \in Rows : RowNamed(r)' BY RowsNamed
<1>2. \A d \in Caller : CallNamed(d)' BY OthersNamed
<1>3. ASSUME NEW d \in Caller PROVE Successor(d)'
  <2>1. CASE d \in P BY <2>1 DEF Successor
  <2>2. CASE d \notin P
    <3>1. SUFFICES ASSUME call[d].pc = "persist"
                   PROVE  /\ call[d].newRt \in Accepted'
                          /\ \A r \in Rows : call[d].newRt # row'[r].rt
                          /\ \A e \in Caller : call[d].newRt # call'[e].rt
                          /\ \A e \in Caller \ {d} : call'[e].pc = "persist" => call[d].newRt # call'[e].newRt
      BY <2>2, SuccessorKept
    <3>2. /\ call[d].newRt \in Accepted
          /\ \A r \in Rows : call[d].newRt # row[r].rt
          /\ \A e \in Caller : call[d].newRt # call[e].rt
          /\ \A e \in Caller \ {d} : call[e].pc = "persist" => call[d].newRt # call[e].newRt
      BY <3>1 DEF SingleUse, Successor
    <3>3. 0 < call[d].newRt /\ call[d].newRt \in Nat BY <3>1 DEF Known, CallKnown, Types, Struct
    <3>4. \A r \in Rows : call[d].newRt # row'[r].rt BY <3>2 DEF RowsSame
    <3>5. \A e \in Caller : call[d].newRt # call'[e].rt
      <4> TAKE e \in Caller
      <4>1. CASE e \in P BY <3>2, <3>3, <4>1
      <4>2. CASE e \notin P BY <3>2, <4>2 DEF Same
      <4> QED BY <4>1, <4>2
    <3>6. \A e \in Caller \ {d} : call'[e].pc = "persist" => call[d].newRt # call'[e].newRt
      BY <3>2 DEF Same
    <3> QED BY <3>2, <3>4, <3>5, <3>6
  <2> QED BY <2>1, <2>2
<1>4. ASSUME NEW r \in Rows PROVE Usable(r)'
  <2>1. Usable(r) /\ row'[r].rt = row[r].rt /\ row'[r].at = row[r].at
    BY DEF SingleUse, RowsSame
  <2>2. CASE row[r].rt \in Accepted \cup lost
    BY <2>1, <2>2 DEF Usable
  <2>3. CASE Awaited(r)
    <3>1. PICK c \in Caller \ {"user"} : /\ RowOf(c) = r /\ call[c].pc = "persist"
                                         /\ call[c].at = row[r].at
      BY <2>3 DEF Awaited
    <3>2. CASE c \in P
      <4>1. call[c].rt \in lost' BY <3>1, <3>2 DEF Drops, Matches
      <4>2. call[c].rt = call[c].at BY <3>1 DEF SingleUse, CallNamed
      <4>3. row[r].rt = row[r].at BY DEF SingleUse, RowNamed
      <4> QED BY <2>1, <3>1, <4>1, <4>2, <4>3 DEF Usable
    <3>3. CASE c \notin P
      <4>1. call'[c].pc = "persist" /\ call'[c].at = row'[r].at BY <2>1, <3>1, <3>3 DEF Same
      <4>2. Awaited(r)' BY <3>1, <4>1 DEF Awaited
      <4> QED BY <4>2 DEF Usable
    <3> QED BY <3>2, <3>3
  <2> QED BY <2>1, <2>2, <2>3 DEF Usable
<1> QED BY <1>1, <1>2, <1>3, <1>4 DEF SingleUse

(* A new token, issued to caller c for row RowOf(c).                       *)
LEMMA IssueStep ==
    ASSUME Types, Types', Known, Known', SingleUse, setup.single,
           NEW c \in Caller, Issues(c)
    PROVE  SingleUse'
<1>1. \A r \in Rows : RowNamed(r)' BY RowsNamed DEF Issues
<1>2. RowsSame /\ SameBut(c) /\ next' = next + 1 /\ call'[c].newRt = next
  BY DEF Issues, Presents, SignsIn
<1>3. CallNamed(c)'
  <2>1. CASE Presents(c)
    <3>1. CallNamed(c) BY DEF SingleUse
    <3> QED BY <1>2, <2>1, <3>1 DEF CallNamed, Presents, RowsSame
  <2>2. CASE SignsIn(c)
    <3>1. RowOf(c) = "job" BY <2>2 DEF SignsIn, RowOf, Resolvers
    <3>2. RowNamed("job") BY DEF SingleUse, Rows
    <3> QED BY <1>2, <2>2, <3>1, <3>2 DEF CallNamed, SignsIn, RowsSame, RowNamed, Rows
  <2> QED BY <2>1, <2>2 DEF Issues
<1>4. \A d \in Caller : CallNamed(d)' BY <1>2, <1>3, OthersNamed DEF SameBut
<1>5. /\ next \in Accepted'
      /\ \A t \in Accepted : t \in Accepted' \/ (t = call[c].rt /\ Presents(c))
  BY DEF Issues, Presents, SignsIn, Accepted
<1>6. /\ \A r \in Rows : row[r].rt < next /\ row[r].rt \in Nat
      /\ \A d \in Caller : call[d].rt < next /\ call[d].rt \in Nat
      /\ \A d \in Caller : call[d].pc = "persist" => call[d].newRt < next /\ call[d].newRt \in Nat
      /\ next \in Nat
  <2>1. \A r \in Rows : row[r].rt < next /\ row[r].rt \in Nat BY DEF Known, RowKnown, Types, Pair
  <2>2. \A d \in Caller : call[d].rt \in Nat /\ call[d].newRt \in Nat BY DEF Types, Struct
  <2>3. 0 < next /\ next \in Nat BY <2>1 DEF Rows, Known, RowKnown, Types
  <2>4. \A d \in Caller : call[d].pc = "idle" => call[d].rt = 0 BY DEF Known, CallKnown, Idle
  <2>5. \A d \in Caller : call[d].pc # "idle" => call[d].rt < next BY DEF Known, CallKnown
  <2>6. \A d \in Caller : call[d].pc = "persist" => call[d].newRt < next BY DEF Known, CallKnown
  <2> QED BY <2>1, <2>2, <2>3, <2>4, <2>5, <2>6
<1>7. call'[c].rt = call[c].rt \/ call'[c].rt = row.job.rt BY DEF Issues, Presents, SignsIn
<1>8. Successor(c)'
  <2>1. \A r \in Rows : call'[c].newRt # row'[r].rt BY <1>2, <1>6 DEF RowsSame
  <2>2. call'[c].rt # next BY <1>6, <1>7 DEF Rows
  <2>3. \A d \in Caller \ {c} : call'[d].rt # next /\ (call'[d].pc = "persist" => call'[d].newRt # next)
    BY <1>2, <1>6 DEF SameBut, Same
  <2>4. call'[c].newRt = call'[c].newAt BY <1>2 DEF Issues
  <2> QED BY <1>2, <1>5, <2>1, <2>2, <2>3, <2>4 DEF Successor
<1>9. ASSUME NEW d \in Caller \ {c} PROVE Successor(d)'
  <2>1. Same(d) BY <1>2 DEF SameBut
  <2>2. SUFFICES ASSUME call[d].pc = "persist"
                 PROVE  /\ call[d].newRt \in Accepted'
                        /\ \A r \in Rows : call[d].newRt # row'[r].rt
                        /\ \A e \in Caller : call[d].newRt # call'[e].rt
                        /\ \A e \in Caller \ {d} : call'[e].pc = "persist" => call[d].newRt # call'[e].newRt
    BY <2>1, SuccessorKept
  <2>3. /\ call[d].newRt \in Accepted
        /\ \A r \in Rows : call[d].newRt # row[r].rt
        /\ \A e \in Caller : call[d].newRt # call[e].rt
        /\ \A e \in Caller \ {d} : call[e].pc = "persist" => call[d].newRt # call[e].newRt
    BY <2>2 DEF SingleUse, Successor
  <2>4. call[d].newRt \in Accepted' BY <1>5, <2>3
  <2>5. \A r \in Rows : call[d].newRt # row'[r].rt BY <1>2, <2>3 DEF RowsSame
  <2>6. call[d].newRt # call'[c].rt BY <1>7, <2>3 DEF Rows
  <2>7. \A e \in Caller \ {c} : call[d].newRt # call'[e].rt BY <1>2, <2>3 DEF SameBut, Same
  <2>8. call[d].newRt # next BY <1>6, <2>2
  <2>9. \A e \in Caller \ {d} : call'[e].pc = "persist" => call[d].newRt # call'[e].newRt
    BY <1>2, <2>3, <2>8 DEF SameBut, Same
  <2> QED BY <2>4, <2>5, <2>6, <2>7, <2>9
<1>10. ASSUME NEW r \in Rows PROVE Usable(r)'
  <2>1. Usable(r) /\ row'[r].rt = row[r].rt /\ row'[r].at = row[r].at /\ lost' = lost
    BY <1>2 DEF SingleUse, RowsSame, Issues
  <2>2. CASE row[r].rt \in lost \/ row[r].rt \in Accepted'
    BY <2>1, <2>2 DEF Usable
  <2>3. CASE row[r].rt \in Accepted /\ row[r].rt \notin Accepted'
    <3>1. row[r].rt = call[c].rt /\ Presents(c) BY <1>5, <2>3
    <3>2. CallNamed(c) /\ call[c].pc = "refresh" BY <3>1 DEF SingleUse, Presents
    <3>3. RowOf(c) = r /\ call[c].rt = call[c].at BY <3>1, <3>2 DEF CallNamed
    <3>4. row[r].rt = row[r].at BY DEF SingleUse, RowNamed
    <3>5. call'[c].pc = "persist" /\ call'[c].at = call[c].at BY <3>1 DEF Issues, Presents
    <3>6. c # "user" BY <3>2 DEF Known, CallKnown
    <3>7. Awaited(r)' BY <2>1, <3>1, <3>3, <3>4, <3>5, <3>6 DEF Awaited
    <3> QED BY <3>7 DEF Usable
  <2>4. CASE Awaited(r)
    <3>1. PICK d \in Caller \ {"user"} : /\ RowOf(d) = r /\ call[d].pc = "persist"
                                         /\ call[d].at = row[r].at
      BY <2>4 DEF Awaited
    <3>2. d # c BY <3>1 DEF Issues, Presents, SignsIn
    <3>3. call'[d].pc = "persist" /\ call'[d].at = row'[r].at
      BY <1>2, <2>1, <3>1, <3>2 DEF SameBut, Same
    <3>4. Awaited(r)' BY <3>1, <3>3 DEF Awaited
    <3> QED BY <3>4 DEF Usable
  <2> QED BY <2>1, <2>2, <2>3, <2>4 DEF Usable
<1> QED BY <1>1, <1>4, <1>8, <1>9, <1>10 DEF SingleUse

(* The answer of the provider is lost: the token that was used up counts as
   lost, and nobody holds its successor.                                    *)
LEMMA MissStep ==
    ASSUME Types, Types', Known, Known', SingleUse, setup.single,
           NEW c \in Caller, Misses(c)
    PROVE  SingleUse'
<1>1. /\ RowsSame /\ SameBut(c) /\ call'[c] = Idle /\ call[c].pc = "refresh"
      /\ \A t \in Accepted : t \in Accepted' \/ t = call[c].rt
      /\ lost \subseteq lost' /\ call[c].rt \in lost'
  BY DEF Misses, Accepted
<1>2. \A r \in Rows : RowNamed(r)' BY <1>1, RowsNamed
<1>3. CallNamed(c)' /\ Successor(c)' BY <1>1, IdleStruct DEF CallNamed, Successor
<1>4. \A d \in Caller : CallNamed(d)' BY <1>1, <1>3, OthersNamed DEF SameBut
<1>5. ASSUME NEW d \in Caller \ {c} PROVE Successor(d)'
  <2>1. Same(d) BY <1>1 DEF SameBut
  <2>2. SUFFICES ASSUME call[d].pc = "persist"
                 PROVE  /\ call[d].newRt \in Accepted'
                        /\ \A r \in Rows : call[d].newRt # row'[r].rt
                        /\ \A e \in Caller : call[d].newRt # call'[e].rt
                        /\ \A e \in Caller \ {d} : call'[e].pc = "persist" => call[d].newRt # call'[e].newRt
    BY <2>1, SuccessorKept
  <2>3. /\ call[d].newRt \in Accepted
        /\ \A r \in Rows : call[d].newRt # row[r].rt
        /\ \A e \in Caller : call[d].newRt # call[e].rt
        /\ \A e \in Caller \ {d} : call[e].pc = "persist" => call[d].newRt # call[e].newRt
    BY <2>2 DEF SingleUse, Successor
  <2>4. 0 < call[d].newRt /\ call[d].newRt \in Nat BY <2>2 DEF Known, CallKnown, Types, Struct
  <2>5. call[d].newRt \in Accepted' BY <1>1, <2>3
  <2>6. \A r \in Rows : call[d].newRt # row'[r].rt BY <1>1, <2>3 DEF RowsSame
  <2>7. call'[c].rt = 0 /\ call'[c].pc = "idle" BY <1>1, IdleStruct
  <2>8. \A e \in Caller \ {c} : call[d].newRt # call'[e].rt BY <1>1, <2>3 DEF SameBut, Same
  <2>9. \A e \in Caller \ {d} : call'[e].pc = "persist" => call[d].newRt # call'[e].newRt
    BY <1>1, <2>3, <2>7 DEF SameBut, Same
  <2> QED BY <2>4, <2>5, <2>6, <2>7, <2>8, <2>9
<1>6. ASSUME NEW r \in Rows PROVE Usable(r)'
  <2>1. Usable(r) /\ row'[r].rt = row[r].rt /\ row'[r].at = row[r].at
    BY <1>1 DEF SingleUse, RowsSame
  <2>2. CASE row[r].rt \in Accepted \cup lost
    BY <1>1, <2>1, <2>2 DEF Usable
  <2>3. CASE Awaited(r)
    <3>1. PICK d \in Caller \ {"user"} : /\ RowOf(d) = r /\ call[d].pc = "persist"
                                         /\ call[d].at = row[r].at
      BY <2>3 DEF Awaited
    <3>2. d # c BY <1>1, <3>1
    <3>3. call'[d].pc = "persist" /\ call'[d].at = row'[r].at
      BY <1>1, <2>1, <3>1, <3>2 DEF SameBut, Same
    <3>4. Awaited(r)' BY <3>1, <3>3 DEF Awaited
    <3> QED BY <3>4 DEF Usable
  <2> QED BY <2>1, <2>2, <2>3 DEF Usable
<1> QED BY <1>2, <1>3, <1>4, <1>5, <1>6 DEF SingleUse

(* A successor becomes the pair of its row.                                *)
LEMMA StoreStep ==
    ASSUME Types, Types', Known, Known', SingleUse, setup.single,
           NEW c \in Caller, Stores(c)
    PROVE  SingleUse'
<1> DEFINE r == RowOf(c)
<1>1. r \in Rows BY RowOfCaller
<1> HIDE DEF r
<1>2. /\ call[c].pc = "persist" /\ SameBut(c) /\ Accepted' = Accepted /\ lost' = lost
      /\ row'[r].rt = call[c].newRt /\ row'[r].at = call[c].newAt
      /\ \A q \in Rows \ {r} : row'[q] = row[q]
      /\ call'[c].pc # "persist"
  BY IdleStruct DEF Stores, Accepted, r
<1>3. /\ call[c].newRt = call[c].newAt /\ call[c].newRt \in Accepted
      /\ \A q \in Rows : call[c].newRt # row[q].rt
      /\ \A d \in Caller : call[c].newRt # call[d].rt
      /\ \A d \in Caller \ {c} : call[d].pc = "persist" => call[c].newRt # call[d].newRt
  BY <1>2 DEF SingleUse, Successor
<1>4. \/ call'[c].rt = 0 /\ call'[c].pc = "idle"
      \/ call'[c].rt = call[c].rt /\ call'[c].at = call[c].at
  BY IdleStruct DEF Stores
<1>5. \A q \in Rows : RowNamed(q) BY DEF SingleUse
<1>6. \A q \in Rows : RowNamed(q)'
  <2>1. RowNamed(r)' BY <1>1, <1>2, <1>3, <1>5 DEF RowNamed
  <2>2. \A q \in Rows \ {r} : RowNamed(q)' BY <1>1, <1>2, <1>3, <1>5 DEF RowNamed
  <2> QED BY <2>1, <2>2
<1>7. ASSUME NEW d \in Caller PROVE CallNamed(d)'
  <2>1. CallNamed(d) BY DEF SingleUse
  <2>2. \A q \in Rows \ {RowOf(d)} : row'[q].rt = row[q].rt \/ row'[q].rt = call[c].newRt
    BY <1>2
  <2>3. CASE d # c
    <3>1. Same(d) BY <1>2, <2>3 DEF SameBut
    <3> QED BY <1>3, <2>1, <2>2, <3>1 DEF CallNamed, Same
  <2>4. CASE d = c
    <3>1. CASE call'[c].pc = "idle" BY <2>4, <3>1 DEF CallNamed
    <3>2. CASE call'[c].rt = call[c].rt /\ call'[c].at = call[c].at
      BY <1>2, <1>3, <2>1, <2>2, <2>4, <3>2 DEF CallNamed
    <3> QED BY <1>4, <3>1, <3>2
  <2> QED BY <2>3, <2>4
<1>8. ASSUME NEW d \in Caller PROVE Successor(d)'
  <2>1. CASE d = c BY <1>2, <2>1 DEF Successor
  <2>2. CASE d # c
    <3>1. Same(d) BY <1>2, <2>2 DEF SameBut
    <3>2. SUFFICES ASSUME call[d].pc = "persist"
                   PROVE  /\ call[d].newRt \in Accepted'
                          /\ \A q \in Rows : call[d].newRt # row'[q].rt
                          /\ \A e \in Caller : call[d].newRt # call'[e].rt
                          /\ \A e \in Caller \ {d} : call'[e].pc = "persist" => call[d].newRt # call'[e].newRt
      BY <3>1, SuccessorKept
    <3>3. /\ call[d].newRt \in Accepted
          /\ \A q \in Rows : call[d].newRt # row[q].rt
          /\ \A e \in Caller : call[d].newRt # call[e].rt
          /\ \A e \in Caller \ {d} : call[e].pc = "persist" => call[d].newRt # call[e].newRt
      BY <3>2 DEF SingleUse, Successor
    <3>4. 0 < call[d].newRt /\ call[d].newRt \in Nat BY <3>2 DEF Known, CallKnown, Types, Struct
    <3>5. \A q \in Rows : call[d].newRt # row'[q].rt BY <1>1, <1>2, <1>3, <2>2, <3>2, <3>3
    <3>6. call[d].newRt # call'[c].rt BY <1>4, <3>3, <3>4
    <3>7. \A e \in Caller \ {c} : call[d].newRt # call'[e].rt BY <1>2, <3>3 DEF SameBut, Same
    <3>8. \A e \in Caller \ {d} : call'[e].pc = "persist" => call[d].newRt # call'[e].newRt
      BY <1>2, <3>3 DEF SameBut, Same
    <3> QED BY <1>2, <3>3, <3>5, <3>6, <3>7, <3>8
  <2> QED BY <2>1, <2>2
<1>9. Usable(r)' BY <1>2, <1>3 DEF Usable
<1>10. ASSUME NEW q \in Rows \ {r} PROVE Usable(q)'
  <2>1. Usable(q) /\ row'[q] = row[q] BY <1>2 DEF SingleUse
  <2>2. CASE row[q].rt \in Accepted \cup lost BY <1>2, <2>1, <2>2 DEF Usable
  <2>3. CASE Awaited(q)
    <3>1. PICK d \in Caller \ {"user"} : /\ RowOf(d) = q /\ call[d].pc = "persist"
                                         /\ call[d].at = row[q].at
      BY <2>3 DEF Awaited
    <3>2. d # c BY <3>1 DEF r
    <3>3. call'[d].pc = "persist" /\ call'[d].at = row'[q].at
      BY <1>2, <2>1, <3>1, <3>2 DEF SameBut, Same
    <3>4. Awaited(q)' BY <3>1, <3>3 DEF Awaited
    <3> QED BY <3>4 DEF Usable
  <2> QED BY <2>1, <2>2, <2>3 DEF Usable
<1> QED BY <1>6, <1>7, <1>8, <1>9, <1>10 DEF SingleUse

(* Single-use tokens, step by step.                                        *)
LEMMA SingleStep ==
    ASSUME Types, Types', Known, Known', SingleUse, setup.single, Shaped
    PROVE  SingleUse'
<1>1. ASSUME NEW c \in Caller, Loads(c) \/ Leaves(c) \/ Moves(c) PROVE SingleUse'
  <2>1. /\ RowsSame /\ SameBut(c) /\ Drops(c) /\ call'[c].pc # "persist"
        /\ Accepted' = Accepted /\ lost \subseteq lost'
    BY <1>1, IdleStruct DEF Loads, Leaves, Moves, Drops, Accepted
  <2>2. CallNamed(c)'
    <3>1. CASE Loads(c)
      <4>1. RowNamed(RowOf(c)) BY RowOfCaller DEF SingleUse
      <4> QED BY <2>1, <3>1, <4>1, RowOfCaller DEF CallNamed, Loads, RowNamed, RowsSame
    <3>2. CASE Leaves(c) BY <3>2, IdleStruct DEF CallNamed, Leaves
    <3>3. CASE Moves(c)
      <4>1. CallNamed(c) BY DEF SingleUse
      <4> QED BY <2>1, <3>3, <4>1 DEF CallNamed, Moves, RowsSame
    <3> QED BY <1>1, <3>1, <3>2, <3>3
  <2>3. call'[c].rt = 0 \/ call'[c].rt = call[c].rt \/ \E r \in Rows : call'[c].rt = row[r].rt
    BY <1>1, IdleStruct, RowOfCaller DEF Loads, Leaves, Moves
  <2>4. \A d \in Caller \ {c} : Same(d) BY <2>1 DEF SameBut
  <2>5. {c} \in SUBSET Caller OBVIOUS
  <2> QED BY <2>1, <2>2, <2>3, <2>4, <2>5, QuietStep
<1>2. ASSUME Rests \/ Withdrawn PROVE SingleUse'
  <2>1. /\ RowsSame /\ \A d \in Caller : Same(d)
        /\ Accepted \subseteq Accepted' /\ lost \subseteq lost'
    BY <1>2 DEF Rests, Withdrawn, Accepted
  <2>2. {} \in SUBSET Caller OBVIOUS
  <2> QED BY <2>1, <2>2, QuietStep
<1>3. ASSUME NEW P \in SUBSET Caller, Dies(P) PROVE SingleUse'
  <2>1. /\ RowsSame /\ \A d \in Caller \ P : Same(d)
        /\ Accepted \subseteq Accepted' /\ lost \subseteq lost'
        /\ \A d \in P : Drops(d) /\ call'[d].pc = "idle" /\ call'[d].rt = 0
    BY <1>3, IdleStruct DEF Dies, Accepted
  <2>2. \A d \in P : CallNamed(d)' BY <2>1 DEF CallNamed
  <2> QED BY <2>1, <2>2, QuietStep
<1> QED BY <1>1, <1>2, <1>3, IssueStep, MissStep, StoreStep DEF Shaped

(* Tokens that can be used again, step by step.                            *)
LEMMA ReuseStep ==
    ASSUME Types, Types', Known, Reusable, ~ setup.single, Shaped
    PROVE  Reusable'
<1>1. Accepted \subseteq Accepted'
  BY DEF Shaped, Loads, Leaves, Moves, Issues, Presents, SignsIn, Misses, Stores, Rests,
         Withdrawn, Dies, Accepted
<1>2. ASSUME NEW r \in Rows PROVE row'[r].rt \in Accepted'
  <2>1. CASE RowsSame BY <1>1, <2>1 DEF RowsSame, Reusable
  <2>2. ASSUME NEW c \in Caller, Stores(c) PROVE row'[r].rt \in Accepted'
    BY <1>1, <2>2 DEF Stores, Reusable
  <2>3. RowsSame \/ \E c \in Caller : Stores(c)
    BY DEF Shaped, Loads, Leaves, Moves, Issues, Misses, Rests, Withdrawn, Dies
  <2> QED BY <2>1, <2>2, <2>3
<1>3. ASSUME NEW d \in Caller
      PROVE  /\ call'[d].pc # "idle" => call'[d].rt \in Accepted'
             /\ call'[d].pc = "persist" => call'[d].newRt \in Accepted'
  <2>1. /\ call[d].pc # "idle" => call[d].rt \in Accepted
        /\ call[d].pc = "persist" => call[d].newRt \in Accepted
        /\ \A r \in Rows : row[r].rt \in Accepted
    BY DEF Reusable
  <2>2. CASE Same(d) BY <1>1, <2>1, <2>2 DEF Same
  <2>3. CASE call'[d] = Idle BY <2>3, IdleStruct
  <2>4. CASE Loads(d) BY <1>1, <2>1, <2>4, RowOfCaller DEF Loads
  <2>5. CASE Moves(d) BY <1>1, <2>1, <2>5 DEF Moves
  <2>6. CASE Stores(d) BY <1>1, <2>1, <2>6, IdleStruct DEF Stores
  <2>7. CASE Issues(d)
    <3>1. CASE Presents(d)
      <4>1. call'[d].newRt = call[d].rt /\ call'[d].rt = call[d].rt /\ call[d].pc # "idle"
        BY <3>1 DEF Presents
      <4> QED BY <1>1, <2>1, <4>1
    <3>2. CASE SignsIn(d)
      <4>1. call'[d].newRt \in Accepted' /\ call'[d].rt = row.job.rt BY <3>2 DEF SignsIn, Accepted
      <4> QED BY <1>1, <2>1, <4>1 DEF Rows
    <3> QED BY <2>7, <3>1, <3>2 DEF Issues
  <2>8. \/ Same(d) \/ call'[d] = Idle \/ Loads(d) \/ Moves(d) \/ Stores(d) \/ Issues(d)
    <3>1. ASSUME NEW c \in Caller, SameBut(c), d # c PROVE Same(d)
      BY <3>1 DEF SameBut
    <3>2. ASSUME NEW c \in Caller,
                 Loads(c) \/ Leaves(c) \/ Moves(c) \/ Issues(c) \/ Misses(c) \/ Stores(c)
          PROVE  SameBut(c) /\ (call'[c] = Idle \/ Loads(c) \/ Moves(c) \/ Stores(c) \/ Issues(c))
      BY <3>2 DEF Loads, Leaves, Moves, Issues, Misses, Stores
    <3>3. ASSUME NEW P \in SUBSET Caller, Dies(P) PROVE Same(d) \/ call'[d] = Idle
      BY <3>3 DEF Dies
    <3>4. Rests \/ Withdrawn => Same(d) BY DEF Rests, Withdrawn
    <3> QED BY <3>1, <3>2, <3>3, <3>4 DEF Shaped
  <2> QED BY <2>2, <2>3, <2>4, <2>5, <2>6, <2>7, <2>8
<1> QED BY <1>2, <1>3 DEF Reusable

LEMMA InitTokens ==
    ASSUME Init, OwnCredential(setup)
    PROVE  TokenInv
<1>1. Types /\ Known BY InitKnown
<1>2. setup.shared \in BOOLEAN BY <1>1, SetupsAssumption DEF Types
<1>3. /\ row.job.rt = 1 /\ row.job.at = 1 /\ row.profile.at = 2
      /\ row.profile.rt = IF setup.shared THEN 1 ELSE 2
      /\ live = {row.job.rt, row.profile.rt}
  BY DEF Init
<1>4. \A c \in Caller : call[c].pc = "idle" BY IdleStruct DEF Init
<1>5. \A r \in Rows : row[r].rt \in Accepted BY <1>3 DEF Rows, Accepted
<1>6. ~ setup.single => Reusable BY <1>4, <1>5 DEF Reusable
<1>7. ASSUME setup.single PROVE SingleUse
  <2>1. row.profile.rt = 2 BY <1>2, <1>3, <1>7 DEF OwnCredential
  <2>2. \A r \in Rows : RowNamed(r) BY <1>3, <2>1 DEF Rows, RowNamed
  <2>3. \A r \in Rows : Usable(r) BY <1>5 DEF Usable
  <2>4. \A c \in Caller : CallNamed(c) /\ Successor(c) BY <1>4 DEF CallNamed, Successor
  <2> QED BY <2>2, <2>3, <2>4 DEF SingleUse
<1> QED BY <1>1, <1>6, <1>7 DEF TokenInv

LEMMA TokenStep ==
    ASSUME TokenInv, [Next]_vars
    PROVE  TokenInv'
<1>1. Types /\ Known BY DEF TokenInv
<1>2. Types' /\ Shaped BY <1>1, StepIsShaped
<1>3. Known' BY <1>1, <1>2, KnownStep
<1>4. setup' = setup
  BY <1>2 DEF Shaped, Loads, Leaves, Moves, Issues, Misses, Stores, Rests, Withdrawn, Dies
<1>5. setup.single => SingleUse' BY <1>1, <1>2, <1>3, SingleStep DEF TokenInv
<1>6. ~ setup.single => Reusable' BY <1>1, <1>2, ReuseStep DEF TokenInv
<1> QED BY <1>2, <1>3, <1>4, <1>5, <1>6 DEF TokenInv

(* A rotation is never lost by a race (StoredTokenIsUsable): in every world
   where a single-use credential belongs to one row, whoever refreshes and
   with whatever locks, crashes and sign-ins, the refresh token of a row is
   accepted, was revoked, lost by a fault or by a restore run that ended, or
   its successor is in the hands of a caller who will store it over exactly
   this pair.                                                               *)
THEOREM RotationIsSafe ==
    ASSUME \A s \in Setups : OwnCredential(s)
    PROVE  Spec => []StoredTokenIsUsable
<1>1. Init => TokenInv BY InitTokens, InitKnown DEF Types
<1>2. TokenInv /\ [Next]_vars => TokenInv' BY TokenStep
<1>3. TokenInv => StoredTokenIsUsable
  <2>1. SUFFICES ASSUME TokenInv, NEW r \in Rows
                 PROVE  \/ row[r].rt \in live \cup revoked \cup lost
                        \/ \E c \in Caller : /\ RowOf(c) = r /\ call[c].pc = "persist"
                                             /\ call[c].newRt \in live \cup revoked
                                             /\ call[c].at = row[r].at
    BY DEF StoredTokenIsUsable, Rows
  <2>2. setup.single \in BOOLEAN BY <2>1, SetupsAssumption DEF TokenInv, Types
  <2>3. CASE ~ setup.single BY <2>1, <2>3 DEF TokenInv, Reusable, Accepted
  <2>4. CASE setup.single
    <3>1. Usable(r) /\ \A c \in Caller : Successor(c) BY <2>1, <2>4 DEF TokenInv, SingleUse
    <3>2. CASE row[r].rt \in Accepted \cup lost BY <3>2 DEF Accepted
    <3>3. CASE Awaited(r)
      <4>1. PICK c \in Caller \ {"user"} : /\ RowOf(c) = r /\ call[c].pc = "persist"
                                           /\ call[c].at = row[r].at
        BY <3>3 DEF Awaited
      <4>2. call[c].newRt \in live \cup revoked BY <3>1, <4>1 DEF Successor, Accepted
      <4> QED BY <4>1, <4>2
    <3> QED BY <3>1, <3>2, <3>3 DEF Usable
  <2> QED BY <2>2, <2>3, <2>4
<1> QED BY <1>1, <1>2, <1>3, PTL DEF Spec

-----------------------------------------------------------------------------
(* The Redis lock. *)

Critical == {"read", "refresh", "persist", "adopt", "confirm", "fail"}

(* Between the lock and the write, whoever takes the lock holds it.        *)
LockHeld == \A d \in Locking : call[d].pc \in Critical => lock = d

LEMMA LockKept ==
    ASSUME LockHeld, NEW c \in Caller, SameBut(c), UNCHANGED lock,
           c \in Locking /\ call'[c].pc \in Critical => call[c].pc \in Critical
    PROVE  LockHeld'
<1>1. Locking \subseteq Caller BY DEF Caller
<1> QED BY <1>1 DEF LockHeld, SameBut, Same

LEMMA LockLeft ==
    ASSUME LockHeld, NEW c \in Caller, SameBut(c), call'[c] = Idle,
           lock' = IF lock = c THEN None ELSE lock
    PROVE  LockHeld'
<1>1. Locking \subseteq Caller BY DEF Caller
<1>2. call'[c].pc \notin Critical BY IdleStruct DEF Critical
<1> QED BY <1>1, <1>2 DEF LockHeld, SameBut, Same

LEMMA ReturnLeft ==
    ASSUME Types, LockHeld, NEW c \in Caller, Return(c)
    PROVE  LockHeld'
<1>1. call'[c] = Idle /\ SameBut(c) BY ReturnShape DEF Return
<1> QED BY <1>1, LockLeft DEF Return

LEMMA MovedOn ==
    ASSUME Types, LockHeld, NEW c \in Caller, NEW p \in Steps, UNCHANGED lock,
           call' = [call EXCEPT ![c].pc = p], p \in Critical => call[c].pc \in Critical
    PROVE  LockHeld'
<1>1. SameBut(c) /\ call'[c].pc = p BY GoToShape
<1> QED BY <1>1, LockKept

LEMMA LoadedFree ==
    ASSUME Types, LockHeld, NEW c \in Caller, NEW p \in {"local", "lock", "refresh", "persist"},
           UNCHANGED lock, call' = Load(call, c, p), c \in Locking => p \in {"local", "lock"}
    PROVE  LockHeld'
<1>1. /\ \A d \in Caller \ {c} : call'[d] = call[d]
      /\ call'[c].pc = p
  BY LoadShape
<1>2. SameBut(c) BY <1>1 DEF SameBut, Same
<1>3. c \in Locking => call'[c].pc \notin Critical BY <1>1 DEF Critical
<1> QED BY <1>2, <1>3, LockKept

(* Starting a refresh: those who take the lock start before it.            *)
LEMMA LockAtBegin ==
    ASSUME Types, LockHeld, \/ \E c \in Caller : Begin(c) \/ BeginForced(c)
                            \/ BeginAny
    PROVE  LockHeld'
<1>1. ASSUME NEW c \in Caller, NEW p \in {"local", "lock", "refresh"}, Starts(c, p),
             c \in Locking => p \in {"local", "lock"}
      PROVE  LockHeld'
  BY <1>1, LoadedFree DEF Starts
<1>2. ASSUME NEW c \in Caller, Begin(c) PROVE LockHeld'
  <2>1. \/ Starts(c, "local")
        \/ Starts(c, "refresh") /\ c \in Readers \cup Resolvers
    BY <1>2 DEF Begin, refreshOAuthTokenIfNeeded, refreshSyncOAuthTokenIfNeeded,
                ensureFreshRestoreToken, loadProfile, resolveFileProfile
  <2>2. c \in Readers \cup Resolvers => c \notin Locking
    BY DEF Readers, Resolvers, Locking, Waiting, Workers
  <2> QED BY <1>1, <2>1, <2>2
<1>3. ASSUME NEW c \in Caller, BeginForced(c) PROVE LockHeld'
  <2>1. Types' /\ Loads(c) BY <1>3, ForcedLoads
  <2> DEFINE f == Load(call, c, "local")
  <2>2. f[c].pc = "local" /\ f \in [Caller -> Struct] BY LoadShape
  <2>3. call' = [f EXCEPT ![c].force = TRUE] /\ UNCHANGED lock BY <1>3 DEF BeginForced
  <2> HIDE DEF f
  <2>4. call'[c].pc = "local" BY <2>2, <2>3 DEF Struct
  <2>5. call'[c].pc \notin Critical BY <2>4 DEF Critical
  <2> QED BY <2>1, <2>3, <2>5, LockKept DEF Loads
<1>4. ASSUME BeginAny PROVE LockHeld'
  <2>1. \/ Starts("indexer", "lock") \/ Starts("engine", "lock")
        \/ Starts("coordinator", "refresh") \/ Starts("browser", "refresh") \/ DaemonEntry
    BY <1>4 DEF BeginAny, ensureFreshSourceToken, ensureFreshToken, ensureFreshBackupToken,
                syncJobBrowseCredentials, RotateMigration, RotateSync, RotateRestore
  <2>2. {"indexer", "engine", "coordinator", "browser", "daemon"} \subseteq Caller
    BY DEF Caller, Locking, Waiting
  <2>3. "coordinator" \notin Locking /\ "browser" \notin Locking
    BY DEF Locking, Waiting, Workers
  <2>4. CASE DaemonEntry BY <2>2, <2>4, LoadedFree DEF DaemonEntry
  <2> QED BY <1>1, <2>1, <2>2, <2>3, <2>4
<1> QED BY <1>2, <1>3, <1>4

(* The steps of one call.                                                  *)
LEMMA LockInCall ==
    ASSUME Types, Known, LockHeld, NEW c \in Caller,
           Step(c) \/ RefreshFails(c) \/ PersistFails(c)
    PROVE  LockHeld'
<1>1. CASE RefreshFails(c) \/ PersistFails(c) \/ AdoptWinner(c)
  BY <1>1, ReturnLeft DEF RefreshFails, PersistFails, AdoptWinner
<1>2. CASE TakeLocalLock(c)
  <2>1. "lock" \in Steps /\ "lock" \notin Critical BY DEF Steps, Critical
  <2> QED BY <1>2, <2>1, MovedOn DEF TakeLocalLock
<1>3. CASE TryClaimOAuthLock(c)
  <2>1. CASE lock # None
    <3>1. Return(c) BY <1>3, <2>1 DEF TryClaimOAuthLock
    <3> QED BY <3>1, ReturnLeft
  <2>2. CASE lock = None
    <3>1. "read" \in Steps BY DEF Steps
    <3>2. lock' = c /\ call' = [call EXCEPT ![c].pc = "read"] BY <1>3, <2>2 DEF TryClaimOAuthLock, Return
    <3>3. SameBut(c) BY <3>1, <3>2, GoToShape
    <3>4. Locking \subseteq Caller /\ None \notin Locking
      BY DEF Caller, None, Locking, Waiting, Workers
    <3>5. \A d \in Locking : call[d].pc \notin Critical BY <2>2, <3>4 DEF LockHeld
    <3> QED BY <3>2, <3>3, <3>4, <3>5 DEF LockHeld, SameBut, Same
  <2> QED BY <2>1, <2>2
<1>4. CASE Rereads(c)
  <2>1. /\ call[c].pc = "read"
        /\ Return(c) \/ (call' = Load(call, c, "refresh") /\ UNCHANGED lock)
    BY <1>4 DEF Rereads, Is
  <2>2. CASE call' = Load(call, c, "refresh") /\ UNCHANGED lock
    <3>1. \A d \in Caller \ {c} : call'[d] = call[d] BY <2>2, LoadShape
    <3>2. SameBut(c) BY <3>1 DEF SameBut, Same
    <3>3. call[c].pc \in Critical BY <2>1 DEF Critical
    <3> QED BY <2>2, <3>2, <3>3, LockKept
  <2> QED BY <2>1, <2>2, ReturnLeft
<1>5. CASE RefreshToken(c)
  <2>1. Types' /\ (Issues(c) \/ Misses(c)) BY <1>5, RefreshStep
  <2>2. call[c].pc \in Critical BY <1>5 DEF RefreshToken, Is, Critical
  <2>3. Return(c) \/ UNCHANGED lock BY <1>5 DEF RefreshToken
  <2>4. SameBut(c) BY <2>1 DEF Issues, Misses
  <2> QED BY <2>2, <2>3, <2>4, LockKept, ReturnLeft
<1>6. CASE RefreshTokenInvalid(c) \/ OAuthTokenConflict(c) \/ RestoreRunEnded(c)
  <2>1. /\ call[c].pc \in Critical
        /\ Return(c) \/ GoTo(c, "confirm") \/ GoTo(c, "adopt")
    BY <1>6 DEF RefreshTokenInvalid, OAuthTokenConflict, RestoreRunEnded, Is, Critical
  <2>2. {"confirm", "adopt"} \subseteq Steps BY DEF Steps
  <2>3. CASE GoTo(c, "confirm") BY <2>1, <2>2, <2>3, MovedOn DEF GoTo
  <2>4. CASE GoTo(c, "adopt") BY <2>1, <2>2, <2>4, MovedOn DEF GoTo
  <2> QED BY <2>1, <2>3, <2>4, ReturnLeft
<1>7. CASE UpdateOAuthTokens(c)
  <2> DEFINE f == [call EXCEPT ![c] = Idle]
  <2>1. call' = Touched(RowOf(c), c, f) /\ lock' = IF lock = c THEN None ELSE lock
    BY <1>7 DEF UpdateOAuthTokens
  <2>2. Types' /\ Stores(c) BY <1>7, UpdateStep
  <2>3. f \in [Caller -> Struct] /\ f[c] = Idle BY IdleStruct DEF Types
  <2> HIDE DEF f
  <2>4. call'[c] = f[c] BY <2>1, <2>3, TouchedShape
  <2> QED BY <2>1, <2>2, <2>3, <2>4, LockLeft DEF Stores
<1> QED BY <1>1, <1>2, <1>3, <1>4, <1>5, <1>6, <1>7
        DEF Step, UpdateMigrationOAuthTokens, UpdateSyncJobOAuthTokens,
            UpdateBackupJobOAuthTokens, UpdateRestoreRunOAuthTokens,
            UpdateConnectionProfileOAuthTokens

(* Where the lock does not expire under its holder, it is held.            *)
LEMMA LockStep ==
    ASSUME Types, Known, LockHeld, ~ setup.slow, [Next]_vars
    PROVE  LockHeld'
<1>1. Locking \subseteq Caller BY DEF Caller
<1>2. "user" \in Caller /\ "user" \notin Locking /\ "daemon" \in Caller
  BY DEF Caller, Locking, Waiting, Workers
<1>3. CASE UNCHANGED vars BY <1>3 DEF vars, LockHeld
<1>4. CASE ConfirmInvalid
  <2>1. call["daemon"].pc \in Critical /\ (Return("daemon") \/ GoTo("daemon", "fail"))
    BY <1>4 DEF ConfirmInvalid, Is, Critical
  <2>2. "fail" \in Steps BY DEF Steps
  <2>3. CASE GoTo("daemon", "fail") BY <1>2, <2>1, <2>2, <2>3, MovedOn DEF GoTo
  <2> QED BY <1>2, <2>1, <2>3, ReturnLeft
<1>5. CASE MarkFailed BY <1>2, <1>5, ReturnLeft DEF MarkFailed
<1>6. CASE ReauthLoad
  <2>1. SameBut("user") BY <1>6, SignInStep DEF Issues
  <2> QED BY <1>2, <1>6, <2>1, LockKept DEF ReauthLoad
<1>7. CASE ReauthStore
  <2>1. SameBut("user") BY <1>7, SignInStored DEF Stores, Leaves
  <2> QED BY <1>2, <1>7, <2>1, LockKept DEF ReauthStore
<1>8. CASE ReauthStatus
  <2>1. SameBut("user") BY <1>8, SignInEnds DEF Leaves
  <2> QED BY <1>2, <1>8, <2>1, LockKept DEF ReauthStatus
<1>9. CASE LockExpires
  <2>1. UNCHANGED call /\ call[lock].pc = "idle" BY <1>9 DEF LockExpires
  <2>2. \A d \in Locking : call[d].pc \notin Critical BY <2>1 DEF LockHeld, Critical
  <2> QED BY <2>1, <2>2 DEF LockHeld
<1>10. CASE Revoke \/ JobGoesOn \/ JobStartsOrStops \/ \E r \in {"job", "profile"} : GrowOlder(r)
  <2>1. \A d \in Caller : Same(d)
    BY <1>10, RevokeStep, RestStep DEF Withdrawn, Rests, Rows
  <2>2. UNCHANGED lock BY <1>10 DEF Revoke, JobGoesOn, JobStartsOrStops, GrowOlder
  <2> QED BY <1>1, <2>1, <2>2 DEF LockHeld, Same
<1>11. ASSUME NEW P \in {WorkerProcess, Caller \ WorkerProcess}, Crash(P)
       PROVE  LockHeld'
  <2>1. /\ call' = [c \in Caller |-> IF c \in P THEN Idle ELSE call[c]]
        /\ UNCHANGED lock
    BY <1>11 DEF Crash
  <2>2. "idle" \notin Critical BY DEF Critical
  <2> QED BY <1>1, <2>1, <2>2, IdleStruct DEF LockHeld
<1> QED BY <1>3, <1>4, <1>5, <1>6, <1>7, <1>8, <1>9, <1>10, <1>11, LockAtBegin, LockInCall DEF Next

-----------------------------------------------------------------------------
(* The daemon's verdict. *)

(* The daemon has to do with a migration or a sync job whose credential others
   renew under the lock only.                                               *)
Guarded == setup.single /\ setup.kind # "restore" /\ "daemon" \in setup.callers

(* Structs of different rows hold different refresh tokens.                *)
Apart == \A c, d \in Caller :
    RowOf(c) # RowOf(d) /\ call[c].pc # "idle" /\ call[d].pc # "idle"
        => call[c].rt # call[d].rt

(* A token the daemon presents was not rotated by anybody since it was read. *)
Presented == call["daemon"].pc = "refresh" => call["daemon"].rt \in Accepted \cup lost

(* A daemon that found its token refused is not at a restore run, and the
   token was revoked or lost.                                               *)
Verdict == call["daemon"].pc \in {"confirm", "fail"} =>
    setup.kind # "restore" /\ call["daemon"].rt \in revoked \cup lost

(* What is revoked or lost stays so.                                       *)
LEMMA RefusalStays ==
    ASSUME Shaped
    PROVE  revoked \cup lost \subseteq revoked' \cup lost'
BY DEF Shaped, Loads, Leaves, Moves, Issues, Presents, SignsIn, Misses, Stores, Rests, Withdrawn, Dies

(* The two steps that bring the daemon to a verdict.                       *)
LEMMA DaemonDecides ==
    ASSUME Types, Known, [Next]_vars, call'["daemon"].pc \in {"confirm", "fail"}
    PROVE  Same("daemon") \/ RefreshTokenInvalid("daemon") \/ ConfirmInvalid
<1> DEFINE D == "daemon"
<1>1. D \in Caller /\ D # "user" BY DEF Caller, Locking
<1>2. ASSUME NEW c \in Caller, SameBut(c), c # D PROVE Same(D) BY <1>1, <1>2 DEF SameBut
<1>3. Idle.pc \notin {"confirm", "fail"} BY IdleStruct
<1>4. ASSUME NEW c \in Caller, Loads(c) \/ Leaves(c) \/ Issues(c) \/ Misses(c) \/ Stores(c)
      PROVE  Same(D)
  <2>1. SameBut(c) BY <1>4 DEF Loads, Leaves, Issues, Misses, Stores
  <2>2. c # D BY <1>3, <1>4 DEF Loads, Leaves, Issues, Misses, Stores
  <2> QED BY <1>2, <2>1, <2>2
<1>5. ASSUME NEW c \in Caller, Step(c) \/ RefreshFails(c) \/ PersistFails(c)
      PROVE  Same(D) \/ RefreshTokenInvalid(D)
  <2>1. \/ /\ \/ TakeLocalLock(c) \/ TryClaimOAuthLock(c) \/ Rereads(c)
              \/ RefreshTokenInvalid(c) \/ RefreshFails(c)
              \/ OAuthTokenConflict(c) \/ RestoreRunEnded(c) \/ AdoptWinner(c)
        \/ RefreshToken(c) \/ UpdateOAuthTokens(c) \/ PersistFails(c)
    BY <1>5 DEF Step, UpdateMigrationOAuthTokens, UpdateSyncJobOAuthTokens,
                UpdateBackupJobOAuthTokens, UpdateRestoreRunOAuthTokens,
                UpdateConnectionProfileOAuthTokens
  <2>2. CASE RefreshToken(c) \/ UpdateOAuthTokens(c) \/ PersistFails(c)
    BY <1>4, <2>2, RefreshStep, UpdateStep, DropStep
  <2>3. CASE /\ \/ TakeLocalLock(c) \/ TryClaimOAuthLock(c) \/ Rereads(c)
                \/ RefreshTokenInvalid(c) \/ RefreshFails(c)
                \/ OAuthTokenConflict(c) \/ RestoreRunEnded(c) \/ AdoptWinner(c)
    <3>1. Moves(c) \/ Leaves(c) \/ Loads(c) BY <2>3, WaitStep
    <3>2. CASE Moves(c)
      <4>1. CASE c # D BY <1>2, <3>2, <4>1 DEF Moves
      <4>2. CASE c = D
        <5>1. call'[c].pc \notin {"idle", "lock", "read"} BY <4>2
        <5>2. ASSUME Return(c) PROVE FALSE
          BY <1>3, <4>2, <5>2, ReturnShape DEF Return
        <5>3. ASSUME NEW p \in {"lock", "read"}, call' = [call EXCEPT ![c].pc = p] PROVE FALSE
          <6>1. p \in Steps BY DEF Steps
          <6> QED BY <5>1, <5>3, <6>1, GoToShape
        <5>4. ASSUME call' = Load(call, c, "refresh") PROVE FALSE
          BY <4>2, <5>4, LoadShape
        <5>5. D \notin Adopting BY DEF Adopting, Waiting, Workers, Readers
        <5>6. RefreshTokenInvalid(c)
          BY <2>3, <4>2, <5>2, <5>3, <5>4, <5>5
             DEF TakeLocalLock, TryClaimOAuthLock, Rereads, RefreshFails, OAuthTokenConflict,
                 RestoreRunEnded, AdoptWinner
        <5> QED BY <4>2, <5>6
      <4> QED BY <4>1, <4>2
    <3> QED BY <1>4, <3>1, <3>2
  <2> QED BY <2>1, <2>2, <2>3
<1>6. CASE UNCHANGED vars BY <1>6 DEF vars, Same
<1>7. ASSUME \/ \E c \in Caller : Begin(c) \/ BeginForced(c)
             \/ BeginAny
      PROVE  Same(D)
  BY <1>4, <1>7, BeginsLoad, ForcedLoads
<1>8. ASSUME MarkFailed PROVE Same(D)
  <2>1. Return(D) BY <1>8 DEF MarkFailed
  <2> QED BY <1>1, <1>3, <2>1, ReturnShape DEF Return
<1>9. ASSUME ReauthLoad \/ ReauthStore \/ ReauthStatus PROVE Same(D)
  <2>1. "user" \in Caller BY DEF Caller
  <2> QED BY <1>4, <1>9, <2>1, SignInStep, SignInStored, SignInEnds
<1>10. ASSUME Revoke \/ LockExpires \/ JobGoesOn \/ JobStartsOrStops
              \/ \E r \in {"job", "profile"} : GrowOlder(r)
       PROVE  Same(D)
  BY <1>1, <1>10, RevokeStep, RestStep DEF Withdrawn, Rests, Rows
<1>11. ASSUME NEW P \in {WorkerProcess, Caller \ WorkerProcess}, Crash(P)
       PROVE  Same(D)
  <2>1. P \in SUBSET Caller BY DEF WorkerProcess, Caller, Locking, Waiting
  <2>2. Dies(P) BY <1>11, <2>1, CrashStep
  <2> QED BY <1>1, <1>3, <2>2 DEF Dies
<1> QED BY <1>5, <1>6, <1>7, <1>8, <1>9, <1>10, <1>11 DEF Next

FailInv == /\ TokenInv /\ (~ setup.slow => LockHeld) /\ Verdict
           /\ setup.single => Apart
           /\ Guarded => Presented

(* A struct gets its refresh token from its own row.                       *)
LEMMA ApartStep ==
    ASSUME Types, Types', SingleUse, Apart, Shaped
    PROVE  Apart'
<1> DEFINE Kept(d) == call'[d].pc # "idle" =>
                        \/ call[d].pc # "idle" /\ call'[d].rt = call[d].rt
                        \/ call'[d].rt = row[RowOf(d)].rt
           Other(d) == call'[d].pc # "idle" => call[d].pc # "idle" /\ call'[d].rt = call[d].rt
<1>1. ASSUME NEW d \in Caller, Same(d) PROVE Other(d) BY <1>1 DEF Same
<1>2. ASSUME NEW d \in Caller, call'[d] = Idle PROVE Other(d) BY <1>2, IdleStruct
<1>3. RowOf("user") = "job" BY DEF RowOf, Resolvers
<1>4. ASSUME NEW c \in Caller,
             Loads(c) \/ Leaves(c) \/ Moves(c) \/ Issues(c) \/ Misses(c) \/ Stores(c)
      PROVE  Kept(c) /\ \A d \in Caller \ {c} : Other(d)
  <2>1. SameBut(c) BY <1>4 DEF Loads, Leaves, Moves, Issues, Misses, Stores
  <2>2. SUFFICES Kept(c) BY <1>1, <2>1 DEF SameBut
  <2>3. CASE Loads(c) BY <2>3 DEF Loads
  <2>4. CASE Leaves(c) \/ Misses(c)
    <3>1. call'[c] = Idle BY <2>4 DEF Leaves, Misses
    <3> QED BY <3>1, IdleStruct
  <2>5. CASE Moves(c) BY <2>5 DEF Moves
  <2>6. CASE Issues(c) BY <1>3, <2>6 DEF Issues, Presents, SignsIn
  <2>7. CASE Stores(c)
    <3>1. call'[c] = Idle \/ (call[c].pc # "idle" /\ call'[c].rt = call[c].rt) BY <2>7 DEF Stores
    <3> QED BY <3>1, IdleStruct
  <2> QED BY <1>4, <2>3, <2>4, <2>5, <2>6, <2>7
<1>5. \E c \in Caller : Kept(c) /\ \A d \in Caller \ {c} : Other(d)
  <2>1. CASE Rests \/ Withdrawn
    <3>1. \A d \in Caller : Other(d) BY <1>1, <2>1 DEF Rests, Withdrawn
    <3>2. "user" \in Caller BY DEF Caller
    <3> QED BY <3>1, <3>2
  <2>2. ASSUME NEW P \in SUBSET Caller, Dies(P)
        PROVE  \E c \in Caller : Kept(c) /\ \A d \in Caller \ {c} : Other(d)
    <3>1. \A d \in Caller : Other(d) BY <1>1, <1>2, <2>2 DEF Dies
    <3>2. "user" \in Caller BY DEF Caller
    <3> QED BY <3>1, <3>2
  <2> QED BY <1>4, <2>1, <2>2 DEF Shaped
<1>6. PICK c \in Caller : Kept(c) /\ \A d \in Caller \ {c} : Other(d) BY <1>5
<1>7. ASSUME NEW d \in Caller, RowOf(c) # RowOf(d), call'[c].pc # "idle", call'[d].pc # "idle"
      PROVE  call'[c].rt # call'[d].rt
  <2>1. call[d].pc # "idle" /\ call'[d].rt = call[d].rt BY <1>6, <1>7
  <2>2. CallNamed(d) BY DEF SingleUse
  <2>3. RowOf(c) \in Rows \ {RowOf(d)} BY <1>7, RowOfCaller
  <2>4. call[d].rt # row[RowOf(c)].rt BY <2>1, <2>2, <2>3 DEF CallNamed
  <2> QED BY <1>6, <1>7, <2>1, <2>4 DEF Apart
<1>8. ASSUME NEW d \in Caller, NEW e \in Caller, d # c, e # c, RowOf(d) # RowOf(e),
             call'[d].pc # "idle", call'[e].pc # "idle"
      PROVE  call'[d].rt # call'[e].rt
  BY <1>6, <1>8 DEF Apart
<1> QED BY <1>7, <1>8 DEF Apart

(* Nobody works on the row of the job but under the lock.                  *)
LEMMA OnlyOneWorks ==
    ASSUME Types, Known, LockHeld, Guarded, LockedWorld(setup), NEW c \in Caller \ {"daemon", "user"},
           RowOf(c) = "job", call[c].pc \in {"refresh", "persist"}, call["daemon"].pc = "refresh"
    PROVE  FALSE
<1>1. c \in setup.callers BY DEF Known, CallKnown
<1>2. setup.callers \subseteq Locking \cup Resolvers \cup {"user"} BY DEF LockedWorld, Guarded
<1>3. c \notin Resolvers BY DEF RowOf
<1>4. c \in Locking /\ "daemon" \in Locking BY <1>1, <1>2, <1>3 DEF Locking
<1>5. lock = c /\ lock = "daemon" BY <1>4 DEF LockHeld, Critical
<1> QED BY <1>5

(* The token the daemon loads under the lock is usable, and stays so until it
   is presented.                                                            *)
LEMMA PresentedStep ==
    ASSUME FailInv, TokenInv', LockHeld, LockHeld', Guarded, LockedWorld(setup), setup' = setup, Shaped
    PROVE  Presented'
<1> DEFINE D == "daemon"
<1>1. D \in Caller /\ D # "user" /\ RowOf(D) = "job"
  BY DEF Caller, Locking, RowOf, Resolvers
<1>2. /\ Types /\ Known /\ SingleUse /\ Apart /\ Presented /\ Guarded' /\ LockedWorld(setup')
      /\ Types' /\ Known' /\ SingleUse'
  BY DEF FailInv, TokenInv, Guarded
<1>3. SUFFICES ASSUME call'[D].pc = "refresh" PROVE call'[D].rt \in Accepted' \cup lost'
  BY DEF Presented
<1>4. CASE Same(D)
  <2>1. call[D].pc = "refresh" /\ call'[D].rt = call[D].rt /\ call[D].rt \in Accepted \cup lost
    BY <1>2, <1>3, <1>4 DEF Same, Presented
  <2>2. ASSUME NEW c \in Caller, Issues(c) \/ Misses(c), call[c].pc = "refresh"
        PROVE  call[c].rt # call[D].rt
    <3>1. c # D BY <1>3, <1>4, <2>2, IdleStruct DEF Issues, Misses
    <3>2. c # "user" BY <1>2, <2>2 DEF Known, CallKnown
    <3>3. CASE RowOf(c) = "job" BY <1>2, <2>1, <2>2, <3>1, <3>2, <3>3, OnlyOneWorks
    <3>4. CASE RowOf(c) # "job" BY <1>1, <1>2, <2>1, <2>2, <3>4 DEF Apart
    <3> QED BY <3>3, <3>4
  <2>3. ASSUME NEW c \in Caller, Issues(c) \/ Misses(c)
        PROVE  call[D].rt \in Accepted' \cup lost'
    <3>1. CASE c = "user" /\ Issues(c) /\ SignsIn(c)
      BY <2>1, <3>1 DEF Issues, SignsIn, Accepted
    <3>2. CASE Misses(c) \/ (Issues(c) /\ Presents(c))
      <4>1. /\ call[c].pc = "refresh" /\ live' = (live \ {call[c].rt}) \cup {next}
            /\ UNCHANGED revoked /\ lost \subseteq lost'
        BY <3>2 DEF Guarded, Misses, Issues, Presents
      <4>2. call[c].rt # call[D].rt BY <2>2, <3>2, <4>1
      <4> QED BY <2>1, <4>1, <4>2 DEF Accepted
    <3> QED BY <2>3, <3>1, <3>2 DEF Issues, SignsIn
  <2>4. ASSUME NEW c \in Caller, Loads(c) \/ Leaves(c) \/ Moves(c) \/ Stores(c)
        PROVE  call[D].rt \in Accepted' \cup lost'
    BY <2>1, <2>4 DEF Loads, Leaves, Moves, Stores, Accepted
  <2>5. ASSUME Rests \/ Withdrawn \/ \E P \in SUBSET Caller : Dies(P)
        PROVE  call[D].rt \in Accepted' \cup lost'
    BY <2>1, <2>5 DEF Rests, Withdrawn, Dies, Accepted
  <2> QED BY <2>1, <2>3, <2>4, <2>5 DEF Shaped
<1>5. CASE Loads(D)
  <2>1. call'[D].rt = row'["job"].rt
    BY <1>1, <1>5 DEF Loads, RowsSame, Rows
  <2>2. Usable("job")' BY <1>2 DEF SingleUse, Rows
  <2>3. ASSUME Awaited("job")' PROVE FALSE
    <3>1. PICK c \in Caller \ {"user"} : RowOf(c) = "job" /\ call'[c].pc = "persist"
      BY <2>3 DEF Awaited
    <3>2. c # D /\ c \notin Resolvers BY <1>3, <3>1 DEF RowOf
    <3>3. c \in setup.callers BY <1>2, <3>1 DEF Known, CallKnown
    <3>4. c \in Locking /\ D \in Locking BY <3>1, <3>2, <3>3 DEF LockedWorld, Guarded, Locking
    <3>5. lock' = c /\ lock' = D BY <1>3, <3>1, <3>4 DEF LockHeld, Critical
    <3> QED BY <3>2, <3>5
  <2> QED BY <2>1, <2>2, <2>3 DEF Usable
<1>6. Same(D) \/ Loads(D)
  <2>1. ASSUME NEW c \in Caller,
               Leaves(c) \/ Moves(c) \/ Issues(c) \/ Misses(c) \/ Stores(c)
        PROVE  Same(D)
    <3>1. SameBut(c) BY <2>1 DEF Leaves, Moves, Issues, Misses, Stores
    <3>2. c # D BY <1>3, <2>1, IdleStruct DEF Leaves, Moves, Issues, Misses, Stores
    <3> QED BY <1>1, <3>1, <3>2 DEF SameBut
  <2>2. ASSUME NEW c \in Caller, Loads(c) PROVE Same(D) \/ Loads(D)
    BY <1>1, <2>2 DEF Loads, SameBut
  <2>3. ASSUME Rests \/ Withdrawn PROVE Same(D) BY <1>1, <2>3 DEF Rests, Withdrawn
  <2>4. ASSUME NEW P \in SUBSET Caller, Dies(P) PROVE Same(D)
    BY <1>1, <1>3, <2>4, IdleStruct DEF Dies
  <2> QED BY <2>1, <2>2, <2>3, <2>4 DEF Shaped
<1> QED BY <1>4, <1>5, <1>6

LEMMA VerdictStep ==
    ASSUME FailInv, [Next]_vars
    PROVE  Verdict'
<1> DEFINE D == "daemon"
<1>1. D \in Caller /\ D \in Locking /\ D # "user" BY DEF Caller, Locking
<1>2. Types /\ Known /\ Verdict BY DEF FailInv, TokenInv
<1>3. Types' /\ Shaped BY <1>2, StepIsShaped
<1>4. setup' = setup
  BY <1>3 DEF Shaped, Loads, Leaves, Moves, Issues, Misses, Stores, Rests, Withdrawn, Dies
<1>5. revoked \cup lost \subseteq revoked' \cup lost' BY <1>3, RefusalStays
<1>6. CASE call'[D].pc \notin {"confirm", "fail"} BY <1>6 DEF Verdict
<1>7. CASE call'[D].pc \in {"confirm", "fail"} /\ Same(D)
  BY <1>2, <1>4, <1>5, <1>7 DEF Verdict, Same
<1>8. CASE RefreshTokenInvalid(D) /\ call'[D].pc \in {"confirm", "fail"}
  <2>1. "confirm" \in Steps BY DEF Steps
  <2>2. /\ call[D].pc = "refresh" /\ D \in setup.callers
        /\ call[D].rt \notin live /\ UNCHANGED <<revoked, lost>>
    BY <1>8 DEF RefreshTokenInvalid, Is, cloud
  <2>3. GoTo(D, "confirm") /\ setup.kind # "restore"
    <3>1. CASE Return(D) BY <1>1, <1>2, <1>8, <3>1, ReturnShape, IdleStruct DEF Return
    <3> QED BY <1>8, <3>1 DEF RefreshTokenInvalid
  <2>4. call'[D].rt = call[D].rt BY <1>1, <1>2, <2>1, <2>3, GoToShape DEF GoTo
  <2>5. setup.single \in BOOLEAN BY <1>2, SetupsAssumption DEF Types
  <2>6. call[D].rt \in Accepted \cup lost
    <3>1. CASE ~ setup.single BY <1>1, <2>2, <3>1 DEF FailInv, TokenInv, Reusable
    <3>2. CASE setup.single BY <2>2, <2>3, <3>2 DEF FailInv, Guarded, Presented
    <3> QED BY <2>5, <3>1, <3>2
  <2> QED BY <1>4, <2>2, <2>3, <2>4, <2>6 DEF Verdict, Accepted
<1>9. CASE ConfirmInvalid /\ call'[D].pc \in {"confirm", "fail"}
  <2>1. "fail" \in Steps BY DEF Steps
  <2>2. call[D].pc = "confirm" /\ UNCHANGED <<revoked, lost>>
    BY <1>9 DEF ConfirmInvalid, Is, cloud
  <2>3. GoTo(D, "fail")
    <3>1. CASE Return(D) BY <1>1, <1>2, <1>9, <3>1, ReturnShape, IdleStruct DEF Return
    <3> QED BY <1>9, <3>1 DEF ConfirmInvalid
  <2>4. call'[D].rt = call[D].rt BY <1>1, <1>2, <2>1, <2>3, GoToShape DEF GoTo
  <2> QED BY <1>2, <1>4, <2>2, <2>4 DEF Verdict
<1> QED BY <1>2, <1>6, <1>7, <1>8, <1>9, DaemonDecides

(* Only MarkFailed writes FAILED.                                          *)
LEMMA WhoFails ==
    ASSUME [Next]_vars, status' = "FAILED", status # "FAILED"
    PROVE  MarkFailed
<1>1. status' # status OBVIOUS
<1>2. ASSUME UNCHANGED status PROVE FALSE BY <1>1, <1>2
<1>3. CASE UNCHANGED vars BY <1>2, <1>3 DEF vars, job
<1>4. ASSUME NEW c \in Caller,
             Begin(c) \/ BeginForced(c) \/ Step(c) \/ RefreshFails(c) \/ PersistFails(c)
      PROVE  FALSE
  <2>1. CASE Begin(c) \/ BeginForced(c)
    BY <1>2, <2>1 DEF Begin, BeginForced, refreshOAuthTokenIfNeeded, refreshSyncOAuthTokenIfNeeded,
                ensureFreshRestoreToken, loadProfile, resolveFileProfile, Starts, job
  <2>2. CASE Step(c)
    BY <1>2, <2>2 DEF Step, TakeLocalLock, TryClaimOAuthLock, Rereads, RefreshToken,
            RefreshTokenInvalid, UpdateMigrationOAuthTokens, UpdateSyncJobOAuthTokens,
            UpdateBackupJobOAuthTokens, UpdateRestoreRunOAuthTokens,
            UpdateConnectionProfileOAuthTokens, UpdateOAuthTokens, OAuthTokenConflict, RestoreRunEnded,
            AdoptWinner, job
  <2>3. CASE RefreshFails(c) \/ PersistFails(c)
    BY <1>2, <2>3 DEF RefreshFails, PersistFails, job
  <2> QED BY <1>4, <2>1, <2>2, <2>3
<1>5. ASSUME BeginAny PROVE FALSE
  BY <1>2, <1>5 DEF BeginAny, ensureFreshSourceToken, ensureFreshToken, ensureFreshBackupToken,
              syncJobBrowseCredentials, RotateMigration, RotateSync, RotateRestore, Starts,
              DaemonEntry, job
<1>6. ASSUME ConfirmInvalid \/ ReauthLoad \/ ReauthStore \/ LockExpires \/ Revoke \/ JobGoesOn
      PROVE  FALSE
  BY <1>2, <1>6 DEF ConfirmInvalid, ReauthLoad, ReauthStore, LockExpires, Revoke, JobGoesOn, job
<1>7. ASSUME ReauthStatus \/ JobStartsOrStops PROVE FALSE
  BY <1>7 DEF ReauthStatus, JobStartsOrStops
<1>8. ASSUME NEW P \in {WorkerProcess, Caller \ WorkerProcess}, Crash(P) PROVE FALSE
  BY <1>2, <1>8 DEF Crash, job
<1>9. ASSUME NEW r \in {"job", "profile"}, GrowOlder(r) PROVE FALSE
  BY <1>2, <1>9 DEF GrowOlder
<1> QED BY <1>3, <1>4, <1>5, <1>6, <1>7, <1>8, <1>9 DEF Next

(* The daemon fails a job only for a token that was revoked or lost by a
   fault, never because somebody else rotated it first
   (FailedOnlyIfRevoked), where single-use credentials belong to one row and
   all who share them with the daemon hold the lock while they refresh.  The
   daemon's second look at the row is not needed for it, and may fail.      *)
THEOREM FailureMeansRevoked ==
    ASSUME \A s \in Setups : OwnCredential(s) /\ LockedWorld(s)
    PROVE  Spec => FailedOnlyIfRevoked
<1>1. Init => FailInv
  <2>1. SUFFICES ASSUME Init PROVE FailInv OBVIOUS
  <2>2. TokenInv BY <2>1, InitTokens, InitKnown DEF Types
  <2>3. \A c \in Caller : call[c].pc = "idle" BY <2>1, IdleStruct DEF Init
  <2>4. Locking \subseteq Caller /\ "daemon" \in Caller BY DEF Caller, Locking
  <2>5. LockHeld BY <2>3, <2>4 DEF LockHeld, Critical
  <2>6. Verdict /\ Apart /\ Presented BY <2>3, <2>4 DEF Verdict, Apart, Presented
  <2> QED BY <2>2, <2>5, <2>6 DEF FailInv
<1>2. ASSUME FailInv, [Next]_vars PROVE FailInv'
  <2>1. setup \in Setups /\ Types /\ Known BY <1>2 DEF FailInv, TokenInv, Types
  <2>2. TokenInv' BY <1>2, TokenStep DEF FailInv
  <2>3. Verdict' BY <1>2, <2>1, VerdictStep
  <2>4. Shaped BY <1>2, <2>1, StepIsShaped
  <2>5. setup' = setup
    BY <2>4 DEF Shaped, Loads, Leaves, Moves, Issues, Misses, Stores, Rests, Withdrawn, Dies
  <2>6. ~ setup.slow => LockHeld' BY <1>2, <2>1, LockStep DEF FailInv
  <2>7. ASSUME setup.single PROVE Apart'
    <3>1. Types' /\ SingleUse /\ Apart BY <1>2, <2>2, <2>7 DEF FailInv, TokenInv
    <3> QED BY <2>1, <2>4, <3>1, ApartStep
  <2>8. ASSUME Guarded PROVE Presented'
    <3>1. LockedWorld(setup) BY <2>1
    <3>2. ~ setup.slow BY <2>8, <3>1 DEF LockedWorld, Guarded
    <3>3. LockHeld /\ LockHeld' BY <1>2, <2>6, <3>2 DEF FailInv
    <3> QED BY <1>2, <2>2, <2>4, <2>5, <2>8, <3>1, <3>3, PresentedStep
  <2> QED BY <2>2, <2>3, <2>5, <2>6, <2>7, <2>8 DEF FailInv, Guarded
<1>3. ASSUME FailInv, [Next]_vars, status' = "FAILED", status # "FAILED"
      PROVE  call["daemon"].rt \in revoked \cup lost
  <2>1. MarkFailed BY <1>3, WhoFails
  <2>2. call["daemon"].pc = "fail" BY <2>1 DEF MarkFailed, Is
  <2> QED BY <1>3, <2>2 DEF FailInv, Verdict
<1>4. FailInv /\ [Next]_vars =>
        [status' = "FAILED" /\ status # "FAILED" => call["daemon"].rt \in revoked \cup lost]_vars
  BY <1>3
<1> QED BY <1>1, <1>2, <1>4, PTL DEF Spec, FailedOnlyIfRevoked

=============================================================================

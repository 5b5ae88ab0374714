------------------------ MODULE RestoreSystemProofs -------------------------
(***************************************************************************)
(* Proofs about the rows of a restore job, for any snapshot, any number of *)
(* workers, runs and previews, and any bounds.                             *)
(*                                                                         *)
(* Every step does one of few things to a run: it leaves the row alone     *)
(* while items move, it moves the row along its life cycle, or it ends it  *)
(* (RunStep).  The invariant (RunInv) says what a run in each state holds; *)
(* that it is kept follows from RunStep alone.                             *)
(*                                                                         *)
(* The second part is about where items are restored (PlacesInv): a worker *)
(* holds its item and has reserved its path, so that two workers and what  *)
(* is already restored have different paths, and what is above an item     *)
(* that was started is settled, so that no rename moves it any more.       *)
(* There every step is calm, a write, a completion, a claim or the taking  *)
(* of a path (CalmStep and the four after it).                             *)
(*                                                                         *)
(* The third is about the files of the user that are in the way.  With     *)
(* SKIP and RENAME a worker writes only where it saw nothing (SparesInv).  *)
(* With OVERWRITE it moves a file aside before it puts the restored one in *)
(* its place (ReplacesInv), and no other worker is at that path.           *)
(***************************************************************************)
EXTENDS RestoreSystem, WellFoundedInduction, TLAPS

ItemStates == {"NONE", "PENDING", "RUNNING", "COMPLETED", "WARNING", "SKIPPED", "FAILED", "CANCELLED"}

(* Types, without the bounds on the counters.                              *)
ItemRow == [st : ItemStates, epoch : Nat, fresh : BOOLEAN, tries : Nat, root : Nat, sfx : Nat]
PreviewRow == [st : {"NONE", "FAILED", "CONSUMED", "EXPIRED", "CANCELLED"} \cup OpenPreview,
               gen : Nat, fresh : BOOLEAN, retry : BOOLEAN, creds : BOOLEAN]
WorkerSteps == {"idle", "preview", "previewReady", "previewFailed", "plan", "failPlan"} \cup ItemSteps
WorkerRow == [pc : WorkerSteps, run : Nat, item : Items \cup {NoItem}, epoch : Nat, root : Nat, sfx : Nat,
              over : BOOLEAN, prev : Nat, gen : Nat]

Rows ==
    /\ previews \in [PreviewIds -> PreviewRow]
    /\ runs \in [RunIds -> Run]
    /\ items \in [RunIds -> [Items -> ItemRow]]
    /\ pins \subseteq RunIds
    /\ notices \in [RunIds -> Nat]
    /\ worker \in [Workers -> WorkerRow]

(* A worker at a step has the row the step is about.                       *)
Busy(w) ==
    /\ worker[w].pc \in ItemSteps => worker[w].run \in RunIds /\ worker[w].item \in Items
    /\ worker[w].pc \in {"plan", "failPlan"} => worker[w].run \in RunIds
    /\ worker[w].pc \in {"preview", "previewReady", "previewFailed"} => worker[w].prev \in PreviewIds

Types == Rows /\ \A w \in Workers : Busy(w)

-----------------------------------------------------------------------------
(* What a step may do to a run and to a preview. *)

ItemMoves(r, i) ==
    LET old == items[r][i].st
        new == items'[r][i].st
    IN  \/ new = old
        \/ old = "PENDING" /\ new \in {"SKIPPED", "CANCELLED"}
        \/ old = "PENDING" /\ new = "RUNNING" /\ runs[r].st = "RUNNING"
        \/ old = "RUNNING" /\ new \in {"COMPLETED", "FAILED", "SKIPPED", "PENDING", "CANCELLED"}
        \/ old = "COMPLETED" /\ new = "WARNING"

ItemsMove(r) == \A i \in Items : ItemMoves(r, i)
ItemsSame(r) == \A i \in Items : items'[r][i].st = items[r][i].st

PinSame(r) == r \in pins' <=> r \in pins
NoticeSame(r) == notices'[r] = notices[r]

(* The row stays; items may move.                                          *)
Works(r) == runs'[r] = runs[r] /\ PinSame(r) /\ NoticeSame(r) /\ ItemsMove(r)

(* An open run gets a session or loses its lease.                          *)
Touches(r) ==
    /\ runs[r].st \in Open /\ runs'[r].st = runs[r].st
    /\ PinSame(r) /\ NoticeSame(r) /\ ItemsSame(r)

(* A run is created, claimed for planning or queued again.                 *)
Queues(r) ==
    /\ runs[r].st \in {"NONE", "QUEUED", "PLANNING"} /\ runs'[r].st \in {"QUEUED", "PLANNING"}
    /\ PinSame(r) /\ NoticeSame(r) /\ ItemsSame(r)

Plans(r) ==
    /\ runs[r].st = "PLANNING" /\ runs'[r].st = "RUNNING"
    /\ NoticeSame(r) /\ \A i \in Items : items'[r][i].st \in {"PENDING", "SKIPPED"}

FailsToPlan(r) ==
    /\ runs[r].st = "PLANNING" /\ runs'[r].st = "FAILED" /\ ~runs'[r].creds
    /\ PinSame(r) /\ ItemsSame(r) /\ notices'[r] = notices[r] + 1

Finishes(r) ==
    /\ Drained(r) /\ runs'[r].st = OutcomeOf(r) /\ ~runs'[r].creds
    /\ r \notin pins' /\ ItemsSame(r) /\ notices'[r] = notices[r] + 1

Cancels(r) ==
    /\ runs[r].st \in Open /\ runs'[r].st = "CANCELLED" /\ ~runs'[r].creds
    /\ r \notin pins' /\ NoticeSame(r) /\ ItemsMove(r) /\ InState(r, {"RUNNING"})' = {}

StartsCancelling(r) ==
    /\ runs[r].st \in {"QUEUED", "PLANNING", "RUNNING"} /\ runs'[r].st = "CANCELLING"
    /\ NoticeSame(r) /\ ItemsMove(r)

Goes(r) ==
    /\ runs'[r].st = "GONE" /\ runs[r].st \notin Open \cup {"NONE"}
    /\ \A i \in Items : items'[r][i].st = "NONE"

RunStep(r) ==
    \/ Works(r) \/ Touches(r) \/ Queues(r) \/ Plans(r) \/ FailsToPlan(r)
    \/ Finishes(r) \/ Cancels(r) \/ StartsCancelling(r) \/ Goes(r)

(* Credentials appear only in previews that are open.                      *)
PreviewStep(p) ==
    \/ previews'[p].st \in OpenPreview
    \/ ~previews'[p].creds
    \/ previews'[p].st = previews[p].st /\ previews'[p].creds = previews[p].creds

Steps == (\A r \in RunIds : RunStep(r)) /\ (\A p \in PreviewIds : PreviewStep(p))

-----------------------------------------------------------------------------
(* The invariant. *)

RunInv(r) ==
    /\ runs[r].st \in {"NONE", "QUEUED", "PLANNING"}
         => r \notin pins /\ \A i \in Items : items[r][i].st = "NONE"
    /\ runs[r].st = "GONE" => \A i \in Items : items[r][i].st = "NONE"
    /\ runs[r].st = "RUNNING" => \A i \in Items : items[r][i].st # "NONE"
    /\ runs[r].st \in Closed => ~runs[r].creds /\ r \notin pins /\ \A i \in Items : items[r][i].st # "RUNNING"
    /\ runs[r].st \in {"COMPLETED", "PARTIAL", "FAILED"} => \A i \in Items : items[r][i].st # "PENDING"
    /\ runs[r].st = "COMPLETED" => \A i \in Items : items[r][i].st \in Done
    /\ runs[r].st = "PARTIAL" => /\ \E i \in Items : items[r][i].st \in Done
                                 /\ \E i \in Items : items[r][i].st \in Imperfect
    /\ runs[r].st = "FAILED" => \A i \in Items : items[r][i].st \notin Done
    /\ runs[r].st # "GONE" => notices[r] = (IF runs[r].st \in {"COMPLETED", "PARTIAL", "FAILED"} THEN 1 ELSE 0)

PreviewInv(p) == previews[p].st \notin OpenPreview => ~previews[p].creds

Inv == Types /\ (\A r \in RunIds : RunInv(r)) /\ (\A p \in PreviewIds : PreviewInv(p))

(* What a run holds is kept by everything a step may do to it.             *)
LEMMA RunKept ==
    ASSUME Rows, Rows', NEW r \in RunIds, RunInv(r), RunStep(r)
    PROVE  RunInv(r)'
<1>1. runs[r] \in Run /\ runs'[r] \in Run /\ notices[r] \in Nat BY DEF Rows
<1>2. CASE Works(r)
  <2>1. /\ runs'[r] = runs[r] /\ notices'[r] = notices[r] /\ (r \in pins' <=> r \in pins)
        /\ \A i \in Items : ItemMoves(r, i)
    BY <1>2 DEF Works, PinSame, NoticeSame, ItemsMove
  <2>2. runs[r].st = "PARTIAL" => \E i \in Items : items'[r][i].st \in Done
    BY <2>1 DEF RunInv, ItemMoves, Done, Closed
  <2>3. runs[r].st = "PARTIAL" => \E i \in Items : items'[r][i].st \in Imperfect
    BY <2>1 DEF RunInv, ItemMoves, Imperfect, Closed
  <2>4. runs[r].st = "COMPLETED" => \A i \in Items : items'[r][i].st \in Done
    BY <2>1 DEF RunInv, ItemMoves, Done, Closed
  <2>5. runs[r].st = "FAILED" => \A i \in Items : items'[r][i].st \notin Done
    BY <2>1 DEF RunInv, ItemMoves, Done, Closed
  <2>6. runs[r].st \in Closed => \A i \in Items : items'[r][i].st # "RUNNING"
    BY <2>1 DEF RunInv, ItemMoves, Closed
  <2>7. runs[r].st \in {"COMPLETED", "PARTIAL", "FAILED"} => \A i \in Items : items'[r][i].st # "PENDING"
    BY <2>1 DEF RunInv, ItemMoves, Closed
  <2>8. runs[r].st \in {"NONE", "QUEUED", "PLANNING"} => \A i \in Items : items'[r][i].st = "NONE"
    BY <2>1 DEF RunInv, ItemMoves
  <2>9. runs[r].st = "RUNNING" => \A i \in Items : items'[r][i].st # "NONE"
    BY <2>1 DEF RunInv, ItemMoves
  <2>10. runs[r].st = "GONE" => \A i \in Items : items'[r][i].st = "NONE"
    BY <2>1 DEF RunInv, ItemMoves
  <2> QED BY <2>1, <2>2, <2>3, <2>4, <2>5, <2>6, <2>7, <2>8, <2>9, <2>10 DEF RunInv
<1>3. CASE Touches(r)
  BY <1>3 DEF Touches, RunInv, PinSame, NoticeSame, ItemsSame, Open, Closed
<1>4. CASE Queues(r)
  BY <1>4 DEF Queues, RunInv, PinSame, NoticeSame, ItemsSame, Closed
<1>5. CASE Plans(r)
  BY <1>5 DEF Plans, RunInv, NoticeSame, Closed
<1>6. CASE FailsToPlan(r)
  BY <1>1, <1>6 DEF FailsToPlan, RunInv, PinSame, ItemsSame, Closed, Done
<1>7. CASE Finishes(r)
  <2>1. /\ runs[r].st = "RUNNING"
        /\ \A i \in Items : items[r][i].st \notin {"PENDING", "RUNNING", "NONE"}
        /\ \A i \in Items : items'[r][i].st = items[r][i].st
        /\ ~runs'[r].creds /\ r \notin pins' /\ notices'[r] = notices[r] + 1
        /\ runs'[r].st = OutcomeOf(r) /\ notices[r] = 0
    BY <1>7 DEF Finishes, Drained, InState, RunInv, ItemsSame
  <2>2. \A i \in Items : items[r][i].st \in ItemStates BY DEF Rows, ItemRow
  <2>3. \A i \in Items : items[r][i].st \in Done \cup Imperfect
    BY <2>1, <2>2 DEF ItemStates, Done, Imperfect
  <2>4. CASE InState(r, Imperfect) = {} /\ InState(r, Done) # {}
    <3>1. runs'[r].st = "COMPLETED" BY <2>1, <2>4 DEF OutcomeOf
    <3>2. \A i \in Items : items[r][i].st \in Done BY <2>3, <2>4 DEF InState
    <3> QED BY <2>1, <3>1, <3>2 DEF RunInv, Closed
  <2>5. CASE InState(r, Done) # {} /\ InState(r, Imperfect) # {}
    <3>1. runs'[r].st = "PARTIAL" BY <2>1, <2>5 DEF OutcomeOf
    <3>2. /\ \E i \in Items : items'[r][i].st \in Done
          /\ \E i \in Items : items'[r][i].st \in Imperfect
      BY <2>1, <2>5 DEF InState
    <3> QED BY <2>1, <3>1, <3>2 DEF RunInv, Closed
  <2>6. CASE InState(r, Done) = {}
    <3>1. runs'[r].st = "FAILED" BY <2>1, <2>6 DEF OutcomeOf
    <3>2. \A i \in Items : items'[r][i].st \notin Done BY <2>1, <2>6 DEF InState
    <3> QED BY <2>1, <3>1, <3>2 DEF RunInv, Closed
  <2> QED BY <2>4, <2>5, <2>6
<1>8. CASE Cancels(r)
  <2>1. \A i \in Items : items'[r][i].st # "RUNNING" BY <1>8 DEF Cancels, InState
  <2>2. notices'[r] = 0 BY <1>8 DEF Cancels, RunInv, NoticeSame, Open
  <2> QED BY <1>8, <2>1, <2>2 DEF Cancels, RunInv, Closed
<1>9. CASE StartsCancelling(r)
  <2>1. notices'[r] = 0 BY <1>9 DEF StartsCancelling, RunInv, NoticeSame
  <2> QED BY <1>9, <2>1 DEF StartsCancelling, RunInv, Closed
<1>10. CASE Goes(r)
  BY <1>10 DEF Goes, RunInv, Closed
<1> QED BY <1>2, <1>3, <1>4, <1>5, <1>6, <1>7, <1>8, <1>9, <1>10 DEF RunStep

LEMMA PreviewKept ==
    ASSUME NEW p \in PreviewIds, PreviewInv(p), PreviewStep(p)
    PROVE  PreviewInv(p)'
BY DEF PreviewInv, PreviewStep

(* A set of natural numbers that is not empty has a least member.          *)
LEMMA LeastMember ==
    ASSUME NEW S \in SUBSET Nat, S # {}
    PROVE  Least(S) \in S
<1> DEFINE R == OpToRel(<, Nat)
<1>1. IsWellFoundedOn(R, Nat) BY NatLessThanWellFounded
<1>2. \E s \in S : \A t \in S : ~ (<<t, s>> \in R) BY <1>1, WFMin
<1>3. PICK s \in S : \A t \in S : ~ (<<t, s>> \in R) BY <1>2
<1>4. \A t \in S : t < s => <<t, s>> \in R BY Zenon DEF OpToRel
<1>5. \A t \in S : ~ (t < s) BY <1>3, <1>4
<1> HIDE DEF R
<1>6. \A t \in S : s <= t BY <1>5
<1> QED BY <1>6 DEF Least

-----------------------------------------------------------------------------
(* Frames: what a step leaves alone. *)

ItemsKind == items' \in [RunIds -> [Items -> ItemRow]]
WorkerKind == worker' \in [Workers -> WorkerRow] /\ \A w \in Workers : Busy(w)'

LEMMA SameItems ==
    ASSUME UNCHANGED items, NEW r \in RunIds
    PROVE  ItemsSame(r) /\ ItemsMove(r)
BY DEF ItemsSame, ItemsMove, ItemMoves

LEMMA SamePreviews ==
    ASSUME UNCHANGED previews
    PROVE  \A p \in PreviewIds : PreviewStep(p)
BY DEF PreviewStep

LEMMA SameWorkers ==
    ASSUME Types, UNCHANGED worker
    PROVE  WorkerKind
BY DEF Types, Rows, WorkerKind, Busy

(* Only items move.                                                        *)
LEMMA ItemsStep ==
    ASSUME Types, ItemsKind, WorkerKind, UNCHANGED <<previews, runs, pins, notices>>,
           \A r \in RunIds : ItemsMove(r)
    PROVE  Types' /\ Steps
<1>1. Types' BY DEF Types, Rows, ItemsKind, WorkerKind
<1>2. \A r \in RunIds : Works(r) BY DEF Works, PinSame, NoticeSame
<1>3. \A p \in PreviewIds : PreviewStep(p) BY SamePreviews
<1> QED BY <1>1, <1>2, <1>3 DEF Steps, RunStep

(* Nothing of the rows changes.                                            *)
LEMMA QuietStep ==
    ASSUME Types, WorkerKind, UNCHANGED <<previews, runs, items, pins, notices>>
    PROVE  Types' /\ Steps
<1>1. ItemsKind BY DEF Types, Rows, ItemsKind
<1>2. \A r \in RunIds : ItemsMove(r) BY SameItems
<1> QED BY <1>1, <1>2, ItemsStep

(* One item gets a new row.                                                *)
LEMMA ItemMoved ==
    ASSUME Types, NEW r \in RunIds, NEW i \in Items, NEW n \in ItemRow,
           items' = [items EXCEPT ![r][i] = n], items'[r][i] = n => ItemMoves(r, i)
    PROVE  ItemsKind /\ \A q \in RunIds : ItemsMove(q)
<1> DEFINE f == [items[r] EXCEPT ![i] = n]
<1>a. items[r] \in [Items -> ItemRow] BY DEF Types, Rows
<1>b. f \in [Items -> ItemRow] /\ f[i] = n /\ \A j \in Items \ {i} : f[j] = items[r][j] BY <1>a
<1>c. items' = [items EXCEPT ![r] = f] OBVIOUS
<1> HIDE DEF f
<1>d. ItemsKind /\ items'[r] = f /\ \A q \in RunIds \ {r} : items'[q] = items[q]
  BY <1>b, <1>c DEF Types, Rows, ItemsKind
<1>1. /\ ItemsKind /\ items'[r][i] = n
      /\ \A q \in RunIds, j \in Items : q # r \/ j # i => items'[q][j] = items[q][j]
  BY <1>b, <1>d
<1>2. ASSUME NEW q \in RunIds, NEW j \in Items PROVE ItemMoves(q, j)
  <2>1. CASE q = r /\ j = i BY <1>1, <2>1
  <2>2. CASE q # r \/ j # i BY <1>1, <2>2 DEF ItemMoves
  <2> QED BY <2>1, <2>2
<1> QED BY <1>1, <1>2 DEF ItemsMove

(* Steps of a worker.                                                      *)
LEMMA SetWorker ==
    ASSUME Types, NEW w \in Workers, NEW n \in WorkerRow,
           worker' = [worker EXCEPT ![w] = n],
           n.pc \in ItemSteps => n.run \in RunIds /\ n.item \in Items,
           n.pc \in {"plan", "failPlan"} => n.run \in RunIds,
           n.pc \in {"preview", "previewReady", "previewFailed"} => n.prev \in PreviewIds
    PROVE  WorkerKind
<1>1. worker' \in [Workers -> WorkerRow] /\ worker'[w] = n /\ \A v \in Workers \ {w} : worker'[v] = worker[v]
  BY DEF Types, Rows
<1>2. Busy(w)' BY <1>1 DEF Busy
<1>3. \A v \in Workers \ {w} : Busy(v)' BY <1>1 DEF Types, Busy
<1> QED BY <1>1, <1>2, <1>3 DEF WorkerKind

LEMMA IdleRow == Idle \in WorkerRow /\ Idle.pc = "idle"
BY DEF Idle, WorkerRow, WorkerSteps

LEMMA StepKinds ==
    /\ \A p \in ItemSteps : p \in WorkerSteps /\ p # "idle" /\ p \notin {"plan", "failPlan"}
                            /\ p \notin {"preview", "previewReady", "previewFailed"}
    /\ "idle" \notin ItemSteps
BY DEF ItemSteps, FileSteps, DirSteps, WorkerSteps

LEMMA Returned ==
    ASSUME Types, NEW w \in Workers, Return(w)
    PROVE  WorkerKind
<1>1. worker' = [worker EXCEPT ![w] = Idle] BY DEF Return
<1> QED BY <1>1, IdleRow, StepKinds, SetWorker

LEMMA WentOn ==
    ASSUME Types, NEW w \in Workers, NEW p \in ItemSteps, worker[w].pc \in ItemSteps, Goto(w, p)
    PROVE  WorkerKind
<1> DEFINE n == [worker[w] EXCEPT !.pc = p]
<1>1. p \in WorkerSteps BY StepKinds
<1>2. n \in WorkerRow /\ n.pc = p /\ n.run = worker[w].run /\ n.item = worker[w].item
  BY <1>1 DEF Types, Rows, WorkerRow
<1>3. worker' = [worker EXCEPT ![w] = n] BY DEF Goto
<1>4. worker[w].run \in RunIds /\ worker[w].item \in Items BY DEF Types, Busy
<1> HIDE DEF n
<1> QED BY <1>2, <1>3, <1>4, StepKinds, SetWorker

LEMMA Broke ==
    ASSUME Types, NEW w \in Workers, worker[w].pc \in ItemSteps, Breaks(w)
    PROVE  WorkerKind
<1>1. {"retry", "fail"} \subseteq ItemSteps BY DEF ItemSteps
<1> QED BY <1>1, WentOn DEF Breaks

-----------------------------------------------------------------------------
(* The steps that change no row of the job. *)

LEMMA FileSteps1 ==
    ASSUME Types, NEW w \in Workers,
           \/ LoadTarget(w) \/ Upload(w) \/ DropBackup(w) \/ SetAside(w) \/ SwapIn(w) \/ PutBack(w)
           \/ DropAside(w) \/ VerifyTarget(w) \/ ReplaceByDirectory(w) \/ CreateDirectory(w)
    PROVE  Types' /\ Steps
<1>1. {"open", "connect", "retry", "fail", "upload", "dropBackup", "setAside", "swapIn", "putBack",
       "dropAside", "verify", "complete", "dirReplace", "dirCreate", "dirComplete"} \subseteq ItemSteps
  BY DEF ItemSteps, FileSteps, DirSteps
<1>2. UNCHANGED <<previews, runs, items, pins, notices>>
  BY DEF LoadTarget, Upload, DropBackup, SetAside, SwapIn, PutBack, DropAside, VerifyTarget,
         ReplaceByDirectory, CreateDirectory, rest
<1>3. worker[w].pc \in {"open", "upload", "dropBackup", "setAside", "swapIn", "putBack", "dropAside", "verify",
                        "dirReplace", "dirCreate"}
  BY DEF LoadTarget, Upload, DropBackup, SetAside, SwapIn, PutBack, DropAside, VerifyTarget,
         ReplaceByDirectory, CreateDirectory, At
<1>4. \E p \in {"connect", "retry", "fail", "dropBackup", "setAside", "swapIn", "putBack", "dropAside",
                "verify", "complete", "dirCreate", "dirComplete"} : Goto(w, p)
  <2>1. CASE LoadTarget(w) \/ SetAside(w) \/ PutBack(w) \/ DropBackup(w) \/ DropAside(w)
    BY <2>1 DEF LoadTarget, SetAside, PutBack, DropBackup, DropAside, Breaks
  <2>2. CASE Upload(w)
    BY <2>2 DEF Upload, Breaks, ReconstructFails
  <2>3. CASE SwapIn(w) \/ VerifyTarget(w)
    BY <2>3 DEF SwapIn, VerifyTarget, Breaks
  <2>4. CASE ReplaceByDirectory(w) \/ CreateDirectory(w)
    BY <2>4 DEF ReplaceByDirectory, CreateDirectory, Breaks
  <2> QED BY <2>1, <2>2, <2>3, <2>4
<1>5. WorkerKind BY <1>1, <1>3, <1>4, WentOn
<1> QED BY <1>2, <1>5, QuietStep

LEMMA CrashStep ==
    ASSUME Types, NEW w \in Workers, Crash(w)
    PROVE  Types' /\ Steps
<1>1. WorkerKind BY Returned DEF Crash
<1> QED BY <1>1, QuietStep DEF Crash, rowVars

-----------------------------------------------------------------------------
(* The steps that move items. *)

(* The claim of one item by its worker, and what it writes about it: the
   new state of a RUNNING item, a warning, a retry.                         *)
ItemWrite(r, i, n) ==
    \/ items' = items
    \/ items' = [items EXCEPT ![r][i] = n] /\ n \in ItemRow /\ (items'[r][i] = n => ItemMoves(r, i))

LEMMA Written ==
    ASSUME Types, NEW r \in RunIds, NEW i \in Items, NEW n, ItemWrite(r, i, n)
    PROVE  ItemsKind /\ \A q \in RunIds : ItemsMove(q)
<1>1. CASE items' = items BY <1>1, SameItems DEF Types, Rows, ItemsKind
<1>2. CASE /\ items' = [items EXCEPT ![r][i] = n] /\ n \in ItemRow
           /\ (items'[r][i] = n => ItemMoves(r, i))
  BY <1>2, ItemMoved
<1> QED BY <1>1, <1>2 DEF ItemWrite

LEMMA ItemSetTo ==
    ASSUME Types, NEW r \in RunIds, NEW i \in Items, NEW e,
           NEW st \in {"COMPLETED", "FAILED", "SKIPPED"}, SetItem(r, i, e, st)
    PROVE  ItemsKind /\ \A q \in RunIds : ItemsMove(q)
<1> DEFINE n == [items[r][i] EXCEPT !.st = st]
<1>1. items[r][i] \in ItemRow BY DEF Types, Rows
<1>2. n \in ItemRow /\ n.st = st BY <1>1 DEF ItemRow, ItemStates
<1>3. CASE OwnsItem(r, i, e)
  <2>1. items[r][i].st = "RUNNING" BY <1>3 DEF OwnsItem
  <2>2. items' = [items EXCEPT ![r][i] = n] BY <1>3 DEF SetItem
  <2> HIDE DEF n
  <2>3. items'[r][i] = n => ItemMoves(r, i) BY <1>2, <2>1 DEF ItemMoves
  <2> QED BY <1>2, <2>2, <2>3, Written DEF ItemWrite
<1>4. CASE ~OwnsItem(r, i, e)
  <2>1. items' = items BY <1>4 DEF SetItem
  <2> QED BY <2>1, Written DEF ItemWrite
<1> QED BY <1>3, <1>4

LEMMA ItemWarned ==
    ASSUME Types, NEW r \in RunIds, NEW i \in Items, NEW e, WarnRestoreItem(r, i, e)
    PROVE  ItemsKind /\ \A q \in RunIds : ItemsMove(q)
<1> DEFINE n == [items[r][i] EXCEPT !.st = "WARNING"]
<1>1. items[r][i] \in ItemRow BY DEF Types, Rows
<1>2. n \in ItemRow /\ n.st = "WARNING" BY <1>1 DEF ItemRow, ItemStates
<1>3. \/ items' = items
      \/ items[r][i].st = "COMPLETED" /\ items' = [items EXCEPT ![r][i] = n]
  BY DEF WarnRestoreItem
<1> HIDE DEF n
<1>4. items[r][i].st = "COMPLETED" /\ items'[r][i] = n => ItemMoves(r, i) BY <1>2 DEF ItemMoves
<1> QED BY <1>2, <1>3, <1>4, Written DEF ItemWrite

LEMMA ItemRetried ==
    ASSUME Types, NEW r \in RunIds, NEW i \in Items, NEW e, RetryRestoreItem(r, i, e)
    PROVE  ItemsKind /\ \A q \in RunIds : ItemsMove(q)
<1> DEFINE t == items[r][i].tries + 1
           s == IF items[r][i].tries + 1 >= MaxAttempts THEN "FAILED" ELSE "PENDING"
           n == [items[r][i] EXCEPT !.tries = t, !.st = s]
<1>1. items[r][i] \in ItemRow BY DEF Types, Rows
<1>2. t \in Nat /\ s \in {"FAILED", "PENDING"} BY <1>1 DEF ItemRow
<1>3. CASE ~OwnsItem(r, i, e)
  <2>1. items' = items BY <1>3 DEF RetryRestoreItem
  <2> QED BY <2>1, Written DEF ItemWrite
<1>4. CASE OwnsItem(r, i, e)
  <2>1. items[r][i].st = "RUNNING" BY <1>4 DEF OwnsItem
  <2>2. items' = [items EXCEPT ![r][i].tries = @ + 1, ![r][i].st = s] BY <1>4 DEF RetryRestoreItem
  <2> HIDE DEF s
  <2>3. items' = [items EXCEPT ![r][i] = n] BY <1>1, <2>2 DEF Types, Rows
  <2> HIDE DEF t
  <2>4. n \in ItemRow /\ n.st = s BY <1>1, <1>2 DEF ItemRow, ItemStates
  <2> HIDE DEF n
  <2>5. items'[r][i] = n => ItemMoves(r, i) BY <1>2, <2>1, <2>4 DEF ItemMoves
  <2> QED BY <2>3, <2>4, <2>5, Written DEF ItemWrite
<1> QED BY <1>3, <1>4

LEMMA ItemPlaced ==
    ASSUME Types, NEW r \in RunIds, NEW i \in Items, NEW e, NEW x \in Nat,
           SetRestoreItemTargetPath(r, i, e, x)
    PROVE  ItemsKind /\ \A q \in RunIds : ItemsMove(q)
<1> DEFINE n == [items[r][i] EXCEPT !.sfx = x]
<1>1. items[r][i] \in ItemRow BY DEF Types, Rows
<1>2. n \in ItemRow /\ n.st = items[r][i].st BY <1>1 DEF ItemRow
<1>3. items' = items \/ items' = [items EXCEPT ![r][i] = n] BY DEF SetRestoreItemTargetPath
<1> HIDE DEF n
<1>4. items'[r][i] = n => ItemMoves(r, i) BY <1>2 DEF ItemMoves
<1> QED BY <1>2, <1>3, <1>4, Written DEF ItemWrite

LEMMA ItemAged ==
    ASSUME Types, NEW r \in RunIds, NEW i \in Items, NEW b \in BOOLEAN,
           items' = [items EXCEPT ![r][i].fresh = b]
    PROVE  ItemsKind /\ \A q \in RunIds : ItemsMove(q)
<1> DEFINE n == [items[r][i] EXCEPT !.fresh = b]
<1>1. items[r][i] \in ItemRow BY DEF Types, Rows
<1>2. n \in ItemRow /\ n.st = items[r][i].st BY <1>1 DEF ItemRow
<1>3. items' = [items EXCEPT ![r][i] = n] OBVIOUS
<1> HIDE DEF n
<1>4. items'[r][i] = n => ItemMoves(r, i) BY <1>2 DEF ItemMoves
<1> QED BY <1>2, <1>3, <1>4, Written DEF ItemWrite

(* A statement over all items of one run, or of all runs.                  *)
LEMMA ItemsOfRun ==
    ASSUME Types, NEW r \in RunIds, NEW f \in [Items -> ItemRow], items' = [items EXCEPT ![r] = f],
           items'[r] = f => ItemsMove(r)
    PROVE  ItemsKind /\ \A q \in RunIds : ItemsMove(q)
<1>1. ItemsKind /\ items'[r] = f /\ \A q \in RunIds \ {r} : items'[q] = items[q]
  BY DEF Types, Rows, ItemsKind
<1>2. \A q \in RunIds \ {r} : ItemsMove(q) BY <1>1 DEF ItemsMove, ItemMoves
<1> QED BY <1>1, <1>2

LEMMA DirectoryPlaced ==
    ASSUME Types, NEW r \in RunIds, NEW d \in Items, NEW x \in Nat,
           SetRestoreDirectoryTargetPath(r, d, x)
    PROVE  ItemsKind /\ \A q \in RunIds : ItemsMove(q)
<1> DEFINE F(i) == CASE i = d -> [items[r][i] EXCEPT !.sfx = x]
                     [] i # d /\ d \in Ancestors(i) -> [items[r][i] EXCEPT !.root = x, !.sfx = 0]
                     [] OTHER -> items[r][i]
           f == [i \in Items |-> F(i)]
<1>1. ASSUME NEW i \in Items PROVE F(i) \in ItemRow /\ F(i).st = items[r][i].st
  <2>1. items[r][i] \in ItemRow BY DEF Types, Rows
  <2>2. [items[r][i] EXCEPT !.sfx = x] \in ItemRow /\ [items[r][i] EXCEPT !.sfx = x].st = items[r][i].st
    BY <2>1 DEF ItemRow
  <2>3. /\ [items[r][i] EXCEPT !.root = x, !.sfx = 0] \in ItemRow
        /\ [items[r][i] EXCEPT !.root = x, !.sfx = 0].st = items[r][i].st
    BY <2>1 DEF ItemRow
  <2>4. CASE i = d
    <3>1. F(i) = [items[r][i] EXCEPT !.sfx = x] BY <2>4
    <3> QED BY <2>2, <3>1
  <2>5. CASE i # d /\ d \in Ancestors(i) BY <2>3, <2>5
  <2>6. CASE i # d /\ d \notin Ancestors(i) BY <2>1, <2>6
  <2> QED BY <2>4, <2>5, <2>6
<1>2. items' = [items EXCEPT ![r] = f] BY DEF SetRestoreDirectoryTargetPath
<1> HIDE DEF F
<1>3. f \in [Items -> ItemRow] /\ \A i \in Items : f[i].st = items[r][i].st BY <1>1
<1> HIDE DEF f
<1>4. items'[r] = f => ItemsMove(r) BY <1>3 DEF ItemsMove, ItemMoves
<1> QED BY <1>2, <1>3, <1>4, ItemsOfRun

LEMMA ItemsRecovered ==
    ASSUME Types, RecoverStaleRestoreItems
    PROVE  ItemsKind /\ \A q \in RunIds : ItemsMove(q)
<1> DEFINE S(r) == IF runs[r].st = "CANCELLING" THEN "CANCELLED" ELSE "PENDING"
           F(r, i) == IF Stale(r, i) THEN [items[r][i] EXCEPT !.st = S(r)] ELSE items[r][i]
<1>1. ASSUME NEW r \in RunIds, NEW i \in Items
      PROVE  /\ F(r, i) \in ItemRow
             /\ \/ F(r, i).st = items[r][i].st
                \/ items[r][i].st = "RUNNING" /\ F(r, i).st \in {"PENDING", "CANCELLED"}
  <2>1. items[r][i] \in ItemRow BY DEF Types, Rows
  <2>2. S(r) \in {"PENDING", "CANCELLED"} OBVIOUS
  <2> HIDE DEF S
  <2>3. CASE Stale(r, i)
    <3>1. items[r][i].st = "RUNNING" BY <2>3 DEF Stale
    <3>2. F(r, i) = [items[r][i] EXCEPT !.st = S(r)] BY <2>3
    <3> QED BY <2>1, <2>2, <3>1, <3>2 DEF ItemRow, ItemStates
  <2>4. CASE ~Stale(r, i) BY <2>1, <2>4
  <2> QED BY <2>3, <2>4
<1>2. items' = [r \in RunIds |-> [i \in Items |-> F(r, i)]] BY DEF RecoverStaleRestoreItems
<1> HIDE DEF F
<1>3. ItemsKind BY <1>1, <1>2 DEF ItemsKind
<1>4. \A r \in RunIds, i \in Items : items'[r][i] = F(r, i) BY <1>2
<1>5. ASSUME NEW r \in RunIds, NEW i \in Items PROVE ItemMoves(r, i)
  BY <1>1, <1>4 DEF ItemMoves
<1> QED BY <1>3, <1>5 DEF ItemsMove

LEMMA ItemsSkipped ==
    ASSUME Types, SkipBlockedRestoreItems
    PROVE  ItemsKind /\ \A q \in RunIds : ItemsMove(q)
<1> DEFINE F(r, i) == IF SkippedWithParent(r, i) THEN [items[r][i] EXCEPT !.st = "SKIPPED"] ELSE items[r][i]
<1>1. ASSUME NEW r \in RunIds, NEW i \in Items
      PROVE  /\ F(r, i) \in ItemRow
             /\ \/ F(r, i).st = items[r][i].st
                \/ items[r][i].st = "PENDING" /\ F(r, i).st = "SKIPPED"
  <2>1. items[r][i] \in ItemRow BY DEF Types, Rows
  <2>3. CASE SkippedWithParent(r, i)
    <3>1. items[r][i].st = "PENDING" BY <2>3 DEF SkippedWithParent
    <3>2. F(r, i) = [items[r][i] EXCEPT !.st = "SKIPPED"] BY <2>3
    <3> QED BY <2>1, <3>1, <3>2 DEF ItemRow, ItemStates
  <2>4. CASE ~SkippedWithParent(r, i) BY <2>1, <2>4
  <2> QED BY <2>3, <2>4
<1>2. items' = [r \in RunIds |-> [i \in Items |-> F(r, i)]] BY DEF SkipBlockedRestoreItems
<1> HIDE DEF F
<1>3. ItemsKind BY <1>1, <1>2 DEF ItemsKind
<1>4. \A r \in RunIds, i \in Items : items'[r][i] = F(r, i) BY <1>2
<1>5. ASSUME NEW r \in RunIds, NEW i \in Items PROVE ItemMoves(r, i)
  BY <1>1, <1>4 DEF ItemMoves
<1> QED BY <1>3, <1>5 DEF ItemsMove

(* The items of a run that are in some states are cancelled, all of them.  *)
LEMMA CancelledItems ==
    ASSUME Types, NEW r \in RunIds, NEW states \in SUBSET {"PENDING", "RUNNING"}
    PROVE  /\ CancelItems(r, states)[r] \in [Items -> ItemRow]
           /\ CancelItems(r, states) \in [RunIds -> [Items -> ItemRow]]
           /\ \A q \in RunIds \ {r} : CancelItems(r, states)[q] = items[q]
           /\ \A i \in Items : CancelItems(r, states)[r][i].st =
                                  IF items[r][i].st \in states THEN "CANCELLED" ELSE items[r][i].st
<1> DEFINE F(i) == IF items[r][i].st \in states THEN [items[r][i] EXCEPT !.st = "CANCELLED"] ELSE items[r][i]
           f == [i \in Items |-> F(i)]
<1>1. ASSUME NEW i \in Items
      PROVE  F(i) \in ItemRow /\ F(i).st = IF items[r][i].st \in states THEN "CANCELLED" ELSE items[r][i].st
  <2>1. items[r][i] \in ItemRow BY DEF Types, Rows
  <2>2. CASE items[r][i].st \in states
    <3>1. F(i) = [items[r][i] EXCEPT !.st = "CANCELLED"] BY <2>2
    <3> QED BY <2>1, <2>2, <3>1 DEF ItemRow, ItemStates
  <2>3. CASE items[r][i].st \notin states BY <2>1, <2>3
  <2> QED BY <2>2, <2>3
<1>2. CancelItems(r, states) = [items EXCEPT ![r] = f] BY DEF CancelItems
<1> HIDE DEF F
<1>3. f \in [Items -> ItemRow] /\ \A i \in Items : f[i] = F(i) BY <1>1
<1> HIDE DEF f
<1>4. CancelItems(r, states)[r] = f BY <1>2 DEF Types, Rows
<1>5. \A q \in RunIds \ {r} : CancelItems(r, states)[q] = items[q] BY <1>2 DEF Types, Rows
<1>6. CancelItems(r, states) \in [RunIds -> [Items -> ItemRow]] BY <1>2, <1>3 DEF Types, Rows
<1> HIDE DEF CancelItems
<1> QED BY <1>1, <1>3, <1>4, <1>5, <1>6

LEMMA PathTaken ==
    ASSUME Types, NEW w \in Workers, NEW s \in Nat, NEW next \in ItemSteps, worker[w].pc \in ItemSteps,
           TakePath(w, s, next)
    PROVE  WorkerKind /\ ItemsKind /\ \A q \in RunIds : ItemsMove(q)
<1>1. worker[w].run \in RunIds /\ It(w) \in Items /\ worker[w].item \in Items BY DEF Types, Busy, It
<1>2. WorkerKind
  <2> DEFINE n == [worker[w] EXCEPT !.sfx = s, !.pc = next]
  <2>1. next \in WorkerSteps BY StepKinds
  <2>2. n \in WorkerRow /\ n.pc = next /\ n.run = worker[w].run /\ n.item = worker[w].item
    BY <2>1 DEF Types, Rows, WorkerRow
  <2>3. worker' = [worker EXCEPT ![w] = n] BY DEF TakePath, Types, Rows
  <2> HIDE DEF n
  <2> QED BY <1>1, <2>2, <2>3, StepKinds, SetWorker
<1>3. \/ items' = items
      \/ SetRestoreDirectoryTargetPath(worker[w].run, It(w), s)
      \/ SetRestoreItemTargetPath(worker[w].run, It(w), worker[w].epoch, s)
  BY DEF TakePath
<1>4. CASE items' = items BY <1>2, <1>4, SameItems DEF ItemsKind, Types, Rows
<1>5. CASE SetRestoreDirectoryTargetPath(worker[w].run, It(w), s) BY <1>1, <1>2, <1>5, DirectoryPlaced
<1>6. CASE SetRestoreItemTargetPath(worker[w].run, It(w), worker[w].epoch, s) BY <1>1, <1>2, <1>6, ItemPlaced
<1> QED BY <1>3, <1>4, <1>5, <1>6

LEMMA UnchangedItems ==
    ASSUME Types, items' = items
    PROVE  ItemsKind /\ \A q \in RunIds : ItemsMove(q)
BY SameItems DEF ItemsKind, Types, Rows

LEMMA PathSteps ==
    ASSUME Types, NEW w \in Workers, ReservePath(w) \/ RenameTarget(w)
    PROVE  Types' /\ Steps
<1>1. worker[w].pc \in ItemSteps /\ UNCHANGED <<previews, runs, pins, notices>>
  BY DEF ReservePath, RenameTarget, At, ItemSteps, FileSteps, DirSteps
<1>2. {"retry", "dirInspect", "inspect", "upload", "dirCreate"} \subseteq ItemSteps
  BY DEF ItemSteps, FileSteps, DirSteps
<1>3. FreeSuffixes(w) \in SUBSET Nat /\ RenameSuffixes(w) \in SUBSET Nat
  <2>1. worker[w].sfx \in Nat /\ MaxSuffix \in Nat BY RestoreAssumption DEF Types, Rows, WorkerRow
  <2> QED BY <2>1 DEF FreeSuffixes, RenameSuffixes
<1>4. (FreeSuffixes(w) # {} => Least(FreeSuffixes(w)) \in Nat)
      /\ (RenameSuffixes(w) # {} => Least(RenameSuffixes(w)) \in Nat)
  BY <1>3, LeastMember
<1>5. \/ Goto(w, "retry") /\ items' = items
      \/ \E s \in Nat, p \in {"dirInspect", "inspect", "upload", "dirCreate"} : TakePath(w, s, p)
  <2>1. CASE ReservePath(w) BY <1>4, <2>1 DEF ReservePath
  <2>2. CASE RenameTarget(w) BY <1>4, <2>2 DEF RenameTarget
  <2> QED BY <2>1, <2>2
<1>6. WorkerKind /\ ItemsKind /\ \A q \in RunIds : ItemsMove(q)
  <2>1. CASE Goto(w, "retry") /\ items' = items BY <1>1, <1>2, <2>1, WentOn, UnchangedItems
  <2>2. ASSUME NEW s \in Nat, NEW p \in {"dirInspect", "inspect", "upload", "dirCreate"}, TakePath(w, s, p)
        PROVE  WorkerKind /\ ItemsKind /\ \A q \in RunIds : ItemsMove(q)
    BY <1>1, <1>2, <2>2, PathTaken
  <2> QED BY <1>5, <2>1, <2>2
<1> QED BY <1>1, <1>6, ItemsStep

LEMMA InspectSteps ==
    ASSUME Types, NEW w \in Workers, InspectTarget(w) \/ InspectDirectory(w)
    PROVE  Types' /\ Steps
<1>1. worker[w].pc \in ItemSteps /\ UNCHANGED <<previews, runs, pins, notices>>
  BY DEF InspectTarget, InspectDirectory, At, ItemSteps, FileSteps, DirSteps, rest
<1>2. {"upload", "rename", "fail", "dirCreate", "dirComplete", "dirRename", "dirReplace"} \subseteq ItemSteps
  BY DEF ItemSteps, FileSteps, DirSteps
<1>3. worker[w].run \in RunIds /\ It(w) \in Items /\ worker[w].item \in Items BY <1>1 DEF Types, Busy, It
<1>4. \/ items' = items /\ \E p \in ItemSteps : Goto(w, p)
      \/ SkipRestoreItem(worker[w].run, It(w), worker[w].epoch) /\ Return(w)
      \/ items' = items /\ worker' = [worker EXCEPT ![w].over = TRUE, ![w].pc = "upload"]
  <2>1. CASE InspectTarget(w) BY <1>2, <2>1 DEF InspectTarget
  <2>2. CASE InspectDirectory(w) BY <1>2, <2>2 DEF InspectDirectory
  <2> QED BY <2>1, <2>2
<1>5. CASE items' = items /\ \E p \in ItemSteps : Goto(w, p)
  <2>1. WorkerKind BY <1>1, <1>5, WentOn
  <2> QED BY <1>1, <1>5, <2>1, QuietStep
<1>6. CASE SkipRestoreItem(worker[w].run, It(w), worker[w].epoch) /\ Return(w)
  <2>1. WorkerKind BY <1>6, Returned
  <2>2. SetItem(worker[w].run, It(w), worker[w].epoch, "SKIPPED") BY <1>6 DEF SkipRestoreItem
  <2>3. ItemsKind /\ \A q \in RunIds : ItemsMove(q) BY <1>3, <2>2, ItemSetTo
  <2> QED BY <1>1, <2>1, <2>3, ItemsStep
<1>7. CASE items' = items /\ worker' = [worker EXCEPT ![w].over = TRUE, ![w].pc = "upload"]
  <2> DEFINE n == [worker[w] EXCEPT !.over = TRUE, !.pc = "upload"]
  <2>1. "upload" \in WorkerSteps BY <1>2, StepKinds
  <2>2. n \in WorkerRow /\ n.pc = "upload" /\ n.run = worker[w].run /\ n.item = worker[w].item
    BY <2>1 DEF Types, Rows, WorkerRow
  <2>3. worker' = [worker EXCEPT ![w] = n] BY <1>7 DEF Types, Rows
  <2> HIDE DEF n
  <2>4. WorkerKind BY <1>2, <1>3, <2>2, <2>3, StepKinds, SetWorker
  <2> QED BY <1>1, <1>7, <2>4, QuietStep
<1> QED BY <1>4, <1>5, <1>6, <1>7

LEMMA OutcomeSteps ==
    ASSUME Types, NEW w \in Workers, Complete(w) \/ ApplyMetadata(w) \/ Retry(w) \/ FailItem(w)
    PROVE  Types' /\ Steps
<1>1. worker[w].pc \in ItemSteps /\ UNCHANGED <<previews, runs, pins, notices>>
  BY DEF Complete, ApplyMetadata, Retry, FailItem, At, ItemSteps, FileSteps, DirSteps, rest
<1>2. {"metadata", "retry"} \subseteq ItemSteps BY DEF ItemSteps, FileSteps
<1>3. worker[w].run \in RunIds /\ It(w) \in Items /\ worker[w].item \in Items BY <1>1 DEF Types, Busy, It
<1>4. WorkerKind
  <2>1. Goto(w, "metadata") \/ Goto(w, "retry") \/ Return(w)
    BY DEF Complete, ApplyMetadata, Retry, FailItem
  <2> QED BY <1>1, <1>2, <2>1, WentOn, Returned
<1>5. \/ items' = items
      \/ SetItem(worker[w].run, It(w), worker[w].epoch, "COMPLETED")
      \/ SetItem(worker[w].run, It(w), worker[w].epoch, "FAILED")
      \/ WarnRestoreItem(worker[w].run, It(w), worker[w].epoch)
      \/ RetryRestoreItem(worker[w].run, It(w), worker[w].epoch)
  BY DEF Complete, ApplyMetadata, Retry, FailItem, CompleteRestoreItem, FailRestoreItem
<1>6. ItemsKind /\ \A q \in RunIds : ItemsMove(q)
  BY <1>3, <1>5, ItemSetTo, ItemWarned, ItemRetried, UnchangedItems
<1> QED BY <1>1, <1>4, <1>6, ItemsStep

LEMMA ItemPolls ==
    ASSUME Types, NEW w \in Workers, PollRecoverItems(w) \/ PollSkipBlocked(w) \/ HeartbeatItem(w)
    PROVE  Types' /\ Steps
<1>1. UNCHANGED <<previews, runs, pins, notices, worker>>
  BY DEF PollRecoverItems, PollSkipBlocked, HeartbeatItem, rest
<1>2. WorkerKind BY <1>1, SameWorkers
<1>3. CASE PollRecoverItems(w)
  BY <1>1, <1>2, <1>3, ItemsRecovered, ItemsStep DEF PollRecoverItems
<1>4. CASE PollSkipBlocked(w)
  BY <1>1, <1>2, <1>4, ItemsSkipped, ItemsStep DEF PollSkipBlocked
<1>5. CASE HeartbeatItem(w)
  <2>1. worker[w].run \in RunIds /\ It(w) \in Items BY <1>5 DEF HeartbeatItem, Types, Busy, It
  <2>2. items' = [items EXCEPT ![worker[w].run][It(w)].fresh = TRUE]
    BY <1>5 DEF HeartbeatItem, HeartbeatRestoreItem
  <2>3. ItemsKind /\ \A q \in RunIds : ItemsMove(q) BY <2>1, <2>2, ItemAged
  <2> QED BY <1>1, <1>2, <2>3, ItemsStep
<1> QED BY <1>3, <1>4, <1>5

LEMMA ItemLapse ==
    ASSUME Types, NEW r \in RunIds, NEW i \in Items, ItemLapses(r, i)
    PROVE  Types' /\ Steps
<1>1. UNCHANGED <<previews, runs, pins, notices, worker>> BY DEF ItemLapses, rest
<1>2. WorkerKind BY <1>1, SameWorkers
<1>3. items' = [items EXCEPT ![r][i].fresh = FALSE] BY DEF ItemLapses
<1>4. ItemsKind /\ \A q \in RunIds : ItemsMove(q) BY <1>3, ItemAged
<1> QED BY <1>1, <1>2, <1>4, ItemsStep

LEMMA ItemPoll ==
    ASSUME Types, NEW w \in Workers, PollItem(w)
    PROVE  Types' /\ Steps
<1>1. UNCHANGED <<previews, runs, pins, notices>> BY DEF PollItem, rest
<1>2. PICK r \in RunIds, i \in Items :
        /\ ClaimNextRestoreItem(r, i)
        /\ worker' = [worker EXCEPT ![w] = [Idle EXCEPT !.pc = "open", !.run = r, !.item = i,
                          !.epoch = items[r][i].epoch + 1, !.root = items[r][i].root, !.sfx = items[r][i].sfx]]
  BY DEF PollItem
<1> DEFINE e == items[r][i].epoch + 1
           m == [Idle EXCEPT !.pc = "open", !.run = r, !.item = i, !.epoch = e,
                             !.root = items[r][i].root, !.sfx = items[r][i].sfx]
           n == [items[r][i] EXCEPT !.st = "RUNNING", !.epoch = e, !.fresh = TRUE]
<1>3. items[r][i] \in ItemRow BY DEF Types, Rows
<1>4. e \in Nat /\ r \in Nat /\ items[r][i].root \in Nat /\ items[r][i].sfx \in Nat
  BY <1>3, RestoreAssumption DEF ItemRow, RunIds
<1>5. items' = [items EXCEPT ![r][i].st = "RUNNING", ![r][i].epoch = e, ![r][i].fresh = TRUE]
      /\ runs[r].st = "RUNNING" /\ items[r][i].st = "PENDING"
  BY <1>2 DEF ClaimNextRestoreItem, ClaimableItem
<1>6. worker' = [worker EXCEPT ![w] = m] BY <1>2
<1> HIDE DEF e
<1>7. items' = [items EXCEPT ![r][i] = n] BY <1>3, <1>5 DEF Types, Rows
<1>8. n \in ItemRow /\ n.st = "RUNNING" BY <1>3, <1>4 DEF ItemRow, ItemStates
<1>9. "open" \in WorkerSteps /\ "open" \in ItemSteps BY DEF WorkerSteps, ItemSteps, FileSteps
<1>10. m \in WorkerRow /\ m.pc = "open" /\ m.run = r /\ m.item = i
  BY <1>4, <1>9 DEF WorkerRow, Idle
<1> HIDE DEF n, m
<1>11. WorkerKind BY <1>6, <1>9, <1>10, StepKinds, SetWorker
<1>12. items'[r][i] = n => ItemMoves(r, i) BY <1>5, <1>8 DEF ItemMoves
<1>13. ItemsKind /\ \A q \in RunIds : ItemsMove(q) BY <1>7, <1>8, <1>12, ItemMoved
<1> QED BY <1>1, <1>11, <1>13, ItemsStep

-----------------------------------------------------------------------------
(* The steps that change previews. *)

PreviewsKind == previews' \in [PreviewIds -> PreviewRow] /\ \A p \in PreviewIds : PreviewStep(p)

LEMMA PreviewsStep ==
    ASSUME Types, WorkerKind, PreviewsKind, UNCHANGED <<runs, items, pins, notices>>
    PROVE  Types' /\ Steps
<1>1. Types' BY DEF Types, Rows, PreviewsKind, WorkerKind
<1>2. \A r \in RunIds : ItemsMove(r) BY SameItems
<1>3. \A r \in RunIds : Works(r) BY <1>2 DEF Works, PinSame, NoticeSame
<1> QED BY <1>1, <1>3 DEF Steps, RunStep, PreviewsKind

LEMMA OnePreview ==
    ASSUME Types, NEW p \in PreviewIds, NEW n \in PreviewRow, previews' = [previews EXCEPT ![p] = n],
           \/ n.st \in OpenPreview
           \/ ~n.creds
           \/ n.st = previews[p].st /\ n.creds = previews[p].creds
    PROVE  PreviewsKind
<1>1. previews' \in [PreviewIds -> PreviewRow] /\ previews'[p] = n
      /\ \A q \in PreviewIds \ {p} : previews'[q] = previews[q]
  BY DEF Types, Rows
<1>2. PreviewStep(p) BY <1>1 DEF PreviewStep
<1>3. \A q \in PreviewIds \ {p} : PreviewStep(q) BY <1>1 DEF PreviewStep
<1> QED BY <1>1, <1>2, <1>3 DEF PreviewsKind

LEMMA ClosedPreview ==
    ASSUME Types, NEW p \in PreviewIds, NEW st \in {"CANCELLED", "EXPIRED", "CONSUMED"}
    PROVE  ClosePreview(p, st) \in PreviewRow /\ ~ClosePreview(p, st).creds
BY DEF ClosePreview, Types, Rows, PreviewRow

LEMMA PreviewHandlers ==
    ASSUME Types, HandleCreateRestorePreview \/ HandleCancelRestorePreview
    PROVE  Types' /\ Steps
<1>1. UNCHANGED <<runs, items, pins, notices, worker>>
  BY DEF HandleCreateRestorePreview, HandleCancelRestorePreview, others
<1>2. WorkerKind BY <1>1, SameWorkers
<1>3. PreviewsKind
  <2>1. CASE HandleCreateRestorePreview
    <3>1. PICK p \in PreviewIds, retry \in BOOLEAN : CreateRestorePreview(p, retry)
      BY <2>1 DEF HandleCreateRestorePreview
    <3> DEFINE n == [st |-> "QUEUED", gen |-> 0, fresh |-> TRUE, retry |-> retry, creds |-> TRUE]
    <3>2. n \in PreviewRow /\ n.st \in OpenPreview BY DEF PreviewRow, OpenPreview
    <3>3. previews' = [previews EXCEPT ![p] = n] BY <3>1 DEF CreateRestorePreview
    <3> HIDE DEF n
    <3> QED BY <3>2, <3>3, OnePreview
  <2>2. CASE HandleCancelRestorePreview
    <3>1. PICK p \in PreviewIds : CancelRestorePreview(p) BY <2>2 DEF HandleCancelRestorePreview
    <3>2. previews' = [previews EXCEPT ![p] = ClosePreview(p, "CANCELLED")] BY <3>1 DEF CancelRestorePreview
    <3> QED BY <3>2, ClosedPreview, OnePreview
  <2> QED BY <2>1, <2>2
<1> QED BY <1>1, <1>2, <1>3, PreviewsStep

LEMMA PreviewPoll ==
    ASSUME Types, NEW w \in Workers, PollPreview(w)
    PROVE  Types' /\ Steps
<1>1. UNCHANGED <<runs, items, pins, notices>> BY DEF PollPreview
<1>2. PICK p \in PreviewIds :
         /\ ClaimNextRestorePreview(p)
         /\ worker' = [worker EXCEPT ![w].pc = "preview", ![w].prev = p, ![w].gen = previews[p].gen + 1]
  BY DEF PollPreview
<1> DEFINE g == previews[p].gen + 1
           n == [previews[p] EXCEPT !.st = "RUNNING", !.gen = g, !.fresh = TRUE]
           m == [worker[w] EXCEPT !.pc = "preview", !.prev = p, !.gen = g]
<1>3. previews[p] \in PreviewRow /\ worker[w] \in WorkerRow BY DEF Types, Rows
<1>4. g \in Nat /\ p \in Nat BY <1>3, RestoreAssumption DEF PreviewRow, PreviewIds
<1>5. previews' = [previews EXCEPT ![p].st = "RUNNING", ![p].gen = g, ![p].fresh = TRUE]
  BY <1>2 DEF ClaimNextRestorePreview
<1>6. worker' = [worker EXCEPT ![w].pc = "preview", ![w].prev = p, ![w].gen = g] BY <1>2
<1> HIDE DEF g
<1>7. previews' = [previews EXCEPT ![p] = n] BY <1>3, <1>5 DEF Types, Rows
<1>8. worker' = [worker EXCEPT ![w] = m] BY <1>3, <1>6 DEF Types, Rows
<1>9. n \in PreviewRow /\ n.st \in OpenPreview BY <1>3, <1>4 DEF PreviewRow, OpenPreview
<1>10. m \in WorkerRow /\ m.pc = "preview" /\ m.prev = p BY <1>3, <1>4 DEF WorkerRow, WorkerSteps
<1> HIDE DEF n, m
<1>11. WorkerKind BY <1>8, <1>10, StepKinds, SetWorker
<1>12. PreviewsKind BY <1>7, <1>9, OnePreview
<1> QED BY <1>1, <1>11, <1>12, PreviewsStep

LEMMA PreviewCounted ==
    ASSUME Types, NEW w \in Workers, CountPreview(w)
    PROVE  Types' /\ Steps
<1>1. UNCHANGED <<previews, runs, items, pins, notices>> BY DEF CountPreview, rest
<1>2. PICK p \in {"previewReady", "previewFailed"} : Goto(w, p) BY DEF CountPreview
<1> DEFINE n == [worker[w] EXCEPT !.pc = p]
<1>3. n \in WorkerRow /\ n.pc = p /\ n.prev = worker[w].prev BY DEF Types, Rows, WorkerRow, WorkerSteps
<1>4. worker' = [worker EXCEPT ![w] = n] BY <1>2 DEF Goto
<1>5. worker[w].prev \in PreviewIds BY DEF Types, Busy, CountPreview, At
<1> HIDE DEF n
<1>6. p \notin ItemSteps BY StepKinds
<1>7. WorkerKind BY <1>3, <1>4, <1>5, <1>6, SetWorker
<1> QED BY <1>1, <1>7, QuietStep

LEMMA PreviewFinished ==
    ASSUME Types, NEW w \in Workers, FinishPreview(w)
    PROVE  Types' /\ Steps
<1>1. UNCHANGED <<runs, items, pins, notices>> BY DEF FinishPreview
<1>2. WorkerKind BY Returned DEF FinishPreview
<1>3. PICK st \in {"READY", "FAILED"} : EndPreview(worker[w].prev, worker[w].gen, st)
  BY DEF FinishPreview, CompleteRestorePreview, FailRestorePreview
<1>4. worker[w].prev \in PreviewIds BY DEF Types, Busy, FinishPreview, At
<1>5. PICK p \in PreviewIds : p = worker[w].prev BY <1>4
<1> DEFINE b == (st = "READY")
           n == [previews[p] EXCEPT !.st = st, !.fresh = TRUE, !.creds = b]
<1>6. previews[p] \in PreviewRow BY DEF Types, Rows
<1>7. b \in BOOLEAN /\ (b \/ st \notin OpenPreview) /\ (st = "READY" => st \in OpenPreview) BY DEF OpenPreview
<1>8. previews' = previews \/ previews' = [previews EXCEPT ![p].st = st, ![p].fresh = TRUE, ![p].creds = b]
  BY <1>3, <1>5 DEF EndPreview
<1>9. st \in {"FAILED"} \cup OpenPreview /\ (st \notin OpenPreview => ~b) BY DEF OpenPreview
<1> HIDE DEF b
<1>10. previews' = previews \/ previews' = [previews EXCEPT ![p] = n] BY <1>6, <1>8 DEF Types, Rows
<1>11. n \in PreviewRow /\ n.st = st /\ n.creds = b BY <1>6, <1>7, <1>9 DEF PreviewRow
<1> HIDE DEF n
<1>12. CASE previews' = previews BY <1>1, <1>2, <1>12, QuietStep
<1>13. CASE previews' = [previews EXCEPT ![p] = n]
  <2>1. n.st \in OpenPreview \/ ~n.creds BY <1>9, <1>11
  <2>2. PreviewsKind BY <1>11, <1>13, <2>1, OnePreview
  <2> QED BY <1>1, <1>2, <2>2, PreviewsStep
<1> QED BY <1>10, <1>12, <1>13

LEMMA PreviewAged ==
    ASSUME Types, NEW p \in PreviewIds, NEW b \in BOOLEAN, previews' = [previews EXCEPT ![p].fresh = b],
           UNCHANGED <<runs, items, pins, notices, worker>>
    PROVE  Types' /\ Steps
<1> DEFINE n == [previews[p] EXCEPT !.fresh = b]
<1>1. n \in PreviewRow /\ n.st = previews[p].st /\ n.creds = previews[p].creds BY DEF Types, Rows, PreviewRow
<1>2. previews' = [previews EXCEPT ![p] = n] OBVIOUS
<1> HIDE DEF n
<1>3. PreviewsKind BY <1>1, <1>2, OnePreview
<1> QED BY <1>3, SameWorkers, PreviewsStep

LEMMA PreviewLeases ==
    ASSUME Types, (\E w \in Workers : HeartbeatPreview(w)) \/ (\E p \in PreviewIds : PreviewLapses(p))
    PROVE  Types' /\ Steps
<1>1. ASSUME NEW w \in Workers, HeartbeatPreview(w) PROVE Types' /\ Steps
  <2>1. worker[w].prev \in PreviewIds BY <1>1 DEF Types, Busy, HeartbeatPreview, At
  <2>2. previews' = [previews EXCEPT ![worker[w].prev].fresh = TRUE] BY <1>1 DEF HeartbeatPreview
  <2>3. UNCHANGED <<runs, items, pins, notices, worker>> BY <1>1 DEF HeartbeatPreview
  <2> QED BY <2>1, <2>2, <2>3, PreviewAged
<1>2. ASSUME NEW p \in PreviewIds, PreviewLapses(p) PROVE Types' /\ Steps
  <2>1. previews' = [previews EXCEPT ![p].fresh = FALSE] BY <1>2 DEF PreviewLapses
  <2>2. UNCHANGED <<runs, items, pins, notices, worker>> BY <1>2 DEF PreviewLapses
  <2> QED BY <2>1, <2>2, PreviewAged
<1> QED BY <1>1, <1>2

LEMMA PreviewsExpire ==
    ASSUME Types, NEW w \in Workers, PollExpire(w)
    PROVE  Types' /\ Steps
<1>1. UNCHANGED <<runs, items, pins, notices, worker>> BY DEF PollExpire
<1>2. previews' = [p \in PreviewIds |-> IF previews[p].st = "READY" /\ ~previews[p].fresh
                                        THEN ClosePreview(p, "EXPIRED") ELSE previews[p]]
  BY DEF PollExpire, ExpireRestorePreviews
<1>3. ASSUME NEW p \in PreviewIds
      PROVE  /\ previews'[p] \in PreviewRow
             /\ previews'[p] = previews[p] \/ ~previews'[p].creds
  BY <1>2, ClosedPreview DEF Types, Rows
<1>4. previews' \in [PreviewIds -> PreviewRow] BY <1>2, <1>3
<1>5. PreviewsKind BY <1>3, <1>4 DEF PreviewsKind, PreviewStep
<1> QED BY <1>1, <1>5, SameWorkers, PreviewsStep

-----------------------------------------------------------------------------
(* The steps that change runs. *)

RunsKind == /\ runs' \in [RunIds -> Run] /\ pins' \subseteq RunIds /\ notices' \in [RunIds -> Nat]
            /\ \A r \in RunIds : RunStep(r)

LEMMA RunsStep ==
    ASSUME Types, WorkerKind, PreviewsKind, ItemsKind, RunsKind
    PROVE  Types' /\ Steps
<1>1. Types' BY DEF Types, Rows, PreviewsKind, WorkerKind, ItemsKind, RunsKind
<1> QED BY <1>1 DEF Steps, PreviewsKind, RunsKind

LEMMA PreviewsStay ==
    ASSUME Types, UNCHANGED previews
    PROVE  PreviewsKind
BY SamePreviews DEF Types, Rows, PreviewsKind

(* One run changes, with its items, its pins and its notices.              *)
LEMMA OneRun ==
    ASSUME Types, NEW r \in RunIds, NEW n \in Run, NEW m \in Nat, runs' = [runs EXCEPT ![r] = n],
           notices' = [notices EXCEPT ![r] = m], pins' \in {pins, pins \cup {r}, pins \ {r}},
           \A q \in RunIds \ {r} : items'[q] = items[q],
           runs'[r] = n /\ notices'[r] = m => RunStep(r)
    PROVE  RunsKind
<1>1. /\ runs' \in [RunIds -> Run] /\ pins' \subseteq RunIds /\ notices' \in [RunIds -> Nat]
      /\ runs'[r] = n /\ notices'[r] = m
      /\ \A q \in RunIds \ {r} : runs'[q] = runs[q] /\ notices'[q] = notices[q] /\ (q \in pins' <=> q \in pins)
  BY DEF Types, Rows
<1>2. ASSUME NEW q \in RunIds \ {r} PROVE Works(q)
  <2>1. ItemsMove(q) BY DEF ItemsMove, ItemMoves
  <2> QED BY <1>1, <2>1 DEF Works, PinSame, NoticeSame
<1>3. RunStep(r) BY <1>1
<1> QED BY <1>1, <1>2, <1>3 DEF RunsKind, RunStep

LEMMA NoticesStay ==
    ASSUME Types, NEW r \in RunIds, UNCHANGED notices
    PROVE  notices[r] \in Nat /\ notices' = [notices EXCEPT ![r] = notices[r]]
BY DEF Types, Rows

(* A run whose items stay.                                                 *)
LEMMA RowOfRun ==
    ASSUME Types, NEW r \in RunIds, NEW n \in Run, runs' = [runs EXCEPT ![r] = n], WorkerKind, PreviewsKind,
           UNCHANGED <<items, pins, notices>>,
           \/ runs[r].st \in Open /\ n.st = runs[r].st
           \/ runs[r].st \in {"NONE", "QUEUED", "PLANNING"} /\ n.st \in {"QUEUED", "PLANNING"}
    PROVE  Types' /\ Steps
<1>1. notices[r] \in Nat /\ notices' = [notices EXCEPT ![r] = notices[r]] BY NoticesStay
<1>2. ItemsSame(r) BY SameItems
<1>3. runs'[r] = n => Touches(r) \/ Queues(r) BY <1>2 DEF Touches, Queues, PinSame, NoticeSame
<1>4. RunsKind BY <1>1, <1>3, OneRun DEF RunStep
<1>5. ItemsKind BY UnchangedItems
<1> QED BY <1>4, <1>5, RunsStep

LEMMA ClosedRun ==
    ASSUME Types, NEW r \in RunIds, NEW st \in Closed
    PROVE  \E n \in Run : n.st = st /\ ~n.creds /\ CloseRun(r, st) = [runs EXCEPT ![r] = n] /\ CloseRun(r, st)[r] = n
<1> DEFINE n == [runs[r] EXCEPT !.st = st, !.creds = FALSE]
<1>1. runs[r] \in Run BY DEF Types, Rows
<1>2. n \in Run /\ n.st = st /\ ~n.creds BY <1>1 DEF Run
<1>3. CloseRun(r, st) = [runs EXCEPT ![r] = n] BY <1>1 DEF CloseRun, Types, Rows
<1> HIDE DEF n
<1>4. CloseRun(r, st)[r] = n BY <1>3 DEF Types, Rows
<1> QED BY <1>2, <1>3, <1>4

LEMMA RunPoll ==
    ASSUME Types, NEW w \in Workers, PollRun(w)
    PROVE  Types' /\ Steps
<1>1. UNCHANGED <<previews, items, pins, notices>> BY DEF PollRun
<1>2. PICK r \in RunIds :
         /\ ClaimNextQueuedRestoreRun(r)
         /\ worker' = [worker EXCEPT ![w].pc = "plan", ![w].run = r]
  BY DEF PollRun
<1> DEFINE n == [runs[r] EXCEPT !.st = "PLANNING", !.fresh = TRUE]
           m == [worker[w] EXCEPT !.pc = "plan", !.run = r]
<1>3. runs[r] \in Run /\ worker[w] \in WorkerRow /\ r \in Nat BY RestoreAssumption DEF Types, Rows, RunIds
<1>4. runs' = [runs EXCEPT ![r] = n] BY <1>2, <1>3 DEF ClaimNextQueuedRestoreRun, Types, Rows
<1>5. worker' = [worker EXCEPT ![w] = m] BY <1>2, <1>3 DEF Types, Rows
<1>6. n \in Run /\ n.st = "PLANNING" BY <1>3 DEF Run, Open
<1>7. m \in WorkerRow /\ m.pc = "plan" /\ m.run = r BY <1>3 DEF WorkerRow, WorkerSteps
<1> HIDE DEF n, m
<1>8. WorkerKind BY <1>5, <1>7, StepKinds, SetWorker
<1>9. runs[r].st = "QUEUED" BY <1>2 DEF ClaimNextQueuedRestoreRun
<1>10. PreviewsKind BY <1>1, PreviewsStay
<1> QED BY <1>1, <1>4, <1>6, <1>8, <1>9, <1>10, RowOfRun

LEMMA RunPlanned ==
    ASSUME Types, NEW w \in Workers, Plan(w)
    PROVE  Types' /\ Steps
<1>1. UNCHANGED <<previews, notices>> /\ worker[w].pc = "plan" BY DEF Plan, At
<1>2. PICK r \in RunIds : r = worker[w].run BY <1>1 DEF Types, Busy
<1>3. CASE CanPlan(r) /\ PlanRestoreRun(r) /\ Return(w)
  <2>0. PICK missing \in SUBSET Files :
          items' = [items EXCEPT ![r] = [i \in Items |-> IF i \in missing THEN Unavailable ELSE Planned]]
    BY <1>3 DEF PlanRestoreRun
  <2> DEFINE n == [runs[r] EXCEPT !.st = "RUNNING"]
             f == [i \in Items |-> IF i \in missing THEN Unavailable ELSE Planned]
  <2>1. runs[r] \in Run BY DEF Types, Rows
  <2>2. runs' = [runs EXCEPT ![r] = n] BY <1>3 DEF PlanRestoreRun
  <2>3. n \in Run /\ n.st = "RUNNING" BY <2>1 DEF Run, Open
  <2>4. /\ Planned \in ItemRow /\ Planned.st = "PENDING"
        /\ Unavailable \in ItemRow /\ Unavailable.st = "SKIPPED"
    BY DEF Planned, Unavailable, NoRow, ItemRow, ItemStates
  <2>5. items' = [items EXCEPT ![r] = f] BY <2>0
  <2>6. f \in [Items -> ItemRow] /\ \A i \in Items : f[i].st \in {"PENDING", "SKIPPED"} BY <2>4
  <2> HIDE DEF n, f
  <2>7. ItemsKind /\ items'[r] = f /\ \A q \in RunIds \ {r} : items'[q] = items[q]
    BY <2>5, <2>6 DEF Types, Rows, ItemsKind
  <2>8. notices[r] \in Nat /\ notices' = [notices EXCEPT ![r] = notices[r]] BY <1>1, NoticesStay
  <2>9. pins' = pins \cup {r} /\ runs[r].st = "PLANNING" BY <1>3 DEF PlanRestoreRun, CanPlan
  <2>10. runs'[r] = n => Plans(r) BY <1>1, <2>3, <2>6, <2>7, <2>9 DEF Plans, NoticeSame
  <2>11. RunsKind BY <2>2, <2>3, <2>7, <2>8, <2>9, <2>10, OneRun DEF RunStep
  <2>12. WorkerKind BY <1>3, Returned
  <2>13. PreviewsKind BY <1>1, PreviewsStay
  <2> QED BY <2>7, <2>11, <2>12, <2>13, RunsStep
<1>4. CASE Goto(w, "failPlan") /\ UNCHANGED <<items, runs, pins>>
  <2> DEFINE m == [worker[w] EXCEPT !.pc = "failPlan"]
  <2>1. m \in WorkerRow /\ m.pc = "failPlan" /\ m.run = r BY <1>2 DEF Types, Rows, WorkerRow, WorkerSteps
  <2>2. worker' = [worker EXCEPT ![w] = m] BY <1>4 DEF Goto
  <2> HIDE DEF m
  <2>3. WorkerKind BY <2>1, <2>2, StepKinds, SetWorker
  <2> QED BY <1>1, <1>4, <2>3, QuietStep
<1> QED BY <1>2, <1>3, <1>4 DEF Plan

LEMMA PlanFailed ==
    ASSUME Types, NEW w \in Workers, FailPlan(w)
    PROVE  Types' /\ Steps
<1>1. UNCHANGED <<previews, items, pins>> /\ worker[w].pc = "failPlan" BY DEF FailPlan, At
<1>2. PICK r \in RunIds : r = worker[w].run BY <1>1 DEF Types, Busy
<1>3. WorkerKind BY Returned DEF FailPlan
<1>4. CASE runs[r].st = "PLANNING"
  <2>1. runs' = CloseRun(r, "FAILED") /\ notices' = [notices EXCEPT ![r] = notices[r] + 1]
    BY <1>2, <1>4 DEF FailPlan, FailRestoreRunPlanning, Notify
  <2>2. PICK n \in Run : n.st = "FAILED" /\ ~n.creds /\ CloseRun(r, "FAILED") = [runs EXCEPT ![r] = n]
    BY ClosedRun DEF Closed
  <2>3. PICK m \in Nat : m = notices[r] + 1 BY DEF Types, Rows
  <2>4. ItemsSame(r) BY <1>1, SameItems
  <2>5. runs'[r] = n /\ notices'[r] = m => FailsToPlan(r) BY <1>1, <1>4, <2>2, <2>3, <2>4 DEF FailsToPlan, PinSame
  <2>6. runs' = [runs EXCEPT ![r] = n] /\ notices' = [notices EXCEPT ![r] = m] BY <2>1, <2>2, <2>3
  <2>7. RunsKind BY <1>1, <2>5, <2>6, OneRun DEF RunStep
  <2>8. PreviewsKind BY <1>1, PreviewsStay
  <2>9. ItemsKind BY <1>1, UnchangedItems
  <2> QED BY <1>3, <2>7, <2>8, <2>9, RunsStep
<1>5. CASE runs[r].st # "PLANNING"
  <2>1. UNCHANGED <<runs, notices>> BY <1>2, <1>5 DEF FailPlan, FailRestoreRunPlanning
  <2> QED BY <1>1, <1>3, <2>1, QuietStep
<1> QED BY <1>4, <1>5

LEMMA TargetConnected ==
    ASSUME Types, NEW w \in Workers, ConnectTarget(w)
    PROVE  Types' /\ Steps
<1>1. UNCHANGED <<previews, items, pins, notices>> BY DEF ConnectTarget
<1>2. worker[w].pc \in ItemSteps /\ {"reserve", "retry", "fail"} \subseteq ItemSteps
  BY DEF ConnectTarget, At, ItemSteps, FileSteps
<1>3. WorkerKind
  <2>1. Goto(w, "reserve") \/ Breaks(w) BY DEF ConnectTarget
  <2> QED BY <1>2, <2>1, WentOn, Broke
<1>4. PICK r \in RunIds : r = worker[w].run BY <1>2 DEF Types, Busy
<1>5. \/ runs' = runs
      \/ runs[r].st \in Open /\ runs' = [runs EXCEPT ![r].creds = TRUE]
  BY <1>4 DEF ConnectTarget, StoreSession
<1>6. CASE runs' = runs BY <1>1, <1>3, <1>6, QuietStep
<1>7. CASE runs[r].st \in Open /\ runs' = [runs EXCEPT ![r].creds = TRUE]
  <2> DEFINE n == [runs[r] EXCEPT !.creds = TRUE]
  <2>1. n \in Run /\ n.st = runs[r].st BY DEF Types, Rows, Run
  <2>2. runs' = [runs EXCEPT ![r] = n] BY <1>7
  <2> HIDE DEF n
  <2>3. PreviewsKind BY <1>1, PreviewsStay
  <2> QED BY <1>1, <1>3, <1>7, <2>1, <2>2, <2>3, RowOfRun
<1> QED BY <1>5, <1>6, <1>7

LEMMA RunLapse ==
    ASSUME Types, NEW r \in RunIds, RunLapses(r)
    PROVE  Types' /\ Steps
<1>1. UNCHANGED <<previews, items, pins, notices, worker>> /\ runs[r].st \in Open
  BY DEF RunLapses, Open
<1> DEFINE n == [runs[r] EXCEPT !.fresh = FALSE]
<1>2. n \in Run /\ n.st = runs[r].st BY DEF Types, Rows, Run
<1>3. runs' = [runs EXCEPT ![r] = n] BY DEF RunLapses
<1> HIDE DEF n
<1>4. PreviewsKind /\ WorkerKind BY <1>1, PreviewsStay, SameWorkers
<1> QED BY <1>1, <1>2, <1>3, <1>4, RowOfRun

LEMMA PreviewConsumed ==
    ASSUME Types, HandleConsumeRestorePreview
    PROVE  Types' /\ Steps
<1>1. UNCHANGED <<items, pins, notices, worker>> BY DEF HandleConsumeRestorePreview, others
<1>2. PICK p \in PreviewIds, r \in RunIds : ConsumeRestorePreview(p, r) BY DEF HandleConsumeRestorePreview
<1>3. previews' = [previews EXCEPT ![p] = ClosePreview(p, "CONSUMED")] BY <1>2 DEF ConsumeRestorePreview
<1>4. PreviewsKind BY <1>3, ClosedPreview, OnePreview
<1> DEFINE n == [st |-> "QUEUED", fresh |-> TRUE, creds |-> previews[p].creds]
<1>5. previews[p].creds \in BOOLEAN BY DEF Types, Rows, PreviewRow
<1>6. n \in Run /\ n.st = "QUEUED" BY <1>5 DEF Run, Open
<1>7. runs' = [runs EXCEPT ![r] = n] /\ runs[r].st = "NONE" BY <1>2 DEF ConsumeRestorePreview
<1> HIDE DEF n
<1>8. WorkerKind BY <1>1, SameWorkers
<1> QED BY <1>1, <1>4, <1>6, <1>7, <1>8, RowOfRun

LEMMA RunCancelled ==
    ASSUME Types, HandleCancelRestoreRun
    PROVE  Types' /\ Steps
<1>1. UNCHANGED <<previews, notices, worker>> BY DEF HandleCancelRestoreRun, others
<1>2. PICK r \in RunIds : CancelRestoreRun(r) BY DEF HandleCancelRestoreRun
<1>3. items' = CancelItems(r, {"PENDING"}) /\ runs[r].st \in {"QUEUED", "PLANNING", "RUNNING"}
  BY <1>2 DEF CancelRestoreRun
<1>4. /\ ItemsKind /\ \A q \in RunIds \ {r} : items'[q] = items[q]
      /\ \A i \in Items : items'[r][i].st = IF items[r][i].st = "PENDING" THEN "CANCELLED" ELSE items[r][i].st
  <2>1. /\ CancelItems(r, {"PENDING"}) \in [RunIds -> [Items -> ItemRow]]
        /\ \A q \in RunIds \ {r} : CancelItems(r, {"PENDING"})[q] = items[q]
        /\ \A i \in Items : CancelItems(r, {"PENDING"})[r][i].st =
                               IF items[r][i].st \in {"PENDING"} THEN "CANCELLED" ELSE items[r][i].st
    BY CancelledItems
  <2> QED BY <1>3, <2>1 DEF ItemsKind
<1>5. ItemsMove(r) BY <1>4 DEF ItemsMove, ItemMoves
<1>6. notices[r] \in Nat /\ notices' = [notices EXCEPT ![r] = notices[r]] BY <1>1, NoticesStay
<1>7. WorkerKind /\ PreviewsKind BY <1>1, SameWorkers, PreviewsStay
<1>8. RunsKind
  <2>1. CASE InState(r, {"RUNNING"}) = {}
    <3>1. runs' = CloseRun(r, "CANCELLED") /\ pins' = pins \ {r} BY <1>2, <2>1 DEF CancelRestoreRun
    <3>2. PICK n \in Run : n.st = "CANCELLED" /\ ~n.creds /\ CloseRun(r, "CANCELLED") = [runs EXCEPT ![r] = n]
      BY ClosedRun DEF Closed
    <3>3. InState(r, {"RUNNING"})' = {} BY <1>4, <2>1 DEF InState
    <3>4. runs'[r] = n => Cancels(r)
      BY <1>1, <1>3, <1>5, <3>1, <3>2, <3>3 DEF Cancels, NoticeSame, Open
    <3>5. runs' = [runs EXCEPT ![r] = n] BY <3>1, <3>2
    <3> QED BY <1>4, <1>6, <3>1, <3>4, <3>5, OneRun DEF RunStep
  <2>2. CASE InState(r, {"RUNNING"}) # {}
    <3> DEFINE n == [runs[r] EXCEPT !.st = "CANCELLING"]
    <3>1. runs' = [runs EXCEPT ![r] = n] /\ pins' = pins BY <1>2, <2>2 DEF CancelRestoreRun
    <3>2. n \in Run /\ n.st = "CANCELLING" BY DEF Types, Rows, Run, Open
    <3> HIDE DEF n
    <3>3. runs'[r] = n => StartsCancelling(r) BY <1>1, <1>3, <1>5, <3>2 DEF StartsCancelling, NoticeSame
    <3> QED BY <1>4, <1>6, <3>1, <3>2, <3>3, OneRun DEF RunStep
  <2> QED BY <2>1, <2>2
<1> QED BY <1>4, <1>7, <1>8, RunsStep

(* Statements over all runs of the job.                                    *)
LEMMA RunsFinalized ==
    ASSUME Types, NEW w \in Workers, PollFinalize(w)
    PROVE  Types' /\ Steps
<1>1. UNCHANGED <<previews, items, worker>> BY DEF PollFinalize
<1> DEFINE ended == {r \in RunIds : Drained(r)}
<1>2. /\ runs' = [r \in RunIds |-> IF r \in ended THEN CloseRun(r, OutcomeOf(r))[r] ELSE runs[r]]
      /\ pins' = pins \ ended
      /\ notices' = [r \in RunIds |-> IF r \in ended THEN notices[r] + 1 ELSE notices[r]]
  BY DEF PollFinalize, FinalizeCompletedRestoreRuns
<1>3. ASSUME NEW r \in RunIds PROVE runs'[r] \in Run /\ notices'[r] \in Nat /\ RunStep(r)
  <2>1. ItemsSame(r) /\ ItemsMove(r) BY <1>1, SameItems
  <2>2. notices[r] \in Nat /\ runs[r] \in Run BY DEF Types, Rows
  <2>3. CASE Drained(r)
    <3>1. OutcomeOf(r) \in Closed BY DEF OutcomeOf, Closed
    <3>2. PICK n \in Run : n.st = OutcomeOf(r) /\ ~n.creds /\ CloseRun(r, OutcomeOf(r))[r] = n
      BY <3>1, ClosedRun
    <3>3. runs'[r] = n /\ notices'[r] = notices[r] + 1 /\ r \notin pins' BY <1>2, <2>3, <3>2
    <3>4. Finishes(r) BY <2>1, <2>3, <3>2, <3>3 DEF Finishes
    <3> QED BY <2>2, <3>3, <3>4 DEF RunStep
  <2>4. CASE ~Drained(r)
    <3>1. runs'[r] = runs[r] /\ notices'[r] = notices[r] /\ (r \in pins' <=> r \in pins) BY <1>2, <2>4
    <3>2. Works(r) BY <2>1, <3>1 DEF Works, PinSame, NoticeSame
    <3> QED BY <2>2, <3>1, <3>2 DEF RunStep
  <2> QED BY <2>3, <2>4
<1>4. runs' \in [RunIds -> Run] BY <1>2, <1>3
<1>5. notices' \in [RunIds -> Nat] BY <1>2, <1>3
<1>6. pins' \subseteq RunIds BY <1>2 DEF Types, Rows
<1>7. RunsKind BY <1>3, <1>4, <1>5, <1>6 DEF RunsKind
<1> QED BY <1>1, <1>7, SameWorkers, PreviewsStay, UnchangedItems, RunsStep

LEMMA CancellingFinalized ==
    ASSUME Types, NEW w \in Workers, PollFinalizeCancelling(w)
    PROVE  Types' /\ Steps
<1>1. UNCHANGED <<previews, items, worker, notices>> BY DEF PollFinalizeCancelling
<1> DEFINE ended == {r \in RunIds : runs[r].st = "CANCELLING" /\ InState(r, {"RUNNING"}) = {}}
<1>2. /\ runs' = [r \in RunIds |-> IF r \in ended THEN CloseRun(r, "CANCELLED")[r] ELSE runs[r]]
      /\ pins' = pins \ ended
  BY DEF PollFinalizeCancelling, FinalizeCancellingRestoreRuns
<1>3. ASSUME NEW r \in RunIds PROVE runs'[r] \in Run /\ RunStep(r)
  <2>1. ItemsSame(r) /\ ItemsMove(r) BY <1>1, SameItems
  <2>2. runs[r] \in Run BY DEF Types, Rows
  <2>3. CASE r \in ended
    <3>1. PICK n \in Run : n.st = "CANCELLED" /\ ~n.creds /\ CloseRun(r, "CANCELLED")[r] = n
      BY ClosedRun DEF Closed
    <3>2. runs'[r] = n /\ r \notin pins' BY <1>2, <2>3, <3>1
    <3>3. InState(r, {"RUNNING"})' = {} BY <1>1, <2>3 DEF InState
    <3>4. Cancels(r) BY <1>1, <2>1, <2>3, <3>1, <3>2, <3>3 DEF Cancels, NoticeSame, Open
    <3> QED BY <3>2, <3>4 DEF RunStep
  <2>4. CASE r \notin ended
    <3>1. runs'[r] = runs[r] /\ (r \in pins' <=> r \in pins) BY <1>2, <2>4
    <3>2. Works(r) BY <1>1, <2>1, <3>1 DEF Works, PinSame, NoticeSame
    <3> QED BY <2>2, <3>1, <3>2 DEF RunStep
  <2> QED BY <2>3, <2>4
<1>4. runs' \in [RunIds -> Run] BY <1>2, <1>3
<1>5. notices' \in [RunIds -> Nat] /\ pins' \subseteq RunIds BY <1>1, <1>2 DEF Types, Rows
<1>6. RunsKind BY <1>3, <1>4, <1>5 DEF RunsKind
<1> QED BY <1>1, <1>6, SameWorkers, PreviewsStay, UnchangedItems, RunsStep

LEMMA PlanningRecovered ==
    ASSUME Types, NEW w \in Workers, PollRecoverPlanning(w)
    PROVE  Types' /\ Steps
<1>1. UNCHANGED <<items, worker, notices, pins>> BY DEF PollRecoverPlanning
<1>2. /\ previews' = [p \in PreviewIds |-> IF previews[p].st = "RUNNING" /\ ~previews[p].fresh
                                           THEN [previews[p] EXCEPT !.st = "QUEUED"] ELSE previews[p]]
      /\ runs' = [r \in RunIds |-> IF runs[r].st = "PLANNING" /\ ~runs[r].fresh
                                   THEN [runs[r] EXCEPT !.st = "QUEUED"] ELSE runs[r]]
  BY DEF PollRecoverPlanning, RecoverStaleRestorePlanning
<1>3. ASSUME NEW p \in PreviewIds
      PROVE  previews'[p] \in PreviewRow /\ (previews'[p] = previews[p] \/ previews'[p].st = "QUEUED")
  <2>1. previews[p] \in PreviewRow BY DEF Types, Rows
  <2>2. [previews[p] EXCEPT !.st = "QUEUED"] \in PreviewRow /\ [previews[p] EXCEPT !.st = "QUEUED"].st = "QUEUED"
    BY <2>1 DEF PreviewRow, OpenPreview
  <2> QED BY <1>2, <2>1, <2>2
<1>4. PreviewsKind
  <2>1. previews' \in [PreviewIds -> PreviewRow] BY <1>2, <1>3
  <2> QED BY <1>3, <2>1 DEF PreviewsKind, PreviewStep, OpenPreview
<1>5. ASSUME NEW r \in RunIds PROVE runs'[r] \in Run /\ RunStep(r)
  <2>1. ItemsSame(r) /\ ItemsMove(r) BY <1>1, SameItems
  <2>2. runs[r] \in Run BY DEF Types, Rows
  <2>3. [runs[r] EXCEPT !.st = "QUEUED"] \in Run /\ [runs[r] EXCEPT !.st = "QUEUED"].st = "QUEUED"
    BY <2>2 DEF Run, Open
  <2>4. CASE runs[r].st = "PLANNING" /\ ~runs[r].fresh
    <3>1. runs'[r] = [runs[r] EXCEPT !.st = "QUEUED"] BY <1>2, <2>4
    <3>2. Queues(r) BY <1>1, <2>1, <2>3, <2>4, <3>1 DEF Queues, PinSame, NoticeSame
    <3> QED BY <2>3, <3>1, <3>2 DEF RunStep
  <2>5. CASE ~(runs[r].st = "PLANNING" /\ ~runs[r].fresh)
    <3>1. runs'[r] = runs[r] BY <1>2, <2>5
    <3>2. Works(r) BY <1>1, <2>1, <3>1 DEF Works, PinSame, NoticeSame
    <3> QED BY <2>2, <3>1, <3>2 DEF RunStep
  <2> QED BY <2>4, <2>5
<1>6. RunsKind
  <2>1. runs' \in [RunIds -> Run] BY <1>2, <1>5
  <2> QED BY <1>1, <1>5, <2>1 DEF RunsKind, Types, Rows
<1> QED BY <1>1, <1>4, <1>6, SameWorkers, UnchangedItems, RunsStep

LEMMA JobDeleted ==
    ASSUME Inv, HandleDeleteRestoreJob
    PROVE  Types' /\ Steps
<1>0. Types BY DEF Inv
<1>1. UNCHANGED <<previews, worker, notices>> BY DEF HandleDeleteRestoreJob, others
<1>2. /\ runs' = [r \in RunIds |-> IF runs[r].st = "NONE" THEN runs[r] ELSE [NoRun EXCEPT !.st = "GONE"]]
      /\ items' = [r \in RunIds |-> [i \in Items |-> NoRow]]
      /\ pins' = {} /\ \A r \in RunIds : runs[r].st \notin Open
  BY DEF HandleDeleteRestoreJob, DeleteRestoreJob, HasOpenRun
<1>3. NoRow \in ItemRow /\ NoRow.st = "NONE" BY DEF NoRow, ItemRow, ItemStates
<1>4. ItemsKind /\ \A r \in RunIds, i \in Items : items'[r][i].st = "NONE" BY <1>2, <1>3 DEF ItemsKind
<1>5. [NoRun EXCEPT !.st = "GONE"] \in Run /\ [NoRun EXCEPT !.st = "GONE"].st = "GONE" BY DEF NoRun, Run
<1>6. ASSUME NEW r \in RunIds PROVE runs'[r] \in Run /\ RunStep(r)
  <2>1. runs[r] \in Run BY <1>0 DEF Types, Rows
  <2>2. CASE runs[r].st = "NONE"
    <3>1. runs'[r] = runs[r] BY <1>2, <2>2
    <3>2. r \notin pins /\ \A i \in Items : items[r][i].st = "NONE" BY <2>2 DEF Inv, RunInv
    <3>3. ItemsMove(r) BY <1>4, <3>2 DEF ItemsMove, ItemMoves
    <3>4. Works(r) BY <1>1, <1>2, <3>1, <3>2, <3>3 DEF Works, PinSame, NoticeSame
    <3> QED BY <2>1, <3>1, <3>4 DEF RunStep
  <2>3. CASE runs[r].st # "NONE"
    <3>1. runs'[r] = [NoRun EXCEPT !.st = "GONE"] BY <1>2, <2>3
    <3>2. Goes(r) BY <1>2, <1>4, <1>5, <2>3, <3>1 DEF Goes
    <3> QED BY <1>5, <3>1, <3>2 DEF RunStep
  <2> QED BY <2>2, <2>3
<1>7. RunsKind
  <2>1. runs' \in [RunIds -> Run] BY <1>2, <1>6
  <2> QED BY <1>0, <1>1, <1>2, <1>6, <2>1 DEF RunsKind, Types, Rows
<1> QED BY <1>0, <1>1, <1>4, <1>7, SameWorkers, PreviewsStay, RunsStep

LEMMA OwnerSuspended ==
    ASSUME Inv, SuspendUser
    PROVE  Types' /\ Steps
<1>0. Types BY DEF Inv
<1>1. UNCHANGED <<worker, notices>> BY DEF SuspendUser, others
<1>2. /\ previews' = [p \in PreviewIds |-> IF previews[p].st \in OpenPreview
                                           THEN ClosePreview(p, "CANCELLED") ELSE previews[p]]
      /\ runs' = [r \in RunIds |-> IF runs[r].st \in Open THEN CloseRun(r, "CANCELLED")[r] ELSE runs[r]]
      /\ items' = [r \in RunIds |-> CancelItems(r, {"PENDING", "RUNNING"})[r]]
      /\ pins' = {r \in pins : runs[r].st \notin Open \cup {"CANCELLED"}}
  BY DEF SuspendUser, SuspendRestores
<1>3. PreviewsKind
  <2>1. ASSUME NEW p \in PreviewIds
        PROVE  /\ previews'[p] \in PreviewRow
               /\ previews'[p] = previews[p] \/ ~previews'[p].creds
    BY <1>0, <1>2, ClosedPreview DEF Types, Rows
  <2>2. previews' \in [PreviewIds -> PreviewRow] BY <1>2, <2>1
  <2> QED BY <2>1, <2>2 DEF PreviewsKind, PreviewStep
<1>4. ASSUME NEW r \in RunIds
      PROVE  /\ items'[r] \in [Items -> ItemRow]
             /\ \A i \in Items : items'[r][i].st =
                    IF items[r][i].st \in {"PENDING", "RUNNING"} THEN "CANCELLED" ELSE items[r][i].st
  <2>1. items'[r] = CancelItems(r, {"PENDING", "RUNNING"})[r] BY <1>2
  <2>2. /\ CancelItems(r, {"PENDING", "RUNNING"})[r] \in [Items -> ItemRow]
        /\ \A i \in Items : CancelItems(r, {"PENDING", "RUNNING"})[r][i].st =
                               IF items[r][i].st \in {"PENDING", "RUNNING"} THEN "CANCELLED" ELSE items[r][i].st
    BY <1>0, CancelledItems
  <2> QED BY <2>1, <2>2
<1>5. ItemsKind BY <1>2, <1>4 DEF ItemsKind
<1>6. ASSUME NEW r \in RunIds PROVE runs'[r] \in Run /\ RunStep(r)
  <2>1. runs[r] \in Run BY <1>0 DEF Types, Rows
  <2>2. ItemsMove(r) /\ InState(r, {"RUNNING"})' = {}
    BY <1>4 DEF ItemsMove, ItemMoves, InState
  <2>3. CASE runs[r].st \in Open
    <3>1. PICK n \in Run : n.st = "CANCELLED" /\ ~n.creds /\ CloseRun(r, "CANCELLED")[r] = n
      BY <1>0, ClosedRun DEF Closed
    <3>2. runs'[r] = n /\ r \notin pins' BY <1>2, <2>3, <3>1
    <3>3. Cancels(r) BY <1>1, <2>2, <2>3, <3>1, <3>2 DEF Cancels, NoticeSame
    <3> QED BY <3>2, <3>3 DEF RunStep
  <2>4. CASE runs[r].st \notin Open
    <3>1. runs'[r] = runs[r] BY <1>2, <2>4
    <3>2. runs[r].st = "CANCELLED" => r \notin pins BY DEF Inv, RunInv, Closed
    <3>3. PinSame(r) BY <1>2, <2>4, <3>2 DEF PinSame
    <3>4. Works(r) BY <1>1, <2>2, <3>1, <3>3 DEF Works, NoticeSame
    <3> QED BY <2>1, <3>1, <3>4 DEF RunStep
  <2> QED BY <2>3, <2>4
<1>7. RunsKind
  <2>1. runs' \in [RunIds -> Run] BY <1>2, <1>6
  <2> QED BY <1>0, <1>1, <1>2, <1>6, <2>1 DEF RunsKind, Types, Rows
<1> QED BY <1>0, <1>1, <1>3, <1>5, <1>7, SameWorkers, RunsStep

-----------------------------------------------------------------------------
(* Every step is one of these. *)

LEMMA NextStep ==
    ASSUME Inv, [Next]_vars
    PROVE  Types' /\ Steps
<1>0. Types BY DEF Inv
<1>1. CASE UNCHANGED vars
  <2>1. UNCHANGED <<previews, runs, items, pins, notices, worker>> BY <1>1 DEF vars, storeVars
  <2> QED BY <1>0, <2>1, SameWorkers, QuietStep
<1>2. ASSUME NEW w \in Workers, WorkerStep(w) PROVE Types' /\ Steps
  <2>1. CASE \/ LoadTarget(w) \/ Upload(w) \/ DropBackup(w) \/ SetAside(w) \/ SwapIn(w) \/ PutBack(w)
             \/ DropAside(w) \/ VerifyTarget(w) \/ ReplaceByDirectory(w) \/ CreateDirectory(w)
    BY <1>0, <2>1, FileSteps1
  <2>2. CASE PollRecoverItems(w) \/ PollSkipBlocked(w) \/ HeartbeatItem(w) BY <1>0, <2>2, ItemPolls
  <2>3. CASE PollItem(w) BY <1>0, <2>3, ItemPoll
  <2>4. CASE Complete(w) \/ ApplyMetadata(w) \/ Retry(w) \/ FailItem(w) BY <1>0, <2>4, OutcomeSteps
  <2>5. CASE InspectTarget(w) \/ InspectDirectory(w) BY <1>0, <2>5, InspectSteps
  <2>6. CASE ReservePath(w) \/ RenameTarget(w) BY <1>0, <2>6, PathSteps
  <2>7. CASE PollExpire(w) BY <1>0, <2>7, PreviewsExpire
  <2>8. CASE PollPreview(w) BY <1>0, <2>8, PreviewPoll
  <2>9. CASE CountPreview(w) BY <1>0, <2>9, PreviewCounted
  <2>10. CASE FinishPreview(w) BY <1>0, <2>10, PreviewFinished
  <2>11. CASE HeartbeatPreview(w) BY <1>0, <2>11, PreviewLeases
  <2>12. CASE PollRecoverPlanning(w) BY <1>0, <2>12, PlanningRecovered
  <2>13. CASE PollRun(w) BY <1>0, <2>13, RunPoll
  <2>14. CASE Plan(w) BY <1>0, <2>14, RunPlanned
  <2>15. CASE FailPlan(w) BY <1>0, <2>15, PlanFailed
  <2>16. CASE PollFinalize(w) BY <1>0, <2>16, RunsFinalized
  <2>17. CASE PollFinalizeCancelling(w) BY <1>0, <2>17, CancellingFinalized
  <2>18. CASE ConnectTarget(w) BY <1>0, <2>18, TargetConnected
  <2>19. CASE Crash(w) BY <1>0, <2>19, CrashStep
  <2> QED BY <1>2, <2>1, <2>2, <2>3, <2>4, <2>5, <2>6, <2>7, <2>8, <2>9, <2>10, <2>11, <2>12, <2>13, <2>14,
             <2>15, <2>16, <2>17, <2>18, <2>19 DEF WorkerStep, WorkerNext
<1>3. CASE TimePasses
  <2>1. ASSUME NEW r \in RunIds, RunLapses(r) PROVE Types' /\ Steps BY <1>0, <2>1, RunLapse
  <2>2. ASSUME NEW r \in RunIds, NEW i \in Items, ItemLapses(r, i) PROVE Types' /\ Steps BY <1>0, <2>2, ItemLapse
  <2>3. CASE \E p \in PreviewIds : PreviewLapses(p) BY <1>0, <2>3, PreviewLeases
  <2> QED BY <1>3, <2>1, <2>2, <2>3 DEF TimePasses
<1>4. CASE Users
  <2>1. CASE HandleCreateRestorePreview \/ HandleCancelRestorePreview BY <1>0, <2>1, PreviewHandlers
  <2>2. CASE HandleConsumeRestorePreview BY <1>0, <2>2, PreviewConsumed
  <2>3. CASE HandleCancelRestoreRun BY <1>0, <2>3, RunCancelled
  <2>4. CASE HandleDeleteRestoreJob BY <2>4, JobDeleted
  <2>5. CASE SuspendUser BY <2>5, OwnerSuspended
  <2> QED BY <1>4, <2>1, <2>2, <2>3, <2>4, <2>5 DEF Users
<1>5. CASE SnapshotGoes
  <2>1. UNCHANGED <<previews, runs, items, pins, notices, worker>> BY <1>5 DEF SnapshotGoes, rowVars
  <2> QED BY <1>0, <2>1, SameWorkers, QuietStep
<1> QED BY <1>1, <1>2, <1>3, <1>4, <1>5 DEF Next

LEMMA Initially == Init => Inv
<1> SUFFICES ASSUME Init PROVE Inv OBVIOUS
<1>1. /\ previews = [p \in PreviewIds |-> NoPreview]
      /\ runs = [r \in RunIds |-> IF Boot = "planned" /\ r = 1
                                  THEN [st |-> "RUNNING", fresh |-> FALSE, creds |-> TRUE] ELSE NoRun]
      /\ items = [r \in RunIds |-> [i \in Items |-> IF Boot = "planned" /\ r = 1 THEN Planned ELSE NoRow]]
      /\ pins = IF Boot = "planned" THEN {1} ELSE {}
      /\ notices = [r \in RunIds |-> 0]
      /\ worker = [w \in Workers |-> Idle]
  BY DEF Init, StoreInit, WorkerInit
<1>2. NoPreview \in PreviewRow /\ NoPreview.st = "NONE" /\ ~NoPreview.creds BY DEF NoPreview, PreviewRow
<1>3. /\ NoRun \in Run /\ NoRun.st = "NONE"
      /\ [st |-> "RUNNING", fresh |-> FALSE, creds |-> TRUE] \in Run
  BY DEF NoRun, Run, Open
<1>4. NoRow \in ItemRow /\ NoRow.st = "NONE" /\ Planned \in ItemRow /\ Planned.st = "PENDING"
  BY DEF NoRow, Planned, ItemRow, ItemStates
<1>5. 1 \in RunIds BY RestoreAssumption DEF RunIds
<1>6. Types
  <2>1. previews \in [PreviewIds -> PreviewRow] /\ notices \in [RunIds -> Nat] /\ pins \subseteq RunIds
    BY <1>1, <1>2, <1>5
  <2>2. runs \in [RunIds -> Run] BY <1>1, <1>3
  <2>3. items \in [RunIds -> [Items -> ItemRow]] BY <1>1, <1>4
  <2>4. worker \in [Workers -> WorkerRow] /\ \A w \in Workers : Busy(w)
    BY <1>1, IdleRow, StepKinds DEF Busy
  <2> QED BY <2>1, <2>2, <2>3, <2>4 DEF Types, Rows
<1>7. ASSUME NEW r \in RunIds PROVE RunInv(r)
  <2>1. CASE Boot = "planned" /\ r = 1
    <3>1. runs[r].st = "RUNNING" /\ \A i \in Items : items[r][i].st = "PENDING" BY <1>1, <1>4, <2>1
    <3>2. notices[r] = 0 BY <1>1
    <3> QED BY <3>1, <3>2 DEF RunInv, Closed
  <2>2. CASE ~(Boot = "planned" /\ r = 1)
    <3>1. runs[r].st = "NONE" /\ r \notin pins /\ \A i \in Items : items[r][i].st = "NONE"
      BY <1>1, <1>3, <1>4, <2>2
    <3>2. notices[r] = 0 BY <1>1
    <3> QED BY <3>1, <3>2 DEF RunInv, Closed
  <2> QED BY <2>1, <2>2
<1>8. \A p \in PreviewIds : PreviewInv(p) BY <1>1, <1>2 DEF PreviewInv
<1> QED BY <1>6, <1>7, <1>8 DEF Inv

LEMMA InvKept ==
    ASSUME Inv, [Next]_vars
    PROVE  Inv'
<1>1. Types' /\ Steps BY NextStep
<1>2. Rows /\ Rows' BY <1>1 DEF Inv, Types
<1>3. ASSUME NEW r \in RunIds PROVE RunInv(r)' BY <1>1, <1>2, RunKept DEF Inv, Steps
<1>4. ASSUME NEW p \in PreviewIds PROVE PreviewInv(p)' BY <1>1, PreviewKept DEF Inv, Steps
<1> QED BY <1>1, <1>3, <1>4 DEF Inv

(***************************************************************************)
(* Every run and preview holds what its state says (Inv), in every         *)
(* reachable state.                                                        *)
(***************************************************************************)
THEOREM RowsConsistent == Spec => []Inv
<1>1. Init => Inv BY Initially
<1>2. Inv /\ [Next]_vars => Inv' BY InvKept
<1> QED BY <1>1, <1>2, PTL DEF Spec

(***************************************************************************)
(* A run that ended keeps no credentials, no pins and no item at work, and *)
(* a preview that ended keeps no credentials.                              *)
(***************************************************************************)
THEOREM ClosedRunsAreEmpty == Spec => []ClosedRunHoldsNothing
<1>1. Inv => ClosedRunHoldsNothing
  BY DEF Inv, RunInv, PreviewInv, ClosedRunHoldsNothing, InState
<1> QED BY <1>1, RowsConsistent, PTL

(***************************************************************************)
(* The outcome of a run is what its items say, and one notification was    *)
(* created for it.                                                         *)
(***************************************************************************)
THEOREM OutcomesMatch == Spec => []OutcomeMatchesItems
<1>1. Inv => OutcomeMatchesItems
  BY DEF Inv, RunInv, OutcomeMatchesItems, InState
<1> QED BY <1>1, RowsConsistent, PTL

(***************************************************************************)
(* A run that ended stays as it ended, whatever workers that were still at *)
(* work write later.                                                       *)
(***************************************************************************)
THEOREM ClosedRunsAreFrozen == Spec => ClosedRunIsFrozen
<1> DEFINE Frozen(r) ==
      \/ runs'[r].st = "GONE"
      \/ /\ runs'[r] = runs[r]
         /\ \A i \in Items : \/ items'[r][i].st = items[r][i].st
                             \/ items[r][i].st = "COMPLETED" /\ items'[r][i].st = "WARNING"
                             \/ items[r][i].st = "PENDING" /\ items'[r][i].st \in {"SKIPPED", "CANCELLED"}
<1>1. ASSUME Inv, [Next]_vars, NEW r \in RunIds, runs[r].st \in Closed PROVE Frozen(r)
  <2>1. RunStep(r) /\ RunInv(r) BY <1>1, NextStep DEF Steps, Inv
  <2>2. Works(r) \/ Goes(r)
    BY <1>1, <2>1 DEF RunStep, Touches, Queues, Plans, FailsToPlan, Finishes, Drained, Cancels, StartsCancelling,
                      Open, Closed
  <2>3. CASE Goes(r) BY <2>3 DEF Goes
  <2>4. CASE Works(r)
    <3>1. runs'[r] = runs[r] /\ \A i \in Items : ItemMoves(r, i) BY <2>4 DEF Works, ItemsMove
    <3>2. \A i \in Items : items[r][i].st # "RUNNING" BY <1>1, <2>1 DEF RunInv
    <3> QED BY <1>1, <3>1, <3>2 DEF ItemMoves, Closed
  <2> QED BY <2>2, <2>3, <2>4
<1>2. Inv /\ [Next]_vars => [\A r \in RunIds : runs[r].st \in Closed => Frozen(r)]_vars BY <1>1
<1> QED BY <1>2, RowsConsistent, PTL DEF ClosedRunIsFrozen, Spec

-----------------------------------------------------------------------------
(* Where items are restored.                                               *)

(* The steps at which a worker holds its item, and those of them at which  *)
(* it has reserved the path it works on.                                   *)
AtWork == ItemSteps \ {"metadata"}
Placed == AtWork \ {"open", "connect", "reserve", "retry", "fail"}

Suffix == 0..MaxSuffix

(* Every path that is used is one of Paths.                                *)
Places ==
    /\ reserved \in [RunIds -> [Paths -> Items \cup {NoItem}]]
    /\ target = [p \in Paths |-> target[p]]
    /\ \A r \in RunIds, i \in Items : items[r][i].root \in Suffix /\ items[r][i].sfx \in Suffix
    /\ \A w \in Workers : worker[w].pc \in AtWork => worker[w].root \in Suffix /\ worker[w].sfx \in Suffix

Gone(r) == runs[r].st = "GONE"

(* Only the last run of the job is open.                                   *)
RunsInOrder ==
    \A q, r \in RunIds : q < r /\ runs[r].st # "NONE" => runs[q].st \notin Open \cup {"NONE"}

(* The item of a worker is RUNNING under its claim; only a suspension      *)
(* takes it away.  While it is, row and worker agree on the path.          *)
Holds(w) ==
    /\ Row(w).epoch = worker[w].epoch
    /\ Row(w).st = "RUNNING" \/ (MaxRuns = 1 /\ Row(w).st = "CANCELLED")
    /\ Row(w).st = "RUNNING" => Row(w).fresh /\ Row(w).root = worker[w].root /\ Row(w).sfx = worker[w].sfx

(* The steps of a worker that has put its file in place.                   *)
InPlace == {"dropAside", "verify", "complete"}

(* The path it writes to is reserved, and what it put there is there.      *)
Writes(w) ==
    /\ reserved[worker[w].run][Dest(w)] = It(w)
    /\ worker[w].pc \in DirSteps <=> It(w) \in Dirs
    /\ worker[w].pc \in InPlace => target[Dest(w)] = It(w)
    /\ worker[w].pc = "dirComplete" => target[Dest(w)] = "dir"

Working(w) == worker[w].pc \in AtWork /\ ~Gone(worker[w].run)

WorkInv(w) ==
    /\ worker[w].pc \in AtWork /\ Gone(worker[w].run) => MaxRuns = 1
    /\ Working(w) => Holds(w)
    /\ Working(w) /\ worker[w].pc \in Placed => Writes(w)

Alone(v, w) == Working(v) /\ Working(w) /\ worker[v].run = worker[w].run /\ It(v) = It(w) => v = w

Started == {"RUNNING", "COMPLETED", "WARNING"}
Settled == ItemStates \ {"PENDING", "RUNNING"}

PathIn(r, i) == PathOf(i, items[r][i].root, items[r][i].sfx)

(* What has been started lies in directories that are settled; what is     *)
(* done has its path reserved and, in the last run, is there.              *)
PlaceInv(r, i) ==
    /\ items[r][i].st \in Started => \A d \in Ancestors(i) : items[r][d].st \in Settled
    /\ items[r][i].st \in Done => reserved[r][PathIn(r, i)] = i
    /\ LastRun(r) /\ items[r][i].st \in Done => RestoredHere(r, i)

Placement ==
    /\ \A w \in Workers : WorkInv(w)
    /\ \A v, w \in Workers : Alone(v, w)
    /\ \A r \in RunIds, i \in Items : PlaceInv(r, i)

PlacesInv == Places /\ RunsInOrder /\ Placement

-----------------------------------------------------------------------------
(* Consequences of the invariant. *)

LEMMA IsPath ==
    ASSUME NEW i \in Items, NEW a \in Suffix, NEW b \in Suffix
    PROVE  PathOf(i, a, b) \in Paths
BY DEF PathOf, Paths, Suffix

LEMMA AncestorsAreItems ==
    ASSUME NEW i \in Items
    PROVE  Ancestors(i) \subseteq Items
<1>1. Parent \in [Items -> Dirs \cup {NoItem}] /\ Dirs \subseteq Items BY RestoreAssumption
<1>2. Parent[i] # NoItem => Parent[i] \in Items BY <1>1
<1>3. Parent[i] # NoItem /\ Parent[Parent[i]] # NoItem => Parent[Parent[i]] \in Items BY <1>1, <1>2
<1> QED BY <1>2, <1>3 DEF Ancestors

LEMMA WorkSteps ==
    /\ AtWork \subseteq ItemSteps /\ Placed \subseteq AtWork
    /\ "idle" \notin AtWork /\ "metadata" \notin AtWork
    /\ {"plan", "failPlan", "preview", "previewReady", "previewFailed"} \cap AtWork = {}
    /\ {"open", "connect", "reserve", "retry", "fail"} \subseteq AtWork \ Placed
    /\ DirSteps \subseteq Placed
    /\ {"inspect", "rename", "upload", "dropBackup", "setAside", "swapIn", "putBack", "dropAside", "verify",
        "complete"} \subseteq Placed \ DirSteps
BY DEF AtWork, Placed, ItemSteps, FileSteps, DirSteps

LEMMA TypedWorker ==
    ASSUME Inv, NEW w \in Workers, worker[w].pc \in AtWork
    PROVE  worker[w].run \in RunIds /\ It(w) \in Items /\ worker[w].item = It(w) /\ It(w) # NoItem
BY RestoreAssumption, WorkSteps DEF Inv, Types, Busy, It

LEMMA DestIsPath ==
    ASSUME Inv, Places, NEW w \in Workers, worker[w].pc \in AtWork
    PROVE  Dest(w) \in Paths
BY TypedWorker, IsPath DEF Places, Dest

(* A run with an item at work is open.                                     *)
LEMMA RunningIsOpen ==
    ASSUME Inv, NEW r \in RunIds, NEW i \in Items, items[r][i].st = "RUNNING"
    PROVE  runs[r].st \in Open
<1>1. RunInv(r) /\ runs[r] \in Run BY DEF Inv, Types, Rows
<1> QED BY <1>1 DEF RunInv, Run, Open, Closed

LEMMA OneRunOnly ==
    ASSUME MaxRuns = 1, NEW q \in RunIds, NEW r \in RunIds
    PROVE  q = r
BY DEF RunIds

LEMMA OpenIsLast ==
    ASSUME RunsInOrder, NEW q \in RunIds, NEW r \in RunIds, runs[q].st \in Open, runs[r].st \in Open
    PROVE  q = r
<1>1. q \in Nat /\ r \in Nat BY RestoreAssumption DEF RunIds
<1>2. runs[q].st # "NONE" /\ runs[r].st # "NONE" BY DEF Open
<1> QED BY <1>1, <1>2 DEF RunsInOrder

(* All workers that work do so for one run, and it is the last.            *)
LEMMA SameRun ==
    ASSUME Inv, PlacesInv, NEW v \in Workers, NEW w \in Workers, Working(v), Working(w)
    PROVE  worker[v].run = worker[w].run
<1>1. worker[v].run \in RunIds /\ It(v) \in Items /\ worker[w].run \in RunIds /\ It(w) \in Items
  BY TypedWorker DEF Working
<1>2. CASE MaxRuns = 1 BY <1>1, <1>2, OneRunOnly
<1>3. CASE MaxRuns # 1
  <2>1. Row(v).st = "RUNNING" /\ Row(w).st = "RUNNING" BY <1>3 DEF PlacesInv, Placement, WorkInv, Holds
  <2>2. runs[worker[v].run].st \in Open /\ runs[worker[w].run].st \in Open
    BY <1>1, <2>1, RunningIsOpen DEF Row
  <2> QED BY <1>1, <2>2, OpenIsLast DEF PlacesInv
<1> QED BY <1>2, <1>3

LEMMA LastIsWorkedOn ==
    ASSUME Inv, PlacesInv, NEW w \in Workers, Working(w), NEW r \in RunIds, LastRun(r)
    PROVE  worker[w].run = r
<1>1. worker[w].run \in RunIds /\ It(w) \in Items BY TypedWorker DEF Working
<1>2. CASE MaxRuns = 1 BY <1>1, <1>2, OneRunOnly
<1>3. CASE MaxRuns # 1
  <2>1. Row(w).st = "RUNNING" BY <1>3 DEF PlacesInv, Placement, WorkInv, Holds
  <2>2. runs[worker[w].run].st \in Open BY <1>1, <2>1, RunningIsOpen DEF Row
  <2>3. worker[w].run \in Nat /\ r \in Nat BY <1>1, RestoreAssumption DEF RunIds
  <2>4. runs[worker[w].run].st # "NONE" /\ runs[r].st # "NONE" BY <2>2 DEF Open, LastRun
  <2>5. ~(worker[w].run > r) BY <1>1, <2>4 DEF LastRun
  <2>6. ~(worker[w].run < r) BY <1>1, <2>2, <2>4 DEF PlacesInv, RunsInOrder
  <2> QED BY <2>3, <2>5, <2>6
<1> QED BY <1>2, <1>3

(* Two workers write to two paths.                                         *)
LEMMA Apart ==
    ASSUME Inv, PlacesInv, NEW v \in Workers, NEW w \in Workers, v # w, Working(v), Working(w),
           worker[v].pc \in Placed, worker[w].pc \in Placed
    PROVE  Dest(v) # Dest(w)
<1>1. worker[v].run = worker[w].run BY SameRun
<1>2. It(v) # It(w) BY <1>1 DEF PlacesInv, Placement, Alone
<1>3. Writes(v) /\ Writes(w) BY DEF PlacesInv, Placement, WorkInv
<1> QED BY <1>1, <1>2, <1>3 DEF Writes

(* A worker holds an item that is neither waiting nor finished.            *)
LEMMA NotWorkedOn ==
    ASSUME Inv, PlacesInv, NEW r \in RunIds, NEW i \in Items, NEW v \in Workers, worker[v].pc \in AtWork,
           items[r][i].st \notin {"NONE", "RUNNING", "CANCELLED"}
    PROVE  worker[v].run # r \/ It(v) # i
<1> SUFFICES ASSUME worker[v].run = r, It(v) = i PROVE FALSE OBVIOUS
<1>1. ~Gone(r) BY DEF Inv, RunInv, Gone
<1>2. Holds(v) BY <1>1 DEF PlacesInv, Placement, WorkInv, Working
<1> QED BY <1>2 DEF Holds, Row

(* Where a worker writes, nothing is that another item has become.         *)
LEMMA DoneIsApart ==
    ASSUME Inv, PlacesInv, NEW w \in Workers, Working(w), worker[w].pc \in Placed,
           NEW r \in RunIds, NEW i \in Items, LastRun(r), items[r][i].st \in Done
    PROVE  PathIn(r, i) # Dest(w)
<1>1. worker[w].run = r BY LastIsWorkedOn
<1>2. It(w) # i
  <2>1. items[r][i].st \notin {"NONE", "RUNNING", "CANCELLED"} BY DEF Done
  <2> QED BY <1>1, <2>1, NotWorkedOn DEF Working
<1>3. reserved[r][Dest(w)] = It(w) BY <1>1 DEF PlacesInv, Placement, WorkInv, Writes
<1>4. reserved[r][PathIn(r, i)] = i BY DEF PlacesInv, Placement, PlaceInv
<1> QED BY <1>2, <1>3, <1>4

-----------------------------------------------------------------------------
(* What every step keeps. *)

(* A run is created when no run is open.                                   *)
Created ==
    \A q, r \in RunIds : q < r /\ runs[r].st = "NONE" /\ runs'[r].st # "NONE" => runs[q].st \notin Open \cup {"NONE"}

LEMMA RunsAge ==
    ASSUME NEW r \in RunIds, RunStep(r)
    PROVE  /\ runs[r].st \notin Open \cup {"NONE"} => runs'[r].st \notin Open \cup {"NONE"}
           /\ runs[r].st # "NONE" => runs'[r].st # "NONE"
           /\ Gone(r) => Gone(r)'
           /\ ~Gone(r)' => (\A i \in Items : ItemMoves(r, i)) \/ Plans(r)
<1>1. CASE Works(r) BY <1>1 DEF Works, Gone, ItemsMove
<1>2. CASE Touches(r) BY <1>2 DEF Touches, Gone, ItemsSame, ItemMoves, Open
<1>3. CASE Queues(r) BY <1>3 DEF Queues, Gone, ItemsSame, ItemMoves, Open
<1>4. CASE Plans(r) BY <1>4 DEF Plans, Gone, Open
<1>5. CASE FailsToPlan(r) BY <1>5 DEF FailsToPlan, Gone, ItemsSame, ItemMoves, Open
<1>6. CASE Finishes(r) BY <1>6 DEF Finishes, Drained, OutcomeOf, Gone, ItemsSame, ItemMoves, Open
<1>7. CASE Cancels(r) BY <1>7 DEF Cancels, Gone, ItemsMove, Open
<1>8. CASE StartsCancelling(r) BY <1>8 DEF StartsCancelling, Gone, ItemsMove, Open
<1>9. CASE Goes(r) BY <1>9 DEF Goes, Gone, Open
<1> QED BY <1>1, <1>2, <1>3, <1>4, <1>5, <1>6, <1>7, <1>8, <1>9 DEF RunStep

LEMMA OrderKept ==
    ASSUME RunsInOrder, Steps, Created
    PROVE  RunsInOrder'
<1>1. \A r \in RunIds : RunStep(r) BY DEF Steps
<1>2. ASSUME NEW q \in RunIds, NEW r \in RunIds, q < r, runs'[r].st # "NONE"
      PROVE  runs'[q].st \notin Open \cup {"NONE"}
  <2>1. runs[q].st \notin Open \cup {"NONE"} BY <1>2 DEF Created, RunsInOrder
  <2> QED BY <1>1, <2>1, RunsAge
<1> QED BY <1>2 DEF RunsInOrder

(* What is settled above an item that was started stays settled.           *)
LEMMA SettledStays ==
    ASSUME Inv, Inv', Steps, NEW r \in RunIds, NEW i \in Items, NEW d \in Items,
           items[r][i].st # "NONE", items'[r][i].st # "NONE", items[r][d].st \in Settled
    PROVE  items'[r][d].st \in Settled
<1>1. RunStep(r) /\ RunInv(r) /\ items[r][d] \in ItemRow BY DEF Steps, Inv, Types, Rows
<1>2. ~Gone(r)' BY DEF Inv, RunInv, Gone
<1>3. ~Plans(r) BY <1>1 DEF Plans, RunInv
<1>4. ItemMoves(r, d) BY <1>1, <1>2, <1>3, RunsAge
<1> QED BY <1>4 DEF ItemMoves, Settled, ItemStates

(* A run with an item that is done was the last one before, if it is.      *)
LEMMA WasLast ==
    ASSUME Inv, Steps, NEW r \in RunIds, NEW i \in Items, LastRun(r)', items[r][i].st # "NONE"
    PROVE  LastRun(r)
<1>1. RunStep(r) /\ RunInv(r) BY DEF Steps, Inv
<1>2. runs[r].st # "NONE" BY <1>1 DEF RunInv
<1>3. ~Gone(r) BY <1>1, RunsAge DEF LastRun, Gone
<1>4. \A q \in RunIds : q > r => runs[q].st = "NONE" BY RunsAge DEF LastRun, Steps
<1> QED BY <1>2, <1>3, <1>4 DEF LastRun, Gone

LEMMA WasNotGone ==
    ASSUME Steps, NEW r \in RunIds, ~Gone(r)'
    PROVE  ~Gone(r)
BY RunsAge DEF Steps

-----------------------------------------------------------------------------
(* Steps that write nothing to the target and reserve nothing. *)

SameClaim(w) ==
    /\ worker'[w].run = worker[w].run /\ worker'[w].item = worker[w].item /\ worker'[w].epoch = worker[w].epoch
    /\ worker'[w].root = worker[w].root /\ worker'[w].sfx = worker[w].sfx

(* A worker goes on with its item, before it is placed, or leaves it.      *)
Remains(w) ==
    \/ worker'[w] = worker[w]
    \/ worker'[w].pc \notin AtWork
    \/ worker[w].pc \in AtWork /\ worker'[w].pc \in AtWork \ Placed /\ SameClaim(w)

SamePath(r, i) == items'[r][i].root = items[r][i].root /\ items'[r][i].sfx = items[r][i].sfx

(* Nothing is started or done by the step, and what is stays where it is.  *)
CalmRow(r, i) ==
    /\ items'[r][i].root \in Suffix /\ items'[r][i].sfx \in Suffix
    /\ items'[r][i].st \in Started => items[r][i].st \in Started /\ SamePath(r, i)
    /\ items'[r][i].st \in Done => items[r][i].st \in Done

NobodyOn(r, i) == \A v \in Workers : worker'[v].pc \in AtWork => worker'[v].run # r \/ worker'[v].item # i

(* The row of an item somebody works on is left alone, but for suspension. *)
RowHeld(r, i) ==
    \/ /\ items'[r][i].st = items[r][i].st /\ items'[r][i].epoch = items[r][i].epoch /\ SamePath(r, i)
       /\ items[r][i].fresh => items'[r][i].fresh
    \/ /\ SuspendUser /\ MaxRuns = 1 /\ items[r][i].st = "RUNNING" /\ items'[r][i].st = "CANCELLED"
       /\ items'[r][i].epoch = items[r][i].epoch
    \/ NobodyOn(r, i)

CalmStep ==
    /\ target' = target /\ reserved' = reserved
    /\ \A r \in RunIds, i \in Items : CalmRow(r, i) /\ RowHeld(r, i)
    /\ \A w \in Workers : Remains(w)

LEMMA CalmPlaces ==
    ASSUME Places, CalmStep
    PROVE  Places'
<1>1. \A w \in Workers : worker'[w].pc \in AtWork =>
                           worker[w].pc \in AtWork /\ worker'[w].root = worker[w].root /\ worker'[w].sfx = worker[w].sfx
  BY DEF CalmStep, Remains, SameClaim
<1>2. \A r \in RunIds, i \in Items : items'[r][i].root \in Suffix /\ items'[r][i].sfx \in Suffix
  BY DEF CalmStep, CalmRow
<1>3. target' = target /\ reserved' = reserved BY DEF CalmStep
<1> QED BY <1>1, <1>2, <1>3 DEF Places

LEMMA CalmKept ==
    ASSUME Inv, Inv', PlacesInv, Steps, CalmStep,
           \A w \in Workers : worker'[w].pc \in AtWork /\ Gone(worker[w].run)' => MaxRuns = 1
    PROVE  Placement'
<1>1. ASSUME NEW w \in Workers, Working(w)'
      PROVE  /\ Working(w) /\ SameClaim(w) /\ worker[w].run \in RunIds /\ It(w) \in Items
             /\ worker'[w] = worker[w] \/ worker'[w].pc \notin Placed
  <2>1. Remains(w) /\ worker'[w].pc \in AtWork BY <1>1 DEF CalmStep, Working
  <2>2. worker[w].pc \in AtWork /\ SameClaim(w) /\ (worker'[w] = worker[w] \/ worker'[w].pc \notin Placed)
    BY <2>1 DEF Remains, SameClaim
  <2>3. worker[w].run \in RunIds /\ It(w) \in Items BY <2>2, TypedWorker
  <2>4. runs'[worker[w].run].st # "GONE" BY <1>1, <2>2 DEF Working, SameClaim, Gone
  <2>5. ~Gone(worker[w].run) BY <2>3, <2>4, WasNotGone DEF Gone
  <2> QED BY <2>2, <2>3, <2>5 DEF Working
<1>2. ASSUME NEW w \in Workers PROVE WorkInv(w)'
  <2> SUFFICES ASSUME Working(w)' PROVE Holds(w)' /\ (worker'[w].pc \in Placed => Writes(w)')
    BY DEF WorkInv
  <2> DEFINE r == worker[w].run
             i == It(w)
  <2>1. Working(w) /\ SameClaim(w) /\ r \in RunIds /\ i \in Items
        /\ (worker'[w] = worker[w] \/ worker'[w].pc \notin Placed)
    BY <1>1
  <2>2. Holds(w) BY <2>1 DEF PlacesInv, Placement, WorkInv
  <2>3. worker'[w].run = r /\ worker'[w].item = i /\ worker'[w].pc \in AtWork BY <2>1 DEF SameClaim, It, Working
  <2>4. CalmRow(r, i) /\ RowHeld(r, i) BY <2>1 DEF CalmStep
  <2>5. \/ /\ items'[r][i].st = items[r][i].st /\ items'[r][i].epoch = items[r][i].epoch /\ SamePath(r, i)
           /\ items[r][i].fresh => items'[r][i].fresh
        \/ /\ MaxRuns = 1 /\ items[r][i].st = "RUNNING" /\ items'[r][i].st = "CANCELLED"
           /\ items'[r][i].epoch = items[r][i].epoch
    BY <2>1, <2>3, <2>4 DEF RowHeld, NobodyOn
  <2>6. Row(w)' = items'[r][i] /\ Row(w) = items[r][i] BY <2>3 DEF Row, It
  <2>7. Holds(w)'
    BY <2>1, <2>2, <2>5, <2>6 DEF Holds, SamePath, SameClaim
  <2>8. ASSUME worker'[w].pc \in Placed PROVE Writes(w)'
    <3>1. worker'[w] = worker[w] BY <2>1, <2>8
    <3>2. Writes(w) BY <2>1, <2>8, <3>1 DEF PlacesInv, Placement, WorkInv
    <3>3. Dest(w)' = Dest(w) /\ It(w)' = It(w) BY <3>1 DEF Dest, It, PathOf
    <3> QED BY <3>1, <3>2, <3>3 DEF Writes, CalmStep
  <2> QED BY <2>7, <2>8
<1>3. ASSUME NEW v \in Workers, NEW w \in Workers PROVE Alone(v, w)'
  BY <1>1 DEF Alone, PlacesInv, Placement, SameClaim, It
<1>4. ASSUME NEW r \in RunIds, NEW i \in Items PROVE PlaceInv(r, i)'
  <2>1. PlaceInv(r, i) /\ CalmRow(r, i) BY DEF PlacesInv, Placement, CalmStep
  <2>2. ASSUME items'[r][i].st \in Started, NEW d \in Ancestors(i) PROVE items'[r][d].st \in Settled
    <3>1. items[r][i].st \in Started BY <2>1, <2>2 DEF CalmRow
    <3>2. d \in Items BY AncestorsAreItems
    <3>3. items[r][d].st \in Settled BY <2>1, <3>1 DEF PlaceInv
    <3> QED BY <2>2, <3>1, <3>2, <3>3, SettledStays DEF Started
  <2>3. items'[r][i].st \in Done => PathIn(r, i)' = PathIn(r, i)
    BY <2>1 DEF PathIn, PathOf, CalmRow, SamePath, Done, Started
  <2>4. ASSUME items'[r][i].st \in Done PROVE reserved'[r][PathIn(r, i)'] = i
    BY <2>1, <2>3, <2>4 DEF CalmRow, PlaceInv, CalmStep
  <2>5. ASSUME items'[r][i].st \in Done, LastRun(r)' PROVE RestoredHere(r, i)'
    <3>1. items[r][i].st \in Done BY <2>1, <2>5 DEF CalmRow
    <3>2. LastRun(r) BY <2>5, <3>1, WasLast DEF Done
    <3>3. RestoredHere(r, i) BY <2>1, <3>1, <3>2 DEF PlaceInv
    <3> QED BY <2>3, <2>5, <3>3 DEF RestoredHere, CalmStep, PathIn
  <2> QED BY <2>2, <2>4, <2>5 DEF PlaceInv
<1> QED BY <1>2, <1>3, <1>4 DEF Placement

-----------------------------------------------------------------------------
(* Steps after the job was deleted, when there is no other run. *)

LEMMA GoneKept ==
    ASSUME Inv', MaxRuns = 1, \E r \in RunIds : Gone(r)'
    PROVE  Placement'
<1>1. \A r \in RunIds : Gone(r)' BY OneRunOnly
<1>2. \A w \in Workers : worker'[w].pc \in AtWork => worker'[w].run \in RunIds
  BY WorkSteps DEF Inv, Types, Busy
<1>3. \A w \in Workers : ~Working(w)' BY <1>1, <1>2 DEF Working, Gone
<1>4. \A r \in RunIds, i \in Items : items'[r][i].st = "NONE" BY <1>1 DEF Inv, RunInv, Gone
<1>5. \A r \in RunIds, i \in Items : PlaceInv(r, i)' BY <1>4 DEF PlaceInv, Started, Done
<1> QED BY <1>3, <1>5 DEF Placement, WorkInv, Alone

-----------------------------------------------------------------------------
(* Steps that write to the target. *)

(* A worker writes to its own path only, and finds there what it wrote.    *)
WriteStep(w) ==
    /\ worker[w].pc \in Placed /\ worker'[w].pc \in Placed \cup {"retry", "fail"} /\ SameClaim(w)
    /\ worker'[w].pc \in Placed => (worker'[w].pc \in DirSteps <=> worker[w].pc \in DirSteps)
    /\ \A v \in Workers : v # w => worker'[v] = worker[v]
    /\ items' = items /\ runs' = runs /\ reserved' = reserved
    /\ target' = [p \in Paths |-> target'[p]] /\ \A p \in Paths : p # Dest(w) => target'[p] = target[p]
    /\ Working(w) /\ worker'[w].pc \in InPlace => target'[Dest(w)] = It(w)
    /\ worker'[w].pc = "dirComplete" => target'[Dest(w)] = "dir"

LEMMA WritePlaces ==
    ASSUME Places, NEW w \in Workers, WriteStep(w)
    PROVE  Places'
<1>1. \A v \in Workers : worker'[v].pc \in AtWork =>
                           worker[v].pc \in AtWork /\ worker'[v].root = worker[v].root /\ worker'[v].sfx = worker[v].sfx
  BY WorkSteps DEF WriteStep, SameClaim
<1>2. items' = items /\ reserved' = reserved /\ target' = [p \in Paths |-> target'[p]] BY DEF WriteStep
<1> QED BY <1>1, <1>2 DEF Places

LEMMA WriteKept ==
    ASSUME Inv, Inv', PlacesInv, NEW w \in Workers, WriteStep(w), Working(w)
    PROVE  Placement'
<1>0. items' = items /\ runs' = runs /\ reserved' = reserved BY DEF WriteStep
<1>1. worker[w].pc \in Placed /\ SameClaim(w) /\ worker'[w].pc \in AtWork BY WorkSteps DEF WriteStep
<1>2. \A v \in Workers : v # w => worker'[v] = worker[v] BY DEF WriteStep
<1>3. \A v \in Workers : SameClaim(v) /\ (Working(v)' => Working(v))
  BY <1>0, <1>1, <1>2 DEF SameClaim, Working, Gone
<1>4. \A v \in Workers : Dest(v)' = Dest(v) /\ It(v)' = It(v) BY <1>3 DEF Dest, It, PathOf, SameClaim
<1>5. ASSUME NEW v \in Workers PROVE WorkInv(v)'
  <2>1. WorkInv(v) BY DEF PlacesInv, Placement
  <2>2. worker'[v].pc \in AtWork /\ Gone(worker[v].run)' => MaxRuns = 1
    BY <1>0, <1>1, <1>2, <2>1 DEF Gone, WorkInv, Working, SameClaim
  <2>3. ASSUME Working(v)' PROVE Holds(v)'
    <3>1. Working(v) /\ SameClaim(v) BY <1>3, <2>3
    <3>2. Row(v)' = Row(v) BY <1>0, <3>1 DEF Row, It, SameClaim
    <3>3. Holds(v) BY <2>1, <3>1 DEF WorkInv
    <3> QED BY <3>1, <3>2, <3>3 DEF Holds, SameClaim
  <2>4. ASSUME Working(v)', worker'[v].pc \in Placed PROVE Writes(v)'
    <3>1. Working(v) /\ SameClaim(v) BY <1>3, <2>4
    <3>2. CASE v = w
      <4>1. Writes(w) BY <1>1, <2>1, <3>2 DEF WorkInv
      <4>2. (worker'[w].pc \in DirSteps <=> worker[w].pc \in DirSteps) BY <2>4, <3>2 DEF WriteStep
      <4>3. /\ worker'[w].pc \in InPlace => target'[Dest(w)] = It(w)
            /\ worker'[w].pc = "dirComplete" => target'[Dest(w)] = "dir"
        BY DEF WriteStep
      <4> QED BY <1>0, <1>4, <3>1, <3>2, <4>1, <4>2, <4>3 DEF Writes, SameClaim
    <3>3. CASE v # w
      <4>1. worker'[v] = worker[v] BY <1>2, <3>3
      <4>2. Writes(v) BY <2>1, <2>4, <3>1, <4>1 DEF WorkInv
      <4>3. Dest(v) # Dest(w) BY <1>1, <2>4, <3>1, <3>3, <4>1, Apart
      <4>4. Dest(v) \in Paths BY <3>1, DestIsPath DEF PlacesInv, Working
      <4>5. target'[Dest(v)] = target[Dest(v)] BY <4>3, <4>4 DEF WriteStep
      <4> QED BY <1>0, <1>4, <4>1, <4>2, <4>5 DEF Writes
    <3> QED BY <3>2, <3>3
  <2> QED BY <2>2, <2>3, <2>4 DEF WorkInv
<1>6. ASSUME NEW u \in Workers, NEW v \in Workers PROVE Alone(u, v)'
  BY <1>3, <1>4 DEF Alone, PlacesInv, Placement, SameClaim
<1>7. ASSUME NEW r \in RunIds, NEW i \in Items PROVE PlaceInv(r, i)'
  <2>1. PlaceInv(r, i) /\ PathIn(r, i)' = PathIn(r, i) /\ (LastRun(r)' <=> LastRun(r))
    BY <1>0 DEF PlacesInv, Placement, PathIn, PathOf, LastRun
  <2>2. ASSUME LastRun(r), items[r][i].st \in Done PROVE RestoredHere(r, i)'
    <3>1. PathIn(r, i) # Dest(w) BY <1>1, <2>2, DoneIsApart
    <3>2. PathIn(r, i) \in Paths BY IsPath DEF PathIn, PlacesInv, Places
    <3>3. target'[PathIn(r, i)] = target[PathIn(r, i)] BY <3>1, <3>2 DEF WriteStep
    <3> QED BY <1>0, <2>1, <2>2, <3>3 DEF PlaceInv, RestoredHere, PathIn
  <2> QED BY <1>0, <2>1, <2>2 DEF PlaceInv
<1> QED BY <1>5, <1>6, <1>7 DEF Placement

-----------------------------------------------------------------------------
(* The step that completes an item. *)

CompleteStep(w) ==
    LET r == worker[w].run
        i == It(w)
    IN  /\ worker[w].pc \in {"complete", "dirComplete"} /\ items[r][i].st = "RUNNING"
        /\ items'[r][i].st = "COMPLETED" /\ SamePath(r, i)
        /\ \A q \in RunIds, j \in Items : q # r \/ j # i => items'[q][j] = items[q][j]
        /\ worker'[w].pc \notin AtWork /\ \A v \in Workers : v # w => worker'[v] = worker[v]
        /\ target' = target /\ reserved' = reserved /\ runs' = runs

LEMMA CompletePlaces ==
    ASSUME Inv, Places, NEW w \in Workers, CompleteStep(w)
    PROVE  Places'
<1> DEFINE r == worker[w].run
           i == It(w)
<1>1. worker[w].pc \in AtWork BY WorkSteps DEF CompleteStep, DirSteps
<1>2. r \in RunIds /\ i \in Items BY <1>1, TypedWorker
<1>3. \A v \in Workers : worker'[v].pc \in AtWork => worker'[v] = worker[v] BY DEF CompleteStep
<1>4. SamePath(r, i) /\ \A q \in RunIds, j \in Items : q # r \/ j # i => items'[q][j] = items[q][j]
  BY DEF CompleteStep
<1>5. target' = target /\ reserved' = reserved BY DEF CompleteStep
<1> HIDE DEF r, i
<1>6. \A q \in RunIds, j \in Items : items'[q][j].root \in Suffix /\ items'[q][j].sfx \in Suffix
  BY <1>2, <1>4 DEF Places, SamePath
<1> QED BY <1>3, <1>5, <1>6 DEF Places

LEMMA CompleteKept ==
    ASSUME Inv, Inv', Steps, PlacesInv, NEW w \in Workers, CompleteStep(w)
    PROVE  Placement'
<1> DEFINE r == worker[w].run
           i == It(w)
<1>1. worker[w].pc \in {"complete", "dirComplete"} /\ worker[w].pc \in AtWork /\ worker[w].pc \in Placed
  BY WorkSteps DEF CompleteStep, DirSteps
<1>2. r \in RunIds /\ i \in Items BY <1>1, TypedWorker
<1>3. items[r][i].st = "RUNNING" BY DEF CompleteStep
<1>4. ~Gone(r) BY <1>2, <1>3 DEF Inv, RunInv, Gone
<1>5. Working(w) BY <1>1, <1>4 DEF Working
<1>6. Holds(w) /\ Writes(w) BY <1>1, <1>5 DEF PlacesInv, Placement, WorkInv
<1>7. /\ items'[r][i].st = "COMPLETED" /\ SamePath(r, i)
      /\ \A q \in RunIds, j \in Items : q # r \/ j # i => items'[q][j] = items[q][j]
      /\ target' = target /\ reserved' = reserved /\ runs' = runs
  BY DEF CompleteStep
<1>8. \A v \in Workers : worker'[v].pc \in AtWork => v # w /\ worker'[v] = worker[v] BY DEF CompleteStep
<1>9. PathIn(r, i) = Dest(w)
  <2>1. Row(w).root = worker[w].root /\ Row(w).sfx = worker[w].sfx BY <1>3, <1>6 DEF Holds, Row
  <2> QED BY <2>1 DEF PathIn, PathOf, Dest, Row
<1>10. RestoredHere(r, i)
  <2>1. i \in Dirs <=> worker[w].pc \in DirSteps BY <1>6 DEF Writes
  <2>2. worker[w].pc = "complete" => worker[w].pc \notin DirSteps BY DEF DirSteps
  <2>3. worker[w].pc = "dirComplete" => worker[w].pc \in DirSteps BY DEF DirSteps
  <2>4. target[PathIn(r, i)] = IF i \in Dirs THEN "dir" ELSE i
    BY <1>1, <1>6, <1>9, <2>1, <2>2, <2>3 DEF Writes, InPlace
  <2> QED BY <2>4 DEF RestoredHere, PathIn
<1>11. reserved[r][PathIn(r, i)] = i BY <1>6, <1>9 DEF Writes
<1>12. ASSUME NEW v \in Workers, worker'[v].pc \in AtWork
       PROVE  /\ v # w /\ worker'[v] = worker[v] /\ Dest(v)' = Dest(v) /\ It(v)' = It(v)
              /\ Working(v)' <=> Working(v)
              /\ Working(v) => Row(v)' = Row(v)
  <2>1. v # w /\ worker'[v] = worker[v] BY <1>8, <1>12
  <2>2. Dest(v)' = Dest(v) /\ It(v)' = It(v) BY <2>1 DEF Dest, It, PathOf
  <2>3. Working(v)' <=> Working(v) BY <1>7, <2>1 DEF Working, Gone
  <2>4. ASSUME Working(v) PROVE Row(v)' = Row(v)
    <3>1. worker[v].run # r \/ It(v) # i BY <1>5, <2>1, <2>4 DEF PlacesInv, Placement, Alone
    <3>2. worker[v].run \in RunIds /\ It(v) \in Items BY <2>4, TypedWorker DEF Working
    <3> QED BY <1>7, <2>1, <2>2, <3>1, <3>2 DEF Row
  <2> QED BY <2>1, <2>2, <2>3, <2>4
<1>13. ASSUME NEW v \in Workers PROVE WorkInv(v)'
  <2> SUFFICES ASSUME worker'[v].pc \in AtWork PROVE WorkInv(v)' BY WorkSteps DEF WorkInv, Working
  <2>1. WorkInv(v) BY DEF PlacesInv, Placement
  <2> QED BY <1>7, <1>12, <2>1 DEF WorkInv, Holds, Writes, Gone
<1>14. ASSUME NEW u \in Workers, NEW v \in Workers PROVE Alone(u, v)'
  <2> SUFFICES ASSUME Working(u)', Working(v)' PROVE Alone(u, v)' BY DEF Alone
  <2>1. worker'[u].pc \in AtWork /\ worker'[v].pc \in AtWork BY DEF Working
  <2> QED BY <1>12, <2>1 DEF Alone, PlacesInv, Placement
<1>15. ASSUME NEW q \in RunIds, NEW j \in Items PROVE PlaceInv(q, j)'
  <2>0. PlaceInv(q, j) /\ (LastRun(q)' <=> LastRun(q)) BY <1>7 DEF PlacesInv, Placement, LastRun
  <2>1. /\ items'[q][j].st \in Started => items[q][j].st \in Started
        /\ PathIn(q, j)' = PathIn(q, j)
    BY <1>3, <1>7 DEF Started, PathIn, PathOf, SamePath
  <2>2. ASSUME items'[q][j].st \in Started, NEW d \in Ancestors(j) PROVE items'[q][d].st \in Settled
    <3>1. items[q][d].st \in Settled /\ d \in Items BY <2>0, <2>1, <2>2, AncestorsAreItems DEF PlaceInv
    <3> QED BY <2>1, <2>2, <3>1, SettledStays DEF Started
  <2>3. CASE q = r /\ j = i
    <3>1. reserved'[q][PathIn(q, j)'] = j BY <1>7, <1>11, <2>1, <2>3
    <3>2. RestoredHere(q, j)' BY <1>7, <1>10, <2>1, <2>3 DEF RestoredHere, PathIn
    <3> QED BY <2>2, <3>1, <3>2 DEF PlaceInv
  <2>4. CASE q # r \/ j # i
    <3>1. items'[q][j] = items[q][j] BY <1>7, <2>4
    <3> QED BY <1>7, <2>0, <2>1, <2>2, <3>1 DEF PlaceInv, RestoredHere
  <2> QED BY <2>3, <2>4
<1> QED BY <1>13, <1>14, <1>15 DEF Placement

-----------------------------------------------------------------------------
(* The step that claims an item. *)

ClaimStep(w, r, i) ==
    /\ items[r][i].st = "PENDING" /\ ~Blocked(r, i) /\ ~Gone(r)
    /\ items'[r][i].st = "RUNNING" /\ items'[r][i].fresh /\ SamePath(r, i)
    /\ \A q \in RunIds, j \in Items : q # r \/ j # i => items'[q][j] = items[q][j]
    /\ worker'[w].pc = "open" /\ worker'[w].run = r /\ worker'[w].item = i
    /\ worker'[w].epoch = items'[r][i].epoch
    /\ worker'[w].root = items[r][i].root /\ worker'[w].sfx = items[r][i].sfx
    /\ \A v \in Workers : v # w => worker'[v] = worker[v]
    /\ target' = target /\ reserved' = reserved /\ runs' = runs

LEMMA ClaimPlaces ==
    ASSUME Places, NEW w \in Workers, NEW r \in RunIds, NEW i \in Items, ClaimStep(w, r, i)
    PROVE  Places'
<1>1. target' = target /\ reserved' = reserved BY DEF ClaimStep
<1>2. \A q \in RunIds, j \in Items : items'[q][j].root \in Suffix /\ items'[q][j].sfx \in Suffix
  BY DEF ClaimStep, Places, SamePath
<1>3. \A v \in Workers : worker'[v].pc \in AtWork => worker'[v].root \in Suffix /\ worker'[v].sfx \in Suffix
  BY DEF ClaimStep, Places
<1> QED BY <1>1, <1>2, <1>3 DEF Places

LEMMA ClaimKept ==
    ASSUME Inv, Inv', Steps, PlacesInv, NEW w \in Workers, NEW r \in RunIds, NEW i \in Items, ClaimStep(w, r, i)
    PROVE  Placement'
<1>1. /\ items[r][i].st = "PENDING" /\ ~Blocked(r, i) /\ ~Gone(r)
      /\ items'[r][i].st = "RUNNING" /\ items'[r][i].fresh /\ SamePath(r, i)
      /\ \A q \in RunIds, j \in Items : q # r \/ j # i => items'[q][j] = items[q][j]
      /\ target' = target /\ reserved' = reserved /\ runs' = runs
  BY DEF ClaimStep
<1>2. ASSUME NEW v \in Workers, v # w, worker'[v].pc \in AtWork
      PROVE  /\ worker'[v] = worker[v] /\ Dest(v)' = Dest(v) /\ It(v)' = It(v)
             /\ Working(v)' <=> Working(v)
             /\ Row(v)' = Row(v) /\ (worker[v].run # r \/ It(v) # i)
  <2>1. worker'[v] = worker[v] BY <1>2 DEF ClaimStep
  <2>2. Dest(v)' = Dest(v) /\ It(v)' = It(v) BY <2>1 DEF Dest, It, PathOf
  <2>3. Working(v)' <=> Working(v) BY <1>1, <2>1 DEF Working, Gone
  <2>4. worker[v].run # r \/ It(v) # i BY <1>1, <1>2, <2>1, NotWorkedOn
  <2>5. worker[v].run \in RunIds /\ It(v) \in Items BY <1>2, <2>1, TypedWorker
  <2> QED BY <1>1, <2>1, <2>2, <2>3, <2>4, <2>5 DEF Row
<1>3. ASSUME NEW v \in Workers PROVE WorkInv(v)'
  <2> SUFFICES ASSUME worker'[v].pc \in AtWork PROVE WorkInv(v)' BY WorkSteps DEF WorkInv, Working
  <2>1. CASE v = w
    <3>1. worker'[v].pc \notin Placed BY <2>1, WorkSteps DEF ClaimStep
    <3>2. worker'[v].run = r /\ It(v)' = i BY <2>1 DEF ClaimStep, It
    <3>3. ~Gone(worker[v].run)' BY <1>1, <3>2 DEF Gone
    <3>4. Row(v)' = items'[r][i] BY <3>2 DEF Row, It
    <3>5. Holds(v)' BY <1>1, <2>1, <3>4 DEF Holds, ClaimStep, SamePath
    <3> QED BY <3>1, <3>3, <3>5 DEF WorkInv, Working
  <2>2. CASE v # w
    <3>1. WorkInv(v) BY DEF PlacesInv, Placement
    <3> QED BY <1>1, <1>2, <2>2, <3>1 DEF WorkInv, Holds, Writes, Gone
  <2> QED BY <2>1, <2>2
<1>4. ASSUME NEW u \in Workers, NEW v \in Workers PROVE Alone(u, v)'
  <2> SUFFICES ASSUME Working(u)', Working(v)', worker'[u].run = worker'[v].run, It(u)' = It(v)' PROVE u = v
    BY DEF Alone
  <2>1. worker'[u].pc \in AtWork /\ worker'[v].pc \in AtWork BY DEF Working
  <2>2. worker'[w].run = r /\ It(w)' = i BY DEF ClaimStep, It
  <2>3. CASE u # w /\ v # w BY <1>2, <2>1, <2>3 DEF Alone, PlacesInv, Placement
  <2>4. CASE u = w /\ v # w BY <1>2, <2>1, <2>2, <2>4
  <2>5. CASE u # w /\ v = w BY <1>2, <2>1, <2>2, <2>5
  <2> QED BY <2>3, <2>4, <2>5
<1>5. ASSUME NEW q \in RunIds, NEW j \in Items PROVE PlaceInv(q, j)'
  <2>0. PlaceInv(q, j) /\ (LastRun(q)' <=> LastRun(q)) BY <1>1 DEF PlacesInv, Placement, LastRun
  <2>1. CASE q = r /\ j = i
    <3>1. \A d \in Ancestors(i) : items[r][d].st \notin {"PENDING", "RUNNING"} BY <1>1 DEF Blocked
    <3>2. ASSUME NEW d \in Ancestors(i) PROVE items'[r][d].st \in Settled
      <4>1. d \in Items /\ d # i BY <1>1, <3>1, AncestorsAreItems
      <4>2. items[r][d] \in ItemRow BY <4>1 DEF Inv, Types, Rows
      <4> QED BY <1>1, <3>1, <4>1, <4>2 DEF Settled, ItemRow
    <3> QED BY <1>1, <2>1, <3>2 DEF PlaceInv, Done
  <2>2. CASE q # r \/ j # i
    <3>1. items'[q][j] = items[q][j] BY <1>1, <2>2
    <3>2. PathIn(q, j)' = PathIn(q, j) BY <3>1 DEF PathIn, PathOf
    <3>3. ASSUME items[q][j].st \in Started, NEW d \in Ancestors(j) PROVE items'[q][d].st \in Settled
      <4>1. items[q][d].st \in Settled /\ d \in Items BY <2>0, <3>3, AncestorsAreItems DEF PlaceInv
      <4> QED BY <3>1, <3>3, <4>1, SettledStays DEF Started
    <3> QED BY <1>1, <2>0, <3>1, <3>2, <3>3 DEF PlaceInv, RestoredHere
  <2> QED BY <2>1, <2>2
<1> QED BY <1>3, <1>4, <1>5 DEF Placement

-----------------------------------------------------------------------------
(* The steps that reserve a path. *)

(* Nothing but paths changes: that of the item and, for a directory that   *)
(* is at work, those of everything below.                                  *)
RowsPlaced(w, s) ==
    LET r == worker[w].run
        i == It(w)
    IN  /\ \A q \in RunIds, j \in Items :
             /\ items'[q][j].st = items[q][j].st /\ items'[q][j].epoch = items[q][j].epoch
             /\ items'[q][j].fresh = items[q][j].fresh
             /\ items'[q][j].root \in Suffix /\ items'[q][j].sfx \in Suffix
             /\ \/ SamePath(q, j)
                \/ q = r /\ j = i
                \/ q = r /\ i \in Ancestors(j) /\ items[r][i].st = "RUNNING"
        /\ items[r][i].st = "RUNNING" => items'[r][i].root = items[r][i].root /\ items'[r][i].sfx = s

PathStep(w, s) ==
    LET r == worker[w].run
        i == It(w)
        p == PathOf(i, worker[w].root, s)
    IN  /\ worker[w].pc \in {"reserve", "rename", "dirRename"} /\ FreeFor(r, i, p)
        /\ reserved' \in [RunIds -> [Paths -> Items \cup {NoItem}]]
        /\ reserved'[r][p] = i
        /\ \A x \in Paths : x = p \/ reserved'[r][x] = reserved[r][x] \/ reserved[r][x] = i
        /\ \A q \in RunIds : q # r => reserved'[q] = reserved[q]
        /\ target' = target /\ runs' = runs
        /\ \A v \in Workers : v # w => worker'[v] = worker[v]
        /\ \/ worker'[w].pc = "retry" /\ SameClaim(w) /\ items' = items
           \/ /\ worker'[w].pc \in Placed \ (InPlace \cup {"dirComplete"})
              /\ ~Gone(r) => (worker'[w].pc \in DirSteps <=> i \in Dirs)
              /\ worker'[w].run = r /\ worker'[w].item = i /\ worker'[w].epoch = worker[w].epoch
              /\ worker'[w].root = worker[w].root /\ worker'[w].sfx = s
              /\ RowsPlaced(w, s)

LEMMA PathPlaces ==
    ASSUME Inv, Places, NEW w \in Workers, NEW s \in Suffix, PathStep(w, s)
    PROVE  Places'
<1>1. reserved' \in [RunIds -> [Paths -> Items \cup {NoItem}]] /\ target' = target BY DEF PathStep
<1>2. \A q \in RunIds, j \in Items : items'[q][j].root \in Suffix /\ items'[q][j].sfx \in Suffix
  BY DEF PathStep, RowsPlaced, Places
<1>3. worker[w].pc \in AtWork BY WorkSteps DEF PathStep, DirSteps
<1>4. \A v \in Workers : worker'[v].pc \in AtWork => worker'[v].root \in Suffix /\ worker'[v].sfx \in Suffix
  BY <1>3 DEF PathStep, Places, SameClaim
<1> QED BY <1>1, <1>2, <1>4 DEF Places

LEMMA PathKept ==
    ASSUME Inv, Inv', Steps, PlacesInv, NEW w \in Workers, NEW s \in Suffix, PathStep(w, s), Working(w)
    PROVE  Placement'
<1> DEFINE r == worker[w].run
           i == It(w)
           p == PathOf(i, worker[w].root, s)
<1>0. worker[w].pc \in AtWork BY DEF Working
<1>1. r \in RunIds /\ i \in Items /\ i # NoItem BY <1>0, TypedWorker
<1>2. /\ reserved[r][p] \in {NoItem, i} /\ reserved'[r][p] = i
      /\ \A x \in Paths : x = p \/ reserved'[r][x] = reserved[r][x] \/ reserved[r][x] = i
      /\ \A q \in RunIds : q # r => reserved'[q] = reserved[q]
      /\ target' = target /\ runs' = runs
      /\ \A v \in Workers : v # w => worker'[v] = worker[v]
  BY DEF PathStep, FreeFor
<1>3. /\ worker'[w].run = r /\ worker'[w].item = i /\ worker'[w].epoch = worker[w].epoch
      /\ worker'[w].root = worker[w].root
  BY DEF PathStep, SameClaim, It
<1>4. /\ \A q \in RunIds, j \in Items :
           /\ items'[q][j].st = items[q][j].st /\ items'[q][j].epoch = items[q][j].epoch
           /\ items'[q][j].fresh = items[q][j].fresh
           /\ \/ SamePath(q, j)
              \/ q = r /\ j = i
              \/ q = r /\ i \in Ancestors(j) /\ items[r][i].st = "RUNNING"
  BY DEF PathStep, RowsPlaced, SamePath
<1>5. Holds(w) /\ items[r][i].st \in {"RUNNING", "CANCELLED"}
  BY DEF PlacesInv, Placement, WorkInv, Holds, Row
<1>6. ASSUME NEW q \in RunIds, NEW j \in Items, items[q][j].st \in Started, q # r \/ j # i
      PROVE  SamePath(q, j)
  <2>1. \A d \in Ancestors(j) : items[q][d].st \in Settled BY <1>6 DEF PlacesInv, Placement, PlaceInv
  <2> QED BY <1>4, <1>6, <2>1 DEF Settled
<1>7. p \in Paths BY <1>0, <1>1, IsPath DEF PlacesInv, Places
(* A path that another item of the run has reserved stays reserved.        *)
<1>8. ASSUME NEW q \in RunIds, NEW x \in Paths, NEW j \in Items, reserved[q][x] = j, q # r \/ j # i
      PROVE  reserved'[q][x] = j
  <2>1. j # NoItem BY RestoreAssumption
  <2> QED BY <1>1, <1>2, <1>8, <2>1
<1> HIDE DEF r, i, p
<1>9. ASSUME NEW v \in Workers, v # w, Working(v)'
      PROVE  /\ worker'[v] = worker[v] /\ Working(v) /\ Dest(v)' = Dest(v) /\ It(v)' = It(v)
             /\ worker[v].run \in RunIds /\ It(v) \in Items /\ (worker[v].run # r \/ It(v) # i)
  <2>1. worker'[v] = worker[v] BY <1>2, <1>9
  <2>2. Dest(v)' = Dest(v) /\ It(v)' = It(v) BY <2>1 DEF Dest, It, PathOf
  <2>3. Working(v) BY <1>2, <1>9, <2>1 DEF Working, Gone
  <2>4. worker[v].run # r \/ It(v) # i BY <1>9, <2>3 DEF r, i, PlacesInv, Placement, Alone
  <2>5. worker[v].run \in RunIds /\ It(v) \in Items BY <2>3, TypedWorker DEF Working
  <2> QED BY <2>1, <2>2, <2>3, <2>4, <2>5
<1>10. ASSUME NEW v \in Workers PROVE WorkInv(v)'
  <2>0. WorkInv(v) BY DEF PlacesInv, Placement
  <2>1. worker'[v].pc \in AtWork /\ Gone(worker[v].run)' => MaxRuns = 1
    <3>1. CASE v = w BY <1>2, <1>3, <3>1 DEF Gone, Working, r
    <3>2. CASE v # w BY <1>2, <2>0, <3>2 DEF Gone, WorkInv
    <3> QED BY <3>1, <3>2
  <2>2. ASSUME v # w, Working(v)' PROVE Holds(v)' /\ (worker'[v].pc \in Placed => Writes(v)')
    <3> DEFINE q == worker[v].run
               j == It(v)
    <3>1. /\ worker'[v] = worker[v] /\ Working(v) /\ Dest(v)' = Dest(v) /\ It(v)' = j
          /\ q \in RunIds /\ j \in Items /\ (q # r \/ j # i)
      BY <1>9, <2>2
    <3>2. Holds(v) /\ (worker[v].pc \in Placed => Writes(v)) BY <2>0, <3>1 DEF WorkInv
    <3>3. Row(v) = items[q][j] /\ Row(v)' = items'[q][j] BY <3>1 DEF Row
    <3> HIDE DEF q, j
    <3>4. items[q][j].st = "RUNNING" => SamePath(q, j) BY <1>6, <3>1 DEF Started
    <3>5. Holds(v)' BY <1>4, <3>1, <3>2, <3>3, <3>4 DEF Holds, SamePath
    <3>6. ASSUME worker'[v].pc \in Placed PROVE Writes(v)'
      <4>1. Writes(v) BY <3>1, <3>2, <3>6
      <4>2. reserved[q][Dest(v)] = j BY <4>1 DEF Writes, q, j
      <4>3. Dest(v) \in Paths BY <3>1, DestIsPath DEF PlacesInv, Working
      <4>4. reserved'[q][Dest(v)] = j BY <1>8, <3>1, <4>2, <4>3
      <4> QED BY <1>2, <3>1, <4>1, <4>4 DEF Writes, q, j
    <3> QED BY <3>5, <3>6
  <2>3. CASE v = w
    <3>1. Row(w) = items[r][i] /\ Row(w)' = items'[r][i] /\ It(w)' = i /\ It(w) = i
      BY <1>3 DEF Row, It, r, i
    <3>2. CASE worker'[w].pc = "retry" /\ SameClaim(w) /\ items' = items
      <4>1. Holds(w)' BY <1>5, <3>1, <3>2 DEF Holds, SameClaim
      <4>2. worker'[w].pc \notin Placed BY <3>2, WorkSteps
      <4> QED BY <2>1, <2>3, <4>1, <4>2 DEF WorkInv
    <3>3. CASE /\ worker'[w].pc \in Placed \ (InPlace \cup {"dirComplete"})
               /\ worker'[w].pc \in DirSteps <=> i \in Dirs
               /\ worker'[w].sfx = s
               /\ RowsPlaced(w, s)
      <4>1. items[r][i].st = "RUNNING" => items'[r][i].root = items[r][i].root /\ items'[r][i].sfx = s
        BY <3>3 DEF RowsPlaced, r, i
      <4>2. Holds(w)' BY <1>1, <1>3, <1>4, <1>5, <3>1, <3>3, <4>1 DEF Holds
      <4>3. Dest(w)' = p BY <1>3, <3>1, <3>3 DEF Dest, p, PathOf
      <4>4. reserved'[worker'[w].run][Dest(w)'] = i BY <1>2, <1>3, <4>3
      <4>5. Writes(w)' BY <3>1, <3>3, <4>4 DEF Writes
      <4> QED BY <2>1, <2>3, <4>2, <4>5 DEF WorkInv
    <3> QED BY <3>2, <3>3 DEF PathStep, i, Working
  <2> QED BY <2>1, <2>2, <2>3 DEF WorkInv
<1>11. ASSUME NEW u \in Workers, NEW v \in Workers PROVE Alone(u, v)'
  <2> SUFFICES ASSUME Working(u)', Working(v)', worker'[u].run = worker'[v].run, It(u)' = It(v)' PROVE u = v
    BY DEF Alone
  <2>2. worker'[w].run = r /\ It(w)' = i BY <1>3 DEF It
  <2>3. CASE u # w /\ v # w BY <1>9, <2>3 DEF Alone, PlacesInv, Placement
  <2>4. CASE u = w /\ v # w BY <1>9, <2>2, <2>4
  <2>5. CASE u # w /\ v = w BY <1>9, <2>2, <2>5
  <2> QED BY <2>3, <2>4, <2>5
<1>12. ASSUME NEW q \in RunIds, NEW j \in Items PROVE PlaceInv(q, j)'
  <2>0. PlaceInv(q, j) /\ (LastRun(q)' <=> LastRun(q)) BY <1>2 DEF PlacesInv, Placement, LastRun
  <2>1. items'[q][j].st \in Started => \A d \in Ancestors(j) : items'[q][d].st \in Settled
    BY <1>4, <2>0, AncestorsAreItems DEF PlaceInv
  <2>2. ASSUME items'[q][j].st \in Done
        PROVE  reserved'[q][PathIn(q, j)'] = j /\ (LastRun(q)' => RestoredHere(q, j)')
    <3>1. items[q][j].st \in Done /\ items[q][j].st \in Started /\ (q # r \/ j # i)
      BY <1>4, <1>5, <2>2 DEF Done, Started
    <3>2. SamePath(q, j) BY <1>6, <3>1
    <3>3. PathIn(q, j)' = PathIn(q, j) BY <3>2 DEF PathIn, PathOf, SamePath
    <3>4. PathIn(q, j) \in Paths BY IsPath DEF PathIn, PlacesInv, Places
    <3>5. reserved'[q][PathIn(q, j)] = j BY <1>8, <2>0, <3>1, <3>4 DEF PlaceInv
    <3>6. LastRun(q)' => RestoredHere(q, j)' BY <1>2, <2>0, <3>1, <3>3 DEF PlaceInv, RestoredHere, PathIn
    <3> QED BY <3>3, <3>5, <3>6
  <2> QED BY <2>1, <2>2 DEF PlaceInv
<1> QED BY <1>10, <1>11, <1>12 DEF Placement

-----------------------------------------------------------------------------
(* What the actions do to workers and rows. *)

LEMMA WentTo ==
    ASSUME Inv, NEW w \in Workers, NEW p, Goto(w, p)
    PROVE  worker'[w].pc = p /\ SameClaim(w) /\ \A v \in Workers : v # w => worker'[v] = worker[v]
<1>1. worker \in [Workers -> WorkerRow] BY DEF Inv, Types, Rows
<1>2. worker'[w] = [worker[w] EXCEPT !.pc = p] /\ \A v \in Workers : v # w => worker'[v] = worker[v]
  BY <1>1 DEF Goto
<1>3. DOMAIN worker[w] = {"pc", "run", "item", "epoch", "root", "sfx", "over", "prev", "gen"}
  BY <1>1 DEF WorkerRow
<1> QED BY <1>2, <1>3 DEF SameClaim

LEMMA WentHome ==
    ASSUME Inv, NEW w \in Workers, Return(w)
    PROVE  worker'[w].pc \notin AtWork /\ \A v \in Workers : v # w => worker'[v] = worker[v]
<1>1. worker \in [Workers -> WorkerRow] BY DEF Inv, Types, Rows
<1> QED BY <1>1, WorkSteps DEF Return, Idle

LEMMA SameRowCalm ==
    ASSUME Places, NEW r \in RunIds, NEW i \in Items, items'[r][i] = items[r][i]
    PROVE  CalmRow(r, i) /\ RowHeld(r, i)
BY DEF Places, CalmRow, RowHeld, SamePath

(* No row of an item changes.                                              *)
LEMMA QuietPlaces ==
    ASSUME Places, items' = items, target' = target, reserved' = reserved, \A w \in Workers : Remains(w)
    PROVE  CalmStep
BY SameRowCalm DEF CalmStep

LEMMA SameWorkersRemain ==
    ASSUME worker' = worker
    PROVE  \A w \in Workers : Remains(w)
BY DEF Remains

LEMMA OneRemains ==
    ASSUME NEW w \in Workers, \A v \in Workers : v # w => worker'[v] = worker[v],
           \/ worker'[w].pc \notin AtWork
           \/ worker[w].pc \in AtWork /\ worker'[w].pc \in AtWork \ Placed /\ SameClaim(w)
    PROVE  \A v \in Workers : Remains(v)
BY DEF Remains

(* One row changes.                                                        *)
LEMMA OneRowCalm ==
    ASSUME Inv, Places, NEW r \in RunIds, NEW i \in Items, NEW n, items' = [items EXCEPT ![r][i] = n],
           items'[r][i] = n => CalmRow(r, i) /\ RowHeld(r, i),
           target' = target, reserved' = reserved, \A w \in Workers : Remains(w)
    PROVE  CalmStep
<1>0. items \in [RunIds -> [Items -> ItemRow]] BY DEF Inv, Types, Rows
<1>1. items'[r][i] = n /\ \A q \in RunIds, j \in Items : q # r \/ j # i => items'[q][j] = items[q][j]
  BY <1>0
<1>2. \A q \in RunIds, j \in Items : CalmRow(q, j) /\ RowHeld(q, j) BY <1>1, SameRowCalm
<1> QED BY <1>2 DEF CalmStep

(* A worker writes the last word about its item and leaves it.             *)
LEMMA OwnRowCalm ==
    ASSUME Inv, PlacesInv, NEW w \in Workers, worker[w].pc \in AtWork, Return(w),
           target' = target, reserved' = reserved, NEW n, n.st \notin Started,
           n.root \in Suffix, n.sfx \in Suffix,
           \/ items' = items
           \/ /\ items[worker[w].run][It(w)].st = "RUNNING"
              /\ items' = [items EXCEPT ![worker[w].run][It(w)] = n]
    PROVE  CalmStep
<1>0. worker[w].run \in RunIds /\ It(w) \in Items BY TypedWorker
<1>1. \A v \in Workers : Remains(v) BY WentHome, OneRemains
<1>2. CASE items' = items BY <1>1, <1>2, QuietPlaces DEF PlacesInv
<1>3. CASE /\ items[worker[w].run][It(w)].st = "RUNNING"
           /\ items' = [items EXCEPT ![worker[w].run][It(w)] = n]
  <2> DEFINE r == worker[w].run
             i == It(w)
  <2>1. ~Gone(r) BY <1>0, <1>3 DEF Inv, RunInv, Gone
  <2>2. Working(w) BY <2>1 DEF Working
  <2>3. NobodyOn(r, i)
    <3> SUFFICES ASSUME NEW v \in Workers, worker'[v].pc \in AtWork, worker'[v].run = r, worker'[v].item = i
                 PROVE  FALSE
      BY DEF NobodyOn
    <3>1. v # w /\ worker'[v] = worker[v] BY WentHome
    <3>2. Working(v) /\ It(v) = i BY <2>1, <3>1 DEF Working, It
    <3> QED BY <2>2, <3>1, <3>2 DEF PlacesInv, Placement, Alone
  <2>4. items'[r][i] = n => CalmRow(r, i) /\ RowHeld(r, i)
    BY <2>3 DEF CalmRow, RowHeld, Done, Started
  <2> QED BY <1>0, <1>1, <1>3, <2>4, OneRowCalm DEF PlacesInv
<1> QED BY <1>2, <1>3

-----------------------------------------------------------------------------
(* The steps that change no item. *)

LEMMA UnplacedSteps ==
    ASSUME Inv, PlacesInv, NEW w \in Workers, LoadTarget(w) \/ ConnectTarget(w)
    PROVE  CalmStep
<1>1. worker[w].pc \in AtWork BY WorkSteps DEF LoadTarget, ConnectTarget, At
<1>2. \E p \in {"connect", "reserve", "retry", "fail"} : Goto(w, p)
  BY DEF LoadTarget, ConnectTarget, Breaks
<1>3. \A v \in Workers : Remains(v) BY <1>1, <1>2, WentTo, OneRemains, WorkSteps
<1>4. items' = items /\ target' = target /\ reserved' = reserved
  BY DEF LoadTarget, ConnectTarget, rest, targetVars
<1> QED BY <1>3, <1>4, QuietPlaces DEF PlacesInv

LEMMA CrashCalm ==
    ASSUME Inv, PlacesInv, NEW w \in Workers, Crash(w)
    PROVE  CalmStep
<1>1. \A v \in Workers : Remains(v) BY WentHome, OneRemains DEF Crash
<1> QED BY <1>1, QuietPlaces DEF Crash, rowVars, targetVars, PlacesInv

LEMMA PlanlessSteps ==
    ASSUME Inv, PlacesInv, NEW w \in Workers,
           PollPreview(w) \/ CountPreview(w) \/ FinishPreview(w) \/ PollRun(w) \/ FailPlan(w)
    PROVE  CalmStep
<1>0. worker \in [Workers -> WorkerRow] BY DEF Inv, Types, Rows
<1>1. items' = items /\ target' = target /\ reserved' = reserved
  BY DEF PollPreview, CountPreview, FinishPreview, PollRun, FailPlan, rest, targetVars
<1>2. worker'[w].pc \notin AtWork /\ \A v \in Workers : v # w => worker'[v] = worker[v]
  <2>1. CASE PollPreview(w)
    <3>1. PICK p \in PreviewIds : worker' = [worker EXCEPT ![w].pc = "preview", ![w].prev = p,
                                                          ![w].gen = previews[p].gen + 1]
      BY <2>1 DEF PollPreview
    <3> DEFINE n == [worker[w] EXCEPT !.pc = "preview", !.prev = p, !.gen = previews[p].gen + 1]
    <3>2. worker' = [worker EXCEPT ![w] = n] BY <1>0, <3>1
    <3>3. n.pc = "preview" BY <1>0 DEF WorkerRow
    <3> HIDE DEF n
    <3> QED BY <1>0, <3>2, <3>3, WorkSteps
  <2>2. CASE CountPreview(w)
    <3>1. Goto(w, "previewReady") \/ Goto(w, "previewFailed") BY <2>2 DEF CountPreview
    <3> QED BY <3>1, WentTo, WorkSteps
  <2>3. CASE FinishPreview(w) \/ FailPlan(w)
    BY <2>3, WentHome DEF FinishPreview, FailPlan
  <2>4. CASE PollRun(w)
    BY <1>0, <2>4, WorkSteps DEF PollRun, WorkerRow
  <2> QED BY <2>1, <2>2, <2>3, <2>4
<1>3. \A v \in Workers : Remains(v) BY <1>2, OneRemains
<1> QED BY <1>1, <1>3, QuietPlaces DEF PlacesInv

LEMMA IdlePolls ==
    ASSUME PlacesInv,
           \/ \E w \in Workers : \/ PollExpire(w) \/ PollRecoverPlanning(w) \/ PollFinalize(w)
                                 \/ PollFinalizeCancelling(w) \/ HeartbeatPreview(w)
           \/ \E r \in RunIds : RunLapses(r)
           \/ \E p \in PreviewIds : PreviewLapses(p)
           \/ HandleCreateRestorePreview \/ HandleCancelRestorePreview \/ HandleConsumeRestorePreview
           \/ SnapshotGoes \/ UNCHANGED vars
    PROVE  CalmStep
<1>1. worker' = worker /\ items' = items /\ target' = target /\ reserved' = reserved
  <2>1. CASE \E w \in Workers : \/ PollExpire(w) \/ PollRecoverPlanning(w) \/ PollFinalize(w)
                                \/ PollFinalizeCancelling(w) \/ HeartbeatPreview(w)
    BY <2>1 DEF PollExpire, PollRecoverPlanning, PollFinalize, PollFinalizeCancelling, HeartbeatPreview, targetVars
  <2>2. CASE (\E r \in RunIds : RunLapses(r)) \/ \E p \in PreviewIds : PreviewLapses(p)
    BY <2>2 DEF RunLapses, PreviewLapses, targetVars
  <2>3. CASE HandleCreateRestorePreview \/ HandleCancelRestorePreview \/ HandleConsumeRestorePreview
    BY <2>3 DEF HandleCreateRestorePreview, HandleCancelRestorePreview, HandleConsumeRestorePreview, others, targetVars
  <2>4. CASE SnapshotGoes \/ UNCHANGED vars BY <2>4 DEF SnapshotGoes, vars, storeVars, rowVars, targetVars
  <2> QED BY <2>1, <2>2, <2>3, <2>4
<1> QED BY <1>1, SameWorkersRemain, QuietPlaces DEF PlacesInv

-----------------------------------------------------------------------------
(* The steps that change rows of items. *)

(* A worker gives its item up, skips it or fails it.                       *)
LEMMA GivenUp ==
    ASSUME Inv, PlacesInv, NEW w \in Workers, worker[w].pc \in AtWork, Return(w),
           target' = target, reserved' = reserved,
           \/ SkipRestoreItem(worker[w].run, It(w), worker[w].epoch)
           \/ FailRestoreItem(worker[w].run, It(w), worker[w].epoch)
           \/ RetryRestoreItem(worker[w].run, It(w), worker[w].epoch)
    PROVE  CalmStep
<1> DEFINE r == worker[w].run
           i == It(w)
<1>1. r \in RunIds /\ i \in Items BY TypedWorker
<1>2. items[r][i] \in ItemRow /\ items[r][i].root \in Suffix /\ items[r][i].sfx \in Suffix
  BY <1>1 DEF Inv, Types, Rows, PlacesInv, Places
<1>3. ASSUME NEW st \in {"SKIPPED", "FAILED"}, SetItem(r, i, worker[w].epoch, st) PROVE CalmStep
  <2> DEFINE n == [items[r][i] EXCEPT !.st = st]
  <2>1. n.st \notin Started /\ n.root \in Suffix /\ n.sfx \in Suffix BY <1>2 DEF ItemRow, Started
  <2>2. \/ items' = items
        \/ items[r][i].st = "RUNNING" /\ items' = [items EXCEPT ![r][i] = n]
    BY <1>3 DEF SetItem, OwnsItem
  <2> HIDE DEF n
  <2> QED BY <2>1, <2>2, OwnRowCalm
<1>4. CASE RetryRestoreItem(r, i, worker[w].epoch)
  <2> DEFINE st == IF items[r][i].tries + 1 >= MaxAttempts THEN "FAILED" ELSE "PENDING"
             n == [items[r][i] EXCEPT !.tries = items[r][i].tries + 1, !.st = st]
  <2>0. st \notin Started BY DEF Started
  <2>1. \/ items' = items
        \/ items[r][i].st = "RUNNING" /\ items' = [items EXCEPT ![r][i] = n]
    BY <1>4 DEF RetryRestoreItem, OwnsItem
  <2> HIDE DEF st
  <2>2. n.st \notin Started /\ n.root \in Suffix /\ n.sfx \in Suffix BY <1>2, <2>0 DEF ItemRow
  <2> HIDE DEF n
  <2> QED BY <2>1, <2>2, OwnRowCalm
<1> QED BY <1>3, <1>4 DEF SkipRestoreItem, FailRestoreItem

LEMMA ErrorSteps ==
    ASSUME Inv, PlacesInv, NEW w \in Workers, Retry(w) \/ FailItem(w)
    PROVE  CalmStep
<1>1. worker[w].pc \in AtWork BY WorkSteps DEF Retry, FailItem, At
<1> QED BY <1>1, GivenUp DEF Retry, FailItem, rest, targetVars

LEMMA MetadataStep ==
    ASSUME Inv, PlacesInv, NEW w \in Workers, ApplyMetadata(w)
    PROVE  CalmStep
<1> DEFINE r == worker[w].run
           i == It(w)
           n == [items[r][i] EXCEPT !.st = "WARNING"]
<1>1. r \in RunIds /\ i \in Items
  BY DEF ApplyMetadata, At, It, ItemSteps, FileSteps, Inv, Types, Busy
<1>2. \A v \in Workers : Remains(v) BY WentHome, OneRemains DEF ApplyMetadata
<1>3. target' = target /\ reserved' = reserved BY DEF ApplyMetadata, rest, targetVars
<1>4. \/ items' = items
      \/ items[r][i].st = "COMPLETED" /\ items' = [items EXCEPT ![r][i] = n]
  BY DEF ApplyMetadata, WarnRestoreItem
<1>5. CASE items' = items BY <1>2, <1>3, <1>5, QuietPlaces DEF PlacesInv
<1>6. CASE items[r][i].st = "COMPLETED" /\ items' = [items EXCEPT ![r][i] = n]
  <2>1. items[r][i] \in ItemRow /\ items[r][i].root \in Suffix /\ items[r][i].sfx \in Suffix
    BY <1>1 DEF Inv, Types, Rows, PlacesInv, Places
  <2>2. n.st = "WARNING" /\ n.root = items[r][i].root /\ n.sfx = items[r][i].sfx BY <2>1 DEF ItemRow
  <2>3. NobodyOn(r, i)
    <3> SUFFICES ASSUME NEW v \in Workers, worker'[v].pc \in AtWork, worker'[v].run = r, worker'[v].item = i
                 PROVE  FALSE
      BY DEF NobodyOn
    <3>1. worker'[v] = worker[v] BY WentHome DEF ApplyMetadata
    <3> QED BY <1>1, <1>6, <3>1, NotWorkedOn DEF It
  <2> HIDE DEF n
  <2>4. items'[r][i] = n => CalmRow(r, i) /\ RowHeld(r, i)
    BY <1>6, <2>1, <2>2, <2>3 DEF CalmRow, RowHeld, SamePath, Started, Done
  <2> QED BY <1>1, <1>2, <1>3, <1>6, <2>4, OneRowCalm DEF PlacesInv
<1> QED BY <1>4, <1>5, <1>6

(* A heartbeat, or its absence where nobody works.                         *)
LEMMA LeaseSteps ==
    ASSUME Inv, PlacesInv, ~SlowWorkers,
           \/ \E w \in Workers : HeartbeatItem(w)
           \/ \E r \in RunIds, i \in Items : ItemLapses(r, i)
    PROVE  CalmStep
<1>1. worker' = worker /\ target' = target /\ reserved' = reserved
  BY DEF HeartbeatItem, ItemLapses, rest, targetVars
<1>2. \A v \in Workers : Remains(v) BY <1>1, SameWorkersRemain
<1>3. ASSUME NEW r \in RunIds, NEW i \in Items, NEW b \in BOOLEAN, items' = [items EXCEPT ![r][i].fresh = b],
             b \/ NobodyOn(r, i)
      PROVE  CalmStep
  <2> DEFINE n == [items[r][i] EXCEPT !.fresh = b]
  <2>1. items[r][i] \in ItemRow /\ items[r][i].root \in Suffix /\ items[r][i].sfx \in Suffix
    BY DEF Inv, Types, Rows, PlacesInv, Places
  <2>2. /\ n.st = items[r][i].st /\ n.root = items[r][i].root /\ n.sfx = items[r][i].sfx
        /\ n.epoch = items[r][i].epoch /\ n.fresh = b
    BY <2>1 DEF ItemRow
  <2>3. items' = [items EXCEPT ![r][i] = n] BY <1>3
  <2> HIDE DEF n
  <2>4. items'[r][i] = n => CalmRow(r, i) /\ RowHeld(r, i)
    BY <1>3, <2>1, <2>2 DEF CalmRow, RowHeld, SamePath
  <2> QED BY <1>1, <1>2, <2>3, <2>4, OneRowCalm DEF PlacesInv
<1>4. ASSUME NEW w \in Workers, HeartbeatItem(w) PROVE CalmStep
  <2>1. worker[w].run \in RunIds /\ It(w) \in Items BY <1>4 DEF HeartbeatItem, It, Inv, Types, Busy
  <2>2. items' = [items EXCEPT ![worker[w].run][It(w)].fresh = TRUE]
    BY <1>4 DEF HeartbeatItem, HeartbeatRestoreItem
  <2> QED BY <1>3, <2>1, <2>2
<1>5. ASSUME NEW r \in RunIds, NEW i \in Items, ItemLapses(r, i) PROVE CalmStep
  <2>1. items' = [items EXCEPT ![r][i].fresh = FALSE] /\ ~WorksOnItem(r, i) /\ items[r][i].st = "RUNNING"
    BY <1>5 DEF ItemLapses
  <2>2. ~Gone(r) BY <2>1 DEF Inv, RunInv, Gone
  <2>3. NobodyOn(r, i)
    <3> SUFFICES ASSUME NEW v \in Workers, worker'[v].pc \in AtWork, worker'[v].run = r, worker'[v].item = i
                 PROVE  FALSE
      BY DEF NobodyOn
    <3>1. worker[v].pc \in AtWork /\ worker[v].run = r /\ It(v) = i BY <1>1 DEF It
    <3>2. Holds(v) BY <2>2, <3>1 DEF PlacesInv, Placement, WorkInv, Working
    <3> QED BY <2>1, <3>1, <3>2, WorkSteps DEF WorksOnItem, Holds, Row
  <2> QED BY <1>3, <2>1, <2>3
<1> QED BY <1>4, <1>5

(* A statement that ends items or queues them again, over all rows.        *)
EndsRow(r, i) ==
    /\ items'[r][i].epoch = items[r][i].epoch /\ items'[r][i].fresh = items[r][i].fresh /\ SamePath(r, i)
    /\ \/ items'[r][i].st = items[r][i].st
       \/ items'[r][i].st \notin Started /\ items[r][i].st = "PENDING"
       \/ items'[r][i].st \notin Started /\ Stale(r, i)
       \/ items'[r][i].st = "CANCELLED" /\ items[r][i].st = "RUNNING" /\ SuspendUser /\ MaxRuns = 1

LEMMA EndsCalm ==
    ASSUME Inv, PlacesInv, \A r \in RunIds, i \in Items : EndsRow(r, i),
           worker' = worker, target' = target, reserved' = reserved
    PROVE  CalmStep
<1>1. ASSUME NEW r \in RunIds, NEW i \in Items PROVE CalmRow(r, i) /\ RowHeld(r, i)
  <2>1. EndsRow(r, i) /\ items[r][i].root \in Suffix /\ items[r][i].sfx \in Suffix BY DEF PlacesInv, Places
  <2>2. CalmRow(r, i) BY <2>1 DEF EndsRow, CalmRow, SamePath, Started, Done
  <2>3. ASSUME items[r][i].st = "PENDING" \/ Stale(r, i) PROVE NobodyOn(r, i)
    <3> SUFFICES ASSUME NEW v \in Workers, worker'[v].pc \in AtWork, worker'[v].run = r, worker'[v].item = i
                 PROVE  FALSE
      BY DEF NobodyOn
    <3>1. worker[v].pc \in AtWork /\ worker[v].run = r /\ It(v) = i BY DEF It
    <3>2. ~Gone(r) BY <2>3 DEF Inv, RunInv, Gone, Stale
    <3>3. Holds(v) BY <3>1, <3>2 DEF PlacesInv, Placement, WorkInv, Working
    <3> QED BY <2>3, <3>1, <3>3 DEF Holds, Row, Stale
  <2>4. RowHeld(r, i) BY <2>1, <2>3 DEF RowHeld, EndsRow
  <2> QED BY <2>2, <2>4
<1> QED BY <1>1, SameWorkersRemain DEF CalmStep

LEMMA EndsByState ==
    ASSUME Inv, NEW r \in RunIds, NEW i \in Items, NEW st, items'[r][i] = [items[r][i] EXCEPT !.st = st]
    PROVE  /\ items'[r][i].st = st /\ items'[r][i].epoch = items[r][i].epoch
           /\ items'[r][i].fresh = items[r][i].fresh /\ SamePath(r, i)
<1>1. items[r][i] \in ItemRow BY DEF Inv, Types, Rows
<1>2. DOMAIN items[r][i] = {"st", "epoch", "fresh", "tries", "root", "sfx"} BY <1>1 DEF ItemRow
<1> QED BY <1>2 DEF SamePath

LEMMA RecoverySteps ==
    ASSUME Inv, PlacesInv, NEW w \in Workers, PollRecoverItems(w) \/ PollSkipBlocked(w)
    PROVE  CalmStep
<1>1. worker' = worker /\ target' = target /\ reserved' = reserved
  BY DEF PollRecoverItems, PollSkipBlocked, rest, targetVars
<1>2. ASSUME NEW r \in RunIds, NEW i \in Items PROVE EndsRow(r, i)
  <2>1. CASE PollRecoverItems(w)
    <3> DEFINE st == IF runs[r].st = "CANCELLING" THEN "CANCELLED" ELSE "PENDING"
    <3>1. items'[r][i] = IF Stale(r, i) THEN [items[r][i] EXCEPT !.st = st] ELSE items[r][i]
      BY <2>1 DEF PollRecoverItems, RecoverStaleRestoreItems
    <3>2. st \notin Started BY DEF Started
    <3> HIDE DEF st
    <3>3. CASE Stale(r, i)
      <4>1. items'[r][i] = [items[r][i] EXCEPT !.st = st] BY <3>1, <3>3
      <4> QED BY <3>2, <3>3, <4>1, EndsByState DEF EndsRow
    <3>4. CASE ~Stale(r, i) BY <3>1, <3>4 DEF EndsRow, SamePath
    <3> QED BY <3>3, <3>4
  <2>2. CASE PollSkipBlocked(w)
    <3>1. items'[r][i] = IF SkippedWithParent(r, i) THEN [items[r][i] EXCEPT !.st = "SKIPPED"] ELSE items[r][i]
      BY <2>2 DEF PollSkipBlocked, SkipBlockedRestoreItems
    <3>2. CASE SkippedWithParent(r, i)
      <4>1. items'[r][i] = [items[r][i] EXCEPT !.st = "SKIPPED"] BY <3>1, <3>2
      <4>2. items[r][i].st = "PENDING" BY <3>2 DEF SkippedWithParent
      <4> QED BY <4>1, <4>2, EndsByState DEF EndsRow, Started
    <3>3. CASE ~SkippedWithParent(r, i) BY <3>1, <3>3 DEF EndsRow, SamePath
    <3> QED BY <3>2, <3>3
  <2> QED BY <2>1, <2>2
<1> QED BY <1>1, <1>2, EndsCalm

(* The items of a run that are in some states are cancelled.               *)
LEMMA CancelledRow ==
    ASSUME Inv, NEW r \in RunIds, NEW states, NEW q \in RunIds, NEW i \in Items,
           items'[q][i] = CancelItems(r, states)[q][i]
    PROVE  \/ q = r /\ items[q][i].st \in states /\ items'[q][i] = [items[q][i] EXCEPT !.st = "CANCELLED"]
           \/ (q # r \/ items[q][i].st \notin states) /\ items'[q][i] = items[q][i]
<1>1. items \in [RunIds -> [Items -> ItemRow]] BY DEF Inv, Types, Rows
<1> DEFINE f == [j \in Items |-> IF items[r][j].st \in states THEN [items[r][j] EXCEPT !.st = "CANCELLED"]
                                ELSE items[r][j]]
<1>2. CancelItems(r, states) = [items EXCEPT ![r] = f] BY DEF CancelItems
<1>3. f[i] = IF items[r][i].st \in states THEN [items[r][i] EXCEPT !.st = "CANCELLED"] ELSE items[r][i] OBVIOUS
<1> HIDE DEF f
<1>4. [items EXCEPT ![r] = f][r] = f /\ \A p \in RunIds : p # r => [items EXCEPT ![r] = f][p] = items[p] BY <1>1
<1> QED BY <1>2, <1>3, <1>4

LEMMA CancelSteps ==
    ASSUME Inv, PlacesInv, HandleCancelRestoreRun \/ (SuspendUser /\ MaxRuns = 1)
    PROVE  CalmStep
<1>1. worker' = worker /\ target' = target /\ reserved' = reserved
  BY DEF HandleCancelRestoreRun, SuspendUser, others, targetVars
<1>2. ASSUME NEW q \in RunIds, NEW i \in Items PROVE EndsRow(q, i)
  <2>1. ASSUME NEW r \in RunIds, NEW states \in SUBSET {"PENDING", "RUNNING"},
               items'[q][i] = CancelItems(r, states)[q][i],
               items[q][i].st \in states => items[q][i].st = "PENDING" \/ (SuspendUser /\ MaxRuns = 1)
        PROVE  EndsRow(q, i)
    <3>1. \/ q = r /\ items[q][i].st \in states /\ items'[q][i] = [items[q][i] EXCEPT !.st = "CANCELLED"]
          \/ items'[q][i] = items[q][i]
      BY <2>1, CancelledRow
    <3>2. CASE items[q][i].st \in states /\ items'[q][i] = [items[q][i] EXCEPT !.st = "CANCELLED"]
      <4>1. /\ items'[q][i].st = "CANCELLED" /\ items'[q][i].epoch = items[q][i].epoch
            /\ items'[q][i].fresh = items[q][i].fresh /\ SamePath(q, i)
        BY <3>2, EndsByState
      <4> QED BY <2>1, <3>2, <4>1 DEF EndsRow, Started
    <3>3. CASE items'[q][i] = items[q][i] BY <3>3 DEF EndsRow, SamePath
    <3> QED BY <3>1, <3>2, <3>3
  <2>2. CASE HandleCancelRestoreRun
    <3>1. PICK r \in RunIds : items' = CancelItems(r, {"PENDING"})
      BY <2>2 DEF HandleCancelRestoreRun, CancelRestoreRun
    <3>2. items'[q][i] = CancelItems(r, {"PENDING"})[q][i] BY <3>1
    <3> QED BY <2>1, <3>2
  <2>3. CASE SuspendUser /\ MaxRuns = 1
    <3>1. items'[q][i] = CancelItems(q, {"PENDING", "RUNNING"})[q][i]
      BY <2>3 DEF SuspendUser, SuspendRestores
    <3> QED BY <2>1, <2>3, <3>1
  <2> QED BY <2>2, <2>3
<1> QED BY <1>1, <1>2, EndsCalm

LEMMA PlanCalm ==
    ASSUME Inv, PlacesInv, NEW w \in Workers, Plan(w)
    PROVE  CalmStep
<1> DEFINE r == worker[w].run
<1>1. target' = target /\ reserved' = reserved BY DEF Plan, targetVars
<1>2. r \in RunIds BY DEF Plan, At, Inv, Types, Busy
<1>3. worker'[w].pc \notin AtWork /\ \A v \in Workers : v # w => worker'[v] = worker[v]
  <2>1. CASE Return(w) BY <2>1, WentHome
  <2>2. CASE Goto(w, "failPlan") BY <2>2, WentTo, WorkSteps
  <2> QED BY <2>1, <2>2 DEF Plan
<1>4. \A v \in Workers : Remains(v) BY <1>3, OneRemains
<1>5. CASE items' = items BY <1>1, <1>4, <1>5, QuietPlaces DEF PlacesInv
<1>6. CASE /\ runs[r].st = "PLANNING"
           /\ \E missing \in SUBSET Files :
                items' = [items EXCEPT ![r] = [i \in Items |-> IF i \in missing THEN Unavailable ELSE Planned]]
  <2>0. items \in [RunIds -> [Items -> ItemRow]] BY DEF Inv, Types, Rows
  <2>1. ASSUME NEW q \in RunIds, NEW i \in Items PROVE CalmRow(q, i) /\ RowHeld(q, i)
    <3>1. CASE q # r
      <4>1. items'[q][i] = items[q][i] BY <1>6, <2>0, <3>1
      <4> QED BY <4>1, SameRowCalm DEF PlacesInv
    <3>2. CASE q = r
      <4>1. items'[q][i] \in {Planned, Unavailable} BY <1>6, <2>0, <3>2
      <4>2. /\ Planned.st = "PENDING" /\ Planned.root = 0 /\ Planned.sfx = 0
            /\ Unavailable.st = "SKIPPED" /\ Unavailable.root = 0 /\ Unavailable.sfx = 0
        BY DEF Planned, Unavailable, NoRow
      <4>3. 0 \in Suffix BY RestoreAssumption DEF Suffix
      <4>4. CalmRow(q, i) BY <4>1, <4>2, <4>3 DEF CalmRow, Started, Done
      <4>5. NobodyOn(q, i)
        <5> SUFFICES ASSUME NEW v \in Workers, worker'[v].pc \in AtWork, worker'[v].run = q, worker'[v].item = i
                     PROVE  FALSE
          BY DEF NobodyOn
        <5>1. worker'[v] = worker[v] BY <1>3
        <5>2. ~Gone(q) BY <1>6, <3>2 DEF Gone
        <5>3. Holds(v) /\ It(v) = i BY <5>1, <5>2 DEF PlacesInv, Placement, WorkInv, Working, It
        <5>4. items[q][i].st = "NONE" BY <1>2, <1>6, <3>2 DEF Inv, RunInv
        <5> QED BY <5>1, <5>3, <5>4 DEF Holds, Row
      <4> QED BY <4>4, <4>5 DEF RowHeld
    <3> QED BY <3>1, <3>2
  <2> QED BY <1>1, <1>4, <2>1 DEF CalmStep
<1> QED BY <1>5, <1>6 DEF Plan, PlanRestoreRun, CanPlan

-----------------------------------------------------------------------------
(* The steps between the reservation of a path and the end of an item. *)

(* A step that goes on, within the file or within the directory, and       *)
(* writes, if at all, to the path of the worker.                           *)
LEMMA GoesOn ==
    ASSUME Inv, PlacesInv, NEW w \in Workers, worker[w].pc \in Placed, NEW p, Goto(w, p),
           p \in {"retry", "fail"} \/ (p \in Placed /\ (p \in DirSteps <=> worker[w].pc \in DirSteps)),
           items' = items, runs' = runs, reserved' = reserved,
           target' = target \/ \E x : target' = [target EXCEPT ![Dest(w)] = x],
           Working(w) /\ p \in InPlace => target'[Dest(w)] = It(w),
           p = "dirComplete" => target'[Dest(w)] = "dir"
    PROVE  WriteStep(w)
<1>1. worker'[w].pc = p /\ SameClaim(w) /\ \A v \in Workers : v # w => worker'[v] = worker[v] BY WentTo
<1>2. target = [q \in Paths |-> target[q]] BY DEF PlacesInv, Places
<1>3. target' = [q \in Paths |-> target'[q]] /\ \A q \in Paths : q # Dest(w) => target'[q] = target[q]
  <2>1. CASE target' = target BY <1>2, <2>1
  <2>2. ASSUME NEW x, target' = [target EXCEPT ![Dest(w)] = x]
        PROVE  target' = [q \in Paths |-> target'[q]] /\ \A q \in Paths : q # Dest(w) => target'[q] = target[q]
    <3> DEFINE t == [q \in Paths |-> IF q = Dest(w) THEN x ELSE target[q]]
    <3>1. target' = t BY <1>2, <2>2
    <3>2. t = [q \in Paths |-> t[q]] /\ \A q \in Paths : q # Dest(w) => t[q] = target[q] OBVIOUS
    <3> HIDE DEF t
    <3> QED BY <3>1, <3>2
  <2> QED BY <2>1, <2>2
<1>4. p \in {"retry", "fail"} => p \notin Placed BY WorkSteps
<1> QED BY <1>1, <1>3, <1>4 DEF WriteStep

LEMMA Wrote ==
    ASSUME Inv, PlacesInv, NEW w \in Workers, worker[w].pc \in AtWork, NEW x,
           target' = [target EXCEPT ![Dest(w)] = x]
    PROVE  target'[Dest(w)] = x
<1>1. Dest(w) \in Paths BY DestIsPath DEF PlacesInv
<1>2. target = [q \in Paths |-> target[q]] BY DEF PlacesInv, Places
<1> QED BY <1>1, <1>2

FileWork == {"inspect", "rename", "upload", "dropBackup", "setAside", "swapIn", "putBack", "dropAside", "verify",
             "complete"}

LEMMA FileWorkIsPlaced == FileWork \subseteq Placed \ DirSteps /\ DirSteps \subseteq Placed
BY WorkSteps DEF FileWork

(* Files.                                                                  *)
LEMMA FileWrites ==
    ASSUME Inv, PlacesInv, NEW w \in Workers,
           \/ Upload(w) \/ DropBackup(w) \/ SetAside(w) \/ SwapIn(w) \/ PutBack(w) \/ DropAside(w) \/ VerifyTarget(w)
    PROVE  WriteStep(w)
<1>1. worker[w].pc \in FileWork
  BY DEF Upload, DropBackup, SetAside, SwapIn, PutBack, DropAside, VerifyTarget, At, FileWork
<1>2. worker[w].pc \in Placed /\ worker[w].pc \notin DirSteps BY <1>1, FileWorkIsPlaced
<1>3. items' = items /\ runs' = runs /\ reserved' = reserved
  BY DEF Upload, DropBackup, SetAside, SwapIn, PutBack, DropAside, VerifyTarget, rest
<1>4. target' = target \/ \E x : target' = [target EXCEPT ![Dest(w)] = x]
  <2>1. CASE Upload(w)
    <3>1. \/ target' = target
          \/ target' = [target EXCEPT ![Dest(w)] = It(w)]
          \/ target' = [target EXCEPT ![Dest(w)] = "part"]
      BY <2>1 DEF Upload
    <3> QED BY <3>1
  <2>2. CASE SwapIn(w)
    <3>1. target' = target \/ target' = [target EXCEPT ![Dest(w)] = It(w)] BY <2>2 DEF SwapIn
    <3> QED BY <3>1
  <2>3. CASE PutBack(w)
    <3>1. target' = target \/ target' = [target EXCEPT ![Dest(w)] = aside[Key(w)]] BY <2>3 DEF PutBack
    <3> QED BY <3>1
  <2>4. CASE SetAside(w)
    <3>1. target' = target \/ target' = [target EXCEPT ![Dest(w)] = "none"] BY <2>4 DEF SetAside
    <3> QED BY <3>1
  <2>5. CASE DropBackup(w) \/ DropAside(w) \/ VerifyTarget(w)
    BY <2>5 DEF DropBackup, DropAside, VerifyTarget, targetVars
  <2> QED BY <2>1, <2>2, <2>3, <2>4, <2>5
<1>5. worker[w].pc \in AtWork /\ (Working(w) /\ worker[w].pc \in InPlace => target[Dest(w)] = It(w))
  BY <1>2, WorkSteps DEF PlacesInv, Placement, WorkInv, Writes
<1>6. PICK p \in FileWork \cup {"retry", "fail"} :
        Goto(w, p) /\ (Working(w) /\ p \in InPlace => target'[Dest(w)] = It(w))
  <2>1. CASE Upload(w)
    <3>1. \/ \E p \in {"dropBackup", "swapIn", "retry", "fail"} : Goto(w, p)
          \/ Goto(w, "verify") /\ target' = [target EXCEPT ![Dest(w)] = It(w)]
      BY <2>1 DEF Upload, Breaks, ReconstructFails
    <3>2. CASE \E p \in {"dropBackup", "swapIn", "retry", "fail"} : Goto(w, p) BY <3>2 DEF FileWork, InPlace
    <3>3. CASE Goto(w, "verify") /\ target' = [target EXCEPT ![Dest(w)] = It(w)]
      BY <1>5, <3>3, Wrote DEF FileWork
    <3> QED BY <3>1, <3>2, <3>3
  <2>2. CASE SwapIn(w)
    <3>1. \/ \E p \in {"putBack", "retry"} : Goto(w, p)
          \/ /\ \E p \in {"dropAside", "verify"} : Goto(w, p)
             /\ target' = [target EXCEPT ![Dest(w)] = It(w)]
      BY <2>2 DEF SwapIn
    <3>2. CASE \E p \in {"putBack", "retry"} : Goto(w, p) BY <3>2 DEF FileWork, InPlace
    <3>3. CASE (\E p \in {"dropAside", "verify"} : Goto(w, p)) /\ target' = [target EXCEPT ![Dest(w)] = It(w)]
      <4>1. target'[Dest(w)] = It(w) BY <1>5, <3>3, Wrote
      <4> QED BY <3>3, <4>1 DEF FileWork
    <3> QED BY <3>1, <3>2, <3>3
  <2>3. CASE PutBack(w) \/ SetAside(w) \/ DropBackup(w)
    <3>1. \E p \in {"retry", "fail", "swapIn", "setAside"} : Goto(w, p)
      BY <2>3 DEF PutBack, SetAside, DropBackup, Breaks
    <3> QED BY <3>1 DEF FileWork, InPlace
  <2>4. CASE DropAside(w) \/ VerifyTarget(w)
    <3>1. target' = target /\ worker[w].pc \in InPlace
      BY <2>4 DEF DropAside, VerifyTarget, targetVars, At, InPlace
    <3>2. \E p \in {"verify", "complete", "retry", "fail"} : Goto(w, p)
      BY <2>4 DEF DropAside, VerifyTarget, Breaks
    <3> QED BY <1>5, <3>1, <3>2 DEF FileWork
  <2> QED BY <2>1, <2>2, <2>3, <2>4
<1>7. p \in {"retry", "fail"} \/ (p \in Placed /\ (p \in DirSteps <=> worker[w].pc \in DirSteps))
  BY <1>2, <1>6, FileWorkIsPlaced
<1>8. p # "dirComplete" BY <1>6 DEF FileWork
<1> QED BY <1>2, <1>3, <1>4, <1>6, <1>7, <1>8, GoesOn

(* Directories.                                                            *)
LEMMA DirectoryWrites ==
    ASSUME Inv, PlacesInv, NEW w \in Workers, ReplaceByDirectory(w) \/ CreateDirectory(w)
    PROVE  WriteStep(w)
<1>1. worker[w].pc \in DirSteps BY DEF ReplaceByDirectory, CreateDirectory, At, DirSteps
<1>2. worker[w].pc \in Placed /\ worker[w].pc \in AtWork BY <1>1, FileWorkIsPlaced, WorkSteps
<1>3. items' = items /\ runs' = runs /\ reserved' = reserved BY DEF ReplaceByDirectory, CreateDirectory, rest
<1>4. \/ Goto(w, "retry") /\ target' = target
      \/ Goto(w, "fail") /\ target' = target
      \/ Goto(w, "dirCreate") /\ target' = [target EXCEPT ![Dest(w)] = "none"]
      \/ Goto(w, "dirComplete") /\ target' = [target EXCEPT ![Dest(w)] = "dir"]
  BY DEF ReplaceByDirectory, CreateDirectory, Breaks
<1>5. {"dirCreate", "dirComplete"} \subseteq DirSteps /\ "retry" \notin DirSteps /\ "fail" \notin DirSteps
  BY DEF DirSteps
<1>6. CASE (Goto(w, "retry") \/ Goto(w, "fail")) /\ target' = target
  BY <1>2, <1>3, <1>6, GoesOn DEF InPlace
<1>7. CASE Goto(w, "dirCreate") /\ target' = [target EXCEPT ![Dest(w)] = "none"]
  BY <1>1, <1>2, <1>3, <1>5, <1>7, FileWorkIsPlaced, GoesOn DEF InPlace
<1>8. CASE Goto(w, "dirComplete") /\ target' = [target EXCEPT ![Dest(w)] = "dir"]
  <2>1. target'[Dest(w)] = "dir" BY <1>2, <1>8, Wrote
  <2> QED BY <1>1, <1>2, <1>3, <1>5, <1>8, <2>1, FileWorkIsPlaced, GoesOn DEF InPlace
<1> QED BY <1>4, <1>6, <1>7, <1>8

(* A worker looks, and skips, renames, fails or goes on.                   *)
LEMMA InspectWrites ==
    ASSUME Inv, PlacesInv, NEW w \in Workers, InspectTarget(w) \/ InspectDirectory(w)
    PROVE  CalmStep \/ WriteStep(w)
<1>1. worker[w].pc \in {"inspect", "dirInspect"} BY DEF InspectTarget, InspectDirectory, At
<1>2. worker[w].pc \in Placed /\ worker[w].pc \in AtWork BY <1>1, WorkSteps DEF DirSteps
<1>3. target' = target /\ reserved' = reserved /\ runs' = runs
  BY DEF InspectTarget, InspectDirectory, rest, targetVars
<1>4. CASE SkipRestoreItem(worker[w].run, It(w), worker[w].epoch) /\ Return(w)
  BY <1>2, <1>3, <1>4, GivenUp
<1>5. CASE InspectTarget(w) /\ ~(SkipRestoreItem(worker[w].run, It(w), worker[w].epoch) /\ Return(w))
  <2>1. worker[w].pc = "inspect" BY <1>5 DEF InspectTarget, At
  <2>2. /\ items' = items
        /\ \/ \E p \in {"upload", "rename", "fail"} : Goto(w, p)
           \/ worker' = [worker EXCEPT ![w].over = TRUE, ![w].pc = "upload"]
    BY <1>5, Zenon DEF InspectTarget
  <2>3. "inspect" \in Placed \ DirSteps /\ {"upload", "rename"} \subseteq Placed \ DirSteps BY WorkSteps
  <2>4. ASSUME NEW p \in {"upload", "rename", "fail"}, Goto(w, p) PROVE WriteStep(w)
    <3>1. p \in {"retry", "fail"} \/ (p \in Placed /\ (p \in DirSteps <=> worker[w].pc \in DirSteps))
      BY <2>1, <2>3, <2>4
    <3>2. p \notin InPlace /\ p # "dirComplete" BY <2>4 DEF InPlace
    <3> QED BY <1>2, <1>3, <2>2, <2>4, <3>1, <3>2, GoesOn
  <2>5. CASE worker' = [worker EXCEPT ![w].over = TRUE, ![w].pc = "upload"]
    <3>1. worker \in [Workers -> WorkerRow] BY DEF Inv, Types, Rows
    <3> DEFINE n == [worker[w] EXCEPT !.over = TRUE, !.pc = "upload"]
    <3>2. worker' = [worker EXCEPT ![w] = n] BY <2>5, <3>1
    <3>3. DOMAIN worker[w] = {"pc", "run", "item", "epoch", "root", "sfx", "over", "prev", "gen"}
      BY <3>1 DEF WorkerRow
    <3>4. /\ n.pc = "upload" /\ n.run = worker[w].run /\ n.item = worker[w].item /\ n.epoch = worker[w].epoch
          /\ n.root = worker[w].root /\ n.sfx = worker[w].sfx
      BY <3>3
    <3> HIDE DEF n
    <3>5. worker'[w] = n /\ \A v \in Workers : v # w => worker'[v] = worker[v] BY <3>1, <3>2
    <3>6. SameClaim(w) /\ worker'[w].pc = "upload" BY <3>4, <3>5 DEF SameClaim
    <3>7. target' = [q \in Paths |-> target'[q]] BY <1>3 DEF PlacesInv, Places
    <3> QED BY <1>3, <2>1, <2>2, <2>3, <3>5, <3>6, <3>7 DEF WriteStep, InPlace
  <2> QED BY <2>2, <2>4, <2>5
<1>6. CASE InspectDirectory(w) /\ ~(SkipRestoreItem(worker[w].run, It(w), worker[w].epoch) /\ Return(w))
  <2>1. worker[w].pc = "dirInspect" /\ items' = items
    BY <1>6, Zenon DEF InspectDirectory, At
  <2>2. \/ \E p \in {"dirCreate", "dirRename", "dirReplace"} : Goto(w, p)
        \/ Goto(w, "dirComplete") /\ target[Dest(w)] = "dir"
    <3>1. \/ Goto(w, "dirCreate")
          \/ Goto(w, "dirComplete") /\ target[Dest(w)] = "dir"
          \/ Goto(w, IF strategy = "RENAME" THEN "dirRename" ELSE "dirReplace")
      BY <1>6, Zenon DEF InspectDirectory
    <3> QED BY <3>1
  <2>3. {"dirCreate", "dirRename", "dirReplace", "dirComplete", "dirInspect"} \subseteq DirSteps BY DEF DirSteps
  <2>4. ASSUME NEW p \in {"dirCreate", "dirRename", "dirReplace", "dirComplete"}, Goto(w, p),
               p = "dirComplete" => target[Dest(w)] = "dir"
        PROVE  WriteStep(w)
    <3>1. p \in Placed /\ (p \in DirSteps <=> worker[w].pc \in DirSteps) BY <2>1, <2>3, <2>4, FileWorkIsPlaced
    <3>2. p \notin InPlace BY <2>4 DEF InPlace
    <3> QED BY <1>2, <1>3, <2>1, <2>4, <3>1, <3>2, GoesOn
  <2> QED BY <2>2, <2>4
<1> QED BY <1>4, <1>5, <1>6

LEMMA CompleteSteps ==
    ASSUME Inv, PlacesInv, NEW w \in Workers, Complete(w)
    PROVE  CalmStep \/ CompleteStep(w)
<1> DEFINE r == worker[w].run
           i == It(w)
           n == [items[r][i] EXCEPT !.st = "COMPLETED"]
<1>1. worker[w].pc \in {"complete", "dirComplete"} BY DEF Complete
<1>2. worker[w].pc \in AtWork BY <1>1, WorkSteps DEF DirSteps
<1>3. r \in RunIds /\ i \in Items BY <1>2, TypedWorker
<1>4. target' = target /\ reserved' = reserved /\ runs' = runs BY DEF Complete, rest, targetVars
<1>5. CASE OwnsItem(r, i, worker[w].epoch)
  <2>1. items[r][i].st = "RUNNING" /\ items' = [items EXCEPT ![r][i] = n]
    BY <1>5 DEF Complete, CompleteRestoreItem, SetItem, OwnsItem
  <2>2. items[r][i] \in ItemRow BY <1>3 DEF Inv, Types, Rows
  <2>3. n.st = "COMPLETED" /\ n.root = items[r][i].root /\ n.sfx = items[r][i].sfx BY <2>2 DEF ItemRow
  <2>4. Goto(w, "metadata") \/ Return(w) BY <1>5, Zenon DEF Complete
  <2>5. worker'[w].pc \notin AtWork /\ \A v \in Workers : v # w => worker'[v] = worker[v]
    BY <2>4, WentTo, WentHome, WorkSteps
  <2> HIDE DEF n
  <2>6. items'[r][i] = n /\ \A q \in RunIds, j \in Items : q # r \/ j # i => items'[q][j] = items[q][j]
    <3>1. items \in [RunIds -> [Items -> ItemRow]] BY DEF Inv, Types, Rows
    <3> HIDE DEF r, i
    <3> QED BY <1>3, <2>1, <3>1
  <2> QED BY <1>1, <1>4, <2>1, <2>3, <2>5, <2>6 DEF CompleteStep, SamePath
<1>6. CASE ~OwnsItem(r, i, worker[w].epoch)
  <2>1. items' = items BY <1>6 DEF Complete, CompleteRestoreItem, SetItem
  <2>2. Goto(w, "metadata") \/ Goto(w, "retry") BY <1>6, Zenon DEF Complete
  <2>3. \A v \in Workers : Remains(v) BY <1>2, <2>2, WentTo, OneRemains, WorkSteps
  <2> QED BY <1>4, <2>1, <2>3, QuietPlaces DEF PlacesInv
<1> QED BY <1>5, <1>6

-----------------------------------------------------------------------------
(* The steps that claim an item or take a path. *)

LEMMA ItemClaimed ==
    ASSUME Inv, PlacesInv, NEW w \in Workers, PollItem(w)
    PROVE  \E r \in RunIds, i \in Items : ClaimStep(w, r, i)
<1>1. runs' = runs /\ reserved' = reserved /\ target' = target BY DEF PollItem, rest, targetVars
<1>2. PICK r \in RunIds, i \in Items :
        /\ ClaimNextRestoreItem(r, i)
        /\ worker' = [worker EXCEPT ![w] = [Idle EXCEPT !.pc = "open", !.run = r, !.item = i,
                          !.epoch = items[r][i].epoch + 1, !.root = items[r][i].root, !.sfx = items[r][i].sfx]]
  BY DEF PollItem
<1> DEFINE e == items[r][i].epoch + 1
           m == [Idle EXCEPT !.pc = "open", !.run = r, !.item = i, !.epoch = e,
                             !.root = items[r][i].root, !.sfx = items[r][i].sfx]
           n == [items[r][i] EXCEPT !.st = "RUNNING", !.epoch = e, !.fresh = TRUE]
<1>3. items \in [RunIds -> [Items -> ItemRow]] /\ worker \in [Workers -> WorkerRow] BY DEF Inv, Types, Rows
<1>4. items[r][i] \in ItemRow BY <1>3
<1>5. items' = [items EXCEPT ![r][i].st = "RUNNING", ![r][i].epoch = e, ![r][i].fresh = TRUE]
      /\ runs[r].st = "RUNNING" /\ items[r][i].st = "PENDING" /\ ~Blocked(r, i)
  BY <1>2 DEF ClaimNextRestoreItem, ClaimableItem
<1>6. worker' = [worker EXCEPT ![w] = m] BY <1>2
<1> HIDE DEF e
<1>7. items' = [items EXCEPT ![r][i] = n] BY <1>3, <1>5
<1>8. DOMAIN items[r][i] = {"st", "epoch", "fresh", "tries", "root", "sfx"} BY <1>4 DEF ItemRow
<1>9. n.st = "RUNNING" /\ n.epoch = e /\ n.fresh /\ n.root = items[r][i].root /\ n.sfx = items[r][i].sfx
  BY <1>8
<1>10. /\ m.pc = "open" /\ m.run = r /\ m.item = i /\ m.epoch = e
       /\ m.root = items[r][i].root /\ m.sfx = items[r][i].sfx
  BY DEF Idle
<1> HIDE DEF n, m
<1>11. items'[r][i] = n /\ \A q \in RunIds, j \in Items : q # r \/ j # i => items'[q][j] = items[q][j]
  BY <1>3, <1>7
<1>12. worker'[w] = m /\ \A v \in Workers : v # w => worker'[v] = worker[v] BY <1>3, <1>6
<1>13. ClaimStep(w, r, i) BY <1>1, <1>5, <1>9, <1>10, <1>11, <1>12 DEF ClaimStep, SamePath, Gone
<1> QED BY <1>13

(* A directory takes its new path, and what lies below goes with it.       *)
LEMMA DirectoryTaken ==
    ASSUME Inv, PlacesInv, NEW r \in RunIds, NEW d \in Items, NEW s \in Suffix, items[r][d].st = "RUNNING",
           SetRestoreDirectoryTargetPath(r, d, s)
    PROVE  /\ \A q \in RunIds, j \in Items :
                /\ items'[q][j].st = items[q][j].st /\ items'[q][j].epoch = items[q][j].epoch
                /\ items'[q][j].fresh = items[q][j].fresh
                /\ items'[q][j].root \in Suffix /\ items'[q][j].sfx \in Suffix
                /\ \/ SamePath(q, j)
                   \/ q = r /\ j = d
                   \/ q = r /\ d \in Ancestors(j) /\ items[r][d].st = "RUNNING"
           /\ items'[r][d].root = items[r][d].root /\ items'[r][d].sfx = s
<1> DEFINE F(i) == CASE i = d -> [items[r][i] EXCEPT !.sfx = s]
                     [] i # d /\ d \in Ancestors(i) -> [items[r][i] EXCEPT !.root = s, !.sfx = 0]
                     [] OTHER -> items[r][i]
           f == [i \in Items |-> F(i)]
<1>0. items \in [RunIds -> [Items -> ItemRow]] BY DEF Inv, Types, Rows
<1>a. 0 \in Suffix BY RestoreAssumption DEF Suffix
<1>b. \A q \in RunIds, j \in Items : items[q][j].root \in Suffix /\ items[q][j].sfx \in Suffix
  BY DEF PlacesInv, Places
<1>1. ASSUME NEW i \in Items
      PROVE  /\ F(i).st = items[r][i].st /\ F(i).epoch = items[r][i].epoch /\ F(i).fresh = items[r][i].fresh
             /\ F(i).root \in Suffix /\ F(i).sfx \in Suffix
             /\ \/ F(i).root = items[r][i].root /\ F(i).sfx = items[r][i].sfx
                \/ i = d
                \/ d \in Ancestors(i)
             /\ i = d => F(i).root = items[r][i].root /\ F(i).sfx = s
  <2>1. DOMAIN items[r][i] = {"st", "epoch", "fresh", "tries", "root", "sfx"} BY <1>0 DEF ItemRow
  <2>2. CASE i = d
    <3> DEFINE n == [items[r][i] EXCEPT !.sfx = s]
    <3>1. F(i) = n BY <2>2
    <3>2. /\ n.st = items[r][i].st /\ n.epoch = items[r][i].epoch /\ n.fresh = items[r][i].fresh
          /\ n.root = items[r][i].root /\ n.sfx = s
      BY <2>1
    <3> HIDE DEF n, F
    <3> QED BY <1>b, <2>2, <3>1, <3>2
  <2>3. CASE i # d /\ d \in Ancestors(i)
    <3> DEFINE n == [items[r][i] EXCEPT !.root = s, !.sfx = 0]
    <3>1. F(i) = n BY <2>3
    <3>2. /\ n.st = items[r][i].st /\ n.epoch = items[r][i].epoch /\ n.fresh = items[r][i].fresh
          /\ n.root = s /\ n.sfx = 0
      BY <2>1
    <3> HIDE DEF n, F
    <3> QED BY <1>a, <2>3, <3>1, <3>2
  <2>4. CASE i # d /\ d \notin Ancestors(i)
    <3>1. F(i) = items[r][i] BY <2>4
    <3> HIDE DEF F
    <3> QED BY <1>b, <2>4, <3>1
  <2> QED BY <2>2, <2>3, <2>4
<1>2. items' = [items EXCEPT ![r] = f] BY DEF SetRestoreDirectoryTargetPath
<1> HIDE DEF F
<1>3. \A i \in Items : f[i] = F(i) OBVIOUS
<1> HIDE DEF f
<1>4. items'[r] = f /\ \A q \in RunIds : q # r => items'[q] = items[q] BY <1>0, <1>2
<1>5. \A i \in Items : items'[r][i] = F(i) BY <1>3, <1>4
<1>6. ASSUME NEW q \in RunIds, NEW j \in Items
      PROVE  /\ items'[q][j].st = items[q][j].st /\ items'[q][j].epoch = items[q][j].epoch
             /\ items'[q][j].fresh = items[q][j].fresh
             /\ items'[q][j].root \in Suffix /\ items'[q][j].sfx \in Suffix
             /\ \/ SamePath(q, j)
                \/ q = r /\ j = d
                \/ q = r /\ d \in Ancestors(j) /\ items[r][d].st = "RUNNING"
  <2>1. CASE q = r BY <1>1, <1>5, <2>1 DEF SamePath
  <2>2. CASE q # r BY <1>4, <1>b, <2>2 DEF SamePath
  <2> QED BY <2>1, <2>2
<1>7. items'[r][d].root = items[r][d].root /\ items'[r][d].sfx = s BY <1>1, <1>5
<1> QED BY <1>6, <1>7

LEMMA FileTaken ==
    ASSUME Inv, PlacesInv, NEW r \in RunIds, NEW i \in Items, NEW s \in Suffix, NEW e,
           SetRestoreItemTargetPath(r, i, e, s), OwnsItem(r, i, e)
    PROVE  /\ \A q \in RunIds, j \in Items :
                /\ items'[q][j].st = items[q][j].st /\ items'[q][j].epoch = items[q][j].epoch
                /\ items'[q][j].fresh = items[q][j].fresh
                /\ items'[q][j].root \in Suffix /\ items'[q][j].sfx \in Suffix
                /\ SamePath(q, j) \/ (q = r /\ j = i)
           /\ items'[r][i].root = items[r][i].root /\ items'[r][i].sfx = s
<1> DEFINE n == [items[r][i] EXCEPT !.sfx = s]
<1>0. items \in [RunIds -> [Items -> ItemRow]] BY DEF Inv, Types, Rows
<1>1. \A q \in RunIds, j \in Items : items[q][j].root \in Suffix /\ items[q][j].sfx \in Suffix
  BY DEF PlacesInv, Places
<1>2. DOMAIN items[r][i] = {"st", "epoch", "fresh", "tries", "root", "sfx"} BY <1>0 DEF ItemRow
<1>3. /\ n.st = items[r][i].st /\ n.epoch = items[r][i].epoch /\ n.fresh = items[r][i].fresh
      /\ n.root = items[r][i].root /\ n.sfx = s
  BY <1>2
<1>4. items' = [items EXCEPT ![r][i] = n] BY DEF SetRestoreItemTargetPath
<1> HIDE DEF n
<1>5. items'[r][i] = n /\ \A q \in RunIds, j \in Items : q # r \/ j # i => items'[q][j] = items[q][j]
  BY <1>0, <1>4
<1> QED BY <1>1, <1>3, <1>5 DEF SamePath

(* The worker takes the path, and the row with it, unless its claim is     *)
(* gone.                                                                   *)
LEMMA TakesPath ==
    ASSUME Inv, PlacesInv, NEW w \in Workers, worker[w].pc \in AtWork, NEW s \in Suffix, NEW next,
           TakePath(w, s, next), ~Refused(w, s)
    PROVE  /\ worker'[w].pc = next /\ worker'[w].run = worker[w].run /\ worker'[w].item = It(w)
           /\ worker'[w].epoch = worker[w].epoch /\ worker'[w].root = worker[w].root /\ worker'[w].sfx = s
           /\ \A v \in Workers : v # w => worker'[v] = worker[v]
           /\ RowsPlaced(w, s)
<1> DEFINE r == worker[w].run
           i == It(w)
           m == [worker[w] EXCEPT !.sfx = s, !.pc = next]
<1>0. worker \in [Workers -> WorkerRow] BY DEF Inv, Types, Rows
<1>1. r \in RunIds /\ i \in Items BY TypedWorker
<1>2. DOMAIN worker[w] = {"pc", "run", "item", "epoch", "root", "sfx", "over", "prev", "gen"}
  BY <1>0 DEF WorkerRow
<1>3. /\ m.pc = next /\ m.run = worker[w].run /\ m.item = worker[w].item /\ m.epoch = worker[w].epoch
      /\ m.root = worker[w].root /\ m.sfx = s
  BY <1>2
<1>4. worker' = [worker EXCEPT ![w] = m] BY <1>0 DEF TakePath
<1> HIDE DEF m
<1>5. worker'[w] = m /\ \A v \in Workers : v # w => worker'[v] = worker[v] BY <1>0, <1>4
<1>6. items[r][i].st = "RUNNING" => items[r][i].epoch = worker[w].epoch /\ items[r][i].sfx = worker[w].sfx
  <2> SUFFICES ASSUME items[r][i].st = "RUNNING"
               PROVE  items[r][i].epoch = worker[w].epoch /\ items[r][i].sfx = worker[w].sfx
    OBVIOUS
  <2>1. ~Gone(r) BY <1>1 DEF Inv, RunInv, Gone
  <2>2. Holds(w) BY <2>1 DEF PlacesInv, Placement, WorkInv, Working
  <2> QED BY <2>2 DEF Holds, Row
<1>7. RowsPlaced(w, s)
  <2>1. CASE s = worker[w].sfx
    <3>1. items' = items BY <2>1 DEF TakePath
    <3>2. \A q \in RunIds, j \in Items : items[q][j].root \in Suffix /\ items[q][j].sfx \in Suffix
      BY DEF PlacesInv, Places
    <3> QED BY <1>1, <1>6, <2>1, <3>1, <3>2 DEF RowsPlaced, SamePath
  <2>2. CASE s # worker[w].sfx /\ i \in Dirs
    <3>1. items[r][i].st = "RUNNING" BY <2>2 DEF Refused, OwnsItem
    <3>2. SetRestoreDirectoryTargetPath(r, i, s) BY <2>2 DEF TakePath
    <3> QED BY <1>1, <3>1, <3>2, DirectoryTaken DEF RowsPlaced
  <2>3. CASE s # worker[w].sfx /\ i \notin Dirs
    <3>1. SetRestoreItemTargetPath(r, i, worker[w].epoch, s) BY <2>3 DEF TakePath
    <3>2. CASE OwnsItem(r, i, worker[w].epoch)
      BY <1>1, <3>1, <3>2, FileTaken DEF RowsPlaced
    <3>3. CASE ~OwnsItem(r, i, worker[w].epoch)
      <4>1. items' = items BY <3>1, <3>3 DEF SetRestoreItemTargetPath
      <4>2. items[r][i].st # "RUNNING" BY <1>6, <3>3 DEF OwnsItem
      <4>3. \A q \in RunIds, j \in Items : items[q][j].root \in Suffix /\ items[q][j].sfx \in Suffix
        BY DEF PlacesInv, Places
      <4> QED BY <1>1, <4>1, <4>2, <4>3 DEF RowsPlaced, SamePath
    <3> QED BY <3>2, <3>3
  <2> QED BY <2>1, <2>2, <2>3
<1> QED BY <1>3, <1>5, <1>7 DEF It

(* The reservation is the item's, and those of other items stay.           *)
LEMMA Reserved ==
    ASSUME PlacesInv, NEW r \in RunIds, NEW i \in Items, NEW p \in Paths,
           ReserveRestoreTargetPath(r, i, p) \/ MoveRestoreTargetReservation(r, i, p)
    PROVE  /\ reserved' \in [RunIds -> [Paths -> Items \cup {NoItem}]]
           /\ FreeFor(r, i, p) /\ reserved'[r][p] = i
           /\ \A x \in Paths : x = p \/ reserved'[r][x] = reserved[r][x] \/ reserved[r][x] = i
           /\ \A q \in RunIds : q # r => reserved'[q] = reserved[q]
<1>1. reserved \in [RunIds -> [Paths -> Items \cup {NoItem}]] BY DEF PlacesInv, Places
<1>2. CASE ReserveRestoreTargetPath(r, i, p)
  <2> DEFINE f == [reserved[r] EXCEPT ![p] = i]
  <2>1. f \in [Paths -> Items \cup {NoItem}] /\ f[p] = i /\ \A x \in Paths : x # p => f[x] = reserved[r][x]
    BY <1>1
  <2>2. reserved' = [reserved EXCEPT ![r] = f] /\ FreeFor(r, i, p) BY <1>2 DEF ReserveRestoreTargetPath
  <2> HIDE DEF f
  <2> QED BY <1>1, <2>1, <2>2
<1>3. CASE MoveRestoreTargetReservation(r, i, p)
  <2> DEFINE f == [x \in Paths |-> IF x = p THEN i ELSE IF reserved[r][x] = i THEN NoItem ELSE reserved[r][x]]
  <2>1. /\ f \in [Paths -> Items \cup {NoItem}] /\ f[p] = i
        /\ \A x \in Paths : x = p \/ f[x] = reserved[r][x] \/ reserved[r][x] = i
    BY <1>1
  <2>2. reserved' = [reserved EXCEPT ![r] = f] /\ FreeFor(r, i, p) BY <1>3 DEF MoveRestoreTargetReservation
  <2> HIDE DEF f
  <2> QED BY <1>1, <2>1, <2>2
<1> QED BY <1>2, <1>3

LEMMA PathsTaken ==
    ASSUME Inv, PlacesInv, NEW w \in Workers, ReservePath(w) \/ RenameTarget(w)
    PROVE  CalmStep \/ \E s \in Suffix : PathStep(w, s)
<1> DEFINE r == worker[w].run
           i == It(w)
<1>1. worker[w].pc \in {"reserve", "rename", "dirRename"} BY DEF ReservePath, RenameTarget, At
<1>2. worker[w].pc \in AtWork BY <1>1, WorkSteps DEF DirSteps
<1>3. r \in RunIds /\ i \in Items BY <1>2, TypedWorker
<1>4. target' = target /\ runs' = runs BY DEF ReservePath, RenameTarget, targetVars
<1>5. worker[w].sfx \in Suffix /\ worker[w].root \in Suffix BY <1>2 DEF PlacesInv, Places
<1>6. FreeSuffixes(w) \subseteq Suffix /\ RenameSuffixes(w) \subseteq Suffix
  <2>1. worker[w].sfx \in Nat /\ MaxSuffix \in Nat BY <1>5, RestoreAssumption DEF Suffix
  <2> QED BY <2>1 DEF FreeSuffixes, RenameSuffixes, Suffix
<1>7. Suffix \subseteq Nat BY RestoreAssumption DEF Suffix
<1>8. ASSUME NEW S \in SUBSET Suffix, S # {} PROVE Least(S) \in Suffix BY <1>7, <1>8, LeastMember
<1>9. \/ Goto(w, "retry") /\ items' = items /\ reserved' = reserved
      \/ \E s \in Suffix, next \in {"inspect", "upload", "dirInspect", "dirCreate"} :
           /\ \/ ReserveRestoreTargetPath(r, i, PathOf(i, worker[w].root, s))
              \/ MoveRestoreTargetReservation(r, i, PathOf(i, worker[w].root, s))
           /\ \/ Goto(w, "retry") /\ items' = items
              \/ ~Refused(w, s) /\ TakePath(w, s, next)
           /\ worker[w].pc = "reserve" => (next \in {"dirInspect", "dirCreate"} <=> i \in Dirs)
           /\ worker[w].pc # "reserve" => (next \in {"dirInspect", "dirCreate"} <=> worker[w].pc = "dirRename")
  <2>1. CASE ReservePath(w)
    <3>1. CASE FreeSuffixes(w) = {} BY <2>1, <3>1 DEF ReservePath
    <3>2. CASE FreeSuffixes(w) # {}
      <4> DEFINE s == Least(FreeSuffixes(w))
                 next == IF i \in Dirs THEN "dirInspect" ELSE "inspect"
      <4>1. s \in Suffix BY <1>6, <1>8, <3>2
      <4>2. /\ ReserveRestoreTargetPath(r, i, PathOf(i, worker[w].root, s))
            /\ IF Refused(w, s) THEN Goto(w, "retry") /\ items' = items ELSE TakePath(w, s, next)
        BY <2>1, <3>2 DEF ReservePath
      <4>3. worker[w].pc = "reserve" BY <2>1 DEF ReservePath, At
      <4>4. next \in {"inspect", "upload", "dirInspect", "dirCreate"}
            /\ (next \in {"dirInspect", "dirCreate"} <=> i \in Dirs)
        OBVIOUS
      <4> HIDE DEF s, next
      <4> QED BY <4>1, <4>2, <4>3, <4>4
    <3> QED BY <3>1, <3>2
  <2>2. CASE RenameTarget(w)
    <3>1. CASE RenameSuffixes(w) = {} BY <2>2, <3>1 DEF RenameTarget
    <3>2. CASE RenameSuffixes(w) # {}
      <4> DEFINE s == Least(RenameSuffixes(w))
                 next == IF At(w, "rename") THEN "upload" ELSE "dirCreate"
      <4>1. s \in Suffix BY <1>6, <1>8, <3>2
      <4>2. /\ MoveRestoreTargetReservation(r, i, PathOf(i, worker[w].root, s))
            /\ IF Refused(w, s) THEN Goto(w, "retry") /\ items' = items ELSE TakePath(w, s, next)
        BY <2>2, <3>2 DEF RenameTarget
      <4>3. worker[w].pc \in {"rename", "dirRename"} BY <2>2 DEF RenameTarget
      <4>4. next \in {"inspect", "upload", "dirInspect", "dirCreate"}
            /\ (next \in {"dirInspect", "dirCreate"} <=> worker[w].pc = "dirRename")
        BY <4>3 DEF At
      <4> HIDE DEF s, next
      <4> QED BY <4>1, <4>2, <4>3, <4>4
    <3> QED BY <3>1, <3>2
  <2> QED BY <2>1, <2>2
<1>10. CASE Goto(w, "retry") /\ items' = items /\ reserved' = reserved
  <2>1. \A v \in Workers : Remains(v) BY <1>2, <1>10, WentTo, OneRemains, WorkSteps
  <2> QED BY <1>4, <1>10, <2>1, QuietPlaces DEF PlacesInv
<1>11. ASSUME NEW s \in Suffix, NEW next \in {"inspect", "upload", "dirInspect", "dirCreate"},
              \/ ReserveRestoreTargetPath(r, i, PathOf(i, worker[w].root, s))
              \/ MoveRestoreTargetReservation(r, i, PathOf(i, worker[w].root, s)),
              \/ Goto(w, "retry") /\ items' = items
              \/ ~Refused(w, s) /\ TakePath(w, s, next),
              worker[w].pc = "reserve" => (next \in {"dirInspect", "dirCreate"} <=> i \in Dirs),
              worker[w].pc # "reserve" => (next \in {"dirInspect", "dirCreate"} <=> worker[w].pc = "dirRename")
       PROVE  PathStep(w, s)
  <2> DEFINE p == PathOf(i, worker[w].root, s)
  <2>1. p \in Paths BY <1>3, <1>5, IsPath
  <2>2. /\ reserved' \in [RunIds -> [Paths -> Items \cup {NoItem}]]
        /\ FreeFor(r, i, p) /\ reserved'[r][p] = i
        /\ \A x \in Paths : x = p \/ reserved'[r][x] = reserved[r][x] \/ reserved[r][x] = i
        /\ \A q \in RunIds : q # r => reserved'[q] = reserved[q]
    <3> HIDE DEF p, r, i
    <3>1. ReserveRestoreTargetPath(r, i, p) \/ MoveRestoreTargetReservation(r, i, p) BY <1>11 DEF p, r, i
    <3> QED BY <1>3, <2>1, <3>1, Reserved
  <2>3. CASE Goto(w, "retry") /\ items' = items
    <3>1. worker'[w].pc = "retry" /\ SameClaim(w) /\ \A v \in Workers : v # w => worker'[v] = worker[v]
      BY <2>3, WentTo
    <3> QED BY <1>1, <1>4, <2>2, <2>3, <3>1 DEF PathStep
  <2>4. CASE ~Refused(w, s) /\ TakePath(w, s, next)
    <3>1. /\ worker'[w].pc = next /\ worker'[w].run = r /\ worker'[w].item = i
          /\ worker'[w].epoch = worker[w].epoch /\ worker'[w].root = worker[w].root /\ worker'[w].sfx = s
          /\ \A v \in Workers : v # w => worker'[v] = worker[v]
          /\ RowsPlaced(w, s)
      BY <1>2, <2>4, TakesPath
    <3>2. next \in Placed \ (InPlace \cup {"dirComplete"}) /\ (next \in DirSteps <=> next \in {"dirInspect", "dirCreate"})
      BY WorkSteps DEF DirSteps, InPlace
    <3>3. ~Gone(r) => (next \in DirSteps <=> i \in Dirs)
      <4>1. CASE worker[w].pc = "reserve" BY <1>11, <3>2, <4>1
      <4>2. CASE worker[w].pc \in {"rename", "dirRename"}
        <5>1. worker[w].pc \in Placed BY <4>2, WorkSteps DEF DirSteps
        <5>2. ~Gone(r) => (worker[w].pc \in DirSteps <=> i \in Dirs)
          BY <1>2, <5>1 DEF PlacesInv, Placement, WorkInv, Writes, Working
        <5>3. worker[w].pc \in DirSteps <=> worker[w].pc = "dirRename" BY <4>2 DEF DirSteps
        <5>4. next \in DirSteps <=> worker[w].pc = "dirRename" BY <1>11, <3>2, <4>2
        <5> QED BY <5>2, <5>3, <5>4
      <4> QED BY <1>1, <4>1, <4>2
    <3> QED BY <1>1, <1>4, <2>2, <3>1, <3>2, <3>3 DEF PathStep
  <2> QED BY <1>11, <2>3, <2>4
<1> QED BY <1>9, <1>10, <1>11

-----------------------------------------------------------------------------
(* The job is deleted. *)

LEMMA DeletePlaces ==
    ASSUME Inv, Inv', PlacesInv, HandleDeleteRestoreJob
    PROVE  Places' /\ Placement'
<1>1. /\ worker' = worker /\ target' = target
      /\ items' = [r \in RunIds |-> [i \in Items |-> NoRow]]
      /\ reserved' = [r \in RunIds |-> [p \in Paths |-> NoItem]]
      /\ \E r \in RunIds : runs[r].st # "NONE"
      /\ \A r \in RunIds : runs[r].st \notin Open
      /\ runs' = [r \in RunIds |-> IF runs[r].st = "NONE" THEN runs[r] ELSE [NoRun EXCEPT !.st = "GONE"]]
  BY DEF HandleDeleteRestoreJob, DeleteRestoreJob, JobExists, HasOpenRun, others, targetVars
<1>2. NoRow.st = "NONE" /\ NoRow.root = 0 /\ NoRow.sfx = 0 BY DEF NoRow
<1>3. 0 \in Suffix BY RestoreAssumption DEF Suffix
<1>4. \A r \in RunIds, i \in Items : items'[r][i] = NoRow BY <1>1
<1>5. Places' BY <1>1, <1>2, <1>3, <1>4 DEF PlacesInv, Places
<1>6. CASE MaxRuns = 1
  <2>1. [NoRun EXCEPT !.st = "GONE"].st = "GONE" BY DEF NoRun
  <2>2. \E r \in RunIds : Gone(r)' BY <1>1, <2>1 DEF Gone
  <2> QED BY <1>5, <1>6, <2>2, GoneKept
<1>7. CASE MaxRuns # 1
  <2>1. ASSUME NEW w \in Workers, worker[w].pc \in AtWork PROVE FALSE
    <3>1. worker[w].run \in RunIds /\ It(w) \in Items BY <2>1, TypedWorker
    <3>2. Holds(w) BY <1>7, <2>1 DEF PlacesInv, Placement, WorkInv, Working
    <3>3. Row(w).st = "RUNNING" BY <1>7, <3>2 DEF Holds
    <3>4. runs[worker[w].run].st \in Open BY <3>1, <3>3, RunningIsOpen DEF Row
    <3> QED BY <1>1, <3>1, <3>4
  <2>2. \A w \in Workers : worker'[w].pc \notin AtWork BY <1>1, <2>1
  <2>3. \A w \in Workers : ~Working(w)' BY <2>2 DEF Working
  <2>4. \A r \in RunIds, i \in Items : PlaceInv(r, i)' BY <1>2, <1>4 DEF PlaceInv, Started, Done
  <2> QED BY <1>5, <2>2, <2>3, <2>4 DEF Placement, WorkInv, Alone
<1> QED BY <1>6, <1>7

-----------------------------------------------------------------------------
(* Runs are created by the owner only. *)

NoneStays == \A r \in RunIds : runs[r].st = "NONE" => runs'[r].st = "NONE"

LEMMA WorkersCreateNoRun ==
    ASSUME Inv, NEW w \in Workers, WorkerStep(w)
    PROVE  NoneStays
<1>0. runs \in [RunIds -> Run] BY DEF Inv, Types, Rows
<1>1. CASE runs' = runs BY <1>1 DEF NoneStays
<1>2. CASE PollRecoverPlanning(w)
  BY <1>2 DEF PollRecoverPlanning, RecoverStaleRestorePlanning, NoneStays
<1>3. CASE PollRun(w)
  <2>1. PICK r \in RunIds : runs[r].st = "QUEUED" /\ runs' = [runs EXCEPT ![r].st = "PLANNING", ![r].fresh = TRUE]
    BY <1>3 DEF PollRun, ClaimNextQueuedRestoreRun
  <2> QED BY <1>0, <2>1 DEF NoneStays
<1>4. CASE Plan(w)
  <2>1. \/ runs' = runs
        \/ runs[worker[w].run].st = "PLANNING" /\ runs' = [runs EXCEPT ![worker[w].run].st = "RUNNING"]
    BY <1>4 DEF Plan, CanPlan, PlanRestoreRun
  <2> QED BY <1>0, <2>1 DEF NoneStays
<1>5. CASE FailPlan(w)
  <2>1. \/ runs' = runs
        \/ /\ runs[worker[w].run].st = "PLANNING"
           /\ runs' = [runs EXCEPT ![worker[w].run].st = "FAILED", ![worker[w].run].creds = FALSE]
    BY <1>5 DEF FailPlan, FailRestoreRunPlanning, CloseRun
  <2> QED BY <1>0, <2>1 DEF NoneStays
<1>6. CASE PollFinalize(w)
  <2>1. \A r \in RunIds : Drained(r) \/ runs'[r] = runs[r]
    BY <1>6 DEF PollFinalize, FinalizeCompletedRestoreRuns
  <2> QED BY <2>1 DEF NoneStays, Drained
<1>7. CASE PollFinalizeCancelling(w)
  <2>1. \A r \in RunIds : runs[r].st = "CANCELLING" \/ runs'[r] = runs[r]
    BY <1>7 DEF PollFinalizeCancelling, FinalizeCancellingRestoreRuns
  <2> QED BY <2>1 DEF NoneStays
<1>8. CASE ConnectTarget(w)
  <2>1. \/ runs' = runs
        \/ runs[worker[w].run].st \in Open /\ runs' = [runs EXCEPT ![worker[w].run].creds = TRUE]
    BY <1>8 DEF ConnectTarget, StoreSession
  <2> QED BY <1>0, <2>1 DEF NoneStays, Open
<1>9. CASE \/ PollRecoverItems(w) \/ PollExpire(w) \/ PollPreview(w) \/ CountPreview(w) \/ FinishPreview(w)
           \/ PollSkipBlocked(w) \/ PollItem(w)
  BY <1>1, <1>9 DEF PollRecoverItems, PollExpire, PollPreview, CountPreview, FinishPreview, PollSkipBlocked,
                    PollItem, rest
<1>10. CASE \/ LoadTarget(w) \/ ReservePath(w) \/ InspectTarget(w) \/ RenameTarget(w) \/ Upload(w)
            \/ DropBackup(w) \/ SetAside(w) \/ SwapIn(w) \/ PutBack(w) \/ DropAside(w)
  BY <1>1, <1>10 DEF LoadTarget, ReservePath, InspectTarget, RenameTarget, Upload, DropBackup, SetAside, SwapIn,
                     PutBack, DropAside, rest
<1>11. CASE \/ VerifyTarget(w) \/ Complete(w) \/ ApplyMetadata(w) \/ InspectDirectory(w)
            \/ ReplaceByDirectory(w) \/ CreateDirectory(w) \/ Retry(w) \/ FailItem(w)
  BY <1>1, <1>11 DEF VerifyTarget, Complete, ApplyMetadata, InspectDirectory, ReplaceByDirectory,
                     CreateDirectory, Retry, FailItem, rest
<1>12. CASE HeartbeatItem(w) \/ HeartbeatPreview(w) \/ Crash(w)
  BY <1>1, <1>12 DEF HeartbeatItem, HeartbeatPreview, Crash, rowVars, rest
<1> QED BY <1>2, <1>3, <1>4, <1>5, <1>6, <1>7, <1>8, <1>9, <1>10, <1>11, <1>12 DEF WorkerStep, WorkerNext

LEMMA RunsCreated ==
    ASSUME Inv, [Next]_vars
    PROVE  Created
<1>0. runs \in [RunIds -> Run] BY DEF Inv, Types, Rows
<1>1. NoneStays => Created BY DEF NoneStays, Created
<1>2. CASE UNCHANGED vars
  <2>1. runs' = runs BY <1>2 DEF vars, storeVars
  <2> QED BY <1>1, <2>1 DEF NoneStays
<1>3. ASSUME NEW w \in Workers, WorkerStep(w) PROVE Created BY <1>1, <1>3, WorkersCreateNoRun
<1>4. CASE TimePasses
  <2>1. ASSUME NEW r \in RunIds, RunLapses(r) PROVE NoneStays BY <1>0, <2>1 DEF RunLapses, NoneStays
  <2>2. ASSUME NEW r \in RunIds, NEW i \in Items, ItemLapses(r, i) PROVE NoneStays
    BY <2>2 DEF ItemLapses, rest, NoneStays
  <2>3. ASSUME NEW p \in PreviewIds, PreviewLapses(p) PROVE NoneStays BY <2>3 DEF PreviewLapses, NoneStays
  <2> QED BY <1>1, <1>4, <2>1, <2>2, <2>3 DEF TimePasses
<1>5. CASE HandleCreateRestorePreview \/ HandleCancelRestorePreview \/ SnapshotGoes
  BY <1>1, <1>5 DEF HandleCreateRestorePreview, HandleCancelRestorePreview, SnapshotGoes, rowVars, NoneStays
<1>6. CASE HandleConsumeRestorePreview
  <2>1. PICK p \in PreviewIds, r \in RunIds : ConsumeRestorePreview(p, r) BY <1>6 DEF HandleConsumeRestorePreview
  <2>2. ASSUME NEW q \in RunIds, NEW t \in RunIds, q < t, runs[t].st = "NONE", runs'[t].st # "NONE"
        PROVE  runs[q].st \notin Open \cup {"NONE"}
    <3>1. t = r BY <1>0, <2>1, <2>2 DEF ConsumeRestorePreview
    <3>2. runs[q].st # "NONE" BY <2>1, <2>2, <3>1 DEF ConsumeRestorePreview
    <3>3. runs[q].st \notin Open
      <4>1. ~HasOpenRun \/ ~JobExists BY <2>1 DEF ConsumeRestorePreview
      <4>2. runs[q].st \in Open => runs[q].st \notin {"NONE", "GONE"} BY DEF Open
      <4> QED BY <4>1, <4>2 DEF HasOpenRun, JobExists
    <3> QED BY <3>2, <3>3
  <2> QED BY <2>2 DEF Created
<1>7. CASE HandleCancelRestoreRun
  <2>1. PICK r \in RunIds : CancelRestoreRun(r) BY <1>7 DEF HandleCancelRestoreRun
  <2>2. /\ runs[r].st \in {"QUEUED", "PLANNING", "RUNNING"}
        /\ \/ runs' = [runs EXCEPT ![r].st = "CANCELLED", ![r].creds = FALSE]
           \/ runs' = [runs EXCEPT ![r].st = "CANCELLING"]
    BY <2>1 DEF CancelRestoreRun, CloseRun
  <2> QED BY <1>0, <1>1, <2>2 DEF NoneStays
<1>8. CASE HandleDeleteRestoreJob
  <2>1. runs' = [r \in RunIds |-> IF runs[r].st = "NONE" THEN runs[r] ELSE [NoRun EXCEPT !.st = "GONE"]]
    BY <1>8 DEF HandleDeleteRestoreJob, DeleteRestoreJob
  <2>2. \A r \in RunIds : runs[r].st = "NONE" => runs'[r] = runs[r] BY <2>1
  <2> QED BY <1>1, <2>2 DEF NoneStays
<1>9. CASE SuspendUser
  <2>1. runs' = [r \in RunIds |-> IF runs[r].st \in Open THEN CloseRun(r, "CANCELLED")[r] ELSE runs[r]]
    BY <1>9 DEF SuspendUser, SuspendRestores
  <2>2. \A r \in RunIds : runs[r].st \in Open \/ runs'[r] = runs[r] BY <2>1
  <2> QED BY <1>1, <2>2 DEF NoneStays, Open
<1> QED BY <1>2, <1>3, <1>4, <1>5, <1>6, <1>7, <1>8, <1>9 DEF Next, Users

-----------------------------------------------------------------------------
(* Every step keeps the places. *)

(* A run that is open is not deleted.                                      *)
LEMMA OpenDoesNotGo ==
    ASSUME NEW r \in RunIds, RunStep(r), runs[r].st \in Open
    PROVE  runs'[r].st # "GONE"
<1>1. runs[r].st # "GONE" BY DEF Open
<1>2. CASE Works(r) BY <1>1, <1>2 DEF Works
<1>3. CASE Touches(r) BY <1>1, <1>3 DEF Touches
<1>4. CASE Queues(r) BY <1>4 DEF Queues
<1>5. CASE Plans(r) \/ FailsToPlan(r) BY <1>5 DEF Plans, FailsToPlan
<1>6. CASE Finishes(r) BY <1>6 DEF Finishes, OutcomeOf
<1>7. CASE Cancels(r) \/ StartsCancelling(r) BY <1>7 DEF Cancels, StartsCancelling
<1>8. CASE Goes(r) BY <1>8 DEF Goes
<1> QED BY <1>2, <1>3, <1>4, <1>5, <1>6, <1>7, <1>8 DEF RunStep

LEMMA CalmSteps ==
    ASSUME Inv, Inv', PlacesInv, Steps, CalmStep
    PROVE  Places' /\ Placement'
<1>1. ASSUME NEW w \in Workers, worker'[w].pc \in AtWork, Gone(worker[w].run)', MaxRuns # 1 PROVE FALSE
  <2>1. worker[w].pc \in AtWork /\ worker'[w].run = worker[w].run
    BY <1>1 DEF CalmStep, Remains, SameClaim
  <2>2. worker[w].run \in RunIds /\ It(w) \in Items BY <2>1, TypedWorker
  <2>3. Row(w).st = "RUNNING" BY <1>1, <2>1 DEF PlacesInv, Placement, WorkInv, Working, Holds
  <2>4. runs[worker[w].run].st \in Open BY <2>2, <2>3, RunningIsOpen DEF Row
  <2>5. runs'[worker[w].run].st # "GONE" BY <2>2, <2>4, OpenDoesNotGo DEF Steps
  <2> QED BY <1>1, <2>1, <2>5 DEF Gone
<1>2. \A w \in Workers : worker'[w].pc \in AtWork /\ Gone(worker[w].run)' => MaxRuns = 1 BY <1>1
<1> QED BY <1>2, CalmPlaces, CalmKept DEF PlacesInv

LEMMA WriteSteps ==
    ASSUME Inv, Inv', PlacesInv, NEW w \in Workers, WriteStep(w)
    PROVE  Places' /\ Placement'
<1>1. Places' BY WritePlaces DEF PlacesInv
<1>2. worker[w].pc \in AtWork BY WorkSteps DEF WriteStep
<1>3. CASE Gone(worker[w].run)
  <2>1. MaxRuns = 1 BY <1>2, <1>3 DEF PlacesInv, Placement, WorkInv
  <2>2. worker[w].run \in RunIds BY <1>2, TypedWorker
  <2>3. runs'[worker[w].run].st = "GONE" BY <1>3 DEF WriteStep, Gone
  <2>4. \E r \in RunIds : Gone(r)' BY <2>2, <2>3 DEF Gone
  <2> QED BY <1>1, <2>1, <2>4, GoneKept
<1>4. CASE ~Gone(worker[w].run)
  <2>1. Working(w) BY <1>2, <1>4 DEF Working
  <2> QED BY <1>1, <2>1, WriteKept
<1> QED BY <1>3, <1>4

LEMMA PathsKept ==
    ASSUME Inv, Inv', PlacesInv, Steps, NEW w \in Workers, NEW s \in Suffix, PathStep(w, s)
    PROVE  Places' /\ Placement'
<1>1. Places' BY PathPlaces DEF PlacesInv
<1>2. worker[w].pc \in AtWork BY WorkSteps DEF PathStep, DirSteps
<1>3. CASE Gone(worker[w].run)
  <2>1. MaxRuns = 1 BY <1>2, <1>3 DEF PlacesInv, Placement, WorkInv
  <2>2. worker[w].run \in RunIds BY <1>2, TypedWorker
  <2>3. runs'[worker[w].run].st = "GONE" BY <1>3 DEF PathStep, Gone
  <2>4. \E r \in RunIds : Gone(r)' BY <2>2, <2>3 DEF Gone
  <2> QED BY <1>1, <2>1, <2>4, GoneKept
<1>4. CASE ~Gone(worker[w].run)
  <2>1. Working(w) BY <1>2, <1>4 DEF Working
  <2> QED BY <1>1, <2>1, PathKept
<1> QED BY <1>3, <1>4

(* The kinds of steps.                                                     *)
StepKind ==
    \/ CalmStep
    \/ HandleDeleteRestoreJob
    \/ \E w \in Workers :
         \/ WriteStep(w) \/ CompleteStep(w)
         \/ \E r \in RunIds, i \in Items : ClaimStep(w, r, i)
         \/ \E s \in Suffix : PathStep(w, s)

LEMMA EveryKind ==
    ASSUME Inv, PlacesInv, ~SlowWorkers, [Next]_vars, MaxRuns = 1 \/ ~SuspendUser \/ UNCHANGED vars
    PROVE  StepKind
<1>1. CASE CalmStep BY <1>1 DEF StepKind
<1>2. CASE UNCHANGED vars BY <1>1, <1>2, IdlePolls
<1>3. ASSUME NEW w \in Workers, WorkerStep(w) PROVE StepKind
  <2>0. CASE WriteStep(w) BY <2>0 DEF StepKind
  <2>1. CASE \/ Upload(w) \/ DropBackup(w) \/ SetAside(w) \/ SwapIn(w) \/ PutBack(w) \/ DropAside(w)
             \/ VerifyTarget(w) \/ ReplaceByDirectory(w) \/ CreateDirectory(w)
    BY <2>0, <2>1, FileWrites, DirectoryWrites
  <2>2. CASE InspectTarget(w) \/ InspectDirectory(w) BY <1>1, <2>0, <2>2, InspectWrites
  <2>3. CASE Complete(w) BY <2>3, CompleteSteps DEF StepKind
  <2>4. CASE PollItem(w) BY <2>4, ItemClaimed DEF StepKind
  <2>5. CASE ReservePath(w) \/ RenameTarget(w) BY <2>5, PathsTaken DEF StepKind
  <2>6. CASE PollRecoverItems(w) \/ PollSkipBlocked(w) BY <1>1, <2>6, RecoverySteps
  <2>7. CASE HeartbeatItem(w) BY <1>1, <2>7, LeaseSteps
  <2>8. CASE ApplyMetadata(w) BY <1>1, <2>8, MetadataStep
  <2>9. CASE Retry(w) \/ FailItem(w) BY <1>1, <2>9, ErrorSteps
  <2>10. CASE LoadTarget(w) \/ ConnectTarget(w) BY <1>1, <2>10, UnplacedSteps
  <2>11. CASE Crash(w) BY <1>1, <2>11, CrashCalm
  <2>12. CASE Plan(w) BY <1>1, <2>12, PlanCalm
  <2>13. CASE PollPreview(w) \/ CountPreview(w) \/ FinishPreview(w) \/ PollRun(w) \/ FailPlan(w)
    BY <1>1, <2>13, PlanlessSteps
  <2>14. CASE \/ PollExpire(w) \/ PollRecoverPlanning(w) \/ PollFinalize(w) \/ PollFinalizeCancelling(w)
              \/ HeartbeatPreview(w)
    BY <1>1, <2>14, IdlePolls
  <2> QED BY <1>3, <2>1, <2>2, <2>3, <2>4, <2>5, <2>6, <2>7, <2>8, <2>9, <2>10, <2>11, <2>12, <2>13, <2>14
          DEF WorkerStep, WorkerNext
<1>4. CASE TimePasses
  <2>1. ASSUME NEW r \in RunIds, RunLapses(r) PROVE CalmStep BY <2>1, IdlePolls
  <2>2. ASSUME NEW r \in RunIds, NEW i \in Items, ItemLapses(r, i) PROVE CalmStep BY <2>2, LeaseSteps
  <2>3. ASSUME NEW p \in PreviewIds, PreviewLapses(p) PROVE CalmStep BY <2>3, IdlePolls
  <2> QED BY <1>1, <1>4, <2>1, <2>2, <2>3 DEF TimePasses
<1>5. CASE Users
  <2>1. CASE HandleCreateRestorePreview \/ HandleCancelRestorePreview \/ HandleConsumeRestorePreview
    BY <1>1, <2>1, IdlePolls
  <2>2. CASE HandleCancelRestoreRun BY <1>1, <2>2, CancelSteps
  <2>3. CASE HandleDeleteRestoreJob BY <2>3 DEF StepKind
  <2>4. CASE SuspendUser BY <1>1, <1>2, <2>4, CancelSteps
  <2> QED BY <1>5, <2>1, <2>2, <2>3, <2>4 DEF Users
<1>6. CASE SnapshotGoes BY <1>1, <1>6, IdlePolls
<1> QED BY <1>2, <1>3, <1>4, <1>5, <1>6 DEF Next

LEMMA PlacesKept ==
    ASSUME Inv, PlacesInv, ~SlowWorkers, [Next]_vars, MaxRuns = 1 \/ ~SuspendUser \/ UNCHANGED vars
    PROVE  PlacesInv'
<1>1. Inv' /\ Steps BY InvKept, NextStep
<1>2. RunsInOrder' BY <1>1, RunsCreated, OrderKept DEF PlacesInv
<1> SUFFICES Places' /\ Placement' BY <1>2 DEF PlacesInv
<1>3. CASE CalmStep BY <1>1, <1>3, CalmSteps
<1>4. CASE HandleDeleteRestoreJob BY <1>1, <1>4, DeletePlaces
<1>5. ASSUME NEW w \in Workers, WriteStep(w) PROVE Places' /\ Placement' BY <1>1, <1>5, WriteSteps
<1>6. ASSUME NEW w \in Workers, CompleteStep(w) PROVE Places' /\ Placement'
  BY <1>1, <1>6, CompletePlaces, CompleteKept DEF PlacesInv
<1>7. ASSUME NEW w \in Workers, NEW r \in RunIds, NEW i \in Items, ClaimStep(w, r, i) PROVE Places' /\ Placement'
  BY <1>1, <1>7, ClaimPlaces, ClaimKept DEF PlacesInv
<1>8. ASSUME NEW w \in Workers, NEW s \in Suffix, PathStep(w, s) PROVE Places' /\ Placement'
  BY <1>1, <1>8, PathsKept
<1> QED BY <1>3, <1>4, <1>5, <1>6, <1>7, <1>8, EveryKind DEF StepKind

LEMMA PlacesInitially == Init => PlacesInv
<1> SUFFICES ASSUME Init PROVE PlacesInv OBVIOUS
<1>1. /\ runs = [r \in RunIds |-> IF Boot = "planned" /\ r = 1
                                  THEN [st |-> "RUNNING", fresh |-> FALSE, creds |-> TRUE] ELSE NoRun]
      /\ items = [r \in RunIds |-> [i \in Items |-> IF Boot = "planned" /\ r = 1 THEN Planned ELSE NoRow]]
      /\ reserved = [r \in RunIds |-> [p \in Paths |-> NoItem]]
      /\ worker = [w \in Workers |-> Idle]
  BY DEF Init, StoreInit, WorkerInit
<1>2. PICK mine : target = [p \in Paths |-> IF p \in mine THEN "orig" ELSE "none"] BY DEF Init, StoreInit
<1>3. 0 \in Suffix BY RestoreAssumption DEF Suffix
<1>4. /\ NoRow.st = "NONE" /\ NoRow.root = 0 /\ NoRow.sfx = 0
      /\ Planned.st = "PENDING" /\ Planned.root = 0 /\ Planned.sfx = 0
  BY DEF NoRow, Planned
<1>5. \A w \in Workers : worker[w].pc \notin AtWork BY <1>1, WorkSteps DEF Idle
<1>6. ASSUME NEW r \in RunIds, NEW i \in Items
      PROVE  items[r][i].st \in {"NONE", "PENDING"} /\ items[r][i].root = 0 /\ items[r][i].sfx = 0
  <2>1. items[r][i] = IF Boot = "planned" /\ r = 1 THEN Planned ELSE NoRow BY <1>1
  <2> QED BY <1>4, <2>1
<1>7. target = [p \in Paths |-> target[p]]
  <2> DEFINE t == [p \in Paths |-> IF p \in mine THEN "orig" ELSE "none"]
  <2>1. t = [p \in Paths |-> t[p]] OBVIOUS
  <2> HIDE DEF t
  <2> QED BY <1>2, <2>1 DEF t
<1>8. Places BY <1>1, <1>3, <1>5, <1>6, <1>7 DEF Places
<1>9. RunsInOrder
  <2> SUFFICES ASSUME NEW q \in RunIds, NEW r \in RunIds, q < r PROVE runs[r].st = "NONE" BY DEF RunsInOrder
  <2>1. r # 1 BY RestoreAssumption DEF RunIds
  <2>2. runs[r] = NoRun BY <1>1, <2>1
  <2> QED BY <2>2 DEF NoRun
<1>10. Placement BY <1>5, <1>6 DEF Placement, WorkInv, Working, Alone, PlaceInv, Started, Done
<1> QED BY <1>8, <1>9, <1>10 DEF PlacesInv

LEMMA PlacedIsRestored == PlacesInv => CompletedIsRestored
BY DEF PlacesInv, Placement, PlaceInv, CompletedIsRestored

(***************************************************************************)
(* What a job with one run reports as restored is there, though workers    *)
(* crash, retry and rename, and the owner cancels, deletes or is suspended *)
(* at any time (restoreItem, promoteRestoreUpload and the reservations of  *)
(* reserveRestoreTargetPath), as long as no live worker misses its         *)
(* heartbeats for two minutes.                                             *)
(***************************************************************************)
THEOREM RestoredIsThere ==
    ASSUME ~SlowWorkers, MaxRuns = 1
    PROVE  Spec => []CompletedIsRestored
<1>1. Init => PlacesInv BY PlacesInitially
<1>2. Inv /\ PlacesInv /\ [Next]_vars => PlacesInv' BY PlacesKept
<1>3. PlacesInv => CompletedIsRestored BY PlacedIsRestored
<1> QED BY <1>1, <1>2, <1>3, RowsConsistent, PTL DEF Spec

(***************************************************************************)
(* The same for a job that is retried any number of times, while its owner *)
(* is not suspended.  A suspension cancels items under the hands of their  *)
(* workers, and such a worker may still write when the next run is at      *)
(* work (SuspendUser, restoreItem).                                        *)
(***************************************************************************)
THEOREM RestoredAgainIsThere ==
    ASSUME ~SlowWorkers
    PROVE  Spec /\ [][~SuspendUser]_vars => []CompletedIsRestored
<1>1. Init => PlacesInv BY PlacesInitially
<1>2. Inv /\ PlacesInv /\ [Next]_vars /\ [~SuspendUser]_vars => PlacesInv' BY PlacesKept
<1>3. PlacesInv => CompletedIsRestored BY PlacedIsRestored
<1> QED BY <1>1, <1>2, <1>3, RowsConsistent, PTL DEF Spec

-----------------------------------------------------------------------------
(* SKIP and RENAME touch no file of the user. *)

Replacing == {"dropBackup", "setAside", "putBack", "dropAside", "dirReplace"}
Writing == {"upload", "swapIn", "dirCreate"}

(* A worker never replaces, and where it writes no file of the user is.    *)
Spares(w) ==
    /\ worker[w].over = FALSE /\ worker[w].pc \notin Replacing
    /\ worker[w].pc \in Writing => \A p \in Paths : p = Dest(w) => target[p] # "orig"

SparesInv ==
    strategy # "OVERWRITE" => target = [p \in Paths |-> target[p]] /\ \A w \in Workers : Spares(w)

(* The files of the user are where they were, in place and aside.          *)
OriginalsStay ==
    /\ target' = [p \in Paths |-> target'[p]] /\ aside' = aside
    /\ \A p \in Paths : target'[p] = "orig" <=> target[p] = "orig"

Sparing == strategy # "OVERWRITE" /\ SparesInv

LEMMA SparesSame ==
    ASSUME OriginalsStay, NEW v \in Workers, Spares(v), worker'[v] = worker[v]
    PROVE  Spares(v)'
<1>1. Dest(v)' = Dest(v) BY DEF Dest, It, PathOf
<1> QED BY <1>1 DEF Spares, OriginalsStay

LEMMA OthersSpare ==
    ASSUME Sparing, OriginalsStay, NEW w \in Workers, \A v \in Workers : v # w => worker'[v] = worker[v], Spares(w)'
    PROVE  \A v \in Workers : Spares(v)'
BY SparesSame DEF Sparing, SparesInv

LEMMA TargetStays ==
    ASSUME Sparing, UNCHANGED targetVars
    PROVE  OriginalsStay
BY DEF Sparing, SparesInv, OriginalsStay, targetVars

(* A worker goes to a step that neither replaces nor writes.               *)
LEMMA GoesSparing ==
    ASSUME Types, Sparing, OriginalsStay, NEW w \in Workers, NEW p, p \notin Replacing \cup Writing, Goto(w, p)
    PROVE  \A v \in Workers : Spares(v)'
<1>1. worker \in [Workers -> WorkerRow] BY DEF Types, Rows
<1>2. worker'[w] = [worker[w] EXCEPT !.pc = p] /\ \A v \in Workers : v # w => worker'[v] = worker[v]
  BY <1>1 DEF Goto
<1>3. DOMAIN worker[w] = {"pc", "run", "item", "epoch", "root", "sfx", "over", "prev", "gen"}
  BY <1>1 DEF WorkerRow
<1>4. worker'[w].pc = p /\ worker'[w].over = worker[w].over BY <1>2, <1>3
<1>5. Spares(w)' BY <1>4 DEF Spares, Sparing, SparesInv
<1> QED BY <1>2, <1>5, OthersSpare

LEMMA ReturnsSparing ==
    ASSUME Types, Sparing, OriginalsStay, NEW w \in Workers, Return(w)
    PROVE  \A v \in Workers : Spares(v)'
<1>1. worker \in [Workers -> WorkerRow] BY DEF Types, Rows
<1>2. worker'[w] = Idle /\ \A v \in Workers : v # w => worker'[v] = worker[v] BY <1>1 DEF Return
<1>3. Spares(w)' BY <1>2 DEF Spares, Idle, Replacing, Writing
<1> QED BY <1>2, <1>3, OthersSpare

(* A worker goes to write where no file of the user is.                    *)
LEMMA WritesSparing ==
    ASSUME Types, Sparing, OriginalsStay, NEW w \in Workers, NEW p \in Writing, Goto(w, p),
           \A q \in Paths : q = Dest(w) => target[q] # "orig"
    PROVE  \A v \in Workers : Spares(v)'
<1>1. worker \in [Workers -> WorkerRow] BY DEF Types, Rows
<1>2. worker'[w] = [worker[w] EXCEPT !.pc = p] /\ \A v \in Workers : v # w => worker'[v] = worker[v]
  BY <1>1 DEF Goto
<1>3. DOMAIN worker[w] = {"pc", "run", "item", "epoch", "root", "sfx", "over", "prev", "gen"}
  BY <1>1 DEF WorkerRow
<1>4. /\ worker'[w].pc = p /\ worker'[w].over = worker[w].over /\ worker'[w].item = worker[w].item
      /\ worker'[w].root = worker[w].root /\ worker'[w].sfx = worker[w].sfx
  BY <1>2, <1>3
<1>5. Dest(w)' = Dest(w) BY <1>4 DEF Dest, It, PathOf
<1>6. p \notin Replacing BY DEF Writing, Replacing
<1>7. Spares(w)' BY <1>4, <1>5, <1>6 DEF Spares, Sparing, SparesInv, OriginalsStay
<1> QED BY <1>2, <1>7, OthersSpare

(* What a worker writes is no file of the user and replaces none.          *)
LEMMA WroteSparing ==
    ASSUME Sparing, aside' = aside, NEW w \in Workers, NEW x, x # "orig",
           target' = [target EXCEPT ![Dest(w)] = x],
           \A q \in Paths : q = Dest(w) => target[q] # "orig"
    PROVE  OriginalsStay
<1>1. target = [q \in Paths |-> target[q]] BY DEF Sparing, SparesInv
<1> DEFINE t == [q \in Paths |-> IF q = Dest(w) THEN x ELSE target[q]]
<1>2. target' = t BY <1>1
<1>3. t = [q \in Paths |-> t[q]] /\ \A q \in Paths : t[q] = "orig" <=> target[q] = "orig" OBVIOUS
<1> HIDE DEF t
<1> QED BY <1>2, <1>3 DEF OriginalsStay

LEMMA ItemsAreNew == \A i \in Items : i # "orig" /\ i # "none" /\ i # "dir" /\ i # "part"
BY RestoreAssumption


-----------------------------------------------------------------------------
(* Each step with SKIP or RENAME. *)

SparingStep == OriginalsStay /\ \A v \in Workers : Spares(v)'

LEMMA SparingQuiet ==
    ASSUME Sparing, UNCHANGED <<worker, targetVars>>
    PROVE  SparingStep
<1>1. OriginalsStay BY TargetStays
<1> QED BY <1>1, SparesSame DEF SparingStep, Sparing, SparesInv

LEMMA SparingPolls ==
    ASSUME Types, Sparing, NEW w \in Workers,
           \/ PollPreview(w) \/ PollRun(w) \/ PollItem(w) \/ CountPreview(w) \/ FinishPreview(w) \/ Plan(w)
           \/ FailPlan(w) \/ Crash(w)
    PROVE  SparingStep
<1>0. worker \in [Workers -> WorkerRow] BY DEF Types, Rows
<1>1. UNCHANGED targetVars
  BY DEF PollPreview, PollRun, PollItem, CountPreview, FinishPreview, Plan, FailPlan, Crash
<1>2. OriginalsStay BY <1>1, TargetStays
<1>3. DOMAIN worker[w] = {"pc", "run", "item", "epoch", "root", "sfx", "over", "prev", "gen"}
      /\ worker[w].over = FALSE
  BY <1>0 DEF WorkerRow, Sparing, SparesInv, Spares
<1>4. CASE PollPreview(w)
  <2>1. PICK p : worker' = [worker EXCEPT ![w].pc = "preview", ![w].prev = p, ![w].gen = previews[p].gen + 1]
    BY <1>4 DEF PollPreview
  <2>2. /\ worker'[w] = [worker[w] EXCEPT !.pc = "preview", !.prev = p, !.gen = previews[p].gen + 1]
        /\ \A v \in Workers : v # w => worker'[v] = worker[v]
    BY <1>0, <2>1
  <2>3. worker'[w].pc = "preview" /\ worker'[w].over = FALSE BY <1>3, <2>2
  <2>4. Spares(w)' BY <2>3 DEF Spares, Replacing, Writing
  <2> QED BY <1>2, <2>2, <2>4, OthersSpare DEF SparingStep
<1>5. CASE PollRun(w)
  <2>1. PICK r : worker' = [worker EXCEPT ![w].pc = "plan", ![w].run = r] BY <1>5 DEF PollRun
  <2>2. worker'[w] = [worker[w] EXCEPT !.pc = "plan", !.run = r] /\ \A v \in Workers : v # w => worker'[v] = worker[v]
    BY <1>0, <2>1
  <2>3. worker'[w].pc = "plan" /\ worker'[w].over = FALSE BY <1>3, <2>2
  <2>4. Spares(w)' BY <2>3 DEF Spares, Replacing, Writing
  <2> QED BY <1>2, <2>2, <2>4, OthersSpare DEF SparingStep
<1>6. CASE PollItem(w)
  <2>1. PICK r, i : worker' = [worker EXCEPT ![w] = [Idle EXCEPT !.pc = "open", !.run = r, !.item = i,
                          !.epoch = items[r][i].epoch + 1, !.root = items[r][i].root, !.sfx = items[r][i].sfx]]
    BY <1>6 DEF PollItem
  <2>2. /\ worker'[w] = [Idle EXCEPT !.pc = "open", !.run = r, !.item = i,
                          !.epoch = items[r][i].epoch + 1, !.root = items[r][i].root, !.sfx = items[r][i].sfx]
        /\ \A v \in Workers : v # w => worker'[v] = worker[v]
    BY <1>0, <2>1
  <2>3. worker'[w].pc = "open" /\ worker'[w].over = FALSE BY <2>2 DEF Idle
  <2>4. Spares(w)' BY <2>3 DEF Spares, Replacing, Writing
  <2> QED BY <1>2, <2>2, <2>4, OthersSpare DEF SparingStep
<1>7. CASE CountPreview(w) \/ Plan(w)
  <2>1. Return(w) \/ \E p \in {"previewReady", "previewFailed", "failPlan"} : Goto(w, p)
    BY <1>7 DEF CountPreview, Plan
  <2>2. {"previewReady", "previewFailed", "failPlan"} \cap (Replacing \cup Writing) = {} BY DEF Replacing, Writing
  <2> QED BY <1>2, <2>1, <2>2, ReturnsSparing, GoesSparing DEF SparingStep
<1>8. CASE FinishPreview(w) \/ FailPlan(w) \/ Crash(w)
  BY <1>2, <1>8, ReturnsSparing DEF SparingStep, FinishPreview, FailPlan, Crash
<1> QED BY <1>4, <1>5, <1>6, <1>7, <1>8

LEMMA SparingWork ==
    ASSUME Types, Sparing, NEW w \in Workers,
           LoadTarget(w) \/ ConnectTarget(w) \/ VerifyTarget(w) \/ Complete(w) \/ ApplyMetadata(w) \/ Retry(w) \/ FailItem(w)
    PROVE  SparingStep
<1>1. UNCHANGED targetVars BY DEF LoadTarget, ConnectTarget, VerifyTarget, Complete, ApplyMetadata, Retry, FailItem
<1>2. OriginalsStay BY <1>1, TargetStays
<1>3. Return(w) \/ \E p \in {"connect", "retry", "reserve", "fail", "complete", "metadata"} : Goto(w, p)
  BY DEF LoadTarget, ConnectTarget, VerifyTarget, Complete, ApplyMetadata, Retry, FailItem, Breaks
<1>4. {"connect", "retry", "reserve", "fail", "complete", "metadata"} \cap (Replacing \cup Writing) = {}
  BY DEF Replacing, Writing
<1> QED BY <1>2, <1>3, <1>4, ReturnsSparing, GoesSparing DEF SparingStep

(* A worker takes a path that it only looks at, or one where nothing is.   *)
LEMMA TakesSparing ==
    ASSUME Types, Sparing, NEW w \in Workers, NEW s, NEW p, TakePath(w, s, p), OriginalsStay, p \notin Replacing,
           p \in Writing => target[PathOf(It(w), worker[w].root, s)] = "none"
    PROVE  SparingStep
<1>0. worker \in [Workers -> WorkerRow] BY DEF Types, Rows
<1>1. worker' = [worker EXCEPT ![w].sfx = s, ![w].pc = p] BY DEF TakePath
<1>2. worker'[w] = [worker[w] EXCEPT !.sfx = s, !.pc = p] /\ \A v \in Workers : v # w => worker'[v] = worker[v]
  BY <1>0, <1>1
<1>3. DOMAIN worker[w] = {"pc", "run", "item", "epoch", "root", "sfx", "over", "prev", "gen"}
      /\ worker[w].over = FALSE
  BY <1>0 DEF WorkerRow, Sparing, SparesInv, Spares
<1>4. /\ worker'[w].pc = p /\ worker'[w].over = FALSE /\ worker'[w].item = worker[w].item
      /\ worker'[w].root = worker[w].root /\ worker'[w].sfx = s
  BY <1>2, <1>3
<1>5. Dest(w)' = PathOf(It(w), worker[w].root, s) BY <1>4 DEF Dest, It, PathOf
<1>6. Spares(w)' BY <1>4, <1>5 DEF Spares, OriginalsStay
<1> QED BY <1>2, <1>6, OthersSpare DEF SparingStep

LEMMA SparingPaths ==
    ASSUME Types, Sparing, NEW w \in Workers, ReservePath(w) \/ RenameTarget(w)
    PROVE  SparingStep
<1>1. UNCHANGED targetVars BY DEF ReservePath, RenameTarget
<1>2. OriginalsStay BY <1>1, TargetStays
<1>3. "retry" \notin Replacing \cup Writing BY DEF Replacing, Writing
<1>4. CASE Goto(w, "retry") BY <1>2, <1>3, <1>4, GoesSparing DEF SparingStep
<1>5. CASE ReservePath(w) /\ ~Goto(w, "retry")
  <2>1. \E s : \E p \in {"dirInspect", "inspect"} : TakePath(w, s, p) BY <1>5 DEF ReservePath
  <2>2. {"dirInspect", "inspect"} \cap (Replacing \cup Writing) = {} BY DEF Replacing, Writing
  <2> QED BY <1>2, <2>1, <2>2, TakesSparing
<1>6. CASE RenameTarget(w) /\ ~Goto(w, "retry")
  <2> DEFINE s == Least(RenameSuffixes(w))
  <2>1. RenameSuffixes(w) # {} /\ \E p \in {"upload", "dirCreate"} : TakePath(w, s, p) BY <1>6 DEF RenameTarget
  <2>2. RenameSuffixes(w) \in SUBSET Nat
    <3>1. worker[w].sfx \in Nat /\ MaxSuffix \in Nat BY RestoreAssumption DEF Types, Rows, WorkerRow
    <3> QED BY <3>1 DEF RenameSuffixes
  <2>3. s \in RenameSuffixes(w) BY <2>1, <2>2, LeastMember
  <2>4. target[PathOf(It(w), worker[w].root, s)] = "none" BY <2>3 DEF RenameSuffixes
  <2>5. {"upload", "dirCreate"} \cap Replacing = {} BY DEF Replacing
  <2> HIDE DEF s
  <2> QED BY <1>2, <2>1, <2>4, <2>5, TakesSparing
<1> QED BY <1>4, <1>5, <1>6

LEMMA SparingLooks ==
    ASSUME Types, Sparing, strategy \in {"SKIP", "RENAME"}, NEW w \in Workers, InspectTarget(w) \/ InspectDirectory(w)
    PROVE  SparingStep
<1>1. UNCHANGED targetVars BY DEF InspectTarget, InspectDirectory
<1>2. OriginalsStay BY <1>1, TargetStays
<1>3. {"rename", "dirComplete", "dirRename"} \cap (Replacing \cup Writing) = {} /\ {"upload", "dirCreate"} \subseteq Writing
  BY DEF Replacing, Writing
<1>4. \/ Return(w)
      \/ \E p \in {"rename", "dirComplete", "dirRename"} : Goto(w, p)
      \/ ~Exists(w) /\ \E p \in {"upload", "dirCreate"} : Goto(w, p)
  <2>1. CASE InspectTarget(w)
    <3>1. CASE ~Exists(w)
      BY <2>1, <3>1, Zenon DEF InspectTarget
    <3>2. CASE Exists(w) /\ strategy = "SKIP"
      BY <2>1, <3>2 DEF InspectTarget
    <3>3. CASE Exists(w) /\ strategy = "RENAME"
      BY <2>1, <3>3 DEF InspectTarget
    <3> QED BY <3>1, <3>2, <3>3
  <2>2. CASE InspectDirectory(w)
    <3>1. CASE strategy = "SKIP" BY <2>2, <3>1 DEF InspectDirectory, Exists
    <3>2. CASE strategy = "RENAME" BY <2>2, <3>2 DEF InspectDirectory, Exists
    <3> QED BY <3>1, <3>2
  <2> QED BY <2>1, <2>2
<1>5. CASE Return(w) BY <1>2, <1>5, ReturnsSparing DEF SparingStep
<1>6. CASE \E p \in {"rename", "dirComplete", "dirRename"} : Goto(w, p)
  BY <1>2, <1>3, <1>6, GoesSparing DEF SparingStep
<1>7. CASE ~Exists(w) /\ \E p \in {"upload", "dirCreate"} : Goto(w, p)
  <2>1. \A q \in Paths : q = Dest(w) => target[q] # "orig" BY <1>7 DEF Exists
  <2> QED BY <1>2, <1>3, <1>7, <2>1, WritesSparing DEF SparingStep
<1> QED BY <1>4, <1>5, <1>6, <1>7

LEMMA SparingWrites ==
    ASSUME Types, Sparing, NEW w \in Workers, Upload(w) \/ SwapIn(w) \/ CreateDirectory(w)
    PROVE  SparingStep
<1>1. worker[w].pc \in Writing BY DEF Upload, SwapIn, CreateDirectory, At, Writing
<1>2. worker[w].over = FALSE /\ \A q \in Paths : q = Dest(w) => target[q] # "orig"
  BY <1>1 DEF Sparing, SparesInv, Spares
<1>3. It(w) # "orig"
  <2>1. worker[w].pc \in ItemSteps BY <1>1 DEF Writing, ItemSteps, FileSteps, DirSteps
  <2> QED BY <2>1, ItemsAreNew DEF Types, Busy, It
<1>4. aside' = aside BY DEF Upload, SwapIn, CreateDirectory
<1>5. OriginalsStay
  <2>1. \/ target' = target
        \/ target' = [target EXCEPT ![Dest(w)] = It(w)]
        \/ target' = [target EXCEPT ![Dest(w)] = "part"]
        \/ target' = [target EXCEPT ![Dest(w)] = "dir"]
    <3>1. CASE Upload(w) BY <3>1 DEF Upload
    <3>2. CASE SwapIn(w) \/ CreateDirectory(w) BY <3>2 DEF SwapIn, CreateDirectory
    <3> QED BY <3>1, <3>2
  <2>2. CASE target' = target BY <1>4, <2>2 DEF OriginalsStay, Sparing, SparesInv
  <2>3. CASE target' = [target EXCEPT ![Dest(w)] = It(w)] BY <1>2, <1>3, <1>4, <2>3, WroteSparing
  <2>4. CASE target' = [target EXCEPT ![Dest(w)] = "part"] BY <1>2, <1>4, <2>4, WroteSparing
  <2>5. CASE target' = [target EXCEPT ![Dest(w)] = "dir"] BY <1>2, <1>4, <2>5, WroteSparing
  <2> QED BY <2>1, <2>2, <2>3, <2>4, <2>5
<1>6. \E p \in {"swapIn", "verify", "retry", "fail", "dirComplete"} : Goto(w, p)
  <2>1. CASE Upload(w) BY <1>2, <2>1 DEF Upload, Breaks, ReconstructFails
  <2>2. CASE SwapIn(w) \/ CreateDirectory(w) BY <1>2, <2>2 DEF SwapIn, CreateDirectory, Breaks
  <2> QED BY <2>1, <2>2
<1>7. {"verify", "retry", "fail", "dirComplete"} \cap (Replacing \cup Writing) = {} /\ "swapIn" \in Writing
  BY DEF Replacing, Writing
<1> QED BY <1>2, <1>5, <1>6, <1>7, GoesSparing, WritesSparing DEF SparingStep

(* The steps of OVERWRITE are not reached.                                 *)
LEMMA NeverReplaces ==
    ASSUME Sparing, NEW w \in Workers,
           DropBackup(w) \/ SetAside(w) \/ PutBack(w) \/ DropAside(w) \/ ReplaceByDirectory(w)
    PROVE  FALSE
BY DEF Sparing, SparesInv, Spares, Replacing, DropBackup, SetAside, PutBack, DropAside, ReplaceByDirectory, At

LEMMA SparingNext ==
    ASSUME Types, Sparing, strategy \in {"SKIP", "RENAME"}, [Next]_vars
    PROVE  SparingStep
<1>1. CASE UNCHANGED vars BY <1>1, SparingQuiet DEF vars, storeVars, targetVars
<1>2. ASSUME NEW w \in Workers, WorkerStep(w) PROVE SparingStep
  <2>1. CASE \/ PollRecoverItems(w) \/ PollExpire(w) \/ PollRecoverPlanning(w) \/ PollSkipBlocked(w)
             \/ PollFinalize(w) \/ PollFinalizeCancelling(w) \/ HeartbeatItem(w) \/ HeartbeatPreview(w)
    BY <2>1, SparingQuiet DEF PollRecoverItems, PollExpire, PollRecoverPlanning, PollSkipBlocked, PollFinalize,
         PollFinalizeCancelling, HeartbeatItem, HeartbeatPreview
  <2>2. CASE \/ PollPreview(w) \/ PollRun(w) \/ PollItem(w) \/ CountPreview(w) \/ FinishPreview(w) \/ Plan(w)
             \/ FailPlan(w) \/ Crash(w)
    BY <2>2, SparingPolls
  <2>3. CASE \/ LoadTarget(w) \/ ConnectTarget(w) \/ VerifyTarget(w) \/ Complete(w) \/ ApplyMetadata(w)
             \/ Retry(w) \/ FailItem(w)
    BY <2>3, SparingWork
  <2>4. CASE ReservePath(w) \/ RenameTarget(w) BY <2>4, SparingPaths
  <2>5. CASE InspectTarget(w) \/ InspectDirectory(w) BY <2>5, SparingLooks
  <2>6. CASE Upload(w) \/ SwapIn(w) \/ CreateDirectory(w) BY <2>6, SparingWrites
  <2>7. CASE DropBackup(w) \/ SetAside(w) \/ PutBack(w) \/ DropAside(w) \/ ReplaceByDirectory(w)
    BY <2>7, NeverReplaces
  <2> QED BY <1>2, <2>1, <2>2, <2>3, <2>4, <2>5, <2>6, <2>7 DEF WorkerStep, WorkerNext
<1>3. CASE TimePasses
  BY <1>3, SparingQuiet DEF TimePasses, RunLapses, ItemLapses, PreviewLapses
<1>4. CASE Users
  BY <1>4, SparingQuiet DEF Users, HandleCreateRestorePreview, HandleCancelRestorePreview,
       HandleConsumeRestorePreview, HandleCancelRestoreRun, HandleDeleteRestoreJob, SuspendUser, others
<1>5. CASE SnapshotGoes BY <1>5, SparingQuiet DEF SnapshotGoes
<1> QED BY <1>1, <1>2, <1>3, <1>4, <1>5 DEF Next

(* The job keeps its strategy and the target its abilities.                *)
LEMMA ChoicesKept ==
    ASSUME [Next]_vars
    PROVE  strategy' = strategy /\ atomic' = atomic
<1>1. CASE UNCHANGED vars BY <1>1 DEF vars, storeVars
<1>2. ASSUME NEW w \in Workers, WorkerStep(w) PROVE strategy' = strategy /\ atomic' = atomic
  <2>1. CASE \/ PollRecoverItems(w) \/ PollExpire(w) \/ PollRecoverPlanning(w) \/ PollPreview(w) \/ CountPreview(w)
             \/ FinishPreview(w) \/ PollRun(w) \/ Plan(w) \/ FailPlan(w) \/ PollSkipBlocked(w) \/ PollItem(w)
             \/ PollFinalize(w) \/ PollFinalizeCancelling(w)
    BY <2>1 DEF PollRecoverItems, PollExpire, PollRecoverPlanning, PollPreview, CountPreview, FinishPreview, PollRun,
         Plan, FailPlan, PollSkipBlocked, PollItem, PollFinalize, PollFinalizeCancelling, rest
  <2>2. CASE \/ LoadTarget(w) \/ ConnectTarget(w) \/ ReservePath(w) \/ InspectTarget(w) \/ RenameTarget(w) \/ Upload(w)
             \/ DropBackup(w) \/ SetAside(w) \/ SwapIn(w) \/ PutBack(w) \/ DropAside(w)
    BY <2>2 DEF LoadTarget, ConnectTarget, ReservePath, InspectTarget, RenameTarget, Upload, DropBackup, SetAside,
         SwapIn, PutBack, DropAside, rest
  <2>3. CASE \/ VerifyTarget(w) \/ Complete(w) \/ ApplyMetadata(w) \/ InspectDirectory(w) \/ ReplaceByDirectory(w)
             \/ CreateDirectory(w) \/ Retry(w) \/ FailItem(w) \/ HeartbeatItem(w) \/ HeartbeatPreview(w) \/ Crash(w)
    BY <2>3 DEF VerifyTarget, Complete, ApplyMetadata, InspectDirectory, ReplaceByDirectory, CreateDirectory, Retry,
         FailItem, HeartbeatItem, HeartbeatPreview, Crash, rest
  <2> QED BY <1>2, <2>1, <2>2, <2>3 DEF WorkerStep, WorkerNext
<1>3. CASE TimePasses BY <1>3 DEF TimePasses, RunLapses, ItemLapses, PreviewLapses, rest
<1>4. CASE Users
  BY <1>4 DEF Users, HandleCreateRestorePreview, HandleCancelRestorePreview,
       HandleConsumeRestorePreview, HandleCancelRestoreRun, HandleDeleteRestoreJob, SuspendUser, others
<1>5. CASE SnapshotGoes BY <1>5 DEF SnapshotGoes
<1> QED BY <1>1, <1>2, <1>3, <1>4, <1>5 DEF Next

Survives ==
    \A p \in Paths : HasOriginal(p) =>
        \/ HasOriginal(p)'
        \/ strategy = "OVERWRITE" /\ (~atomic \/ HasRestored(p)' \/ \E d \in Dirs : p[1] = Name[d])

LEMMA SparesInitially == Init => SparesInv
<1> SUFFICES ASSUME Init PROVE SparesInv OBVIOUS
<1>1. PICK mine : target = [p \in Paths |-> IF p \in mine THEN "orig" ELSE "none"] BY DEF Init, StoreInit
<1> DEFINE t == [p \in Paths |-> IF p \in mine THEN "orig" ELSE "none"]
<1>2. t = [p \in Paths |-> t[p]] OBVIOUS
<1> HIDE DEF t
<1>3. target = [p \in Paths |-> target[p]] BY <1>1, <1>2 DEF t
<1>4. \A w \in Workers : worker[w] = Idle BY DEF Init, WorkerInit
<1>5. \A w \in Workers : Spares(w) BY <1>4 DEF Spares, Idle, Replacing, Writing
<1> QED BY <1>3, <1>5 DEF SparesInv

LEMMA SparesKept ==
    ASSUME strategy \in {"SKIP", "RENAME"}, Inv, SparesInv, [Next]_vars
    PROVE  SparesInv' /\ Survives
<1>1. Types /\ Sparing BY DEF Inv, Sparing
<1>2. SparingStep BY <1>1, SparingNext
<1>3. SparesInv' BY <1>2 DEF SparingStep, SparesInv, OriginalsStay
<1>4. Survives BY <1>2 DEF SparingStep, OriginalsStay, Survives, HasOriginal
<1> QED BY <1>3, <1>4

(***************************************************************************)
(* With SKIP and with RENAME no file of the user is ever touched, whatever *)
(* workers, however slow, crashes, retries, cancellations and suspensions  *)
(* do (restoreItem, restoreDirectory).                                     *)
(***************************************************************************)
THEOREM SkipAndRenameSpare == Spec /\ strategy \in {"SKIP", "RENAME"} => OriginalSurvives
<1> DEFINE Choice == strategy \in {"SKIP", "RENAME"}
<1>1. Choice /\ Inv /\ SparesInv /\ [Next]_vars => Choice' /\ SparesInv' /\ [Survives]_vars
  BY SparesKept, ChoicesKept
<1> HIDE DEF Choice
<1>2. Spec /\ Choice => [][Survives]_vars BY <1>1, SparesInitially, RowsConsistent, PTL DEF Spec
<1> QED BY <1>2 DEF Choice, OriginalSurvives, Survives

-----------------------------------------------------------------------------
(* While no owner is suspended nobody loses his item. *)

Held == \A w \in Workers : worker[w].pc \in AtWork => Row(w).st = "RUNNING"

LEMMA HeldIsWorking ==
    ASSUME Inv, Held, NEW w \in Workers, worker[w].pc \in AtWork
    PROVE  Working(w) /\ runs[worker[w].run].st \in Open
<1>1. worker[w].run \in RunIds /\ It(w) \in Items BY TypedWorker
<1>2. runs[worker[w].run].st \in Open BY <1>1, RunningIsOpen DEF Held, Row
<1> QED BY <1>2 DEF Working, Gone, Open

LEMMA HeldKept ==
    ASSUME Inv, PlacesInv, Held, StepKind, ~SuspendUser
    PROVE  Held'
<1> SUFFICES ASSUME NEW v \in Workers, worker'[v].pc \in AtWork PROVE items'[worker'[v].run][worker'[v].item].st = "RUNNING"
  BY DEF Held, Row, It
<1>0. worker[v].pc \in AtWork => worker[v].run \in RunIds /\ worker[v].item \in Items
                                 /\ items[worker[v].run][worker[v].item].st = "RUNNING"
  BY TypedWorker DEF Held, Row, It
<1>1. CASE CalmStep
  <2>1. Remains(v) BY <1>1 DEF CalmStep
  <2>2. worker[v].pc \in AtWork /\ worker'[v].run = worker[v].run /\ worker'[v].item = worker[v].item
    BY <2>1 DEF Remains, SameClaim
  <2>3. RowHeld(worker[v].run, worker[v].item) BY <1>0, <1>1, <2>2 DEF CalmStep
  <2>4. ~NobodyOn(worker[v].run, worker[v].item) BY <2>2 DEF NobodyOn
  <2> QED BY <1>0, <2>2, <2>3, <2>4 DEF RowHeld
<1>2. CASE HandleDeleteRestoreJob
  <2>1. worker' = worker /\ \A r \in RunIds : runs[r].st \notin Open
    BY <1>2 DEF HandleDeleteRestoreJob, DeleteRestoreJob, HasOpenRun, others
  <2> QED BY <1>0, <2>1, HeldIsWorking
<1>3. ASSUME NEW w \in Workers, WriteStep(w) PROVE items'[worker'[v].run][worker'[v].item].st = "RUNNING"
  <2>1. worker[v].pc \in AtWork /\ worker'[v].run = worker[v].run /\ worker'[v].item = worker[v].item
    BY <1>3, WorkSteps DEF WriteStep, SameClaim
  <2> QED BY <1>0, <1>3, <2>1 DEF WriteStep
<1>4. ASSUME NEW w \in Workers, CompleteStep(w) PROVE items'[worker'[v].run][worker'[v].item].st = "RUNNING"
  <2>1. v # w /\ worker'[v] = worker[v] BY <1>4 DEF CompleteStep
  <2>2. worker[w].pc \in AtWork BY <1>4, WorkSteps DEF CompleteStep, DirSteps
  <2>3. worker[v].run # worker[w].run \/ It(v) # It(w)
    BY <2>1, <2>2, HeldIsWorking DEF PlacesInv, Placement, Alone
  <2> QED BY <1>0, <1>4, <2>1, <2>3 DEF CompleteStep, It
<1>5. ASSUME NEW w \in Workers, NEW r \in RunIds, NEW i \in Items, ClaimStep(w, r, i)
      PROVE  items'[worker'[v].run][worker'[v].item].st = "RUNNING"
  BY <1>0, <1>5 DEF ClaimStep
<1>6. ASSUME NEW w \in Workers, NEW s \in Suffix, PathStep(w, s)
      PROVE  items'[worker'[v].run][worker'[v].item].st = "RUNNING"
  <2>1. worker[w].pc \in AtWork BY <1>6, WorkSteps DEF PathStep, DirSteps
  <2>2. worker[v].pc \in AtWork /\ worker'[v].run = worker[v].run /\ worker'[v].item = worker[v].item
    BY <1>6, <2>1 DEF PathStep, SameClaim, It
  <2>3. items' = items \/ \A q \in RunIds, j \in Items : items'[q][j].st = items[q][j].st
    BY <1>6 DEF PathStep, RowsPlaced
  <2> QED BY <1>0, <2>2, <2>3
<1> QED BY <1>1, <1>2, <1>3, <1>4, <1>5, <1>6 DEF StepKind

-----------------------------------------------------------------------------
(* OVERWRITE on a target that can rename. *)

(* No broken upload is ever seen.                                          *)
Whole == {"none", "orig", "dir"} \cup Items

Moving == {"dropBackup", "setAside", "putBack", "dropAside"}
After == {"verify", "complete", "metadata", "retry", "fail"}

(* What a worker that replaces a file finds: a file before it moves it     *)
(* aside, nothing of the user where it puts the new one, the new one       *)
(* before it deletes the old.                                              *)
Replaces(w) ==
    /\ worker[w].pc \in Moving => worker[w].over
    /\ worker[w].over =>
         /\ worker[w].pc \in {"upload", "swapIn"} \cup Moving \cup After
         /\ worker[w].pc \in {"upload", "dropBackup"} => target[Dest(w)] \in {"orig"} \cup Items
         /\ worker[w].pc = "setAside" => aside[Key(w)] # "orig"
         /\ worker[w].pc \in {"swapIn", "putBack"} => target[Dest(w)] # "orig"
         /\ worker[w].pc = "dropAside" => target[Dest(w)] \in Items

Wholes == target \in [Paths -> Whole] /\ aside \in [RunIds \X Items \X Paths -> Whole]
ReplacesInv == Wholes /\ \A w \in Workers : Replaces(w)

Replacement == Inv /\ PlacesInv /\ Held /\ ReplacesInv

ReplaceStep == Wholes' /\ (\A v \in Workers : Replaces(v)') /\ Survives

LEMMA SurvivesUnchanged ==
    ASSUME target' = target, aside' = aside
    PROVE  Survives
BY DEF Survives, HasOriginal

LEMMA ReplacesSame ==
    ASSUME NEW v \in Workers, Replaces(v), worker'[v] = worker[v], target' = target, aside' = aside
    PROVE  Replaces(v)'
<1>1. Dest(v)' = Dest(v) /\ Key(v)' = Key(v) BY DEF Dest, Key, It, PathOf
<1> QED BY <1>1 DEF Replaces

LEMMA QuietReplaces ==
    ASSUME ReplacesInv, UNCHANGED <<worker, target, aside>>
    PROVE  ReplaceStep
<1>1. \A v \in Workers : Replaces(v)' BY ReplacesSame DEF ReplacesInv
<1> QED BY <1>1, SurvivesUnchanged DEF ReplaceStep, ReplacesInv, Wholes

(* One worker moves and nothing is written.                                *)
LEMMA OneReplaces ==
    ASSUME ReplacesInv, NEW w \in Workers, \A v \in Workers : v # w => worker'[v] = worker[v],
           target' = target, aside' = aside, Replaces(w)'
    PROVE  ReplaceStep
<1>1. \A v \in Workers : Replaces(v)' BY ReplacesSame DEF ReplacesInv
<1> QED BY <1>1, SurvivesUnchanged DEF ReplaceStep, ReplacesInv, Wholes

(* A worker that overwrites nothing has nothing to keep.                   *)
LEMMA PlainReplaces ==
    ASSUME NEW w \in Workers, worker'[w].over = FALSE, worker'[w].pc \notin Moving
    PROVE  Replaces(w)'
BY DEF Replaces

LEMMA WentReplacing ==
    ASSUME Types, NEW w \in Workers, NEW p, Goto(w, p)
    PROVE  /\ worker'[w].pc = p /\ worker'[w].over = worker[w].over
           /\ Dest(w)' = Dest(w) /\ Key(w)' = Key(w)
           /\ \A v \in Workers : v # w => worker'[v] = worker[v]
<1>1. worker \in [Workers -> WorkerRow] BY DEF Types, Rows
<1>2. worker'[w] = [worker[w] EXCEPT !.pc = p] /\ \A v \in Workers : v # w => worker'[v] = worker[v]
  BY <1>1 DEF Goto
<1>3. DOMAIN worker[w] = {"pc", "run", "item", "epoch", "root", "sfx", "over", "prev", "gen"}
  BY <1>1 DEF WorkerRow
<1>4. /\ worker'[w].pc = p /\ worker'[w].over = worker[w].over /\ worker'[w].item = worker[w].item
      /\ worker'[w].root = worker[w].root /\ worker'[w].sfx = worker[w].sfx /\ worker'[w].run = worker[w].run
  BY <1>2, <1>3
<1>5. Dest(w)' = Dest(w) /\ Key(w)' = Key(w) BY <1>4 DEF Dest, Key, It, PathOf
<1> QED BY <1>2, <1>4, <1>5

LEMMA OverIsBoolean ==
    ASSUME Types, NEW w \in Workers
    PROVE  worker[w].over \in BOOLEAN
BY DEF Types, Rows, WorkerRow

(* A worker goes to a step of which nothing is asked.                      *)
LEMMA GoesReplacing ==
    ASSUME Types, ReplacesInv, NEW w \in Workers, NEW p, Goto(w, p), target' = target, aside' = aside,
           \/ p \in After
           \/ p \notin Moving /\ worker[w].pc \notin {"upload", "swapIn"} \cup Moving \cup After
    PROVE  ReplaceStep
<1>1. worker'[w].pc = p /\ worker'[w].over = worker[w].over /\ \A v \in Workers : v # w => worker'[v] = worker[v]
  BY WentReplacing
<1>2. CASE p \in After
  <2>1. p \notin {"upload", "swapIn"} \cup Moving BY <1>2 DEF After, Moving
  <2>2. Replaces(w)' BY <1>1, <1>2, <2>1 DEF Replaces, Moving
  <2> QED BY <1>1, <2>2, OneReplaces
<1>3. CASE p \notin Moving /\ worker[w].pc \notin {"upload", "swapIn"} \cup Moving \cup After
  <2>1. worker[w].over = FALSE BY <1>3, OverIsBoolean DEF ReplacesInv, Replaces
  <2> QED BY <1>1, <1>3, <2>1, PlainReplaces, OneReplaces
<1> QED BY <1>2, <1>3

LEMMA ReturnsReplacing ==
    ASSUME Types, ReplacesInv, NEW w \in Workers, Return(w), target' = target, aside' = aside
    PROVE  ReplaceStep
<1>1. worker \in [Workers -> WorkerRow] BY DEF Types, Rows
<1>2. worker'[w] = Idle /\ \A v \in Workers : v # w => worker'[v] = worker[v] BY <1>1 DEF Return
<1>3. worker'[w].over = FALSE /\ worker'[w].pc \notin Moving BY <1>2 DEF Idle, Moving
<1> QED BY <1>2, <1>3, PlainReplaces, OneReplaces

-----------------------------------------------------------------------------
(* The steps that write nothing to the target. *)

LEMMA ReplacePolls ==
    ASSUME Types, ReplacesInv, NEW w \in Workers,
           \/ PollPreview(w) \/ PollRun(w) \/ PollItem(w) \/ CountPreview(w) \/ FinishPreview(w) \/ Plan(w)
           \/ FailPlan(w) \/ Crash(w)
    PROVE  ReplaceStep
<1>0. worker \in [Workers -> WorkerRow] BY DEF Types, Rows
<1>1. target' = target /\ aside' = aside
  BY DEF PollPreview, PollRun, PollItem, CountPreview, FinishPreview, Plan, FailPlan, Crash, targetVars
<1>2. DOMAIN worker[w] = {"pc", "run", "item", "epoch", "root", "sfx", "over", "prev", "gen"}
  BY <1>0 DEF WorkerRow
<1>3. {"idle", "preview", "plan", "open"} \cap ({"upload", "swapIn"} \cup Moving \cup After) = {}
  BY DEF Moving, After
<1>4. worker[w].pc = "idle" => worker[w].over = FALSE BY <1>3, OverIsBoolean DEF ReplacesInv, Replaces
<1>5. CASE PollPreview(w)
  <2>1. PICK p : worker' = [worker EXCEPT ![w].pc = "preview", ![w].prev = p, ![w].gen = previews[p].gen + 1]
    BY <1>5 DEF PollPreview
  <2>2. /\ worker'[w] = [worker[w] EXCEPT !.pc = "preview", !.prev = p, !.gen = previews[p].gen + 1]
        /\ \A v \in Workers : v # w => worker'[v] = worker[v]
    BY <1>0, <2>1
  <2>3. worker'[w].pc = "preview" /\ worker'[w].over = FALSE BY <1>2, <1>4, <1>5, <2>2 DEF PollPreview, At
  <2> QED BY <1>1, <1>3, <2>2, <2>3, PlainReplaces, OneReplaces
<1>6. CASE PollRun(w)
  <2>1. PICK r : worker' = [worker EXCEPT ![w].pc = "plan", ![w].run = r] BY <1>6 DEF PollRun
  <2>2. worker'[w] = [worker[w] EXCEPT !.pc = "plan", !.run = r] /\ \A v \in Workers : v # w => worker'[v] = worker[v]
    BY <1>0, <2>1
  <2>3. worker'[w].pc = "plan" /\ worker'[w].over = FALSE BY <1>2, <1>4, <1>6, <2>2 DEF PollRun, At
  <2> QED BY <1>1, <1>3, <2>2, <2>3, PlainReplaces, OneReplaces
<1>7. CASE PollItem(w)
  <2>1. PICK r, i : worker' = [worker EXCEPT ![w] = [Idle EXCEPT !.pc = "open", !.run = r, !.item = i,
                          !.epoch = items[r][i].epoch + 1, !.root = items[r][i].root, !.sfx = items[r][i].sfx]]
    BY <1>7 DEF PollItem
  <2>2. /\ worker'[w] = [Idle EXCEPT !.pc = "open", !.run = r, !.item = i,
                          !.epoch = items[r][i].epoch + 1, !.root = items[r][i].root, !.sfx = items[r][i].sfx]
        /\ \A v \in Workers : v # w => worker'[v] = worker[v]
    BY <1>0, <2>1
  <2>3. worker'[w].pc = "open" /\ worker'[w].over = FALSE BY <2>2 DEF Idle
  <2> QED BY <1>1, <1>3, <2>2, <2>3, PlainReplaces, OneReplaces
<1>8. CASE CountPreview(w) \/ Plan(w)
  <2>1. Return(w) \/ \E p \in {"previewReady", "previewFailed", "failPlan"} : Goto(w, p)
    BY <1>8 DEF CountPreview, Plan
  <2>2. worker[w].pc \in {"preview", "plan"} BY <1>8 DEF CountPreview, Plan, At
  <2>3. {"previewReady", "previewFailed", "failPlan"} \cap Moving = {} BY DEF Moving
  <2>4. worker[w].pc \notin {"upload", "swapIn"} \cup Moving \cup After BY <1>3, <2>2
  <2> QED BY <1>1, <2>1, <2>3, <2>4, ReturnsReplacing, GoesReplacing
<1>9. CASE FinishPreview(w) \/ FailPlan(w) \/ Crash(w)
  BY <1>1, <1>9, ReturnsReplacing DEF FinishPreview, FailPlan, Crash
<1> QED BY <1>5, <1>6, <1>7, <1>8, <1>9

LEMMA ReplaceWork ==
    ASSUME Types, ReplacesInv, NEW w \in Workers,
           LoadTarget(w) \/ ConnectTarget(w) \/ VerifyTarget(w) \/ Complete(w) \/ ApplyMetadata(w) \/ Retry(w) \/ FailItem(w)
    PROVE  ReplaceStep
<1>1. target' = target /\ aside' = aside
  BY DEF LoadTarget, ConnectTarget, VerifyTarget, Complete, ApplyMetadata, Retry, FailItem, targetVars
<1>2. \/ Return(w)
      \/ \E p \in After : Goto(w, p)
      \/ worker[w].pc \in {"open", "connect"} /\ \E p \in {"connect", "reserve"} : Goto(w, p)
  BY DEF LoadTarget, ConnectTarget, VerifyTarget, Complete, ApplyMetadata, Retry, FailItem, Breaks, After, At
<1>3. {"connect", "reserve"} \cap Moving = {} /\ {"open", "connect"} \cap ({"upload", "swapIn"} \cup Moving \cup After) = {}
  BY DEF Moving, After
<1> QED BY <1>1, <1>2, <1>3, ReturnsReplacing, GoesReplacing

LEMMA ReplacePaths ==
    ASSUME Types, ReplacesInv, NEW w \in Workers, ReservePath(w) \/ RenameTarget(w)
    PROVE  ReplaceStep
<1>0. worker \in [Workers -> WorkerRow] BY DEF Types, Rows
<1>1. target' = target /\ aside' = aside BY DEF ReservePath, RenameTarget, targetVars
<1>2. worker[w].pc \in {"reserve", "rename", "dirRename"} BY DEF ReservePath, RenameTarget, At
<1>3. worker[w].pc \notin {"upload", "swapIn"} \cup Moving \cup After BY <1>2 DEF Moving, After
<1>4. worker[w].over = FALSE BY <1>3, OverIsBoolean DEF ReplacesInv, Replaces
<1>5. Goto(w, "retry") \/ \E s : \E p \in {"inspect", "dirInspect", "upload", "dirCreate"} : TakePath(w, s, p)
  BY DEF ReservePath, RenameTarget
<1>6. "retry" \in After BY DEF After
<1>7. CASE Goto(w, "retry") BY <1>1, <1>6, <1>7, GoesReplacing
<1>8. ASSUME NEW s, NEW p \in {"inspect", "dirInspect", "upload", "dirCreate"}, TakePath(w, s, p) PROVE ReplaceStep
  <2>1. worker' = [worker EXCEPT ![w].sfx = s, ![w].pc = p] BY <1>8 DEF TakePath
  <2>2. worker'[w] = [worker[w] EXCEPT !.sfx = s, !.pc = p] /\ \A v \in Workers : v # w => worker'[v] = worker[v]
    BY <1>0, <2>1
  <2>3. DOMAIN worker[w] = {"pc", "run", "item", "epoch", "root", "sfx", "over", "prev", "gen"}
    BY <1>0 DEF WorkerRow
  <2>4. worker'[w].over = FALSE /\ worker'[w].pc \notin Moving BY <1>4, <2>2, <2>3 DEF Moving
  <2> QED BY <1>1, <2>2, <2>4, PlainReplaces, OneReplaces
<1> QED BY <1>5, <1>7, <1>8

(* A worker decides to overwrite a file, of the user or restored before.   *)
LEMMA ReplaceLooks ==
    ASSUME Replacement, strategy = "OVERWRITE", NEW w \in Workers, InspectTarget(w) \/ InspectDirectory(w)
    PROVE  ReplaceStep
<1>0. Types /\ ReplacesInv /\ worker \in [Workers -> WorkerRow] BY DEF Replacement, Inv, Types, Rows
<1>1. target' = target /\ aside' = aside BY DEF InspectTarget, InspectDirectory, targetVars
<1>2. worker[w].pc \in {"inspect", "dirInspect"} BY DEF InspectTarget, InspectDirectory, At
<1>3. worker[w].pc \notin {"upload", "swapIn"} \cup Moving \cup After BY <1>2 DEF Moving, After
<1>4. \/ Return(w)
      \/ \E p \in {"upload", "rename", "fail", "dirCreate", "dirComplete", "dirRename", "dirReplace"} : Goto(w, p)
      \/ /\ Exists(w) /\ target[Dest(w)] # "dir"
         /\ worker' = [worker EXCEPT ![w].over = TRUE, ![w].pc = "upload"]
  <2>1. CASE InspectTarget(w)
    <3>1. CASE ~Exists(w) BY <2>1, <3>1, Zenon DEF InspectTarget
    <3>2. CASE Exists(w) /\ target[Dest(w)] = "dir" BY <2>1, <3>2 DEF InspectTarget
    <3>3. CASE Exists(w) /\ target[Dest(w)] # "dir" BY <2>1, <3>3 DEF InspectTarget
    <3> QED BY <3>1, <3>2, <3>3
  <2>2. CASE InspectDirectory(w)
    BY <2>2 DEF InspectDirectory
  <2> QED BY <2>1, <2>2
<1>5. {"upload", "rename", "fail", "dirCreate", "dirComplete", "dirRename", "dirReplace"} \cap Moving = {}
  BY DEF Moving
<1>6. CASE Return(w) BY <1>0, <1>1, <1>6, ReturnsReplacing
<1>7. CASE \E p \in {"upload", "rename", "fail", "dirCreate", "dirComplete", "dirRename", "dirReplace"} : Goto(w, p)
  BY <1>0, <1>1, <1>3, <1>5, <1>7, GoesReplacing
<1>8. CASE /\ Exists(w) /\ target[Dest(w)] # "dir"
           /\ worker' = [worker EXCEPT ![w].over = TRUE, ![w].pc = "upload"]
  <2>1. worker'[w] = [worker[w] EXCEPT !.over = TRUE, !.pc = "upload"] /\ \A v \in Workers : v # w => worker'[v] = worker[v]
    BY <1>0, <1>8
  <2>2. DOMAIN worker[w] = {"pc", "run", "item", "epoch", "root", "sfx", "over", "prev", "gen"}
    BY <1>0 DEF WorkerRow
  <2>3. /\ worker'[w].pc = "upload" /\ worker'[w].over = TRUE /\ worker'[w].item = worker[w].item
        /\ worker'[w].root = worker[w].root /\ worker'[w].sfx = worker[w].sfx
    BY <2>1, <2>2
  <2>4. Dest(w)' = Dest(w) BY <2>3 DEF Dest, It, PathOf
  <2>5. worker[w].pc \in AtWork BY <1>2, WorkSteps DEF DirSteps
  <2>6. Dest(w) \in Paths BY <2>5, DestIsPath DEF Replacement, PlacesInv
  <2>7. target[Dest(w)] \in {"orig"} \cup Items
    BY <1>0, <1>8, <2>6 DEF ReplacesInv, Wholes, Whole, Exists
  <2>8. Replaces(w)' BY <1>1, <2>3, <2>4, <2>7 DEF Replaces
  <2> QED BY <1>0, <1>1, <2>1, <2>8, OneReplaces
<1> QED BY <1>4, <1>6, <1>7, <1>8

-----------------------------------------------------------------------------
(* The steps that write to the target. *)

(* A worker writes to its own path, in place and aside.                    *)
OwnPath(w) ==
    /\ worker[w].pc \in Placed
    /\ \A v \in Workers : v # w => worker'[v] = worker[v]
    /\ \A p \in Paths : p # Dest(w) => target'[p] = target[p]
    /\ \A r \in RunIds, i \in Items, p \in Paths : <<r, i, p>> # Key(w) => aside'[<<r, i, p>>] = aside[<<r, i, p>>]

(* That does not concern what another worker replaces.                     *)
LEMMA OthersReplace ==
    ASSUME Replacement, NEW w \in Workers, OwnPath(w), Wholes', Replaces(w)'
    PROVE  \A v \in Workers : Replaces(v)'
<1> SUFFICES ASSUME NEW v \in Workers, v # w PROVE Replaces(v)' OBVIOUS
<1>1. worker'[v] = worker[v] /\ Replaces(v) BY DEF OwnPath, Replacement, ReplacesInv
<1>2. Dest(v)' = Dest(v) /\ Key(v)' = Key(v) BY <1>1 DEF Dest, Key, It, PathOf
<1>3. CASE worker[v].pc \notin {"upload", "swapIn"} \cup Moving
  BY <1>1, <1>3 DEF Replaces, Moving
<1>4. CASE worker[v].pc \in {"upload", "swapIn"} \cup Moving
  <2>1. worker[v].pc \in Placed BY <1>4, WorkSteps DEF Moving
  <2>2. worker[v].pc \in AtWork /\ worker[w].pc \in AtWork /\ worker[w].pc \in Placed
    BY <2>1, WorkSteps DEF OwnPath
  <2>3. Working(v) /\ Working(w) BY <2>2, HeldIsWorking DEF Replacement
  <2>4. Dest(v) # Dest(w) BY <2>1, <2>2, <2>3, Apart DEF Replacement
  <2>5. Dest(v) \in Paths /\ It(v) \in Items /\ worker[v].run \in RunIds
    BY <2>2, DestIsPath, TypedWorker DEF Replacement, PlacesInv
  <2>6. Key(v) # Key(w) BY <2>4 DEF Key
  <2>7. target'[Dest(v)] = target[Dest(v)] BY <2>4, <2>5 DEF OwnPath
  <2>8. aside'[Key(v)] = aside[Key(v)] BY <2>5, <2>6 DEF OwnPath, Key
  <2> QED BY <1>1, <1>2, <2>7, <2>8 DEF Replaces
<1> QED BY <1>3, <1>4

(* The new content of one path, in place or aside.                         *)
LEMMA OneWritten ==
    ASSUME Wholes, NEW p \in Paths, NEW x \in Whole, target' = [target EXCEPT ![p] = x]
    PROVE  target' \in [Paths -> Whole] /\ target'[p] = x /\ \A q \in Paths : q # p => target'[q] = target[q]
BY DEF Wholes

LEMMA OneAside ==
    ASSUME Wholes, NEW r \in RunIds, NEW i \in Items, NEW p \in Paths, NEW x \in Whole,
           aside' = [aside EXCEPT ![<<r, i, p>>] = x]
    PROVE  /\ aside' \in [RunIds \X Items \X Paths -> Whole] /\ aside'[<<r, i, p>>] = x
           /\ \A o \in RunIds, j \in Items, q \in Paths :
                 <<o, j, q>> # <<r, i, p>> => aside'[<<o, j, q>>] = aside[<<o, j, q>>]
<1>1. <<r, i, p>> \in RunIds \X Items \X Paths /\ aside \in [RunIds \X Items \X Paths -> Whole] BY DEF Wholes
<1>2. aside' \in [RunIds \X Items \X Paths -> Whole] /\ aside'[<<r, i, p>>] = x
      /\ \A k \in RunIds \X Items \X Paths : k # <<r, i, p>> => aside'[k] = aside[k]
  BY <1>1
<1> QED BY <1>2

(* It is enough to look at the path of the worker.                         *)
LEMMA SurvivesAt ==
    ASSUME strategy = "OVERWRITE", NEW w \in Workers, OwnPath(w), NEW p \in Paths, p = Dest(w),
           HasOriginal(p) => HasOriginal(p)' \/ HasRestored(p)' \/ \E d \in Dirs : p[1] = Name[d]
    PROVE  Survives
<1>1. ASSUME NEW q \in Paths, q # p, HasOriginal(q) PROVE HasOriginal(q)'
  <2>1. CASE target[q] = "orig" BY <1>1, <2>1 DEF HasOriginal, OwnPath
  <2>2. ASSUME NEW r \in RunIds, NEW i \in Items, aside[<<r, i, q>>] = "orig" PROVE HasOriginal(q)'
    <3>1. <<r, i, q>> # Key(w) BY <1>1 DEF Key
    <3>2. aside'[<<r, i, q>>] = "orig" BY <2>2, <3>1 DEF OwnPath
    <3> QED BY <3>2 DEF HasOriginal
  <2> QED BY <1>1, <2>1, <2>2 DEF HasOriginal
<1> QED BY <1>1 DEF Survives

LEMMA PlacedWorker ==
    ASSUME Replacement, NEW w \in Workers, worker[w].pc \in Placed
    PROVE  /\ Types /\ ReplacesInv /\ Wholes /\ Replaces(w)
           /\ Dest(w) \in Paths /\ It(w) \in Items /\ worker[w].run \in RunIds /\ It(w) \in Whole
<1>1. worker[w].pc \in AtWork BY WorkSteps
<1>2. Dest(w) \in Paths /\ It(w) \in Items /\ worker[w].run \in RunIds
  BY <1>1, DestIsPath, TypedWorker DEF Replacement, PlacesInv
<1> QED BY <1>2 DEF Replacement, Inv, ReplacesInv, Whole

LEMMA ReplaceUpload ==
    ASSUME Replacement, atomic, NEW w \in Workers, Upload(w)
    PROVE  ReplaceStep
<1>1. worker[w].pc = "upload" /\ target' = target /\ aside' = aside BY DEF Upload, At
<1>2. worker[w].pc \in Placed BY <1>1, WorkSteps
<1>3. Types /\ ReplacesInv /\ Replaces(w) BY <1>2, PlacedWorker
<1>4. \/ \E p \in {"retry", "fail"} : Goto(w, p)
      \/ worker[w].over /\ Goto(w, "dropBackup")
      \/ ~worker[w].over /\ Goto(w, "swapIn")
  BY DEF Upload, Breaks, ReconstructFails
<1>5. CASE \E p \in {"retry", "fail"} : Goto(w, p)
  <2>1. {"retry", "fail"} \subseteq After BY DEF After
  <2> QED BY <1>1, <1>3, <1>5, <2>1, GoesReplacing
<1>6. CASE worker[w].over /\ Goto(w, "dropBackup")
  <2>1. /\ worker'[w].pc = "dropBackup" /\ worker'[w].over = worker[w].over /\ Dest(w)' = Dest(w)
        /\ \A v \in Workers : v # w => worker'[v] = worker[v]
    BY <1>3, <1>6, WentReplacing
  <2>2. target[Dest(w)] \in {"orig"} \cup Items BY <1>1, <1>3, <1>6 DEF Replaces
  <2>3. "dropBackup" \in Moving BY DEF Moving
  <2>4. Replaces(w)' BY <1>1, <1>6, <2>1, <2>2, <2>3 DEF Replaces
  <2> QED BY <1>1, <1>3, <2>1, <2>4, OneReplaces
<1>7. CASE ~worker[w].over /\ Goto(w, "swapIn")
  <2>1. /\ worker'[w].pc = "swapIn" /\ worker'[w].over = worker[w].over
        /\ \A v \in Workers : v # w => worker'[v] = worker[v]
    BY <1>3, <1>7, WentReplacing
  <2>2. worker'[w].over = FALSE /\ worker'[w].pc \notin Moving BY <1>3, <1>7, <2>1, OverIsBoolean DEF Moving
  <2> QED BY <1>1, <1>3, <2>1, <2>2, PlainReplaces, OneReplaces
<1> QED BY <1>4, <1>5, <1>6, <1>7

(* What was aside goes only when a file is in place.                       *)
LEMMA ReplaceDrops ==
    ASSUME Replacement, strategy = "OVERWRITE", NEW w \in Workers, DropBackup(w) \/ DropAside(w)
    PROVE  ReplaceStep
<1>1. worker[w].pc \in {"dropBackup", "dropAside"} /\ target' = target BY DEF DropBackup, DropAside, At
<1>2. worker[w].pc \in Placed BY <1>1, WorkSteps
<1>3. /\ Types /\ ReplacesInv /\ Wholes /\ Replaces(w)
      /\ Dest(w) \in Paths /\ It(w) \in Items /\ worker[w].run \in RunIds
  BY <1>2, PlacedWorker
<1>4. worker[w].over BY <1>1, <1>3 DEF Replaces, Moving
<1>5. target[Dest(w)] \in {"orig"} \cup Items BY <1>1, <1>3, <1>4 DEF Replaces
<1>6. \/ aside' = aside /\ \E p \in {"retry", "fail"} : Goto(w, p)
      \/ /\ aside' = [aside EXCEPT ![Key(w)] = "none"]
         /\ \/ At(w, "dropBackup") /\ Goto(w, "setAside")
            \/ At(w, "dropAside") /\ Goto(w, "verify")
  BY DEF DropBackup, DropAside, Breaks
<1>7. CASE aside' = aside /\ \E p \in {"retry", "fail"} : Goto(w, p)
  <2>1. {"retry", "fail"} \subseteq After BY DEF After
  <2> QED BY <1>1, <1>3, <1>7, <2>1, GoesReplacing
<1>8. CASE /\ aside' = [aside EXCEPT ![Key(w)] = "none"]
           /\ Goto(w, "setAside") \/ Goto(w, "verify")
  <2>1. "none" \in Whole BY DEF Whole
  <2>2. /\ aside' \in [RunIds \X Items \X Paths -> Whole] /\ aside'[Key(w)] = "none"
        /\ \A o \in RunIds, j \in Items, q \in Paths : <<o, j, q>> # Key(w) => aside'[<<o, j, q>>] = aside[<<o, j, q>>]
    BY <1>3, <1>8, <2>1, OneAside DEF Key
  <2>3. /\ worker'[w].pc \in {"setAside", "verify"} /\ worker'[w].over = worker[w].over /\ Key(w)' = Key(w)
        /\ \A v \in Workers : v # w => worker'[v] = worker[v]
    BY <1>3, <1>8, WentReplacing
  <2>4. Wholes' BY <1>1, <1>3, <2>2 DEF Wholes
  <2>5. OwnPath(w) BY <1>1, <1>2, <2>2, <2>3 DEF OwnPath
  <2>6. Replaces(w)' BY <1>4, <2>2, <2>3 DEF Replaces, Moving, After
  <2>7. \A v \in Workers : Replaces(v)' BY <2>4, <2>5, <2>6, OthersReplace
  <2>8. Survives
    <3>1. PICK p \in Paths : p = Dest(w) BY <1>3
    <3>2. HasOriginal(p)' \/ HasRestored(p)' BY <1>1, <1>5, <3>1 DEF HasOriginal, HasRestored
    <3> QED BY <2>5, <3>1, <3>2, SurvivesAt
  <2> QED BY <2>4, <2>7, <2>8 DEF ReplaceStep
<1> QED BY <1>6, <1>7, <1>8

(* What is in place goes aside.                                            *)
LEMMA ReplaceSetAside ==
    ASSUME Replacement, strategy = "OVERWRITE", NEW w \in Workers, SetAside(w)
    PROVE  ReplaceStep
<1>1. worker[w].pc = "setAside" BY DEF SetAside, At
<1>2. worker[w].pc \in Placed BY <1>1, WorkSteps
<1>3. /\ Types /\ ReplacesInv /\ Wholes /\ Replaces(w)
      /\ Dest(w) \in Paths /\ It(w) \in Items /\ worker[w].run \in RunIds
  BY <1>2, PlacedWorker
<1>4. worker[w].over /\ aside[Key(w)] # "orig" BY <1>1, <1>3 DEF Replaces, Moving
<1>5. \/ target' = target /\ aside' = aside /\ \E p \in {"retry", "fail"} : Goto(w, p)
      \/ /\ aside' = [aside EXCEPT ![Key(w)] = target[Dest(w)]]
         /\ target' = [target EXCEPT ![Dest(w)] = "none"]
         /\ Goto(w, "swapIn")
  BY DEF SetAside, Breaks
<1>6. CASE target' = target /\ aside' = aside /\ \E p \in {"retry", "fail"} : Goto(w, p)
  <2>1. {"retry", "fail"} \subseteq After BY DEF After
  <2> QED BY <1>3, <1>6, <2>1, GoesReplacing
<1>7. CASE /\ aside' = [aside EXCEPT ![Key(w)] = target[Dest(w)]]
           /\ target' = [target EXCEPT ![Dest(w)] = "none"]
           /\ Goto(w, "swapIn")
  <2>1. "none" \in Whole /\ target[Dest(w)] \in Whole BY <1>3 DEF Whole, Wholes
  <2>2. /\ aside' \in [RunIds \X Items \X Paths -> Whole] /\ aside'[Key(w)] = target[Dest(w)]
        /\ \A o \in RunIds, j \in Items, q \in Paths : <<o, j, q>> # Key(w) => aside'[<<o, j, q>>] = aside[<<o, j, q>>]
    BY <1>3, <1>7, <2>1, OneAside DEF Key
  <2>3. /\ target' \in [Paths -> Whole] /\ target'[Dest(w)] = "none"
        /\ \A q \in Paths : q # Dest(w) => target'[q] = target[q]
    BY <1>3, <1>7, <2>1, OneWritten
  <2>4. /\ worker'[w].pc = "swapIn" /\ worker'[w].over = worker[w].over /\ Dest(w)' = Dest(w)
        /\ \A v \in Workers : v # w => worker'[v] = worker[v]
    BY <1>3, <1>7, WentReplacing
  <2>5. Wholes' BY <2>2, <2>3 DEF Wholes
  <2>6. OwnPath(w) BY <1>2, <2>2, <2>3, <2>4 DEF OwnPath
  <2>7. Replaces(w)' BY <1>4, <2>3, <2>4 DEF Replaces
  <2>8. \A v \in Workers : Replaces(v)' BY <2>5, <2>6, <2>7, OthersReplace
  <2>9. Survives
    <3>1. PICK p \in Paths : p = Dest(w) BY <1>3
    <3>2. ASSUME HasOriginal(p) PROVE HasOriginal(p)'
      <4>1. CASE target[p] = "orig"
        <5>1. aside'[<<worker[w].run, It(w), p>>] = "orig" BY <2>2, <3>1, <4>1 DEF Key
        <5> QED BY <1>3, <5>1 DEF HasOriginal
      <4>2. ASSUME NEW r \in RunIds, NEW i \in Items, aside[<<r, i, p>>] = "orig" PROVE HasOriginal(p)'
        <5>1. aside'[<<r, i, p>>] = "orig" BY <1>4, <2>2, <4>2
        <5> QED BY <5>1 DEF HasOriginal
      <4> QED BY <3>2, <4>1, <4>2 DEF HasOriginal
    <3> QED BY <2>6, <3>1, <3>2, SurvivesAt
  <2> QED BY <2>5, <2>8, <2>9 DEF ReplaceStep
<1> QED BY <1>5, <1>6, <1>7

(* The restored file takes the place.                                      *)
LEMMA ReplaceSwapIn ==
    ASSUME Replacement, strategy = "OVERWRITE", NEW w \in Workers, SwapIn(w)
    PROVE  ReplaceStep
<1>1. worker[w].pc = "swapIn" /\ aside' = aside BY DEF SwapIn, At
<1>2. worker[w].pc \in Placed BY <1>1, WorkSteps
<1>3. /\ Types /\ ReplacesInv /\ Wholes /\ Replaces(w)
      /\ Dest(w) \in Paths /\ It(w) \in Items /\ worker[w].run \in RunIds /\ It(w) \in Whole
      /\ worker[w].over \in BOOLEAN
  BY <1>2, PlacedWorker, OverIsBoolean
<1>4. \/ /\ target' = [target EXCEPT ![Dest(w)] = It(w)]
         /\ Goto(w, IF worker[w].over THEN "dropAside" ELSE "verify")
      \/ target' = target /\ Goto(w, IF worker[w].over THEN "putBack" ELSE "retry")
  BY DEF SwapIn
<1>5. CASE target' = target /\ Goto(w, IF worker[w].over THEN "putBack" ELSE "retry")
  <2>1. /\ worker'[w].pc = (IF worker[w].over THEN "putBack" ELSE "retry") /\ worker'[w].over = worker[w].over
        /\ Dest(w)' = Dest(w) /\ \A v \in Workers : v # w => worker'[v] = worker[v]
    BY <1>3, <1>5, WentReplacing
  <2>2. worker[w].over => target[Dest(w)] # "orig" BY <1>1, <1>3 DEF Replaces
  <2>3. "putBack" \in Moving /\ "retry" \notin Moving BY DEF Moving
  <2>4. Replaces(w)'
    <3>1. CASE worker[w].over BY <1>5, <2>1, <2>2, <2>3, <3>1 DEF Replaces
    <3>2. CASE ~worker[w].over BY <1>3, <2>1, <2>3, <3>2, PlainReplaces
    <3> QED BY <3>1, <3>2
  <2> QED BY <1>1, <1>3, <1>5, <2>1, <2>4, OneReplaces
<1>6. CASE /\ target' = [target EXCEPT ![Dest(w)] = It(w)]
           /\ Goto(w, IF worker[w].over THEN "dropAside" ELSE "verify")
  <2>1. /\ worker'[w].pc = (IF worker[w].over THEN "dropAside" ELSE "verify") /\ worker'[w].over = worker[w].over
        /\ Dest(w)' = Dest(w) /\ \A v \in Workers : v # w => worker'[v] = worker[v]
    BY <1>3, <1>6, WentReplacing
  <2>2. /\ target' \in [Paths -> Whole] /\ target'[Dest(w)] = It(w)
        /\ \A q \in Paths : q # Dest(w) => target'[q] = target[q]
    BY <1>3, <1>6, OneWritten
  <2>3. "dropAside" \in Moving /\ "verify" \notin Moving BY DEF Moving
  <2>4. Replaces(w)'
    <3>1. CASE worker[w].over BY <1>3, <2>1, <2>2, <2>3, <3>1 DEF Replaces
    <3>2. CASE ~worker[w].over BY <1>3, <2>1, <2>3, <3>2, PlainReplaces
    <3> QED BY <3>1, <3>2
  <2>5. Wholes' BY <1>1, <1>3, <2>2 DEF Wholes
  <2>6. OwnPath(w) BY <1>1, <1>2, <2>1, <2>2 DEF OwnPath
  <2>7. \A v \in Workers : Replaces(v)' BY <2>4, <2>5, <2>6, OthersReplace
  <2>8. Survives
    <3>1. PICK p \in Paths : p = Dest(w) BY <1>3
    <3>2. HasRestored(p)' BY <1>3, <2>2, <3>1 DEF HasRestored
    <3> QED BY <2>6, <3>1, <3>2, SurvivesAt
  <2> QED BY <2>5, <2>7, <2>8 DEF ReplaceStep
<1> QED BY <1>4, <1>5, <1>6

(* What is aside comes back.                                               *)
LEMMA ReplacePutBack ==
    ASSUME Replacement, strategy = "OVERWRITE", NEW w \in Workers, PutBack(w)
    PROVE  ReplaceStep
<1>1. worker[w].pc = "putBack" /\ Goto(w, "retry") BY DEF PutBack, At
<1>2. worker[w].pc \in Placed BY <1>1, WorkSteps
<1>3. /\ Types /\ ReplacesInv /\ Wholes /\ Replaces(w)
      /\ Dest(w) \in Paths /\ It(w) \in Items /\ worker[w].run \in RunIds
  BY <1>2, PlacedWorker
<1>4. target[Dest(w)] # "orig" BY <1>1, <1>3 DEF Replaces, Moving
<1>5. \/ target' = target /\ aside' = aside
      \/ /\ target' = [target EXCEPT ![Dest(w)] = aside[Key(w)]]
         /\ aside' = [aside EXCEPT ![Key(w)] = "none"]
  BY DEF PutBack
<1>6. CASE target' = target /\ aside' = aside
  <2>1. "retry" \in After BY DEF After
  <2> QED BY <1>1, <1>3, <1>6, <2>1, GoesReplacing
<1>7. CASE /\ target' = [target EXCEPT ![Dest(w)] = aside[Key(w)]]
           /\ aside' = [aside EXCEPT ![Key(w)] = "none"]
  <2>1. "none" \in Whole /\ aside[Key(w)] \in Whole
    <3>1. Key(w) \in RunIds \X Items \X Paths BY <1>3 DEF Key
    <3> QED BY <1>3, <3>1 DEF Whole, Wholes
  <2>2. /\ aside' \in [RunIds \X Items \X Paths -> Whole] /\ aside'[Key(w)] = "none"
        /\ \A o \in RunIds, j \in Items, q \in Paths : <<o, j, q>> # Key(w) => aside'[<<o, j, q>>] = aside[<<o, j, q>>]
    BY <1>3, <1>7, <2>1, OneAside DEF Key
  <2>3. /\ target' \in [Paths -> Whole] /\ target'[Dest(w)] = aside[Key(w)]
        /\ \A q \in Paths : q # Dest(w) => target'[q] = target[q]
    BY <1>3, <1>7, <2>1, OneWritten
  <2>4. /\ worker'[w].pc = "retry" /\ worker'[w].over = worker[w].over
        /\ \A v \in Workers : v # w => worker'[v] = worker[v]
    BY <1>1, <1>3, WentReplacing
  <2>5. Wholes' BY <2>2, <2>3 DEF Wholes
  <2>6. OwnPath(w) BY <1>2, <2>2, <2>3, <2>4 DEF OwnPath
  <2>7. Replaces(w)' BY <2>4 DEF Replaces, Moving, After
  <2>8. \A v \in Workers : Replaces(v)' BY <2>5, <2>6, <2>7, OthersReplace
  <2>9. Survives
    <3>1. PICK p \in Paths : p = Dest(w) BY <1>3
    <3>2. ASSUME HasOriginal(p) PROVE HasOriginal(p)'
      <4>1. PICK r \in RunIds, i \in Items : aside[<<r, i, p>>] = "orig" BY <1>4, <3>1, <3>2 DEF HasOriginal
      <4>2. CASE <<r, i, p>> = Key(w)
        <5>1. target'[p] = "orig" BY <2>3, <3>1, <4>1, <4>2
        <5> QED BY <5>1 DEF HasOriginal
      <4>3. CASE <<r, i, p>> # Key(w)
        <5>1. aside'[<<r, i, p>>] = "orig" BY <2>2, <4>1, <4>3
        <5> QED BY <5>1 DEF HasOriginal
      <4> QED BY <4>2, <4>3
    <3> QED BY <2>6, <3>1, <3>2, SurvivesAt
  <2> QED BY <2>5, <2>8, <2>9 DEF ReplaceStep
<1> QED BY <1>5, <1>6, <1>7

(* A directory takes the place of a file.                                  *)
LEMMA ReplaceDirectories ==
    ASSUME Replacement, strategy = "OVERWRITE", NEW w \in Workers, ReplaceByDirectory(w) \/ CreateDirectory(w)
    PROVE  ReplaceStep
<1>1. worker[w].pc \in {"dirReplace", "dirCreate"} /\ aside' = aside BY DEF ReplaceByDirectory, CreateDirectory, At
<1>2. worker[w].pc \in DirSteps /\ worker[w].pc \in Placed /\ worker[w].pc \in AtWork
  BY <1>1, WorkSteps DEF DirSteps
<1>3. /\ Types /\ ReplacesInv /\ Wholes /\ Replaces(w) /\ Dest(w) \in Paths /\ It(w) \in Items /\ worker[w].run \in RunIds
      /\ worker[w].over \in BOOLEAN
  BY <1>2, PlacedWorker, OverIsBoolean
<1>4. worker[w].over = FALSE BY <1>1, <1>3 DEF Replaces, Moving, After
<1>5. It(w) \in Dirs
  <2>1. Working(w) BY <1>2, HeldIsWorking DEF Replacement
  <2> QED BY <1>2, <2>1 DEF Replacement, PlacesInv, Placement, WorkInv, Writes
<1>6. \E p \in {"retry", "fail", "dirCreate", "dirComplete"} : Goto(w, p)
  BY DEF ReplaceByDirectory, CreateDirectory, Breaks
<1>7. \/ target' = target
      \/ target' = [target EXCEPT ![Dest(w)] = "none"]
      \/ target' = [target EXCEPT ![Dest(w)] = "dir"]
  BY DEF ReplaceByDirectory, CreateDirectory
<1>8. {"none", "dir"} \subseteq Whole BY DEF Whole
<1>9. target' \in [Paths -> Whole] /\ \A q \in Paths : q # Dest(w) => target'[q] = target[q]
  <2>1. CASE target' = target BY <1>3, <2>1 DEF Wholes
  <2>2. ASSUME NEW x \in {"none", "dir"}, target' = [target EXCEPT ![Dest(w)] = x]
        PROVE  target' \in [Paths -> Whole] /\ \A q \in Paths : q # Dest(w) => target'[q] = target[q]
    BY <1>3, <1>8, <2>2, OneWritten
  <2> QED BY <1>7, <2>1, <2>2
<1>10. /\ worker'[w].pc \in {"retry", "fail", "dirCreate", "dirComplete"} /\ worker'[w].over = FALSE
       /\ \A v \in Workers : v # w => worker'[v] = worker[v]
  BY <1>3, <1>4, <1>6, WentReplacing
<1>11. Wholes' BY <1>1, <1>3, <1>9 DEF Wholes
<1>12. OwnPath(w) BY <1>1, <1>2, <1>9, <1>10 DEF OwnPath
<1>13. Replaces(w)' BY <1>10, PlainReplaces DEF Moving
<1>14. \A v \in Workers : Replaces(v)' BY <1>11, <1>12, <1>13, OthersReplace
<1>15. Survives
  <2>1. PICK p \in Paths : p = Dest(w) BY <1>3
  <2>2. p[1] = Name[It(w)] BY <2>1 DEF Dest, PathOf
  <2> QED BY <1>5, <1>12, <2>1, <2>2, SurvivesAt
<1> QED BY <1>11, <1>14, <1>15 DEF ReplaceStep

LEMMA ReplaceNext ==
    ASSUME Replacement, strategy = "OVERWRITE", atomic, [Next]_vars
    PROVE  ReplaceStep
<1>0. Types /\ ReplacesInv BY DEF Replacement, Inv
<1>1. CASE UNCHANGED vars BY <1>0, <1>1, QuietReplaces DEF vars, storeVars
<1>2. ASSUME NEW w \in Workers, WorkerStep(w) PROVE ReplaceStep
  <2>1. CASE \/ PollRecoverItems(w) \/ PollExpire(w) \/ PollRecoverPlanning(w) \/ PollSkipBlocked(w)
             \/ PollFinalize(w) \/ PollFinalizeCancelling(w) \/ HeartbeatItem(w) \/ HeartbeatPreview(w)
    BY <1>0, <2>1, QuietReplaces DEF PollRecoverItems, PollExpire, PollRecoverPlanning, PollSkipBlocked, PollFinalize,
         PollFinalizeCancelling, HeartbeatItem, HeartbeatPreview, targetVars
  <2>2. CASE \/ PollPreview(w) \/ PollRun(w) \/ PollItem(w) \/ CountPreview(w) \/ FinishPreview(w) \/ Plan(w)
             \/ FailPlan(w) \/ Crash(w)
    BY <1>0, <2>2, ReplacePolls
  <2>3. CASE \/ LoadTarget(w) \/ ConnectTarget(w) \/ VerifyTarget(w) \/ Complete(w) \/ ApplyMetadata(w)
             \/ Retry(w) \/ FailItem(w)
    BY <1>0, <2>3, ReplaceWork
  <2>4. CASE ReservePath(w) \/ RenameTarget(w) BY <1>0, <2>4, ReplacePaths
  <2>5. CASE InspectTarget(w) \/ InspectDirectory(w) BY <2>5, ReplaceLooks
  <2>6. CASE Upload(w) BY <2>6, ReplaceUpload
  <2>7. CASE DropBackup(w) \/ DropAside(w) BY <2>7, ReplaceDrops
  <2>8. CASE SetAside(w) BY <2>8, ReplaceSetAside
  <2>9. CASE SwapIn(w) BY <2>9, ReplaceSwapIn
  <2>10. CASE PutBack(w) BY <2>10, ReplacePutBack
  <2>11. CASE ReplaceByDirectory(w) \/ CreateDirectory(w) BY <2>11, ReplaceDirectories
  <2> QED BY <1>2, <2>1, <2>2, <2>3, <2>4, <2>5, <2>6, <2>7, <2>8, <2>9, <2>10, <2>11 DEF WorkerStep, WorkerNext
<1>3. CASE TimePasses
  BY <1>0, <1>3, QuietReplaces DEF TimePasses, RunLapses, ItemLapses, PreviewLapses, targetVars
<1>4. CASE Users
  BY <1>0, <1>4, QuietReplaces DEF Users, HandleCreateRestorePreview, HandleCancelRestorePreview,
       HandleConsumeRestorePreview, HandleCancelRestoreRun, HandleDeleteRestoreJob, SuspendUser, others, targetVars
<1>5. CASE SnapshotGoes BY <1>0, <1>5, QuietReplaces DEF SnapshotGoes, targetVars
<1> QED BY <1>1, <1>2, <1>3, <1>4, <1>5 DEF Next

-----------------------------------------------------------------------------
(* All three strategies. *)

OriginalsInv ==
    /\ PlacesInv /\ Held /\ SparesInv
    /\ strategy \in {"SKIP", "OVERWRITE", "RENAME"} /\ atomic \in BOOLEAN
    /\ strategy = "OVERWRITE" /\ atomic => ReplacesInv

LEMMA OriginalsInitially == Init => OriginalsInv
<1> SUFFICES ASSUME Init PROVE OriginalsInv OBVIOUS
<1>1. PICK mine : target = [p \in Paths |-> IF p \in mine THEN "orig" ELSE "none"] BY DEF Init, StoreInit
<1>2. aside = [k \in RunIds \X Items \X Paths |-> "none"] BY DEF Init, StoreInit
<1>3. Wholes BY <1>1, <1>2 DEF Wholes, Whole
<1>4. \A w \in Workers : worker[w] = Idle BY DEF Init, WorkerInit
<1>5. \A w \in Workers : Replaces(w) BY <1>4 DEF Replaces, Idle, Moving
<1>6. Held BY <1>4, WorkSteps DEF Held, Idle
<1>7. strategy \in {"SKIP", "OVERWRITE", "RENAME"} /\ atomic \in BOOLEAN BY DEF Init, StoreInit
<1> QED BY <1>3, <1>5, <1>6, <1>7, PlacesInitially, SparesInitially DEF OriginalsInv, ReplacesInv

LEMMA OriginalsKept ==
    ASSUME Inv, OriginalsInv, ~SlowWorkers, [Next]_vars, ~SuspendUser \/ UNCHANGED vars
    PROVE  OriginalsInv' /\ Survives
<1>1. PlacesInv' BY PlacesKept DEF OriginalsInv
<1>2. Held'
  <2>1. CASE UNCHANGED vars BY <2>1 DEF vars, storeVars, Held, Row, It, OriginalsInv
  <2>2. CASE ~SuspendUser BY <2>2, EveryKind, HeldKept DEF OriginalsInv
  <2> QED BY <2>1, <2>2
<1>3. strategy' = strategy /\ atomic' = atomic BY ChoicesKept
<1>4. CASE strategy \in {"SKIP", "RENAME"}
  <2>1. SparesInv' /\ Survives BY <1>4, SparesKept DEF OriginalsInv
  <2> QED BY <1>1, <1>2, <1>3, <1>4, <2>1 DEF OriginalsInv
<1>5. CASE strategy = "OVERWRITE"
  <2>1. SparesInv' BY <1>3, <1>5 DEF SparesInv
  <2>2. CASE ~atomic
    <3>1. Survives BY <1>5, <2>2 DEF Survives
    <3> QED BY <1>1, <1>2, <1>3, <1>5, <2>1, <2>2, <3>1 DEF OriginalsInv
  <2>3. CASE atomic
    <3>1. ReplaceStep BY <1>5, <2>3, ReplaceNext DEF OriginalsInv, Replacement
    <3> QED BY <1>1, <1>2, <1>3, <1>5, <2>1, <2>3, <3>1 DEF OriginalsInv, ReplaceStep, ReplacesInv
  <2> QED BY <2>2, <2>3
<1> QED BY <1>4, <1>5 DEF OriginalsInv

(***************************************************************************)
(* With any strategy a file of the user that is in the way exists, in      *)
(* place or aside, until the restored file is there, if the target can     *)
(* rename (restoreItem, promoteRestoreUpload), as long as no live worker   *)
(* misses its heartbeats for two minutes and the owner is not suspended    *)
(* while workers are at work: each path then has one worker at a time.     *)
(***************************************************************************)
THEOREM OriginalsSurvive ==
    ASSUME ~SlowWorkers
    PROVE  Spec /\ [][~SuspendUser]_vars => OriginalSurvives
<1>1. Inv /\ OriginalsInv /\ [Next]_vars /\ [~SuspendUser]_vars => OriginalsInv' /\ [Survives]_vars
  BY OriginalsKept
<1>2. Spec /\ [][~SuspendUser]_vars => [][Survives]_vars
  BY <1>1, OriginalsInitially, RowsConsistent, PTL DEF Spec
<1> QED BY <1>2 DEF OriginalSurvives, Survives

=============================================================================

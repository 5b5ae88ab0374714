------------------------- MODULE FileManagerProofs --------------------------
(***************************************************************************)
(* Theorems about FileManager, for any numbers of requests, slots and      *)
(* abandoned streams, any tree and any operations.                         *)
(*                                                                         *)
(* The slots: StreamInv says who may be found in a sorted set and what the *)
(* score of a running stream and the expiry of its key are before and      *)
(* after the renewal of a period.  The tree: FileInv says what a handler   *)
(* remembers from its look at the tree until it writes.                    *)
(***************************************************************************)
EXTENDS FileManager, FiniteSetTheorems, SequenceTheorems, WellFoundedInduction, TLAPS

-----------------------------------------------------------------------------
(* The invariants.                                                         *)

Work == Phases \ {"idle", "wait", "ticket", "done"}

\* What a request that is in phase p may have asked for
KindsIn(p) ==
    CASE p = "wait" -> {"download", "archive", "upload", "copy", "batch-copy"}
      [] p \in {"ticket", "stream"} -> {"download", "archive"}
      [] p = "look" -> {"upload", "mkdir"}
      [] p \in {"send", "verify"} -> {"upload"}
      [] p = "mkdir" -> {"mkdir"}
      [] p \in {"inspect", "resolve"} -> Mutations
      [] p = "rename" -> {"move", "batch-move"}
      [] p \in {"copy", "make", "walk"} -> {"copy", "batch-copy"}
      [] p \in {"delete", "remove"} -> {"delete", "batch-delete"}
      [] p = "page" -> {"list"}
      [] p = "done" -> OpKinds

IsOp(o) ==
    /\ DOMAIN o = {"kind", "items", "dirs", "dest", "name", "strategy", "recursive",
                   "size", "body"}
    /\ o.kind \in OpKinds /\ IsPath(o.dest)
    /\ o.size \in Nat /\ o.body \in Nat

IsMem(m) ==
    /\ DOMAIN m = {"at", "dir", "seen", "final", "status", "read", "queue", "todo",
                   "results", "page", "print"}
    /\ m.status \in {"none", "done", "renamed", "skipped"}

KeysTyped ==
    /\ DOMAIN zset = Kinds
    /\ \A k \in Kinds :
         /\ DOMAIN zset[k] = {"members", "ttl"}
         /\ zset[k].ttl \in -1 .. Lease
         /\ DOMAIN zset[k].members \subseteq StreamIds
         /\ \A s \in DOMAIN zset[k].members : zset[k].members[s] \in -1 .. Lease

\* Types, and what a request in each phase has asked for
Typed ==
    /\ KeysTyped
    /\ ticket \in [StreamIds -> -1 .. TicketTTL]
    /\ active \in [StreamIds -> 0 .. 2]
    /\ due \in [StreamIds -> BOOLEAN] /\ exposed \subseteq StreamIds
    /\ phase \in [Requests -> Phases]
    /\ answer \in [Requests -> Answers]
    /\ op = [r \in Requests |-> op[r]]
    /\ mem = [r \in Requests |-> mem[r]]
    /\ \A r \in Requests : IsMem(mem[r])
    /\ \A r \in Requests : phase[r] = "idle" => op[r] = NoOp
    /\ \A r \in Requests : phase[r] # "idle" => IsOp(op[r]) /\ op[r].kind \in KindsIn(phase[r])

Live(k) == DOMAIN Purged(zset[k].members)

\* There are never more slots than allowed
Bounded == \A k \in Kinds : IsFiniteSet(Live(k)) /\ Cardinality(Live(k)) =< MaxStreams

\* A slot belongs to a request that has begun and has not given it back
Owned ==
    \A k \in Kinds, r \in Requests : r \in DOMAIN zset[k].members =>
        /\ k = SlotKind(r) /\ phase[r] \notin {"idle", "wait"}
        /\ phase[r] = "done" => answer[r] \in {"gone", "expired", "unavailable"}

\* A ticket that is out belongs to a request that waits for its client
TicketsOut == \A r \in Requests : ticket[r] >= 0 => phase[r] = "ticket"

\* A stream whose renewals succeed, under a key no ticket has shortened since
\* the last of them: it has its slot, and neither the score nor the key runs
\* out before the renewal of the period
Kept(r) ==
    LET z == zset[SlotKind(r)]
    IN  /\ r \in DOMAIN z.members
        /\ due[r] => z.members[r] >= 1 /\ z.ttl >= 1
        /\ ~ due[r] => z.members[r] = Lease /\ z.ttl = Lease

Running ==
    \A r \in Requests : active[r] > 0 =>
        /\ active[r] = 1 /\ phase[r] \in Work /\ HasSlot(r)
        /\ SlotKind(r) \in RenewedKinds /\ r \notin exposed => Kept(r)

StreamInv == Typed /\ Bounded /\ Owned /\ TicketsOut /\ Running

\* What was decided from the listing holds until the write
Decided(r) ==
    /\ mem[r].final # Root /\ IsPath(mem[r].final)
    /\ op[r].strategy = "OVERWRITE" \/ mem[r].final \notin mem[r].seen

\* A copy of a directory writes below its target
Below(r) ==
    /\ IsPath(mem[r].queue)
    /\ \A i \in DOMAIN mem[r].queue :
         IsPath(mem[r].queue[i][2]) /\ IsPrefix(mem[r].final, mem[r].queue[i][2])
    /\ \A c \in mem[r].todo : IsPath(c[2]) /\ IsPrefix(mem[r].final, c[2])

\* What a handler has looked at and decided
Remembers(r) ==
    /\ phase[r] \in {"send", "rename", "copy", "make", "walk"} => Decided(r)
    /\ phase[r] = "send" => mem[r].status \in {"done", "renamed"}
    /\ phase[r] = "verify" =>
         \/ mem[r].status = "skipped"
         \/ mem[r].status \in {"done", "renamed"} /\ mem[r].read = BytesRead(op[r])
    /\ phase[r] \in {"idle", "wait", "inspect", "resolve", "make"} => mem[r].todo = {}
    /\ phase[r] = "walk" => Below(r)
    /\ phase[r] = "remove" => op[r].recursive \/ ~ mem[r].dir \/ mem[r].seen = {}

Remembered == \A r \in Requests : Remembers(r)

\* What is not whole was uploaded by a request whose body had another size
Whole ==
    \A p \in DOMAIN tree :
        /\ IsPath(p)
        /\ \A r \in Requests : tree[p].by = r /\ ~ tree[p].whole =>
             phase[r] # "idle" /\ op[r].kind = "upload" /\ op[r].body # op[r].size

\* A request that was told its upload is stored is over, and its body had its size
Accepted ==
    \A r \in Requests : answer[r] \in {"uploaded", "renamed"} =>
        phase[r] = "done" /\ (op[r].kind = "upload" => op[r].body = op[r].size)

FileInv == Typed /\ Remembered /\ Whole /\ Accepted

-----------------------------------------------------------------------------
(* The shapes of a step.                                                   *)

\* A step of request r changes what r knows only
Acts(r) ==
    /\ phase' \in [Requests -> Phases]
    /\ answer' \in [Requests -> Answers]
    /\ mem' = [s \in Requests |-> mem'[s]]
    /\ IsMem(mem'[r])
    /\ \A s \in Requests \ {r} :
         phase'[s] = phase[s] /\ mem'[s] = mem[s] /\ answer'[s] = answer[s]

\* The handler goes on to the next call of the provider
GoesOn(r) ==
    /\ Acts(r) /\ UNCHANGED <<streams, op, answer>>
    /\ phase[r] \in Work /\ phase'[r] \in Work /\ op[r].kind \in KindsIn(phase'[r])

\* The handler of a batch goes on to the next item
Proceeds(r) == GoesOn(r) /\ phase'[r] \in {"delete", "inspect"} /\ mem'[r].todo = {}

\* The handler returns
Returns(r) ==
    /\ Acts(r) /\ UNCHANGED op
    /\ phase[r] \in Work
    /\ \E a \in Answers \ {"gone", "expired", "unavailable"} : Finish(r, a)

LEMMA KindTable ==
    /\ \A p \in Phases \ {"idle"} : KindsIn(p) \subseteq OpKinds
    /\ KindsIn("wait") = {"download", "archive", "upload", "copy", "batch-copy"}
    /\ KindsIn("ticket") = {"download", "archive"} /\ KindsIn("stream") = {"download", "archive"}
    /\ KindsIn("look") = {"upload", "mkdir"} /\ KindsIn("send") = {"upload"}
    /\ KindsIn("verify") = {"upload"} /\ KindsIn("mkdir") = {"mkdir"}
    /\ KindsIn("inspect") = Mutations /\ KindsIn("resolve") = Mutations
    /\ KindsIn("rename") = {"move", "batch-move"}
    /\ KindsIn("copy") = {"copy", "batch-copy"} /\ KindsIn("make") = {"copy", "batch-copy"}
    /\ KindsIn("walk") = {"copy", "batch-copy"}
    /\ KindsIn("delete") = {"delete", "batch-delete"} /\ KindsIn("remove") = {"delete", "batch-delete"}
    /\ KindsIn("page") = {"list"} /\ KindsIn("done") = OpKinds
BY DEF KindsIn, OpKinds, Mutations, Phases

\* The next record of a handler's memory is one
LEMMA KeepActs ==
    ASSUME Typed, NEW r \in Requests, NEW m, IsMem(m), Keep(r, m)
    PROVE  /\ mem' = [s \in Requests |-> mem'[s]] /\ mem'[r] = m
           /\ \A s \in Requests \ {r} : mem'[s] = mem[s]
BY DEF Typed, Keep

LEMMA FinishReturns ==
    ASSUME Typed, NEW r \in Requests, NEW a \in Answers \ {"gone", "expired", "unavailable"}, Finish(r, a),
           UNCHANGED op, phase[r] \in Work,
           mem' = [s \in Requests |-> mem'[s]], IsMem(mem'[r]),
           \A s \in Requests \ {r} : mem'[s] = mem[s]
    PROVE  Returns(r)
<1>1. Goto(r, "done") /\ Reply(r, a)
  BY DEF Finish
<1>2. phase' \in [Requests -> Phases] /\ \A s \in Requests \ {r} : phase'[s] = phase[s]
  BY <1>1 DEF Goto, Typed, Phases
<1>3. answer' \in [Requests -> Answers] /\ \A s \in Requests \ {r} : answer'[s] = answer[s]
  BY <1>1 DEF Reply, Typed
<1> QED BY <1>2, <1>3 DEF Returns, Acts

LEMMA GotoGoesOn ==
    ASSUME Typed, NEW r \in Requests, NEW p \in Work, Goto(r, p), op[r].kind \in KindsIn(p),
           UNCHANGED <<streams, op, answer>>, phase[r] \in Work,
           mem' = [s \in Requests |-> mem'[s]], IsMem(mem'[r]),
           \A s \in Requests \ {r} : mem'[s] = mem[s]
    PROVE  GoesOn(r) /\ phase'[r] = p
<1>1. phase' \in [Requests -> Phases] /\ phase'[r] = p /\ \A s \in Requests \ {r} : phase'[s] = phase[s]
  BY DEF Goto, Typed, Work
<1> QED BY <1>1 DEF GoesOn, Acts, Typed

\* A handler that stays in its phase goes on
LEMMA StaysGoesOn ==
    ASSUME Typed, NEW r \in Requests, UNCHANGED phase,
           UNCHANGED <<streams, op, answer>>, phase[r] \in Work,
           mem' = [s \in Requests |-> mem'[s]], IsMem(mem'[r]),
           \A s \in Requests \ {r} : mem'[s] = mem[s]
    PROVE  GoesOn(r)
<1>1. op[r].kind \in KindsIn(phase[r])
  BY DEF Typed, Work
<1> QED BY <1>1 DEF GoesOn, Acts, Typed

LEMMA SameMem ==
    ASSUME Typed, NEW r \in Requests, UNCHANGED mem
    PROVE  /\ mem' = [s \in Requests |-> mem'[s]] /\ IsMem(mem'[r])
           /\ \A s \in Requests \ {r} : mem'[s] = mem[s]
BY DEF Typed

Results == {"failed", "skipped", "conflict", "done", "renamed", "partial", "deleted", "none"}

LEMMA NextItem ==
    ASSUME NEW m, IsMem(m), NEW x, NEW y
    PROVE  IsMem([m EXCEPT !.results = y]) /\ IsMem([NoMem EXCEPT !.at = x, !.results = y])
<1>1. IsMem(NoMem)
  BY DEF IsMem, NoMem
<1>2. ASSUME NEW n, IsMem(n) PROVE IsMem([n EXCEPT !.results = y]) /\ IsMem([n EXCEPT !.at = x])
  BY <1>2 DEF IsMem
<1>3. [NoMem EXCEPT !.at = x, !.results = y] = [[NoMem EXCEPT !.at = x] EXCEPT !.results = y]
  BY DEF NoMem
<1> QED BY <1>1, <1>2, <1>3

LEMMA ItemEndsShape ==
    ASSUME Typed, NEW r \in Requests, NEW result \in Results, ItemEnds(r, result), UNCHANGED op,
           phase[r] \in Work, op[r].kind \in Mutations \cup {"delete", "batch-delete"}
    PROVE  Returns(r) \/ Proceeds(r)
<1> DEFINE results == Append(mem[r].results, result)
<1>1. IsMem(mem[r])
  BY DEF Typed
<1>2. CASE Single(r) \/ mem[r].at = Len(op[r].items)
  <2>1. Keep(r, [mem[r] EXCEPT !.results = results]) /\ Finish(r, ReplyFor(r, result))
    BY <1>2 DEF ItemEnds
  <2>2. IsMem([mem[r] EXCEPT !.results = results])
    BY <1>1, NextItem
  <2>3. ReplyFor(r, result) \in Answers \ {"gone", "expired", "unavailable"}
    BY DEF ReplyFor, Results, Answers
  <2> QED BY <2>1, <2>2, <2>3, KeepActs, FinishReturns
<1>3. CASE ~ (Single(r) \/ mem[r].at = Len(op[r].items))
  <2> DEFINE p == IF op[r].kind = "batch-delete" THEN "delete" ELSE "inspect"
  <2>1. /\ Keep(r, [NoMem EXCEPT !.at = mem[r].at + 1, !.results = results])
        /\ Goto(r, p) /\ UNCHANGED streams /\ UNCHANGED answer
    BY <1>3 DEF ItemEnds, NoStream
  <2>2. IsMem([NoMem EXCEPT !.at = mem[r].at + 1, !.results = results])
    BY <1>1, NextItem
  <2>4. [NoMem EXCEPT !.at = mem[r].at + 1, !.results = results].todo = {}
    BY DEF NoMem
  <2>3. p \in Work /\ op[r].kind \in KindsIn(p) /\ p \in {"delete", "inspect"}
    BY <1>3, KindTable DEF Single, Work, Phases, Mutations
  <2> QED BY <2>1, <2>2, <2>3, <2>4, KeepActs, GotoGoesOn DEF Proceeds
<1> QED BY <1>2, <1>3

\* Every step of a handler that works is one of the two
LEMMA FinishKeepsMem ==
    ASSUME Typed, NEW r \in Requests, NEW a \in Answers \ {"gone", "expired", "unavailable"}, Finish(r, a),
           UNCHANGED <<op, mem>>, phase[r] \in Work
    PROVE  Returns(r)
BY SameMem, FinishReturns

LEMMA ResolvedType ==
    ASSUME NEW path, NEW names, NEW strategy, NEW dirs
    PROVE  Resolved(path, names, strategy, dirs).status \in {"done", "skipped", "renamed", "conflict"}
BY DEF Resolved

LEMMA MemWith ==
    ASSUME NEW m, IsMem(m), NEW x, NEW y, NEW s \in {"none", "done", "renamed", "skipped"}
    PROVE  /\ IsMem([m EXCEPT !.seen = x, !.final = y, !.status = s])
           /\ IsMem([m EXCEPT !.read = x]) /\ IsMem([m EXCEPT !.dir = x])
           /\ IsMem([m EXCEPT !.dir = x, !.seen = y])
           /\ IsMem([m EXCEPT !.queue = x]) /\ IsMem([m EXCEPT !.queue = x, !.todo = y])
           /\ IsMem([m EXCEPT !.todo = y])
           /\ IsMem([m EXCEPT !.page = x, !.print = y])
BY DEF IsMem

LEMMA UploadLooksShape ==
    ASSUME Typed, NEW r \in Requests, UploadLooks(r)
    PROVE  Returns(r) \/ GoesOn(r)
<1> DEFINE path == Append(op[r].dest, op[r].name)
           d == Resolved(path, Children(op[r].dest), op[r].strategy, IsDir(path))
           m == [mem[r] EXCEPT !.seen = Children(op[r].dest), !.final = d.to, !.status = d.status]
<1>1. phase[r] = "look" /\ op[r].kind = "upload" /\ UNCHANGED op /\ phase[r] \in Work
  BY DEF UploadLooks, Known, Work, Phases
<1>2. CASE ~ IsDir(op[r].dest) \/ d.status = "conflict"
  <2>1. Finish(r, IF IsDir(op[r].dest) THEN "conflict" ELSE "error") /\ UNCHANGED mem
    BY <1>2 DEF UploadLooks
  <2> QED BY <1>1, <2>1, FinishKeepsMem DEF Answers
<1>3. CASE ~ (~ IsDir(op[r].dest) \/ d.status = "conflict")
  <2> DEFINE p == IF d.status = "skipped" THEN "verify" ELSE "send"
  <2>1. Keep(r, m) /\ Goto(r, p) /\ UNCHANGED streams /\ UNCHANGED answer
    BY <1>3 DEF UploadLooks, NoStream
  <2>2. IsMem(m)
    <3>1. d.status \in {"none", "done", "renamed", "skipped"}
      BY <1>3, ResolvedType
    <3>2. IsMem(mem[r])
      BY DEF Typed
    <3> HIDE DEF d
    <3> QED BY <3>1, <3>2, MemWith
  <2>3. p \in Work /\ op[r].kind \in KindsIn(p)
    BY <1>1, KindTable DEF Work, Phases
  <2> HIDE DEF m, p
  <2> QED BY <1>1, <2>1, <2>2, <2>3, KeepActs, GotoGoesOn
<1> QED BY <1>2, <1>3

LEMMA StreamUploadShape ==
    ASSUME Typed, NEW r \in Requests, StreamUpload(r)
    PROVE  Returns(r) \/ GoesOn(r)
<1>1. phase[r] = "send" /\ UNCHANGED op /\ phase[r] \in Work /\ op[r].kind = "upload"
  BY KindTable DEF StreamUpload, Known, Work, Phases, Typed
<1>2. \/ /\ Keep(r, [mem[r] EXCEPT !.read = BytesRead(op[r])]) /\ Goto(r, "verify")
         /\ UNCHANGED streams /\ UNCHANGED answer
      \/ Finish(r, IF op[r].body # op[r].size THEN "mismatch" ELSE "error") /\ UNCHANGED mem
  BY Zenon DEF StreamUpload, NoStream
<1>3. IsMem([mem[r] EXCEPT !.read = BytesRead(op[r])])
  BY MemWith DEF Typed
<1>4. "verify" \in Work /\ op[r].kind \in KindsIn("verify")
  BY <1>1, KindTable DEF Work, Phases
<1>5. (IF op[r].body # op[r].size THEN "mismatch" ELSE "error") \in Answers \ {"gone", "expired", "unavailable"}
  BY DEF Answers
<1> QED BY <1>1, <1>2, <1>3, <1>4, <1>5, KeepActs, GotoGoesOn, FinishKeepsMem

LEMMA UploadAnswersShape ==
    ASSUME Typed, NEW r \in Requests, UploadAnswers(r), mem[r].status # "none"
    PROVE  Returns(r)
<1> DEFINE a == IF Verify(op[r], mem[r].read)
                  THEN [done |-> "uploaded", renamed |-> "renamed",
                        skipped |-> "skipped"][mem[r].status]
                ELSE "mismatch"
<1>1. phase[r] \in Work /\ UNCHANGED <<op, mem>> /\ Finish(r, a)
  BY DEF UploadAnswers, Known, Work, Phases
<1>2. mem[r].status \in {"done", "renamed", "skipped"}
  BY DEF Typed, IsMem
<1>3. [done |-> "uploaded", renamed |-> "renamed", skipped |-> "skipped"][mem[r].status]
        \in {"uploaded", "renamed", "skipped"}
  BY <1>2
<1>4. a \in Answers \ {"gone", "expired", "unavailable"}
  BY <1>3 DEF Answers
<1> HIDE DEF a
<1> QED BY <1>1, <1>4, FinishKeepsMem

LEMMA MkdirLooksShape ==
    ASSUME Typed, NEW r \in Requests, MkdirLooks(r)
    PROVE  Returns(r) \/ GoesOn(r)
<1>1. phase[r] \in Work /\ op[r].kind = "mkdir" /\ UNCHANGED <<op, mem>>
  BY DEF MkdirLooks, Known, Work, Phases
<1>2. \/ Finish(r, IF IsDir(op[r].dest) THEN "conflict" ELSE "error")
      \/ Goto(r, "mkdir") /\ UNCHANGED streams /\ UNCHANGED answer
  BY Zenon DEF MkdirLooks, NoStream
<1>3. "mkdir" \in Work /\ op[r].kind \in KindsIn("mkdir")
  BY <1>1, KindTable DEF Work, Phases
<1>4. (IF IsDir(op[r].dest) THEN "conflict" ELSE "error") \in Answers \ {"gone", "expired", "unavailable"}
  BY DEF Answers
<1> QED BY <1>1, <1>2, <1>3, <1>4, SameMem, GotoGoesOn, FinishKeepsMem

LEMMA CreateDirectoryShape ==
    ASSUME Typed, NEW r \in Requests, CreateDirectory(r)
    PROVE  Returns(r)
<1>1. phase[r] \in Work /\ UNCHANGED <<op, mem>>
  BY DEF CreateDirectory, Known, Work, Phases
<1>2. Finish(r, "created") \/ Finish(r, "error")
  BY Zenon DEF CreateDirectory
<1> QED BY <1>1, <1>2, FinishKeepsMem DEF Answers

LEMMA StreamEndsShape ==
    ASSUME Typed, NEW r \in Requests, StreamEnds(r)
    PROVE  Returns(r)
BY FinishKeepsMem DEF StreamEnds, Known, Work, Phases, Answers

LEMMA ListPageShape ==
    ASSUME Typed, NEW r \in Requests, ListPage(r)
    PROVE  Returns(r) \/ GoesOn(r)
<1> DEFINE page == Page(op[r].dest, Len(mem[r].page))
           m == [mem[r] EXCEPT !.page = @ \o page.entries, !.print = Fingerprint(op[r].dest)]
<1>1. phase[r] \in Work /\ UNCHANGED op
  BY DEF ListPage, Known, Work, Phases
<1>2. \/ Finish(r, "error") /\ UNCHANGED mem
      \/ Finish(r, "changed") /\ UNCHANGED mem
      \/ Keep(r, m) /\ Finish(r, "listed")
      \/ Keep(r, m) /\ UNCHANGED <<phase, answer, streams>>
  BY Zenon DEF ListPage
<1>3. IsMem(m)
  BY MemWith DEF Typed
<1>4. {"error", "changed", "listed"} \subseteq Answers \ {"gone", "expired", "unavailable"}
  BY DEF Answers
<1> HIDE DEF m
<1> QED BY <1>1, <1>2, <1>3, <1>4, KeepActs, FinishReturns, FinishKeepsMem, StaysGoesOn

LEMMA ValidateShape ==
    ASSUME Typed, NEW r \in Requests, Validate(r)
    PROVE  Returns(r) \/ GoesOn(r)
<1>1. phase[r] \in Work /\ UNCHANGED op /\ op[r].kind \in Mutations
  BY KindTable DEF Validate, Known, Work, Phases, Typed
<1>2. \/ ItemEnds(r, "failed")
      \/ /\ Keep(r, [mem[r] EXCEPT !.dir = tree[Item(r)].dir])
         /\ Goto(r, "resolve") /\ UNCHANGED streams /\ UNCHANGED answer
  BY Zenon DEF Validate, NoStream
<1>3. IsMem([mem[r] EXCEPT !.dir = tree[Item(r)].dir])
  BY MemWith DEF Typed
<1>4. "resolve" \in Work /\ op[r].kind \in KindsIn("resolve") /\ "failed" \in Results
  BY <1>1, KindTable DEF Work, Phases, Results
<1> QED BY <1>1, <1>2, <1>3, <1>4, KeepActs, GotoGoesOn, ItemEndsShape DEF Proceeds

LEMMA ResolveDestinationShape ==
    ASSUME Typed, NEW r \in Requests, ResolveDestination(r)
    PROVE  Returns(r) \/ GoesOn(r)
<1> DEFINE d == Resolved(Target(r), Children(op[r].dest), op[r].strategy,
                         IsDir(Target(r)) \/ mem[r].dir)
           moves == op[r].kind \in {"move", "batch-move"}
           m == [mem[r] EXCEPT !.seen = Children(op[r].dest), !.final = d.to, !.status = d.status]
           p == IF moves THEN "rename" ELSE IF mem[r].dir THEN "make" ELSE "copy"
<1>1. phase[r] \in Work /\ UNCHANGED op /\ op[r].kind \in Mutations
  BY KindTable DEF ResolveDestination, Known, Work, Phases, Typed
<1>2. \/ d.status \in {"skipped", "conflict"} /\ ItemEnds(r, d.status)
      \/ ItemEnds(r, "failed")
      \/ /\ d.status \notin {"skipped", "conflict"}
         /\ Keep(r, m) /\ Goto(r, p) /\ UNCHANGED streams /\ UNCHANGED answer
  BY Zenon DEF ResolveDestination, NoStream
<1>3. p \in Work /\ op[r].kind \in KindsIn(p) /\ {"failed", "skipped", "conflict"} \subseteq Results
  BY <1>1, KindTable DEF Work, Phases, Results, Mutations
<1>4. d.status \notin {"skipped", "conflict"} => IsMem(m)
  <2>1. d.status \notin {"skipped", "conflict"} => d.status \in {"none", "done", "renamed", "skipped"}
    BY ResolvedType
  <2>2. IsMem(mem[r])
    BY DEF Typed
  <2> HIDE DEF d
  <2> QED BY <2>1, <2>2, MemWith
<1> HIDE DEF m, p, d
<1> QED BY <1>1, <1>2, <1>3, <1>4, KeepActs, GotoGoesOn, ItemEndsShape DEF Proceeds

LEMMA StatusIsResult ==
    ASSUME Typed, NEW r \in Requests
    PROVE  mem[r].status \in Results
BY DEF Typed, IsMem, Results

LEMMA RenameFileShape ==
    ASSUME Typed, NEW r \in Requests, RenameFile(r)
    PROVE  Returns(r) \/ Proceeds(r)
<1>1. phase[r] \in Work /\ UNCHANGED op /\ op[r].kind \in Mutations
  BY KindTable DEF RenameFile, Known, Work, Phases, Typed, Mutations
<1>2. ItemEnds(r, "failed") \/ ItemEnds(r, mem[r].status)
  BY Zenon DEF RenameFile
<1> QED BY <1>1, <1>2, ItemEndsShape, StatusIsResult DEF Results

LEMMA CopyFileShape ==
    ASSUME Typed, NEW r \in Requests, CopyFile(r)
    PROVE  Returns(r) \/ Proceeds(r)
<1>1. phase[r] \in Work /\ UNCHANGED op /\ op[r].kind \in Mutations
  BY KindTable DEF CopyFile, Known, Work, Phases, Typed, Mutations
<1>2. ItemEnds(r, "failed") \/ ItemEnds(r, mem[r].status)
  BY Zenon DEF CopyFile
<1> QED BY <1>1, <1>2, ItemEndsShape, StatusIsResult DEF Results

LEMMA CopyMakesTargetShape ==
    ASSUME Typed, NEW r \in Requests, CopyMakesTarget(r)
    PROVE  Returns(r) \/ GoesOn(r)
<1> DEFINE m == [mem[r] EXCEPT !.queue = <<<<Item(r), mem[r].final>>>>]
<1>1. phase[r] \in Work /\ UNCHANGED op /\ op[r].kind \in {"copy", "batch-copy"}
  BY KindTable DEF CopyMakesTarget, Known, Work, Phases, Typed
<1>2. \/ ItemEnds(r, "partial")
      \/ Keep(r, m) /\ Goto(r, "walk") /\ UNCHANGED streams /\ UNCHANGED answer
  BY Zenon DEF CopyMakesTarget, NoStream
<1>3. IsMem(m)
  BY MemWith DEF Typed
<1>4. "walk" \in Work /\ op[r].kind \in KindsIn("walk") /\ "partial" \in Results
      /\ op[r].kind \in Mutations
  BY <1>1, KindTable DEF Work, Phases, Results, Mutations
<1> HIDE DEF m
<1> QED BY <1>1, <1>2, <1>3, <1>4, KeepActs, GotoGoesOn, ItemEndsShape DEF Proceeds

LEMMA CopyListsShape ==
    ASSUME Typed, NEW r \in Requests, CopyLists(r)
    PROVE  Returns(r) \/ GoesOn(r)
<1> DEFINE d == Head(mem[r].queue)
           m == [mem[r] EXCEPT !.queue = Tail(@),
                   !.todo = {<<c, Append(d[2], Last(c)), tree[c].dir>> : c \in Children(d[1])}]
<1>1. phase[r] \in Work /\ UNCHANGED op /\ op[r].kind \in Mutations
  BY KindTable DEF CopyLists, Known, Work, Phases, Typed, Mutations
<1>2. \/ ItemEnds(r, "partial") \/ ItemEnds(r, mem[r].status)
      \/ Keep(r, m) /\ UNCHANGED phase /\ UNCHANGED streams /\ UNCHANGED answer
  BY Zenon DEF CopyLists, NoStream
<1>3. IsMem(m)
  BY MemWith DEF Typed
<1> HIDE DEF m
<1> QED BY <1>1, <1>2, <1>3, KeepActs, StaysGoesOn, ItemEndsShape, StatusIsResult DEF Results, Proceeds

LEMMA CopyMemberShape ==
    ASSUME Typed, NEW r \in Requests, CopyMember(r)
    PROVE  Returns(r) \/ GoesOn(r)
<1>1. phase[r] \in Work /\ UNCHANGED op /\ op[r].kind \in Mutations
  BY KindTable DEF CopyMember, Known, Work, Phases, Typed, Mutations
<1>2. PICK c \in mem[r].todo :
        \/ ItemEnds(r, "partial")
        \/ /\ UNCHANGED phase /\ UNCHANGED streams /\ UNCHANGED answer
           /\ \/ Keep(r, [[mem[r] EXCEPT !.todo = @ \ {c}] EXCEPT !.queue = Append(@, <<c[1], c[2]>>)])
              \/ Keep(r, [mem[r] EXCEPT !.todo = @ \ {c}])
  BY Zenon DEF CopyMember, NoStream
<1> DEFINE m == [mem[r] EXCEPT !.todo = @ \ {c}]
           n == [m EXCEPT !.queue = Append(@, <<c[1], c[2]>>)]
<1>3. IsMem(m)
  BY MemWith DEF Typed
<1>4. IsMem(n)
  <2> HIDE DEF m
  <2> QED BY <1>3, MemWith
<1>5. \/ ItemEnds(r, "partial")
      \/ UNCHANGED phase /\ UNCHANGED streams /\ UNCHANGED answer /\ (Keep(r, n) \/ Keep(r, m))
  BY <1>2
<1> HIDE DEF m, n
<1> QED BY <1>1, <1>3, <1>4, <1>5, KeepActs, StaysGoesOn, ItemEndsShape DEF Results, Proceeds

LEMMA DeleteLooksShape ==
    ASSUME Typed, NEW r \in Requests, NEW kind, DeleteLooks(r, kind)
    PROVE  Returns(r) \/ GoesOn(r)
<1> DEFINE m == [mem[r] EXCEPT !.dir = tree[Item(r)].dir, !.seen = Children(Item(r))]
<1>1. phase[r] \in Work /\ UNCHANGED op /\ op[r].kind \in {"delete", "batch-delete"}
  BY KindTable DEF DeleteLooks, Known, Work, Phases, Typed
<1>2. \/ ItemEnds(r, "failed")
      \/ Keep(r, m) /\ Goto(r, "remove") /\ UNCHANGED streams /\ UNCHANGED answer
  BY Zenon DEF DeleteLooks, NoStream
<1>3. IsMem(m)
  BY MemWith DEF Typed
<1>4. "remove" \in Work /\ op[r].kind \in KindsIn("remove") /\ "failed" \in Results
  BY <1>1, KindTable DEF Work, Phases, Results
<1> HIDE DEF m
<1> QED BY <1>1, <1>2, <1>3, <1>4, KeepActs, GotoGoesOn, ItemEndsShape DEF Proceeds

LEMMA DeleteManagerItemShape ==
    ASSUME Typed, NEW r \in Requests, DeleteManagerItem(r)
    PROVE  Returns(r) \/ Proceeds(r)
<1>1. phase[r] \in Work /\ UNCHANGED op /\ op[r].kind \in {"delete", "batch-delete"}
  BY KindTable DEF DeleteManagerItem, Known, Work, Phases, Typed
<1>2. ItemEnds(r, "failed") \/ ItemEnds(r, "deleted")
  BY Zenon DEF DeleteManagerItem
<1> QED BY <1>1, <1>2, ItemEndsShape DEF Results

LEMMA ProviderFailsShape ==
    ASSUME Typed, NEW r \in Requests, ProviderFails(r)
    PROVE  Returns(r) \/ Proceeds(r)
<1>1. /\ phase[r] \in Work /\ UNCHANGED op
      /\ op[r].kind \in {"upload", "mkdir", "list", "delete", "batch-delete"} \cup Mutations
  BY KindTable DEF ProviderFails, Work, Phases, Typed, Mutations
<1>2. \/ Finish(r, "error") /\ UNCHANGED mem
      \/ /\ op[r].kind \notin {"upload", "mkdir", "list"}
         /\ ItemEnds(r, "partial") \/ ItemEnds(r, "failed")
  BY Zenon DEF ProviderFails
<1> QED BY <1>1, <1>2, ItemEndsShape, FinishKeepsMem DEF Results, Answers

-----------------------------------------------------------------------------
(* The slots.                                                              *)

LEMMA LiveIs ==
    ASSUME NEW k \in Kinds
    PROVE  Live(k) = {s \in DOMAIN zset[k].members : zset[k].members[s] >= 0}
BY DEF Live, Purged, Restrict

LEMMA LiveIsNext ==
    ASSUME NEW k \in Kinds
    PROVE  Live(k)' = {s \in DOMAIN zset'[k].members : zset'[k].members[s] >= 0}
BY DEF Live, Purged, Restrict

LEMMA PurgedIs ==
    ASSUME NEW k \in Kinds
    PROVE  /\ DOMAIN Purged(zset[k].members) = Live(k)
           /\ \A s \in Live(k) : Purged(zset[k].members)[s] = zset[k].members[s]
BY DEF Live, Purged, Restrict

\* A slot is acquired or renewed: purge, ZADD, EXPIRE
LEMMA AddedFacts ==
    ASSUME KeysTyped, NEW k \in Kinds, NEW s \in StreamIds, NEW t \in {TicketTTL, Lease},
           zset' = Added(k, s, t)
    PROVE  /\ KeysTyped' /\ \A j \in Kinds \ {k} : zset'[j] = zset[j]
           /\ zset'[k].ttl = t /\ zset'[k].members[s] = t
           /\ DOMAIN zset'[k].members = Live(k) \cup {s}
           /\ \A y \in Live(k) \ {s} : zset'[k].members[y] = zset[k].members[y]
           /\ Live(k)' = Live(k) \cup {s}
<1> DEFINE m == Put(Purged(zset[k].members), s, t)
<1>1. DOMAIN zset' = Kinds /\ zset'[k] = [members |-> m, ttl |-> t]
      /\ \A j \in Kinds \ {k} : zset'[j] = zset[j]
  BY DEF Added, KeysTyped
<1>2. DOMAIN m = Live(k) \cup {s} /\ m[s] = t
      /\ \A y \in Live(k) \ {s} : m[y] = zset[k].members[y]
  <2> DEFINE f == Purged(zset[k].members)
  <2>1. DOMAIN f = Live(k) /\ \A y \in Live(k) : f[y] = zset[k].members[y]
    BY PurgedIs
  <2> HIDE DEF f
  <2>2. DOMAIN Put(f, s, t) = DOMAIN f \cup {s} /\ Put(f, s, t)[s] = t
        /\ \A y \in DOMAIN f \ {s} : Put(f, s, t)[y] = f[y]
    BY DEF Put
  <2>3. m = Put(f, s, t)
    BY DEF f
  <2> HIDE DEF m
  <2> QED BY <2>1, <2>2, <2>3
<1>3. t \in -1 .. Lease /\ t >= 0
  BY DEF TicketTTL, Lease
<1> HIDE DEF m
<1>4. zset'[k].members = m /\ zset'[k].ttl = t /\ DOMAIN zset'[k] = {"members", "ttl"}
  BY <1>1
<1>5. \A y \in Live(k) : y \in DOMAIN zset[k].members /\ zset[k].members[y] \in -1 .. Lease
                         /\ zset[k].members[y] >= 0 /\ y \in StreamIds
  BY LiveIs DEF KeysTyped
<1>6. Live(k)' = Live(k) \cup {s}
  BY <1>2, <1>3, <1>4, <1>5, LiveIsNext
<1>7. \A y \in DOMAIN m : m[y] \in -1 .. Lease /\ y \in StreamIds
  BY <1>2, <1>3, <1>5
<1>8. ASSUME NEW j \in Kinds
      PROVE  /\ DOMAIN zset'[j] = {"members", "ttl"} /\ zset'[j].ttl \in -1 .. Lease
             /\ DOMAIN zset'[j].members \subseteq StreamIds
             /\ \A y \in DOMAIN zset'[j].members : zset'[j].members[y] \in -1 .. Lease
  <2>1. CASE j = k BY <2>1, <1>4, <1>7, <1>3
  <2>2. CASE j # k BY <2>2, <1>1 DEF KeysTyped
  <2> QED BY <2>1, <2>2
<1>9. KeysTyped'
  BY <1>1, <1>8 DEF KeysTyped
<1> QED BY <1>1, <1>2, <1>4, <1>6, <1>9

LEMMA RenewedFacts ==
    ASSUME KeysTyped, NEW k \in Kinds, NEW s \in StreamIds, zset' = Renewed(k, s)
    PROVE  /\ KeysTyped' /\ \A j \in Kinds \ {k} : zset'[j] = zset[j]
           /\ DOMAIN zset'[k].members = Live(k) /\ Live(k)' = Live(k)
           /\ \A y \in Live(k) \ {s} : zset'[k].members[y] = zset[k].members[y]
           /\ s \in Live(k) => zset'[k].ttl = Lease /\ zset'[k].members[s] = Lease
           /\ s \notin Live(k) => zset'[k].ttl = zset[k].ttl
<1>1. CASE s \in Live(k)
  <2>1. zset' = Added(k, s, Lease)
    BY <1>1 DEF Renewed, Renewable, Live
  <2>2. Live(k) \cup {s} = Live(k) /\ Lease \in {TicketTTL, Lease}
    BY <1>1
  <2>3. /\ KeysTyped' /\ \A j \in Kinds \ {k} : zset'[j] = zset[j]
        /\ zset'[k].ttl = Lease /\ zset'[k].members[s] = Lease
        /\ DOMAIN zset'[k].members = Live(k) \cup {s}
        /\ \A y \in Live(k) \ {s} : zset'[k].members[y] = zset[k].members[y]
        /\ Live(k)' = Live(k) \cup {s}
    BY <2>1, <2>2, AddedFacts, Zenon
  <2> QED BY <1>1, <2>2, <2>3
<1>2. CASE s \notin Live(k)
  <2> DEFINE m == Purged(zset[k].members)
  <2>1. zset' = [zset EXCEPT ![k].members = m]
    BY <1>2 DEF Renewed, Renewable, Live
  <2>2. DOMAIN m = Live(k) /\ \A y \in Live(k) : m[y] = zset[k].members[y]
    BY PurgedIs
  <2> HIDE DEF m
  <2>3. /\ DOMAIN zset' = Kinds /\ zset'[k].members = m /\ zset'[k].ttl = zset[k].ttl
        /\ DOMAIN zset'[k] = {"members", "ttl"} /\ \A j \in Kinds \ {k} : zset'[j] = zset[j]
    BY <2>1 DEF KeysTyped
  <2>4. \A y \in Live(k) : y \in DOMAIN zset[k].members /\ zset[k].members[y] \in -1 .. Lease
                         /\ zset[k].members[y] >= 0 /\ y \in StreamIds
    BY LiveIs DEF KeysTyped
  <2>5. Live(k)' = Live(k)
    BY <2>2, <2>3, <2>4, LiveIsNext
  <2>6. ASSUME NEW j \in Kinds
        PROVE  /\ DOMAIN zset'[j] = {"members", "ttl"} /\ zset'[j].ttl \in -1 .. Lease
               /\ DOMAIN zset'[j].members \subseteq StreamIds
               /\ \A y \in DOMAIN zset'[j].members : zset'[j].members[y] \in -1 .. Lease
    <3>1. CASE j = k BY <3>1, <2>2, <2>3, <2>4 DEF KeysTyped
    <3>2. CASE j # k BY <3>2, <2>3 DEF KeysTyped
    <3> QED BY <3>1, <3>2
  <2>7. KeysTyped'
    BY <2>3, <2>6 DEF KeysTyped
  <2> QED BY <1>2, <2>2, <2>3, <2>5, <2>7
<1> QED BY <1>1, <1>2

LEMMA ReleasedFacts ==
    ASSUME KeysTyped, NEW k \in Kinds, NEW s \in StreamIds, zset' = Released(k, s)
    PROVE  /\ KeysTyped' /\ \A j \in Kinds \ {k} : zset'[j] = zset[j]
           /\ DOMAIN zset'[k].members = DOMAIN zset[k].members \ {s}
           /\ \A y \in DOMAIN zset'[k].members : zset'[k].members[y] = zset[k].members[y]
           /\ DOMAIN zset'[k].members # {} => zset'[k].ttl = zset[k].ttl
           /\ Live(k)' \subseteq Live(k)
<1>1. /\ DOMAIN zset' = Kinds /\ DOMAIN zset'[k] = {"members", "ttl"}
      /\ DOMAIN zset'[k].members = DOMAIN zset[k].members \ {s}
      /\ \A y \in DOMAIN zset'[k].members : zset'[k].members[y] = zset[k].members[y]
      /\ zset'[k].ttl \in -1 .. Lease
      /\ DOMAIN zset'[k].members # {} => zset'[k].ttl = zset[k].ttl
      /\ \A j \in Kinds \ {k} : zset'[j] = zset[j]
  <2>1. CASE DOMAIN zset[k].members \ {s} = {}
    <3>1. zset' = [zset EXCEPT ![k] = NoKey]
      BY <2>1, Zenon DEF Released, Without
    <3>2. zset'[k] = [members |-> <<>>, ttl |-> -1] /\ DOMAIN zset' = Kinds
          /\ \A j \in Kinds \ {k} : zset'[j] = zset[j]
      BY <3>1 DEF KeysTyped, NoKey
    <3> QED BY <2>1, <3>2 DEF Lease
  <2>2. CASE DOMAIN zset[k].members \ {s} # {}
    <3> DEFINE m == Restrict(zset[k].members, DOMAIN zset[k].members \ {s})
               z == [members |-> m, ttl |-> zset[k].ttl]
    <3>1. zset' = [zset EXCEPT ![k] = z]
      BY <2>2, Zenon DEF Released, Without
    <3>2. DOMAIN m = DOMAIN zset[k].members \ {s} /\ \A y \in DOMAIN m : m[y] = zset[k].members[y]
      BY DEF Restrict
    <3> HIDE DEF m
    <3>3. z.members = m /\ z.ttl = zset[k].ttl /\ DOMAIN z = {"members", "ttl"}
      BY DEF KeysTyped
    <3> HIDE DEF z
    <3>4. zset'[k] = z /\ DOMAIN zset' = Kinds /\ \A j \in Kinds \ {k} : zset'[j] = zset[j]
      BY <3>1 DEF KeysTyped
    <3> QED BY <3>2, <3>3, <3>4 DEF KeysTyped
  <2> QED BY <2>1, <2>2
<1>2. ASSUME NEW j \in Kinds
      PROVE  /\ DOMAIN zset'[j] = {"members", "ttl"} /\ zset'[j].ttl \in -1 .. Lease
             /\ DOMAIN zset'[j].members \subseteq StreamIds
             /\ \A y \in DOMAIN zset'[j].members : zset'[j].members[y] \in -1 .. Lease
  <2>1. CASE j = k BY <2>1, <1>1 DEF KeysTyped
  <2>2. CASE j # k BY <2>2, <1>1 DEF KeysTyped
  <2> QED BY <2>1, <2>2
<1>3. KeysTyped'
  BY <1>1, <1>2 DEF KeysTyped
<1>4. Live(k)' \subseteq Live(k)
  BY <1>1, LiveIs, LiveIsNext
<1> QED BY <1>1, <1>3, <1>4

\* Losing slots keeps the limit, and so does taking one where there is room
LEMMA FewerSlots ==
    ASSUME Bounded, \A k \in Kinds : Live(k)' \subseteq Live(k)
    PROVE  Bounded'
<1>1. SUFFICES ASSUME NEW k \in Kinds
               PROVE  IsFiniteSet(Live(k)') /\ Cardinality(Live(k)') =< MaxStreams
  BY DEF Bounded
<1>2. IsFiniteSet(Live(k)) /\ Cardinality(Live(k)) =< MaxStreams /\ Live(k)' \subseteq Live(k)
  BY DEF Bounded
<1>3. IsFiniteSet(Live(k)') /\ Cardinality(Live(k)') =< Cardinality(Live(k))
  BY <1>2, FS_Subset
<1>4. Cardinality(Live(k)') \in Nat /\ Cardinality(Live(k)) \in Nat
  BY <1>2, <1>3, FS_CardinalityType
<1> QED BY <1>2, <1>3, <1>4, MaxStreamsAssumption

LEMMA OneMoreSlot ==
    ASSUME Bounded, NEW k \in Kinds, HasRoom(k), NEW s, Live(k)' = Live(k) \cup {s},
           \A j \in Kinds \ {k} : zset'[j] = zset[j]
    PROVE  Bounded'
<1>1. \A j \in Kinds \ {k} : Live(j)' = Live(j)
  BY LiveIs, LiveIsNext
<1>2. IsFiniteSet(Live(k)) /\ Cardinality(Live(k)) < MaxStreams
  BY DEF Bounded, HasRoom, Live
<1>3. /\ IsFiniteSet(Live(k) \cup {s})
      /\ Cardinality(Live(k) \cup {s}) \in {Cardinality(Live(k)), Cardinality(Live(k)) + 1}
  BY <1>2, FS_AddElement
<1>4. Cardinality(Live(k)) \in Nat
  BY <1>2, FS_CardinalityType
<1>5. IsFiniteSet(Live(k)') /\ Cardinality(Live(k)') =< MaxStreams
  BY <1>2, <1>3, <1>4, MaxStreamsAssumption
<1> QED BY <1>1, <1>5 DEF Bounded

-----------------------------------------------------------------------------
(* Each kind of step keeps StreamInv.                                      *)

CountersTyped ==
    /\ ticket \in [StreamIds -> -1 .. TicketTTL]
    /\ active \in [StreamIds -> 0 .. 2]
    /\ due \in [StreamIds -> BOOLEAN]
    /\ exposed \subseteq StreamIds

LEMMA TypedByActs ==
    ASSUME Typed, KeysTyped', CountersTyped', NEW r \in Requests, Acts(r), UNCHANGED op,
           phase[r] # "idle", phase'[r] # "idle", op[r].kind \in KindsIn(phase'[r])
    PROVE  Typed'
<1>1. \A s \in Requests : IsMem(mem'[s])
  BY DEF Typed, Acts
<1>2. \A s \in Requests : phase'[s] = "idle" => op'[s] = NoOp
  BY DEF Typed, Acts
<1>3. \A s \in Requests : phase'[s] # "idle" => IsOp(op'[s]) /\ op'[s].kind \in KindsIn(phase'[s])
  BY DEF Typed, Acts
<1> QED BY <1>1, <1>2, <1>3 DEF Typed, Acts, CountersTyped

\* Nothing but the requests themselves: types of the slots follow from the old ones
LEMMA StreamsKept ==
    ASSUME Typed, UNCHANGED streams
    PROVE  KeysTyped' /\ CountersTyped' /\ \A k \in Kinds : Live(k)' = Live(k)
BY DEF Typed, streams, KeysTyped, CountersTyped, Live

LEMMA SlotKindKept ==
    ASSUME NEW s, op'[s] = op[s]
    PROVE  SlotKind(s)' = SlotKind(s) /\ HasSlot(s)' = HasSlot(s)
BY DEF SlotKind, HasSlot

\* Where op, slots and counters of a request are as before, so is its claim
LEMMA KeptKept ==
    ASSUME NEW s \in Requests, UNCHANGED <<op, due>>, Kept(s),
           zset'[SlotKind(s)].ttl = zset[SlotKind(s)].ttl,
           s \in DOMAIN zset'[SlotKind(s)].members,
           zset'[SlotKind(s)].members[s] = zset[SlotKind(s)].members[s]
    PROVE  Kept(s)'
<1>1. SlotKind(s)' = SlotKind(s)
  BY SlotKindKept
<1> QED BY <1>1, SMT DEF Kept, Lease

LEMMA GoesOnSlots ==
    ASSUME StreamInv, NEW r \in Requests, GoesOn(r)
    PROVE  StreamInv'
<1>1. KeysTyped' /\ CountersTyped' /\ \A k \in Kinds : Live(k)' = Live(k)
  BY StreamsKept DEF StreamInv, GoesOn
<1>2. Typed'
  BY <1>1, TypedByActs DEF StreamInv, GoesOn, Work
<1>3. Bounded'
  BY <1>1, FewerSlots DEF StreamInv
<1>4. \A s \in Requests : SlotKind(s)' = SlotKind(s) /\ HasSlot(s)' = HasSlot(s)
  BY SlotKindKept DEF GoesOn
<1>5. /\ zset' = zset /\ ticket' = ticket /\ active' = active /\ due' = due /\ answer' = answer
      /\ exposed' = exposed
      /\ \A s \in Requests \ {r} : phase'[s] = phase[s]
      /\ phase[r] \in Work /\ phase'[r] \in Work
  BY DEF GoesOn, Acts, streams
<1>6. Owned'
  BY <1>4, <1>5 DEF StreamInv, Owned, Work
<1>7. TicketsOut'
  BY <1>5 DEF StreamInv, TicketsOut, Work
<1>8. Running'
  <2>1. \A s \in Requests : Kept(s) => Kept(s)'
    BY <1>4, <1>5 DEF Kept
  <2> QED BY <1>4, <1>5, <2>1 DEF StreamInv, Running
<1> QED BY <1>2, <1>3, <1>6, <1>7, <1>8 DEF StreamInv

\* The slot of the request itself: which one it is, and that it is one
LEMMA OwnSlot ==
    ASSUME NEW r \in Requests, HasSlot(r)
    PROVE  SlotKind(r) \in Kinds /\ r \in StreamIds
BY DEF HasSlot, StreamIds

\* Another stream of the same kind keeps its claim when r gives its slot back
LEMMA ReleaseKeeps ==
    ASSUME KeysTyped, NEW r \in Requests, NEW s \in Requests \ {r}, NEW k \in Kinds,
           zset' = Released(k, r), UNCHANGED <<op, due>>, Kept(s), HasSlot(s)
    PROVE  Kept(s)'
<1>1. /\ \A j \in Kinds \ {k} : zset'[j] = zset[j]
      /\ DOMAIN zset'[k].members = DOMAIN zset[k].members \ {r}
      /\ \A y \in DOMAIN zset'[k].members : zset'[k].members[y] = zset[k].members[y]
      /\ DOMAIN zset'[k].members # {} => zset'[k].ttl = zset[k].ttl
      /\ KeysTyped'
  BY ReleasedFacts DEF StreamIds
<1>2. SlotKind(s) \in Kinds /\ s \in DOMAIN zset[SlotKind(s)].members
  BY DEF HasSlot, Kept
<1>3. /\ s \in DOMAIN zset'[SlotKind(s)].members
      /\ zset'[SlotKind(s)].members[s] = zset[SlotKind(s)].members[s]
      /\ zset'[SlotKind(s)].ttl = zset[SlotKind(s)].ttl
  <2>1. CASE SlotKind(s) = k BY <2>1, <1>1, <1>2
  <2>2. CASE SlotKind(s) # k BY <2>2, <1>1, <1>2
  <2> QED BY <2>1, <2>2
<1> QED BY <1>3, KeptKept

LEMMA FewerLive ==
    ASSUME NEW k \in Kinds, \A j \in Kinds \ {k} : zset'[j] = zset[j], Live(k)' \subseteq Live(k)
    PROVE  \A j \in Kinds : Live(j)' \subseteq Live(j)
BY LiveIs, LiveIsNext

LEMMA ReturnsSlots ==
    ASSUME StreamInv, NEW r \in Requests, Returns(r)
    PROVE  StreamInv'
<1>1. PICK a \in Answers \ {"gone", "expired", "unavailable"} : Finish(r, a)
  BY DEF Returns
<1>2. /\ phase' = [phase EXCEPT ![r] = "done"] /\ answer' = [answer EXCEPT ![r] = a]
      /\ phase'[r] = "done" /\ answer'[r] = a
  BY <1>1 DEF Finish, Goto, Reply, StreamInv, Typed
<1>3. /\ \A s \in Requests \ {r} : phase'[s] = phase[s] /\ answer'[s] = answer[s]
      /\ op' = op /\ phase[r] \in Work
  BY DEF Returns, Acts
<1>4. \A s \in Requests : SlotKind(s)' = SlotKind(s) /\ HasSlot(s)' = HasSlot(s)
  BY <1>3, SlotKindKept
<1>5. ~ (ticket[r] >= 0)
  BY <1>3 DEF StreamInv, TicketsOut, Work
<1>6. op[r].kind \in KindsIn("done")
  BY <1>3, KindTable DEF StreamInv, Typed, Work, IsOp
<1>7. ASSUME KeysTyped', CountersTyped' PROVE Typed'
  BY <1>2, <1>3, <1>6, <1>7, TypedByActs DEF StreamInv, Returns, Work
<1>8. CASE HasSlot(r)
  <2>a. PICK k \in Kinds : k = SlotKind(r)
    BY <1>8, OwnSlot
  <2>1. k \in Kinds /\ r \in StreamIds
    BY <1>8, OwnSlot
  <2>2. zset' = Released(k, r) /\ active' = [active EXCEPT ![r] = 0]
        /\ ticket' = ticket /\ due' = due /\ exposed' = exposed
    BY <1>1, <1>8, <2>a DEF Finish
  <2>3. /\ KeysTyped' /\ \A j \in Kinds \ {k} : zset'[j] = zset[j]
        /\ DOMAIN zset'[k].members = DOMAIN zset[k].members \ {r}
        /\ Live(k)' \subseteq Live(k)
    BY <2>1, <2>2, ReleasedFacts DEF StreamInv, Typed
  <2>4. CountersTyped' /\ active'[r] = 0 /\ \A s \in Requests \ {r} : active'[s] = active[s]
    BY <2>1, <2>2 DEF StreamInv, Typed, CountersTyped, StreamIds
  <2>5. Typed'
    BY <1>7, <2>3, <2>4
  <2>6. Bounded'
    BY <2>1, <2>3, FewerSlots, FewerLive DEF StreamInv
  <2>7. Owned'
    <3>1. SUFFICES ASSUME NEW j \in Kinds, NEW s \in Requests, s \in DOMAIN zset'[j].members
                   PROVE  /\ j = SlotKind(s) /\ phase'[s] \notin {"idle", "wait"}
                          /\ phase'[s] = "done" => answer'[s] \in {"gone", "expired", "unavailable"}
      BY <1>4 DEF Owned
    <3>2. s \in DOMAIN zset[j].members
      BY <3>1, <2>3
    <3>3. s # r
      <4>1. s = r => j = k
        BY <3>2, <2>a DEF StreamInv, Owned
      <4> QED BY <4>1, <3>1, <2>3
    <3> QED BY <3>2, <3>3, <1>3 DEF StreamInv, Owned
  <2>8. TicketsOut'
    BY <1>3, <1>5, <2>2 DEF StreamInv, TicketsOut
  <2>9. Running'
    <3>1. SUFFICES ASSUME NEW s \in Requests, active'[s] > 0
                   PROVE  /\ active'[s] = 1 /\ phase'[s] \in Work /\ HasSlot(s)
                          /\ SlotKind(s) \in RenewedKinds /\ s \notin exposed' => Kept(s)'
      BY <1>4 DEF Running
    <3>2. s # r /\ active[s] > 0 /\ active'[s] = active[s]
      BY <3>1, <2>4
    <3>3. SlotKind(s) \in RenewedKinds /\ s \notin exposed' => Kept(s)'
      BY <3>2, <2>1, <2>2, <1>3, ReleaseKeeps DEF StreamInv, Running, Typed
    <3> QED BY <3>2, <3>3, <1>3 DEF StreamInv, Running
  <2> QED BY <2>5, <2>6, <2>7, <2>8, <2>9 DEF StreamInv
<1>9. CASE ~ HasSlot(r)
  <2>1. zset' = zset /\ ticket' = ticket /\ active' = active /\ due' = due /\ exposed' = exposed
    BY <1>1, <1>9 DEF Finish, NoStream, streams
  <2>2. KeysTyped' /\ CountersTyped' /\ \A k \in Kinds : Live(k)' = Live(k)
    BY <2>1, StreamsKept DEF StreamInv, streams
  <2>3. Typed' /\ Bounded'
    BY <1>7, <2>2, FewerSlots DEF StreamInv
  <2>4. active[r] = 0 /\ \A k \in Kinds : r \notin DOMAIN zset[k].members
    BY <1>9 DEF StreamInv, Running, Owned, HasSlot, Typed, StreamIds
  <2>5. Owned'
    BY <1>3, <1>4, <2>1, <2>4 DEF StreamInv, Owned
  <2>6. TicketsOut'
    BY <1>3, <1>5, <2>1 DEF StreamInv, TicketsOut
  <2>7. \A s \in Requests : Kept(s) => Kept(s)'
    BY <1>4, <2>1 DEF Kept
  <2>8. Running'
    BY <1>3, <1>4, <2>1, <2>4, <2>7 DEF StreamInv, Running
  <2> QED BY <2>3, <2>5, <2>6, <2>8 DEF StreamInv
<1> QED BY <1>8, <1>9

\* A request that is in neither Work nor at its ticket streams nothing
LEMMA NotAtWork ==
    ASSUME StreamInv, NEW r \in Requests, phase[r] \notin Work
    PROVE  active[r] = 0
BY DEF StreamInv, Running, Typed, StreamIds

LEMMA NotBegun ==
    ASSUME StreamInv, NEW r \in Requests, phase[r] \in {"idle", "wait"}
    PROVE  /\ active[r] = 0 /\ ~ (ticket[r] >= 0)
           /\ \A k \in Kinds : r \notin DOMAIN zset[k].members
<1>1. phase[r] \notin Work
  BY DEF Work
<1> QED BY <1>1, NotAtWork DEF StreamInv, Owned, TicketsOut

LEMMA RequestSlot ==
    ASSUME NEW r \in Requests
    PROVE  /\ r \in StreamIds
           /\ op[r].kind \in {"download", "archive", "upload"} => SlotKind(r) = op[r].kind
           /\ op[r].kind = "copy" => SlotKind(r) = "mutation"
           /\ op[r].kind = "batch-copy" => SlotKind(r) = "batch-mutation"
BY AbandonedAssumption DEF SlotKind, StreamIds

\* Slots and counters stay, and request r, which has no slot, ends or begins to wait
LEMMA QuietSlots ==
    ASSUME StreamInv, NEW r \in Requests, phase[r] \in {"idle", "wait"}, UNCHANGED streams, Typed',
           \A s \in Requests \ {r} :
               op'[s] = op[s] /\ phase'[s] = phase[s] /\ answer'[s] = answer[s]
    PROVE  StreamInv'
<1>1. zset' = zset /\ ticket' = ticket /\ active' = active /\ due' = due /\ exposed' = exposed
  BY DEF streams
<1>2. active[r] = 0 /\ ~ (ticket[r] >= 0) /\ \A k \in Kinds : r \notin DOMAIN zset[k].members
  BY NotBegun
<1>3. \A s \in Requests \ {r} : SlotKind(s)' = SlotKind(s) /\ HasSlot(s)' = HasSlot(s)
  BY SlotKindKept
<1>4. Bounded'
  BY StreamsKept, FewerSlots DEF StreamInv
<1>5. Owned'
  BY <1>1, <1>2, <1>3 DEF StreamInv, Owned
<1>6. TicketsOut'
  BY <1>1, <1>2 DEF StreamInv, TicketsOut
<1>7. \A s \in Requests \ {r} : Kept(s) => Kept(s)'
  BY <1>1, <1>3 DEF Kept
<1>8. Running'
  BY <1>1, <1>2, <1>3, <1>7 DEF StreamInv, Running
<1> QED BY <1>4, <1>5, <1>6, <1>8 DEF StreamInv

LEMMA StartKind ==
    ASSUME NEW k \in OpKinds
    PROVE  Start(k) \in Phases \ {"idle"} /\ k \in KindsIn(Start(k))
BY KindTable DEF Start, OpKinds, Mutations, Phases

LEMMA ArriveFacts ==
    ASSUME Typed, NEW r \in Requests, Arrive(r)
    PROVE  /\ phase[r] = "idle" /\ phase'[r] \in Phases \ {"idle"}
           /\ phase'[r] \in {"done", "wait", "inspect", "delete", "look", "page"}
           /\ IsOp(op'[r]) /\ op'[r].kind \in KindsIn(phase'[r])
           /\ answer'[r] \in {answer[r], "refused"}
           /\ DOMAIN op' = Requests
           /\ \A s \in Requests \ {r} :
                op'[s] = op[s] /\ phase'[s] = phase[s] /\ answer'[s] = answer[s]
           /\ phase' \in [Requests -> Phases] /\ answer' \in [Requests -> Answers]
           /\ op' = [s \in Requests |-> op'[s]]
           /\ UNCHANGED <<streams, tree, mem, faults>>
<1>1. phase[r] = "idle" /\ UNCHANGED <<streams, tree, mem, faults>>
  BY DEF Arrive, NoStream
<1>2. PICK o \in Operations(r) :
        /\ op' = [op EXCEPT ![r] = [o EXCEPT !.items = Normalized(@, o.dirs)]]
        /\ \/ Goto(r, "done") /\ Reply(r, "refused")
           \/ Goto(r, Start(o.kind)) /\ UNCHANGED answer
  BY Zenon DEF Arrive
<1> DEFINE n == [o EXCEPT !.items = Normalized(@, o.dirs)]
<1>3. IsOp(o)
  BY OperationsAssumption DEF IsOp
<1>4. IsOp(n) /\ n.kind = o.kind
  <2>1. DOMAIN n = DOMAIN o /\ n.kind = o.kind /\ n.dest = o.dest /\ n.size = o.size /\ n.body = o.body
    BY <1>3 DEF IsOp
  <2> HIDE DEF n
  <2> QED BY <1>3, <2>1 DEF IsOp
<1> HIDE DEF n
<1>5. op' = [op EXCEPT ![r] = n]
  BY <1>2 DEF n
<1>6. /\ op'[r] = n /\ DOMAIN op' = Requests /\ op' = [s \in Requests |-> op'[s]]
      /\ \A s \in Requests \ {r} : op'[s] = op[s]
  BY <1>5 DEF Typed
<1>7. PICK p \in {"done", Start(o.kind)} :
        Goto(r, p) /\ (Reply(r, "refused") \/ UNCHANGED answer)
  BY <1>2
<1>8. p \in Phases \ {"idle"} /\ o.kind \in KindsIn(p)
  BY <1>3, <1>7, StartKind, KindTable DEF IsOp, Phases
<1>a. p \in {"done", "wait", "inspect", "delete", "look", "page"}
  BY <1>3, <1>7 DEF IsOp, OpKinds, Mutations, Start
<1>9. /\ phase' \in [Requests -> Phases] /\ phase'[r] = p
      /\ \A s \in Requests \ {r} : phase'[s] = phase[s]
  BY <1>7, <1>8 DEF Goto, Typed
<1>10. /\ answer' \in [Requests -> Answers] /\ answer'[r] \in {answer[r], "refused"}
       /\ \A s \in Requests \ {r} : answer'[s] = answer[s]
  BY <1>7 DEF Reply, Typed, Answers
<1> QED BY <1>1, <1>4, <1>6, <1>8, <1>a, <1>9, <1>10

LEMMA ArriveTyped ==
    ASSUME Typed, NEW r \in Requests, Arrive(r)
    PROVE  Typed'
<1>1. KeysTyped' /\ CountersTyped'
  BY ArriveFacts, StreamsKept
<1>2. mem' = mem
  BY ArriveFacts
<1>3. \A s \in Requests : phase'[s] = "idle" => op'[s] = NoOp
  BY ArriveFacts DEF Typed
<1>4. \A s \in Requests : phase'[s] # "idle" => IsOp(op'[s]) /\ op'[s].kind \in KindsIn(phase'[s])
  BY ArriveFacts DEF Typed
<1> QED BY <1>1, <1>2, <1>3, <1>4, ArriveFacts DEF Typed, CountersTyped

LEMMA ArriveSlots ==
    ASSUME StreamInv, NEW r \in Requests, Arrive(r)
    PROVE  StreamInv'
<1>1. Typed' /\ UNCHANGED streams /\ phase[r] = "idle"
      /\ \A s \in Requests \ {r} : op'[s] = op[s] /\ phase'[s] = phase[s] /\ answer'[s] = answer[s]
  BY ArriveTyped, ArriveFacts DEF StreamInv
<1> QED BY <1>1, QuietSlots

\* Acquiring or renewing a slot leaves the claims of the others alone
LEMMA AddKeeps ==
    ASSUME KeysTyped, NEW r \in StreamIds, NEW s \in Requests \ {r}, NEW k \in Kinds,
           zset' = Added(k, r, Lease),
           op'[s] = op[s], due'[s] = due[s], Kept(s), HasSlot(s)
    PROVE  Kept(s)'
<1>1. /\ \A j \in Kinds \ {k} : zset'[j] = zset[j]
      /\ zset'[k].ttl = Lease /\ DOMAIN zset'[k].members = Live(k) \cup {r}
      /\ \A y \in Live(k) \ {r} : zset'[k].members[y] = zset[k].members[y]
  BY AddedFacts
<1>2. SlotKind(s) \in Kinds /\ s \in DOMAIN zset[SlotKind(s)].members /\ SlotKind(s)' = SlotKind(s)
  BY SlotKindKept DEF HasSlot, Kept
<1>3. CASE SlotKind(s) = k
  <2>1. zset[k].members[s] \in Int /\ zset[k].members[s] >= 1
    BY <1>2, <1>3 DEF Kept, KeysTyped, Lease
  <2>2. s \in Live(k)
    BY <1>2, <1>3, <2>1, LiveIs
  <2>3. s \in DOMAIN zset'[k].members /\ zset'[k].members[s] = zset[k].members[s]
    BY <1>1, <2>2
  <2>4. zset'[k].ttl >= 1 /\ zset'[k].ttl = Lease
    BY <1>1 DEF Lease
  <2> QED BY <1>2, <1>3, <2>3, <2>4 DEF Kept
<1>4. CASE SlotKind(s) # k
  <2>1. zset'[SlotKind(s)] = zset[SlotKind(s)]
    BY <1>1, <1>2, <1>4
  <2> QED BY <1>2, <2>1 DEF Kept
<1> QED BY <1>3, <1>4

\* A ticket leaves the claims of those alone whose key it does not shorten
LEMMA TicketKeeps ==
    ASSUME KeysTyped, NEW s \in Requests, NEW k \in Kinds, Shortens(k),
           \A j \in Kinds \ {k} : zset'[j] = zset[j],
           op'[s] = op[s], due'[s] = due[s], active[s] > 0, s \notin exposed', Kept(s), HasSlot(s)
    PROVE  Kept(s)'
<1>1. SlotKind(s) \in Kinds /\ s \in DOMAIN zset[SlotKind(s)].members /\ SlotKind(s)' = SlotKind(s)
  BY SlotKindKept DEF HasSlot, Kept
<1>2. s \notin DOMAIN zset[k].members
  BY DEF Shortens
<1>3. zset'[SlotKind(s)] = zset[SlotKind(s)]
  BY <1>1, <1>2
<1> QED BY <1>1, <1>3 DEF Kept

\* A slot that was taken with a ticket's expiry and given back at once
LEMMA TakenBackFacts ==
    ASSUME KeysTyped, NEW k \in Kinds, NEW r \in StreamIds,
           zset' = [Added(k, r, TicketTTL) EXCEPT ![k] = Without(@, r)]
    PROVE  /\ KeysTyped' /\ \A j \in Kinds \ {k} : zset'[j] = zset[j]
           /\ DOMAIN zset'[k].members \subseteq DOMAIN zset[k].members
           /\ Live(k)' \subseteq Live(k)
<1> DEFINE m == Put(Purged(zset[k].members), r, TicketTTL)
           z == [members |-> m, ttl |-> TicketTTL]
           w == Without(z, r)
<1>1. Added(k, r, TicketTTL) = [zset EXCEPT ![k] = z]
  BY DEF Added
<1>2. DOMAIN m = Live(k) \cup {r} /\ \A y \in Live(k) \ {r} : m[y] = zset[k].members[y]
  <2> DEFINE f == Purged(zset[k].members)
  <2>1. DOMAIN f = Live(k) /\ \A y \in Live(k) : f[y] = zset[k].members[y]
    BY PurgedIs
  <2> HIDE DEF f
  <2>2. DOMAIN Put(f, r, TicketTTL) = DOMAIN f \cup {r}
        /\ \A y \in DOMAIN f \ {r} : Put(f, r, TicketTTL)[y] = f[y]
    BY DEF Put
  <2>3. m = Put(f, r, TicketTTL)
    BY DEF f
  <2> HIDE DEF m
  <2> QED BY <2>1, <2>2, <2>3
<1> HIDE DEF m
<1>3. z.members = m /\ z.ttl = TicketTTL
  OBVIOUS
<1> HIDE DEF z
<1>4. /\ DOMAIN w = {"members", "ttl"} /\ w.ttl \in -1 .. Lease
      /\ DOMAIN w.members = DOMAIN m \ {r} /\ \A y \in DOMAIN w.members : w.members[y] = m[y]
  <2>1. CASE DOMAIN m \ {r} = {}
    <3>1. w = [members |-> <<>>, ttl |-> -1]
      BY <1>3, <2>1, Zenon DEF Without, NoKey
    <3> QED BY <2>1, <3>1 DEF Lease
  <2>2. CASE DOMAIN m \ {r} # {}
    <3> DEFINE n == Restrict(m, DOMAIN m \ {r})
    <3>1. w = [members |-> n, ttl |-> TicketTTL]
      BY <1>3, <2>2, Zenon DEF Without
    <3>2. DOMAIN n = DOMAIN m \ {r} /\ \A y \in DOMAIN n : n[y] = m[y]
      BY DEF Restrict
    <3> HIDE DEF n, w
    <3> QED BY <3>1, <3>2 DEF Lease, TicketTTL
  <2> QED BY <2>1, <2>2
<1>5. zset' = [zset EXCEPT ![k] = w]
  <2>1. DOMAIN zset = Kinds
    BY DEF KeysTyped
  <2>2. zset' = [[zset EXCEPT ![k] = z] EXCEPT ![k] = Without(@, r)]
    BY <1>1
  <2>3. [zset EXCEPT ![k] = z][k] = z
    BY <2>1
  <2> HIDE DEF w
  <2>4. zset' = [[zset EXCEPT ![k] = z] EXCEPT ![k] = w]
    BY <2>2, <2>3, Zenon DEF w
  <2> QED BY <2>1, <2>4
<1> HIDE DEF w
<1>6. /\ DOMAIN zset' = Kinds /\ zset'[k] = w
      /\ \A j \in Kinds \ {k} : zset'[j] = zset[j]
  BY <1>5 DEF KeysTyped
<1>7. \A y \in DOMAIN w.members : y \in Live(k) /\ w.members[y] = zset[k].members[y]
  BY <1>2, <1>4
<1>8. \A y \in Live(k) : y \in DOMAIN zset[k].members /\ zset[k].members[y] \in -1 .. Lease
                         /\ y \in StreamIds
  BY LiveIs DEF KeysTyped
<1>9. ASSUME NEW j \in Kinds
      PROVE  /\ DOMAIN zset'[j] = {"members", "ttl"} /\ zset'[j].ttl \in -1 .. Lease
             /\ DOMAIN zset'[j].members \subseteq StreamIds
             /\ \A y \in DOMAIN zset'[j].members : zset'[j].members[y] \in -1 .. Lease
  <2>1. CASE j = k BY <2>1, <1>4, <1>6, <1>7, <1>8
  <2>2. CASE j # k BY <2>2, <1>6 DEF KeysTyped
  <2> QED BY <2>1, <2>2
<1>10. KeysTyped'
  BY <1>6, <1>9 DEF KeysTyped
<1>11. Live(k)' \subseteq Live(k)
  BY <1>6, <1>7, LiveIsNext
<1> QED BY <1>6, <1>7, <1>8, <1>10, <1>11

LEMMA RenewKeeps ==
    ASSUME KeysTyped, NEW r \in StreamIds, NEW s \in Requests \ {r}, NEW k \in Kinds,
           zset' = Renewed(k, r), op'[s] = op[s], due'[s] = due[s], Kept(s), HasSlot(s)
    PROVE  Kept(s)'
<1>1. CASE r \in Live(k)
  <2>1. zset' = Added(k, r, Lease)
    BY <1>1 DEF Renewed, Renewable, Live
  <2> QED BY <2>1, AddKeeps
<1>2. CASE r \notin Live(k)
  <2>1. /\ \A j \in Kinds \ {k} : zset'[j] = zset[j]
        /\ zset'[k].ttl = zset[k].ttl /\ DOMAIN zset'[k].members = Live(k)
        /\ \A y \in Live(k) \ {r} : zset'[k].members[y] = zset[k].members[y]
    BY <1>2, RenewedFacts
  <2>2. SlotKind(s) \in Kinds /\ s \in DOMAIN zset[SlotKind(s)].members /\ SlotKind(s)' = SlotKind(s)
    BY SlotKindKept DEF HasSlot, Kept
  <2>3. CASE SlotKind(s) = k
    <3>1. zset[k].members[s] \in Int /\ zset[k].members[s] >= 1
      BY <2>2, <2>3 DEF Kept, KeysTyped, Lease
    <3>2. s \in Live(k)
      BY <2>2, <2>3, <3>1, LiveIs
    <3>3. s \in DOMAIN zset'[k].members /\ zset'[k].members[s] = zset[k].members[s]
      BY <2>1, <3>2
    <3> QED BY <2>1, <2>2, <2>3, <3>3 DEF Kept
  <2>4. CASE SlotKind(s) # k
    <3>1. zset'[SlotKind(s)] = zset[SlotKind(s)]
      BY <2>1, <2>2, <2>4
    <3> QED BY <2>2, <3>1 DEF Kept
  <2> QED BY <2>3, <2>4
<1> QED BY <1>1, <1>2

\* What a step that moves request r only, with memory and operations as before, leaves typed
LEMMA MovesTyped ==
    ASSUME Typed, KeysTyped', CountersTyped', NEW r \in Requests, NEW p \in Phases \ {"idle"}, Goto(r, p),
           UNCHANGED <<op, mem>>, answer' \in [Requests -> Answers], phase[r] # "idle",
           \A s \in Requests \ {r} : answer'[s] = answer[s],
           op[r].kind \in KindsIn(p)
    PROVE  /\ Typed' /\ phase'[r] = p
           /\ \A s \in Requests \ {r} : op'[s] = op[s] /\ phase'[s] = phase[s] /\ answer'[s] = answer[s]
<1>1. /\ phase' \in [Requests -> Phases] /\ phase'[r] = p
      /\ \A s \in Requests \ {r} : phase'[s] = phase[s]
  BY DEF Goto, Typed
<1>2. Acts(r)
  BY <1>1, SameMem DEF Acts
<1> QED BY <1>1, <1>2, TypedByActs

LEMMA ReplyTyped ==
    ASSUME Typed, NEW r \in Requests, NEW a \in Answers, Reply(r, a) \/ (answer' = answer /\ a = answer[r])
    PROVE  /\ answer' \in [Requests -> Answers] /\ answer'[r] = a
           /\ \A s \in Requests \ {r} : answer'[s] = answer[s]
BY DEF Typed, Reply

\* A request that waits ends without a slot
LEMMA WaitEnds ==
    ASSUME StreamInv, NEW r \in Requests, phase[r] = "wait", Goto(r, "done"), NEW a \in Answers, Reply(r, a),
           UNCHANGED <<streams, op, mem>>
    PROVE  StreamInv'
<1>1. op[r].kind \in KindsIn("done")
  BY KindTable DEF StreamInv, Typed, IsOp
<1>2. KeysTyped' /\ CountersTyped'
  BY StreamsKept DEF StreamInv
<1>3. "done" \in Phases \ {"idle"}
  BY DEF Phases
<1>4. /\ answer' \in [Requests -> Answers] /\ \A s \in Requests \ {r} : answer'[s] = answer[s]
  BY ReplyTyped DEF StreamInv
<1>5. Typed' /\ \A s \in Requests \ {r} : op'[s] = op[s] /\ phase'[s] = phase[s] /\ answer'[s] = answer[s]
  BY <1>1, <1>2, <1>3, <1>4, MovesTyped DEF StreamInv
<1> QED BY <1>5, QuietSlots

\* A request that waited takes a slot: with its ticket, or to stream at once
LEMMA TakesSlot ==
    ASSUME StreamInv, NEW r \in Requests, phase[r] = "wait", NEW k \in Kinds, k = SlotKind(r),
           NEW t \in {TicketTTL, Lease}, HasRoom(k), zset' = Added(k, r, t),
           NEW p \in Phases \ {"idle", "wait", "done"}, Goto(r, p), op[r].kind \in KindsIn(p),
           UNCHANGED <<op, mem, answer, due>>,
           \/ /\ p = "ticket" /\ active' = active /\ ticket' = [ticket EXCEPT ![r] = TicketTTL]
              /\ Shortens(k)
           \/ /\ p \in Work /\ t = Lease /\ active' = [active EXCEPT ![r] = 1] /\ ticket' = ticket
              /\ exposed' = exposed \ {r}
    PROVE  StreamInv'
<1>1. r \in StreamIds /\ active[r] = 0 /\ ~ (ticket[r] >= 0)
  BY NotBegun DEF StreamIds
<1>2. /\ KeysTyped' /\ \A j \in Kinds \ {k} : zset'[j] = zset[j]
      /\ zset'[k].ttl = t /\ zset'[k].members[r] = t
      /\ DOMAIN zset'[k].members = Live(k) \cup {r} /\ Live(k)' = Live(k) \cup {r}
  BY <1>1, AddedFacts DEF StreamInv, Typed
<1>a. exposed' \subseteq StreamIds
  BY DEF StreamInv, Typed, KeysTyped, Shortens
<1>3. CountersTyped' /\ \A s \in Requests \ {r} : active'[s] = active[s] /\ ticket'[s] = ticket[s]
  BY <1>1, <1>a DEF StreamInv, Typed, CountersTyped, TicketTTL, StreamIds
<1>4. Typed' /\ phase'[r] = p
      /\ \A s \in Requests \ {r} : op'[s] = op[s] /\ phase'[s] = phase[s] /\ answer'[s] = answer[s]
  BY <1>2, <1>3, MovesTyped DEF StreamInv, Typed
<1>5. Bounded'
  BY <1>2, OneMoreSlot DEF StreamInv
<1>6. \A s \in Requests : SlotKind(s)' = SlotKind(s) /\ HasSlot(s)' = HasSlot(s)
  BY SlotKindKept
<1>7. Owned'
  <2>1. SUFFICES ASSUME NEW j \in Kinds, NEW s \in Requests, s \in DOMAIN zset'[j].members
                 PROVE  /\ j = SlotKind(s) /\ phase'[s] \notin {"idle", "wait"}
                        /\ phase'[s] = "done" => answer'[s] \in {"gone", "expired", "unavailable"}
    BY <1>6 DEF Owned
  <2>2. CASE s = r
    <3>1. j = k
      BY <2>1, <2>2, <1>2, NotBegun
    <3> QED BY <2>2, <3>1, <1>4
  <2>3. CASE s # r
    <3>1. s \in DOMAIN zset[j].members
      BY <2>1, <2>3, <1>2, LiveIs
    <3> QED BY <2>3, <3>1, <1>4 DEF StreamInv, Owned
  <2> QED BY <2>2, <2>3
<1>8. TicketsOut'
  BY <1>1, <1>3, <1>4 DEF StreamInv, TicketsOut
<1>9. Running'
  <2>1. SUFFICES ASSUME NEW s \in Requests, active'[s] > 0
                 PROVE  /\ active'[s] = 1 /\ phase'[s] \in Work /\ HasSlot(s)
                        /\ SlotKind(s) \in RenewedKinds /\ s \notin exposed' => Kept(s)'
    BY <1>6 DEF Running
  <2>2. CASE s = r
    <3>1. p \in Work /\ t = Lease /\ active' = [active EXCEPT ![r] = 1]
      BY <2>1, <2>2, <1>1
    <3>2. active'[r] = 1
      BY <1>1, <3>1 DEF StreamInv, Typed
    <3>3. Kept(r)'
      BY <1>2, <1>6, <3>1 DEF Kept, Lease
    <3> QED BY <2>2, <3>1, <3>2, <3>3, <1>4 DEF HasSlot
  <2>3. CASE s # r
    <3>1. active[s] > 0 /\ active'[s] = active[s]
      BY <2>1, <2>3, <1>3
    <3>2. SlotKind(s) \in RenewedKinds /\ s \notin exposed' => Kept(s)'
      <4>1. SUFFICES ASSUME SlotKind(s) \in RenewedKinds, s \notin exposed' PROVE Kept(s)'
        OBVIOUS
      <4>2. s \notin exposed
        BY <4>1, <2>3 DEF Shortens
      <4>3. Kept(s) /\ HasSlot(s) /\ KeysTyped
        BY <4>1, <4>2, <3>1 DEF StreamInv, Running, Typed
      <4>4. CASE Shortens(k)
        BY <4>1, <4>3, <4>4, <3>1, <1>2, TicketKeeps
      <4>5. CASE t = Lease
        BY <4>3, <4>5, <2>3, <1>1, AddKeeps
      <4> QED BY <4>4, <4>5
    <3> QED BY <2>3, <3>1, <3>2, <1>4 DEF StreamInv, Running
  <2> QED BY <2>2, <2>3
<1> QED BY <1>4, <1>5, <1>7, <1>8, <1>9 DEF StreamInv

LEMMA FileTicketSlots ==
    ASSUME StreamInv, NEW r \in Requests, NEW kind \in {"download", "archive"}, FileTicket(r, kind)
    PROVE  StreamInv'
<1>1. phase[r] = "wait" /\ op[r].kind = kind /\ UNCHANGED <<active, due, mem, op>>
  BY DEF FileTicket, Known
<1>2. CASE PlanFits(r)
  <2>1. /\ HasRoom(kind) /\ zset' = Added(kind, r, TicketTTL) /\ Shortens(kind)
        /\ ticket' = [ticket EXCEPT ![r] = TicketTTL] /\ Goto(r, "ticket") /\ UNCHANGED answer
    BY <1>2 DEF FileTicket, acquireFileStream
  <2>2. kind \in Kinds /\ kind = SlotKind(r) /\ "ticket" \in Phases \ {"idle", "wait", "done"}
        /\ op[r].kind \in KindsIn("ticket")
    BY <1>1, RequestSlot, KindTable DEF Kinds, Phases
  <2> QED BY <1>1, <2>1, <2>2, TakesSlot
<1>3. CASE ~ PlanFits(r)
  <2>1. Goto(r, "done") /\ Reply(r, "too large") /\ UNCHANGED <<zset, ticket, exposed>>
    BY <1>3 DEF FileTicket
  <2> QED BY <1>1, <2>1, WaitEnds DEF streams, Answers
<1> QED BY <1>2, <1>3

LEMMA TakeSlotSlots ==
    ASSUME StreamInv, NEW r \in Requests, NEW kind \in {"upload", "copy", "batch-copy"}, NEW next \in Work,
           kind \in KindsIn(next), TakeSlot(r, kind, next)
    PROVE  StreamInv'
<1>1. /\ phase[r] = "wait" /\ op[r].kind = kind /\ UNCHANGED <<due, mem, op, answer, ticket>>
      /\ Goto(r, next) /\ active' = [active EXCEPT ![r] = 1]
      /\ HasRoom(SlotKind(r)) /\ zset' = Added(SlotKind(r), r, Lease) /\ exposed' = exposed \ {r}
  BY DEF TakeSlot, Known, acquireFileStream
<1>2. PICK k \in Kinds : k = SlotKind(r)
  BY <1>1, RequestSlot DEF Kinds
<1>3. next \in Phases \ {"idle", "wait", "done"}
  BY DEF Work
<1> QED BY <1>1, <1>2, <1>3, TakesSlot

LEMMA TicketNotStoredSlots ==
    ASSUME StreamInv, NEW r \in Requests, TicketNotStored(r)
    PROVE  StreamInv'
<1>0. PICK k \in Kinds : k = op[r].kind
  BY DEF TicketNotStored, Kinds
<1>1. /\ phase[r] = "wait" /\ Goto(r, "done") /\ Reply(r, "unavailable")
      /\ UNCHANGED <<ticket, active, due, op, mem>> /\ Shortens(k)
      /\ k \in {"download", "archive"} /\ HasRoom(k)
      /\ \/ zset' = Added(k, r, TicketTTL)
         \/ zset' = [Added(k, r, TicketTTL) EXCEPT ![k] = Without(@, r)]
  BY <1>0, Zenon DEF TicketNotStored
<1>2. r \in StreamIds /\ active[r] = 0 /\ ~ (ticket[r] >= 0)
      /\ \A j \in Kinds : r \notin DOMAIN zset[j].members
  BY <1>1, NotBegun DEF StreamIds
<1>3. k \in Kinds /\ k = SlotKind(r) /\ KeysTyped
  BY <1>0, <1>1, RequestSlot DEF StreamInv, Typed
<1>4. /\ KeysTyped' /\ Bounded' /\ \A j \in Kinds \ {k} : zset'[j] = zset[j]
      /\ DOMAIN zset'[k].members \subseteq DOMAIN zset[k].members \cup {r}
  <2>1. CASE zset' = Added(k, r, TicketTTL)
    <3>1. /\ KeysTyped' /\ \A j \in Kinds \ {k} : zset'[j] = zset[j]
          /\ DOMAIN zset'[k].members = Live(k) \cup {r} /\ Live(k)' = Live(k) \cup {r}
      BY <1>2, <1>3, <2>1, AddedFacts
    <3>2. Bounded'
      BY <1>1, <1>3, <3>1, OneMoreSlot DEF StreamInv
    <3> QED BY <1>3, <3>1, <3>2, LiveIs
  <2>2. CASE zset' = [Added(k, r, TicketTTL) EXCEPT ![k] = Without(@, r)]
    <3>1. /\ KeysTyped' /\ \A j \in Kinds \ {k} : zset'[j] = zset[j]
          /\ DOMAIN zset'[k].members \subseteq DOMAIN zset[k].members /\ Live(k)' \subseteq Live(k)
      BY <1>2, <1>3, <2>2, TakenBackFacts
    <3>2. Bounded'
      BY <1>3, <3>1, FewerSlots, FewerLive DEF StreamInv
    <3> QED BY <3>1, <3>2
  <2> QED BY <1>1, <2>1, <2>2
<1>5. exposed' \subseteq StreamIds /\ exposed \subseteq exposed'
  BY <1>1, <1>3 DEF StreamInv, Typed, KeysTyped, Shortens
<1>6. CountersTyped'
  BY <1>1, <1>5 DEF StreamInv, Typed, CountersTyped
<1>7. op[r].kind \in KindsIn("done") /\ "done" \in Phases \ {"idle"} /\ phase[r] # "idle"
  BY <1>1, KindTable DEF StreamInv, Typed, IsOp, Phases
<1>8. /\ answer' \in [Requests -> Answers] /\ answer'[r] = "unavailable"
      /\ \A s \in Requests \ {r} : answer'[s] = answer[s]
  BY <1>1, ReplyTyped DEF StreamInv, Answers
<1>9. Typed' /\ phase'[r] = "done"
      /\ \A s \in Requests \ {r} : op'[s] = op[s] /\ phase'[s] = phase[s] /\ answer'[s] = answer[s]
  BY <1>1, <1>4, <1>6, <1>7, <1>8, MovesTyped DEF StreamInv
<1>10. \A s \in Requests : SlotKind(s)' = SlotKind(s) /\ HasSlot(s)' = HasSlot(s)
  BY <1>1, SlotKindKept
<1>11. Owned'
  <2>1. SUFFICES ASSUME NEW j \in Kinds, NEW s \in Requests, s \in DOMAIN zset'[j].members
                 PROVE  /\ j = SlotKind(s) /\ phase'[s] \notin {"idle", "wait"}
                        /\ phase'[s] = "done" => answer'[s] \in {"gone", "expired", "unavailable"}
    BY <1>10 DEF Owned
  <2>2. CASE s = r
    <3>1. j = k
      BY <2>1, <2>2, <1>2, <1>4
    <3> QED BY <2>2, <3>1, <1>3, <1>8, <1>9
  <2>3. CASE s # r
    <3>1. s \in DOMAIN zset[j].members
      BY <2>1, <2>3, <1>4
    <3> QED BY <2>3, <3>1, <1>9 DEF StreamInv, Owned
  <2> QED BY <2>2, <2>3
<1>12. TicketsOut'
  BY <1>1, <1>2, <1>9 DEF StreamInv, TicketsOut
<1>13. Running'
  <2>1. SUFFICES ASSUME NEW s \in Requests, active'[s] > 0
                 PROVE  /\ active'[s] = 1 /\ phase'[s] \in Work /\ HasSlot(s)
                        /\ SlotKind(s) \in RenewedKinds /\ s \notin exposed' => Kept(s)'
    BY <1>10 DEF Running
  <2>2. s # r /\ active[s] > 0 /\ active'[s] = active[s]
    BY <2>1, <1>1, <1>2
  <2>3. ASSUME SlotKind(s) \in RenewedKinds, s \notin exposed' PROVE Kept(s)'
    <3>1. Kept(s) /\ HasSlot(s)
      BY <2>2, <2>3, <1>5 DEF StreamInv, Running
    <3>2. op'[s] = op[s] /\ due'[s] = due[s]
      BY <1>1
    <3> QED BY <2>2, <2>3, <3>1, <3>2, <1>1, <1>3, <1>4, TicketKeeps
  <2> QED BY <2>2, <2>3, <1>9 DEF StreamInv, Running
<1> QED BY <1>4, <1>9, <1>11, <1>12, <1>13 DEF StreamInv

\* A request that has a slot, or had one, ends without giving it back
LEMMA LeavesSlots ==
    ASSUME StreamInv, NEW r \in Requests, phase[r] \in Work \cup {"ticket"}, Goto(r, "done"),
           NEW a \in {"gone", "expired"}, Reply(r, a), UNCHANGED <<op, mem, zset, due, exposed>>,
           CountersTyped', active'[r] = 0, ~ (ticket'[r] >= 0),
           \A s \in Requests \ {r} : active'[s] = active[s] /\ ticket'[s] = ticket[s]
    PROVE  StreamInv'
<1>1. op[r].kind \in KindsIn("done") /\ "done" \in Phases \ {"idle"} /\ phase[r] # "idle"
  BY KindTable DEF StreamInv, Typed, IsOp, Work, Phases
<1>2. /\ answer' \in [Requests -> Answers] /\ answer'[r] = a
      /\ \A s \in Requests \ {r} : answer'[s] = answer[s]
  BY ReplyTyped DEF StreamInv, Answers
<1>3. KeysTyped' /\ \A k \in Kinds : Live(k)' = Live(k)
  BY DEF StreamInv, Typed, KeysTyped, Live
<1>4. Typed' /\ phase'[r] = "done"
      /\ \A s \in Requests \ {r} : op'[s] = op[s] /\ phase'[s] = phase[s] /\ answer'[s] = answer[s]
  BY <1>1, <1>2, <1>3, MovesTyped DEF StreamInv
<1>5. Bounded'
  BY <1>3, FewerSlots DEF StreamInv
<1>6. \A s \in Requests : SlotKind(s)' = SlotKind(s) /\ HasSlot(s)' = HasSlot(s)
  BY SlotKindKept
<1>7. Owned'
  BY <1>2, <1>4, <1>6 DEF StreamInv, Owned
<1>8. TicketsOut'
  BY <1>4 DEF StreamInv, TicketsOut
<1>9. \A s \in Requests : Kept(s) => Kept(s)'
  BY <1>6 DEF Kept
<1>10. Running'
  BY <1>4, <1>6, <1>9 DEF StreamInv, Running
<1> QED BY <1>4, <1>5, <1>7, <1>8, <1>10 DEF StreamInv

LEMMA DisconnectSlots ==
    ASSUME StreamInv, NEW r \in Requests, Disconnect(r)
    PROVE  StreamInv'
<1>1. /\ phase[r] \notin {"idle", "wait", "ticket", "done"} /\ Goto(r, "done") /\ Reply(r, "gone")
      /\ active' = [active EXCEPT ![r] = 0] /\ UNCHANGED <<zset, ticket, due, exposed, mem, op>>
  BY DEF Disconnect, Known
<1>2. phase[r] \in Work
  BY <1>1 DEF Work, StreamInv, Typed
<1>3. ~ (ticket[r] >= 0)
  BY <1>2 DEF StreamInv, TicketsOut, Work
<1>4. CountersTyped' /\ active'[r] = 0 /\ \A s \in Requests \ {r} : active'[s] = active[s]
  BY <1>1 DEF StreamInv, Typed, CountersTyped, StreamIds
<1> QED BY <1>1, <1>2, <1>3, <1>4, LeavesSlots

LEMMA TicketForgottenSlots ==
    ASSUME StreamInv, NEW r \in Requests, TicketForgotten(r)
    PROVE  StreamInv'
<1>1. /\ phase[r] = "ticket" /\ Goto(r, "done") /\ Reply(r, "expired")
      /\ ticket' = [ticket EXCEPT ![r] = -1] /\ UNCHANGED <<zset, active, due, exposed, mem, op>>
  BY DEF TicketForgotten, TicketExpires, Known
<1>2. active[r] = 0
  BY <1>1, NotAtWork DEF Work
<1>3. CountersTyped' /\ ~ (ticket'[r] >= 0) /\ \A s \in Requests \ {r} : ticket'[s] = ticket[s]
  BY <1>1 DEF StreamInv, Typed, CountersTyped, StreamIds, TicketTTL
<1> QED BY <1>1, <1>2, <1>3, LeavesSlots

\* The ticket is presented: its slot becomes that of the stream, or is given back
LEMMA UseTicketSlots ==
    ASSUME StreamInv, NEW r \in Requests, NEW kind \in {"download", "archive"}, UseTicket(r, kind)
    PROVE  StreamInv'
<1>1. /\ ticket[r] >= 0 /\ op[r].kind = kind /\ UNCHANGED <<due, mem, op>>
      /\ ticket' = [ticket EXCEPT ![r] = -1]
  BY DEF UseTicket, GetDelTicket, Known
<1>2. phase[r] = "ticket" /\ r \in StreamIds /\ phase[r] # "idle"
  BY <1>1 DEF StreamInv, TicketsOut, StreamIds
<1>3. active[r] = 0
  BY <1>2, NotAtWork DEF Work
<1>4. kind \in Kinds /\ kind = SlotKind(r)
  BY <1>1, RequestSlot DEF Kinds
<1>5. /\ ticket' \in [StreamIds -> -1 .. TicketTTL] /\ ~ (ticket'[r] >= 0)
      /\ \A s \in Requests \ {r} : ticket'[s] = ticket[s]
  BY <1>1, <1>2 DEF StreamInv, Typed, StreamIds, TicketTTL
<1>6. \A s \in Requests : SlotKind(s)' = SlotKind(s) /\ HasSlot(s)' = HasSlot(s)
  BY <1>1, SlotKindKept
<1>7. CASE Renewable(kind, r) /\ PlanFits(r)
  <2>1. /\ zset' = Renewed(kind, r) /\ active' = [active EXCEPT ![r] = @ + 1]
        /\ Goto(r, "stream") /\ UNCHANGED answer /\ exposed' = exposed \ {r}
    BY <1>7, Zenon DEF UseTicket
  <2>2. r \in Live(kind)
    BY <1>7 DEF Renewable, Live
  <2>3. /\ KeysTyped' /\ \A j \in Kinds \ {kind} : zset'[j] = zset[j]
        /\ DOMAIN zset'[kind].members = Live(kind) /\ Live(kind)' = Live(kind)
        /\ zset'[kind].ttl = Lease /\ zset'[kind].members[r] = Lease
    BY <1>2, <1>4, <2>1, <2>2, RenewedFacts DEF StreamInv, Typed
  <2>4. /\ active' \in [StreamIds -> 0 .. 2] /\ active'[r] = 1
        /\ \A s \in Requests \ {r} : active'[s] = active[s]
    BY <1>2, <1>3, <2>1 DEF StreamInv, Typed, StreamIds
  <2>5. CountersTyped'
    BY <1>1, <1>5, <2>1, <2>4 DEF StreamInv, Typed, CountersTyped
  <2>6. op[r].kind \in KindsIn("stream") /\ "stream" \in Phases \ {"idle"} /\ "stream" \in Work
    BY <1>1, KindTable DEF Phases, Work
  <2>7. Typed' /\ phase'[r] = "stream"
        /\ \A s \in Requests \ {r} : op'[s] = op[s] /\ phase'[s] = phase[s] /\ answer'[s] = answer[s]
    BY <1>1, <1>2, <2>1, <2>3, <2>5, <2>6, MovesTyped DEF StreamInv, Typed
  <2>8. Bounded'
    BY <1>4, <2>3, FewerSlots, FewerLive DEF StreamInv
  <2>9. Owned'
    <3>1. SUFFICES ASSUME NEW j \in Kinds, NEW s \in Requests, s \in DOMAIN zset'[j].members
                   PROVE  /\ j = SlotKind(s) /\ phase'[s] \notin {"idle", "wait"}
                          /\ phase'[s] = "done" => answer'[s] \in {"gone", "expired", "unavailable"}
      BY <1>6 DEF Owned
    <3>2. s \in DOMAIN zset[j].members
      BY <3>1, <1>4, <2>3, LiveIs
    <3> QED BY <3>2, <2>7 DEF StreamInv, Owned
  <2>10. TicketsOut'
    BY <1>5, <2>7 DEF StreamInv, TicketsOut
  <2>11. Running'
    <3>1. SUFFICES ASSUME NEW s \in Requests, active'[s] > 0
                   PROVE  /\ active'[s] = 1 /\ phase'[s] \in Work /\ HasSlot(s)
                          /\ SlotKind(s) \in RenewedKinds /\ s \notin exposed' => Kept(s)'
      BY <1>6 DEF Running
    <3>2. CASE s = r
      <4>1. Kept(r)'
        BY <1>4, <1>6, <2>2, <2>3 DEF Kept, Lease
      <4> QED BY <3>2, <4>1, <1>4, <2>4, <2>6, <2>7 DEF HasSlot
    <3>3. CASE s # r
      <4>1. active[s] > 0 /\ active'[s] = active[s]
        BY <3>1, <3>3, <2>4
      <4>2. SlotKind(s) \in RenewedKinds /\ s \notin exposed' => Kept(s)'
        BY <3>3, <4>1, <1>1, <1>2, <1>4, <2>1, RenewKeeps DEF StreamInv, Running, Typed
      <4> QED BY <3>3, <4>1, <4>2, <2>7 DEF StreamInv, Running
    <3> QED BY <3>2, <3>3
  <2> QED BY <2>7, <2>8, <2>9, <2>10, <2>11 DEF StreamInv
<1>8. CASE ~ (Renewable(kind, r) /\ PlanFits(r))
  <2>1. /\ zset' = Released(kind, r) /\ UNCHANGED <<active, exposed>>
        /\ Goto(r, "done") /\ Reply(r, "error")
    BY <1>8, Zenon DEF UseTicket
  <2>2. /\ KeysTyped' /\ \A j \in Kinds \ {kind} : zset'[j] = zset[j]
        /\ DOMAIN zset'[kind].members = DOMAIN zset[kind].members \ {r}
        /\ Live(kind)' \subseteq Live(kind)
    BY <1>2, <1>4, <2>1, ReleasedFacts DEF StreamInv, Typed
  <2>3. CountersTyped'
    BY <1>1, <1>5, <2>1 DEF StreamInv, Typed, CountersTyped
  <2>4. op[r].kind \in KindsIn("done") /\ "done" \in Phases \ {"idle"}
    BY <1>2, KindTable DEF Phases, StreamInv, Typed, IsOp
  <2>5. answer' \in [Requests -> Answers] /\ \A s \in Requests \ {r} : answer'[s] = answer[s]
    BY <2>1, ReplyTyped DEF StreamInv, Answers
  <2>6. Typed' /\ phase'[r] = "done"
        /\ \A s \in Requests \ {r} : op'[s] = op[s] /\ phase'[s] = phase[s] /\ answer'[s] = answer[s]
    BY <1>1, <1>2, <2>1, <2>2, <2>3, <2>4, <2>5, MovesTyped DEF StreamInv
  <2>7. Bounded'
    BY <1>4, <2>2, FewerSlots, FewerLive DEF StreamInv
  <2>8. Owned'
    <3>1. SUFFICES ASSUME NEW j \in Kinds, NEW s \in Requests, s \in DOMAIN zset'[j].members
                   PROVE  /\ j = SlotKind(s) /\ phase'[s] \notin {"idle", "wait"}
                          /\ phase'[s] = "done" => answer'[s] \in {"gone", "expired", "unavailable"}
      BY <1>6 DEF Owned
    <3>2. s \in DOMAIN zset[j].members
      BY <3>1, <2>2
    <3>3. s # r
      <4>1. s = r => j = kind
        BY <3>2, <1>4 DEF StreamInv, Owned
      <4> QED BY <4>1, <3>1, <2>2
    <3> QED BY <3>2, <3>3, <2>6 DEF StreamInv, Owned
  <2>9. TicketsOut'
    BY <1>5, <2>6 DEF StreamInv, TicketsOut
  <2>10. Running'
    <3>1. SUFFICES ASSUME NEW s \in Requests, active'[s] > 0
                   PROVE  /\ active'[s] = 1 /\ phase'[s] \in Work /\ HasSlot(s)
                          /\ SlotKind(s) \in RenewedKinds /\ s \notin exposed' => Kept(s)'
      BY <1>6 DEF Running
    <3>2. s # r /\ active[s] > 0 /\ active'[s] = active[s]
      BY <3>1, <2>1, <1>3
    <3>3. SlotKind(s) \in RenewedKinds /\ s \notin exposed' => Kept(s)'
      BY <3>2, <1>1, <1>4, <2>1, ReleaseKeeps DEF StreamInv, Running, Typed
    <3> QED BY <3>2, <3>3, <2>6 DEF StreamInv, Running
  <2> QED BY <2>6, <2>7, <2>8, <2>9, <2>10 DEF StreamInv
<1> QED BY <1>7, <1>8

\* Steps that leave the requests alone
LEMMA OutsideTyped ==
    ASSUME Typed, UNCHANGED <<tree, local>>, KeysTyped', CountersTyped'
    PROVE  /\ Typed' /\ op' = op /\ phase' = phase /\ answer' = answer /\ mem' = mem /\ tree' = tree
           /\ \A s \in StreamIds : SlotKind(s)' = SlotKind(s) /\ HasSlot(s)' = HasSlot(s)
<1>1. op' = op /\ phase' = phase /\ answer' = answer /\ mem' = mem /\ tree' = tree
  BY DEF local
<1>2. Typed'
  BY <1>1 DEF Typed, CountersTyped
<1>3. \A s \in StreamIds : SlotKind(s)' = SlotKind(s) /\ HasSlot(s)' = HasSlot(s)
  BY <1>1, SlotKindKept
<1> QED BY <1>1, <1>2, <1>3

\* No slot comes to be and every running stream keeps its own
LEMMA OutsideSlots ==
    ASSUME StreamInv, UNCHANGED <<tree, local>>, KeysTyped', CountersTyped',
           \A k \in Kinds : Live(k)' \subseteq Live(k),
           \A k \in Kinds : DOMAIN zset'[k].members \subseteq DOMAIN zset[k].members,
           \A s \in Requests : ticket'[s] >= 0 => ticket[s] >= 0,
           active' = active,
           \A s \in Requests : active[s] > 0 /\ SlotKind(s) \in RenewedKinds /\ s \notin exposed' => Kept(s)'
    PROVE  StreamInv'
<1>1. /\ Typed' /\ op' = op /\ phase' = phase /\ answer' = answer
      /\ \A s \in Requests : SlotKind(s)' = SlotKind(s) /\ HasSlot(s)' = HasSlot(s)
  BY OutsideTyped DEF StreamInv, StreamIds
<1>2. Bounded'
  BY FewerSlots DEF StreamInv
<1>3. Owned'
  BY <1>1 DEF StreamInv, Owned
<1>4. TicketsOut'
  BY <1>1 DEF StreamInv, TicketsOut
<1>5. Running'
  BY <1>1 DEF StreamInv, Running
<1> QED BY <1>1, <1>2, <1>3, <1>4, <1>5 DEF StreamInv

LEMMA RenewLeaseSlots ==
    ASSUME StreamInv, NEW r \in StreamIds, RenewLease(r)
    PROVE  StreamInv'
<1>1. /\ HasSlot(r) /\ due[r] /\ due' = [due EXCEPT ![r] = FALSE]
      /\ zset' = Renewed(SlotKind(r), r) /\ UNCHANGED <<ticket, active>> /\ Outside
      /\ exposed' = IF Renewable(SlotKind(r), r) THEN exposed \ {r} ELSE exposed
  BY DEF RenewLease, RenewFileStreamLease
<1>2. PICK k \in Kinds : k = SlotKind(r)
  BY <1>1 DEF HasSlot
<1>3. /\ KeysTyped' /\ \A j \in Kinds \ {k} : zset'[j] = zset[j]
      /\ DOMAIN zset'[k].members = Live(k) /\ Live(k)' = Live(k)
      /\ r \in Live(k) => zset'[k].ttl = Lease /\ zset'[k].members[r] = Lease
  BY <1>1, <1>2, RenewedFacts DEF StreamInv, Typed
<1>4. CountersTyped' /\ \A s \in StreamIds \ {r} : due'[s] = due[s]
  BY <1>1 DEF StreamInv, Typed, CountersTyped
<1>5. \A j \in Kinds : Live(j)' \subseteq Live(j)
  BY <1>3, FewerLive
<1>6. \A j \in Kinds : DOMAIN zset'[j].members \subseteq DOMAIN zset[j].members
  BY <1>3, LiveIs
<1>7. ASSUME NEW s \in Requests, active[s] > 0, SlotKind(s) \in RenewedKinds, s \notin exposed'
      PROVE  Kept(s)'
  <2>1. HasSlot(s) /\ (s \notin exposed => Kept(s))
    BY <1>7 DEF StreamInv, Running
  <2>2. op' = op
    BY <1>1 DEF Outside, local
  <2>3. CASE s # r
    <3>1. s \notin exposed
      BY <2>3, <1>7, <1>1
    <3> QED BY <2>1, <2>2, <2>3, <3>1, <1>1, <1>2, <1>4, RenewKeeps DEF StreamInv, Typed, StreamIds
  <2>4. CASE s = r
    <3>1. r \in Live(k)
      <4>1. CASE Renewable(k, r) BY <4>1 DEF Renewable, Live
      <4>2. CASE ~ Renewable(k, r)
        <5>1. Kept(r)
          BY <4>2, <2>1, <2>4, <1>1, <1>2, <1>7
        <5>2. r \in DOMAIN zset[k].members /\ zset[k].members[r] \in Int /\ zset[k].members[r] >= 1
          BY <5>1, <1>2 DEF Kept, StreamInv, Typed, KeysTyped, Lease
        <5> QED BY <5>2, LiveIs
      <4> QED BY <4>1, <4>2
    <3>2. SlotKind(s)' = k /\ ~ due'[r]
      BY <2>2, <2>4, <1>1, <1>2, SlotKindKept DEF StreamInv, Typed
    <3> QED BY <1>3, <3>1, <3>2, <2>4 DEF Kept, Lease
  <2> QED BY <2>3, <2>4
<1> QED BY <1>1, <1>3, <1>4, <1>5, <1>6, <1>7, OutsideSlots DEF Outside

LEMMA StopRenewalSlots ==
    ASSUME StreamInv, NEW r \in StreamIds, StopRenewal(r)
    PROVE  StreamInv'
<1>1. /\ active[r] = 0 /\ due' = [due EXCEPT ![r] = FALSE]
      /\ UNCHANGED <<zset, ticket, active, exposed>> /\ Outside
  BY DEF StopRenewal, RenewalStops
<1>2. KeysTyped' /\ \A k \in Kinds : Live(k)' = Live(k)
  BY <1>1 DEF StreamInv, Typed, KeysTyped, Live
<1>3. CountersTyped' /\ \A s \in StreamIds \ {r} : due'[s] = due[s]
  BY <1>1 DEF StreamInv, Typed, CountersTyped
<1>4. ASSUME NEW s \in Requests, active[s] > 0, SlotKind(s) \in RenewedKinds, s \notin exposed'
      PROVE  Kept(s)'
  <2>1. Kept(s) /\ s # r /\ due'[s] = due[s]
    <3>1. s # r
      BY <1>4, <1>1
    <3>2. Kept(s)
      BY <1>1, <1>4 DEF StreamInv, Running
    <3> QED BY <3>1, <3>2, <1>3 DEF StreamIds
  <2>2. SlotKind(s)' = SlotKind(s)
    BY <1>1, SlotKindKept DEF Outside, local
  <2> QED BY <2>1, <2>2, <1>1 DEF Kept
<1> QED BY <1>1, <1>2, <1>3, <1>4, OutsideSlots DEF Outside

LEMMA LoseRenewalSlots ==
    ASSUME StreamInv, NEW r \in StreamIds, LoseRenewal(r)
    PROVE  StreamInv'
<1>1. /\ due' = [due EXCEPT ![r] = FALSE] /\ exposed' = exposed \cup {r}
      /\ UNCHANGED <<zset, ticket, active>> /\ UNCHANGED <<tree, local>>
  BY DEF LoseRenewal, RenewalFails
<1>2. KeysTyped' /\ \A k \in Kinds : Live(k)' = Live(k)
  BY <1>1 DEF StreamInv, Typed, KeysTyped, Live
<1>3. CountersTyped' /\ \A s \in StreamIds \ {r} : due'[s] = due[s]
  BY <1>1 DEF StreamInv, Typed, CountersTyped
<1>4. ASSUME NEW s \in Requests, active[s] > 0, SlotKind(s) \in RenewedKinds, s \notin exposed'
      PROVE  Kept(s)'
  <2>1. Kept(s)
    BY <1>1, <1>4 DEF StreamInv, Running
  <2>2. due'[s] = due[s]
    BY <1>1, <1>3, <1>4 DEF StreamIds
  <2>3. SlotKind(s)' = SlotKind(s)
    BY <1>1, SlotKindKept DEF local
  <2> QED BY <2>1, <2>2, <2>3, <1>1 DEF Kept
<1> QED BY <1>1, <1>2, <1>3, <1>4, OutsideSlots

LEMMA SlotExpiresSlots ==
    ASSUME StreamInv, NEW k \in Kinds, SlotExpires(k)
    PROVE  StreamInv'
<1>1. Outside /\ UNCHANGED <<ticket, active, due, exposed>>
  BY DEF SlotExpires, KeyExpires, ScoreExpires
<1>2. CountersTyped'
  BY <1>1 DEF StreamInv, Typed, CountersTyped
<1>3. \A s \in Requests : SlotKind(s)' = SlotKind(s)
  BY <1>1, SlotKindKept DEF Outside, local
<1>4. \A s \in Requests : active[s] > 0 /\ SlotKind(s) \in RenewedKinds /\ s \notin exposed'
          => Kept(s) /\ SlotKind(s) \in Kinds
  BY <1>1 DEF StreamInv, Running, HasSlot
<1>5. CASE KeyExpires(k)
  <2>1. zset[k].ttl = 0 /\ zset' = [zset EXCEPT ![k] = NoKey]
    BY <1>5 DEF KeyExpires
  <2>2. /\ DOMAIN zset' = Kinds /\ zset'[k] = [members |-> <<>>, ttl |-> -1]
        /\ \A j \in Kinds \ {k} : zset'[j] = zset[j]
    BY <2>1 DEF StreamInv, Typed, KeysTyped, NoKey
  <2>3. DOMAIN zset'[k].members = {} /\ zset'[k].ttl = -1 /\ DOMAIN zset'[k] = {"members", "ttl"}
    BY <2>2
  <2>4. KeysTyped'
    <3>1. ASSUME NEW j \in Kinds
          PROVE  /\ DOMAIN zset'[j] = {"members", "ttl"} /\ zset'[j].ttl \in -1 .. Lease
                 /\ DOMAIN zset'[j].members \subseteq StreamIds
                 /\ \A y \in DOMAIN zset'[j].members : zset'[j].members[y] \in -1 .. Lease
      <4>1. CASE j = k BY <4>1, <2>3 DEF Lease
      <4>2. CASE j # k BY <4>2, <2>2 DEF StreamInv, Typed, KeysTyped
      <4> QED BY <4>1, <4>2
    <3> QED BY <2>2, <3>1 DEF KeysTyped
  <2>5. Live(k)' \subseteq Live(k)
    BY <2>3, LiveIsNext
  <2>6. \A j \in Kinds : Live(j)' \subseteq Live(j)
    BY <2>2, <2>5, FewerLive
  <2>7. ASSUME NEW s \in Requests, active[s] > 0, SlotKind(s) \in RenewedKinds, s \notin exposed'
        PROVE  Kept(s)'
    <3>1. SlotKind(s) # k
      <4>1. SUFFICES ASSUME SlotKind(s) = k PROVE FALSE
        OBVIOUS
      <4> QED BY <4>1, <2>1, <2>7, <1>4 DEF Kept, Lease
    <3> QED BY <3>1, <2>2, <2>7, <1>1, <1>3, <1>4 DEF Kept
  <2>8. \A j \in Kinds : DOMAIN zset'[j].members \subseteq DOMAIN zset[j].members
    BY <2>2, <2>3
  <2> QED BY <1>1, <1>2, <2>4, <2>6, <2>7, <2>8, OutsideSlots DEF Outside
<1>6. CASE \E s \in StreamIds : ScoreExpires(k, s)
  <2>1. PICK x \in StreamIds : /\ x \in DOMAIN zset[k].members /\ zset[k].members[x] = 0
                               /\ zset' = [zset EXCEPT ![k].members[x] = -1]
    BY <1>6 DEF ScoreExpires
  <2>2. /\ DOMAIN zset' = Kinds /\ DOMAIN zset'[k] = {"members", "ttl"} /\ zset'[k].ttl = zset[k].ttl
        /\ zset'[k].members = [zset[k].members EXCEPT ![x] = -1]
        /\ \A j \in Kinds \ {k} : zset'[j] = zset[j]
    BY <2>1 DEF StreamInv, Typed, KeysTyped
  <2>3. /\ DOMAIN zset'[k].members = DOMAIN zset[k].members /\ zset'[k].members[x] = -1
        /\ \A y \in DOMAIN zset[k].members \ {x} : zset'[k].members[y] = zset[k].members[y]
    BY <2>1, <2>2
  <2>4. KeysTyped'
    <3>1. ASSUME NEW j \in Kinds
          PROVE  /\ DOMAIN zset'[j] = {"members", "ttl"} /\ zset'[j].ttl \in -1 .. Lease
                 /\ DOMAIN zset'[j].members \subseteq StreamIds
                 /\ \A y \in DOMAIN zset'[j].members : zset'[j].members[y] \in -1 .. Lease
      <4>1. CASE j = k BY <4>1, <2>2, <2>3 DEF StreamInv, Typed, KeysTyped, Lease
      <4>2. CASE j # k BY <4>2, <2>2 DEF StreamInv, Typed, KeysTyped
      <4> QED BY <4>1, <4>2
    <3> QED BY <2>2, <3>1 DEF KeysTyped
  <2>5. Live(k)' \subseteq Live(k)
    BY <2>3, LiveIs, LiveIsNext
  <2>6. \A j \in Kinds : Live(j)' \subseteq Live(j)
    BY <2>2, <2>5, FewerLive
  <2>7. ASSUME NEW s \in Requests, active[s] > 0, SlotKind(s) \in RenewedKinds, s \notin exposed'
        PROVE  Kept(s)'
    <3>1. Kept(s)
      BY <2>7, <1>4
    <3>2. CASE SlotKind(s) = k
      <4>1. s \in DOMAIN zset[k].members /\ s # x
        BY <3>1, <3>2, <2>1 DEF Kept, Lease
      <4> QED BY <3>1, <3>2, <4>1, <2>2, <2>3, <1>1, <1>3 DEF Kept
    <3>3. CASE SlotKind(s) # k
      BY <3>1, <3>3, <2>2, <2>7, <1>1, <1>3, <1>4 DEF Kept
    <3> QED BY <3>2, <3>3
  <2>8. \A j \in Kinds : DOMAIN zset'[j].members \subseteq DOMAIN zset[j].members
    BY <2>2, <2>3
  <2> QED BY <1>1, <1>2, <2>4, <2>6, <2>7, <2>8, OutsideSlots DEF Outside
<1> QED BY <1>5, <1>6 DEF SlotExpires

\* One period: what expires in it and what is renewed in it
LEMMA PeriodPassesSlots ==
    ASSUME StreamInv, PeriodPasses
    PROVE  StreamInv'
<1> DEFINE renewing == {r \in StreamIds : Renewing(r) /\ SlotKind(r) \in RenewedKinds}
<1>1. /\ \A s \in StreamIds : ~ due[s]
      /\ zset' = [k \in Kinds |-> Aged(zset[k])]
      /\ ticket' = [s \in StreamIds |-> Older(ticket[s])]
      /\ due' = [s \in StreamIds |-> s \in renewing]
      /\ UNCHANGED <<active, exposed>> /\ Outside
  BY DEF PeriodPasses, Tick
<1>2. \A n \in -1 .. Lease : Older(n) \in -1 .. Lease /\ Older(n) =< n
                             /\ (Older(n) >= 0 => n >= 0) /\ (n = Lease => Older(n) = 1)
  BY DEF Older, Lease
<1>3. ASSUME NEW k \in Kinds
      PROVE  /\ DOMAIN zset'[k] = {"members", "ttl"} /\ zset'[k].ttl \in -1 .. Lease
             /\ DOMAIN zset'[k].members \subseteq DOMAIN zset[k].members
             /\ \A s \in DOMAIN zset'[k].members : zset'[k].members[s] = Older(zset[k].members[s])
             /\ zset[k].ttl >= 1 => /\ DOMAIN zset'[k].members = DOMAIN zset[k].members
                                    /\ zset'[k].ttl = zset[k].ttl - 1
  <2>1. zset'[k] = Aged(zset[k]) /\ zset[k].ttl \in -1 .. Lease
    BY <1>1 DEF StreamInv, Typed, KeysTyped
  <2>2. CASE zset[k].ttl =< 0
    <3>1. zset'[k] = [members |-> <<>>, ttl |-> -1]
      BY <2>1, <2>2 DEF Aged, NoKey
    <3>2. DOMAIN zset'[k].members = {} /\ zset'[k].ttl = -1 /\ DOMAIN zset'[k] = {"members", "ttl"}
      BY <3>1
    <3> QED BY <2>1, <2>2, <3>2 DEF Lease
  <2>3. CASE ~ (zset[k].ttl =< 0)
    <3>1. zset'[k] = [members |-> [s \in DOMAIN zset[k].members |-> Older(zset[k].members[s])],
                      ttl |-> zset[k].ttl - 1]
      BY <2>1, <2>3 DEF Aged
    <3>2. /\ zset'[k].members = [s \in DOMAIN zset[k].members |-> Older(zset[k].members[s])]
          /\ zset'[k].ttl = zset[k].ttl - 1 /\ DOMAIN zset'[k] = {"members", "ttl"}
      BY <3>1
    <3> QED BY <2>1, <2>3, <3>2 DEF Lease
  <2> QED BY <2>2, <2>3
<1>4. KeysTyped'
  BY <1>1, <1>2, <1>3 DEF StreamInv, Typed, KeysTyped
<1>5. CountersTyped'
  <2>1. due' \in [StreamIds -> BOOLEAN]
    BY <1>1
  <2>2. ticket' \in [StreamIds -> -1 .. TicketTTL]
    BY <1>1 DEF StreamInv, Typed, Older, TicketTTL
  <2> QED BY <1>1, <2>1, <2>2 DEF StreamInv, Typed, CountersTyped
<1>6. ASSUME NEW k \in Kinds PROVE Live(k)' \subseteq Live(k)
  <2>1. \A s \in DOMAIN zset[k].members : zset[k].members[s] \in -1 .. Lease
    BY DEF StreamInv, Typed, KeysTyped
  <2> QED BY <1>2, <1>3, <2>1, LiveIs, LiveIsNext
<1>7. ASSUME NEW s \in Requests, ticket'[s] >= 0 PROVE ticket[s] >= 0
  BY <1>1, <1>7 DEF StreamInv, Typed, StreamIds, Older, TicketTTL
<1>8. ASSUME NEW s \in Requests, active[s] > 0, SlotKind(s) \in RenewedKinds, s \notin exposed'
      PROVE  Kept(s)'
  <2>1. PICK k \in Kinds : k = SlotKind(s)
    BY <1>8 DEF StreamInv, Running, HasSlot
  <2>2. s \in DOMAIN zset[k].members /\ zset[k].members[s] = Lease /\ zset[k].ttl = Lease
    BY <1>1, <1>8, <2>1 DEF StreamInv, Running, Kept, StreamIds
  <2>3. zset[k].ttl \in -1 .. Lease
    BY DEF StreamInv, Typed, KeysTyped
  <2>4. /\ s \in DOMAIN zset'[k].members /\ zset'[k].ttl >= 1
        /\ zset'[k].members[s] = Older(Lease)
    BY <1>3, <2>2, <2>3 DEF Lease
  <2>5. Older(Lease) = 1
    BY DEF Older, Lease
  <2>6. due'[s]
    BY <1>1, <1>8 DEF Renewing, StreamIds
  <2>7. SlotKind(s)' = k
    BY <1>1, <2>1, SlotKindKept DEF Outside, local
  <2> QED BY <2>4, <2>5, <2>6, <2>7 DEF Kept
<1> QED BY <1>1, <1>3, <1>4, <1>5, <1>6, <1>7, <1>8, OutsideSlots DEF Outside

\* At the start the slots of the clients that went away are the only ones
LEMMA SlotsInit ==
    ASSUME Init
    PROVE  StreamInv
<1>1. /\ ticket = [s \in StreamIds |-> -1] /\ active = [s \in StreamIds |-> 0]
      /\ due = [s \in StreamIds |-> FALSE] /\ exposed = {}
      /\ op = [r \in Requests |-> NoOp] /\ phase = [r \in Requests |-> "idle"]
      /\ mem = [r \in Requests |-> NoMem] /\ answer = [r \in Requests |-> "none"]
  BY DEF Init, StreamsInit
<1>2. ASSUME NEW k \in Kinds
      PROVE  /\ DOMAIN zset[k] = {"members", "ttl"} /\ zset[k].ttl \in -1 .. Lease
             /\ DOMAIN zset[k].members \subseteq Abandoned
             /\ \A s \in DOMAIN zset[k].members : zset[k].members[s] = Lease
  <2>1. CASE k # "download" \/ Abandoned = {}
    <3>1. zset[k] = [members |-> <<>>, ttl |-> -1]
      BY <2>1 DEF Init, StreamsInit, NoKey
    <3> QED BY <3>1 DEF Lease
  <2>2. CASE ~ (k # "download" \/ Abandoned = {})
    <3>1. zset[k] = [members |-> [s \in Abandoned |-> Lease], ttl |-> Lease]
      BY <2>2 DEF Init, StreamsInit
    <3>2. zset[k].members = [s \in Abandoned |-> Lease] /\ zset[k].ttl = Lease
          /\ DOMAIN zset[k] = {"members", "ttl"}
      BY <3>1
    <3> QED BY <3>2 DEF Lease
  <2> QED BY <2>1, <2>2
<1>3. KeysTyped
  <2>1. DOMAIN zset = Kinds
    BY DEF Init, StreamsInit
  <2>2. Lease \in -1 .. Lease /\ Abandoned \subseteq StreamIds
    BY DEF Lease, StreamIds
  <2> QED BY <1>2, <2>1, <2>2 DEF KeysTyped
<1>4. IsMem(NoMem)
  BY DEF IsMem, NoMem
<1>5. Typed
  <2>1. /\ ticket \in [StreamIds -> -1 .. TicketTTL] /\ active \in [StreamIds -> 0 .. 2]
        /\ due \in [StreamIds -> BOOLEAN]
    BY <1>1 DEF TicketTTL
  <2>2. phase \in [Requests -> Phases] /\ answer \in [Requests -> Answers]
    BY <1>1 DEF Phases, Answers
  <2> QED BY <1>1, <1>3, <1>4, <2>1, <2>2 DEF Typed
<1>6. Bounded
  <2>1. SUFFICES ASSUME NEW k \in Kinds
                 PROVE  IsFiniteSet(Live(k)) /\ Cardinality(Live(k)) =< MaxStreams
    BY DEF Bounded
  <2>2. Live(k) \subseteq Abandoned
    BY <1>2, LiveIs
  <2>3. IsFiniteSet(Live(k)) /\ Cardinality(Live(k)) =< Cardinality(Abandoned)
    BY <2>2, FS_Subset, AbandonedAssumption
  <2>4. Cardinality(Live(k)) \in Nat /\ Cardinality(Abandoned) \in Nat
    BY <2>3, FS_CardinalityType, AbandonedAssumption
  <2> QED BY <2>3, <2>4, AbandonedAssumption, MaxStreamsAssumption
<1>7. Owned
  BY <1>2, AbandonedAssumption DEF Owned
<1>8. TicketsOut
  BY <1>1 DEF TicketsOut, StreamIds
<1>9. Running
  BY <1>1 DEF Running, StreamIds
<1> QED BY <1>5, <1>6, <1>7, <1>8, <1>9 DEF StreamInv

\* A handler that answers an upload has decided what it did
StatusKnown == \A r \in Requests : phase[r] = "verify" => mem[r].status # "none"

LEMMA StepShape ==
    ASSUME Typed, StatusKnown, NEW r \in Requests, Step(r), ~ TicketForgotten(r)
    PROVE  Returns(r) \/ GoesOn(r)
<1>1. CASE StreamEnds(r) BY <1>1, StreamEndsShape
<1>2. CASE UploadLooks(r) BY <1>2, UploadLooksShape
<1>3. CASE StreamUpload(r) BY <1>3, StreamUploadShape
<1>4. CASE UploadAnswers(r)
  BY <1>4, UploadAnswersShape DEF StatusKnown, UploadAnswers
<1>5. CASE MkdirLooks(r) BY <1>5, MkdirLooksShape
<1>6. CASE CreateDirectory(r) BY <1>6, CreateDirectoryShape
<1>7. CASE Validate(r) BY <1>7, ValidateShape
<1>8. CASE ResolveDestination(r) BY <1>8, ResolveDestinationShape
<1>9. CASE RenameFile(r) BY <1>9, RenameFileShape DEF Proceeds
<1>10. CASE CopyFile(r) BY <1>10, CopyFileShape DEF Proceeds
<1>11. CASE CopyMakesTarget(r) BY <1>11, CopyMakesTargetShape
<1>12. CASE CopyLists(r) BY <1>12, CopyListsShape
<1>13. CASE CopyMember(r) BY <1>13, CopyMemberShape
<1>14. CASE handleFileEntryDelete(r) BY <1>14, DeleteLooksShape DEF handleFileEntryDelete
<1>15. CASE handleFileEntriesBatchDelete(r)
  BY <1>15, DeleteLooksShape DEF handleFileEntriesBatchDelete
<1>16. CASE DeleteManagerItem(r) BY <1>16, DeleteManagerItemShape DEF Proceeds
<1>17. CASE ListPage(r) BY <1>17, ListPageShape
<1> QED BY <1>1, <1>2, <1>3, <1>4, <1>5, <1>6, <1>7, <1>8, <1>9, <1>10, <1>11, <1>12, <1>13,
           <1>14, <1>15, <1>16, <1>17 DEF Step

LEMMA RequestSlots ==
    ASSUME StreamInv, StatusKnown, NEW r \in Requests,
           \/ Arrive(r) \/ Begin(r) \/ Step(r)
           \/ handleFileDownload(r) \/ handleFileArchive(r)
           \/ TicketNotStored(r) \/ ProviderFails(r) \/ Disconnect(r)
    PROVE  StreamInv'
<1>0. Typed
  BY DEF StreamInv
<1>1. CASE Arrive(r) BY <1>1, ArriveSlots
<1>2. CASE Begin(r)
  <2>1. CASE handleFileDownloadTicket(r)
    BY <2>1, FileTicketSlots DEF handleFileDownloadTicket
  <2>2. CASE handleFileArchiveTicket(r)
    BY <2>2, FileTicketSlots DEF handleFileArchiveTicket
  <2>3. {"look", "inspect"} \subseteq Work /\ "upload" \in KindsIn("look")
        /\ {"copy", "batch-copy"} \subseteq KindsIn("inspect")
    BY KindTable DEF Work, Phases, Mutations
  <2>4. CASE handleFileUpload(r)
    BY <2>3, <2>4, TakeSlotSlots DEF handleFileUpload
  <2>5. CASE handleFileEntryCopy(r)
    BY <2>3, <2>5, TakeSlotSlots DEF handleFileEntryCopy
  <2>6. CASE handleFileEntriesBatchCopy(r)
    BY <2>3, <2>6, TakeSlotSlots DEF handleFileEntriesBatchCopy
  <2> QED BY <1>2, <2>1, <2>2, <2>4, <2>5, <2>6 DEF Begin
<1>3. CASE Step(r)
  <2>1. CASE TicketForgotten(r) BY <2>1, TicketForgottenSlots
  <2>2. CASE ~ TicketForgotten(r)
    BY <1>0, <1>3, <2>2, StepShape, ReturnsSlots, GoesOnSlots
  <2> QED BY <2>1, <2>2
<1>4. CASE handleFileDownload(r) BY <1>4, UseTicketSlots DEF handleFileDownload
<1>5. CASE handleFileArchive(r) BY <1>5, UseTicketSlots DEF handleFileArchive
<1>6. CASE TicketNotStored(r) BY <1>6, TicketNotStoredSlots
<1>7. CASE ProviderFails(r)
  BY <1>0, <1>7, ProviderFailsShape, ReturnsSlots, GoesOnSlots DEF Proceeds
<1>8. CASE Disconnect(r) BY <1>8, DisconnectSlots
<1> QED BY <1>1, <1>2, <1>3, <1>4, <1>5, <1>6, <1>7, <1>8

LEMMA StreamInvStep ==
    ASSUME StreamInv, StatusKnown, [Next]_vars
    PROVE  StreamInv'
<1>1. CASE UNCHANGED vars
  <2>1. Outside /\ UNCHANGED streams
    BY <1>1 DEF vars, Outside
  <2>2. zset' = zset /\ ticket' = ticket /\ active' = active /\ due' = due /\ exposed' = exposed
    BY <2>1 DEF streams
  <2>3. KeysTyped' /\ CountersTyped' /\ \A k \in Kinds : Live(k)' = Live(k)
    BY <2>1, StreamsKept DEF StreamInv
  <2>4. \A s \in Requests : active[s] > 0 /\ SlotKind(s) \in RenewedKinds /\ s \notin exposed' => Kept(s)'
    <3>1. \A s \in Requests : SlotKind(s)' = SlotKind(s)
      BY <2>1, SlotKindKept DEF Outside, local
    <3> QED BY <2>2, <3>1 DEF StreamInv, Running, Kept
  <2> QED BY <2>1, <2>2, <2>3, <2>4, OutsideSlots DEF Outside
<1>2. ASSUME NEW r \in Requests,
             \/ Arrive(r) \/ Begin(r) \/ Step(r)
             \/ handleFileDownload(r) \/ handleFileArchive(r)
             \/ TicketNotStored(r) \/ ProviderFails(r) \/ Disconnect(r)
      PROVE  StreamInv'
  BY <1>2, RequestSlots
<1>3. ASSUME NEW s \in StreamIds, RenewLease(s) \/ StopRenewal(s) \/ LoseRenewal(s)
      PROVE  StreamInv'
  BY <1>3, RenewLeaseSlots, StopRenewalSlots, LoseRenewalSlots
<1>4. ASSUME NEW k \in Kinds, SlotExpires(k)
      PROVE  StreamInv'
  BY <1>4, SlotExpiresSlots
<1>5. CASE PeriodPasses BY <1>5, PeriodPassesSlots
<1> QED BY <1>1, <1>2, <1>3, <1>4, <1>5 DEF Next

\* The property follows from the invariant
LEMMA SlotsAreLimited ==
    ASSUME StreamInv
    PROVE  StreamsAreLimited
<1>1. ASSUME NEW k \in RenewedKinds
      PROVE  LET live    == DOMAIN Purged(zset[k].members)
                 running == {r \in Requests : SlotKind(r) = k /\ active[r] > 0}
             IN  /\ Cardinality(live) =< MaxStreams
                 /\ running \ exposed \subseteq live
                 /\ \A r \in running : active[r] = 1
  <2>1. k \in Kinds
    BY DEF RenewedKinds, Kinds
  <2>2. Cardinality(Live(k)) =< MaxStreams
    BY <2>1 DEF StreamInv, Bounded
  <2>3. ASSUME NEW r \in Requests, SlotKind(r) = k, active[r] > 0
        PROVE  (r \notin exposed => r \in Live(k)) /\ active[r] = 1
    <3>1. active[r] = 1 /\ (r \notin exposed => Kept(r))
      BY <2>3, <1>1 DEF StreamInv, Running
    <3>2. Kept(r) => /\ r \in DOMAIN zset[k].members /\ zset[k].members[r] \in Int
                     /\ zset[k].members[r] >= 1
      BY <2>1, <2>3 DEF Kept, StreamInv, Typed, KeysTyped, Lease
    <3> QED BY <3>1, <3>2, <2>1, LiveIs
  <2> QED BY <2>2, <2>3 DEF Live
<1>2. ASSUME NEW r \in Requests, phase[r] = "done", HasSlot(r), answer[r] \notin {"gone", "expired", "unavailable"}
      PROVE  r \notin DOMAIN zset[SlotKind(r)].members
  BY <1>2 DEF StreamInv, Owned, HasSlot
<1> QED BY <1>1, <1>2 DEF StreamsAreLimited

-----------------------------------------------------------------------------
(* Paths.                                                                  *)

LEMMA SequenceIsPath ==
    ASSUME NEW S, NEW p \in Seq(S)
    PROVE  IsPath(p)
<1>1. Len(p) \in Nat /\ DOMAIN p = 1 .. Len(p) /\ p \in [1 .. Len(p) -> S]
  BY LenProperties
<1>2. \A i \in 1 .. Len(p) : p[i] \in ToSet(p)
  BY <1>1 DEF ToSet
<1>3. p \in [1 .. Len(p) -> ToSet(p)]
  BY <1>1, <1>2
<1>4. p \in UNION {[1 .. n -> ToSet(p)] : n \in Nat}
  BY <1>1, <1>3
<1> QED BY <1>4, SeqDef DEF IsPath

LEMMA PathAppend ==
    ASSUME NEW p, IsPath(p), NEW x
    PROVE  IsPath(Append(p, x)) /\ Append(p, x) # Root /\ IsPrefix(p, Append(p, x))
<1> DEFINE S == ToSet(p) \cup {x}
<1>1. p \in Seq(S)
  BY SeqMonotonic DEF IsPath
<1> HIDE DEF S
<1>2. x \in S
  BY DEF S
<1>3. Append(p, x) \in Seq(S) /\ Len(Append(p, x)) = Len(p) + 1 /\ Len(p) \in Nat
      /\ \A i \in 1 .. Len(p) : Append(p, x)[i] = p[i]
  BY <1>1, <1>2
<1>4. IsPath(Append(p, x))
  BY <1>3, SequenceIsPath
<1>5. Append(p, x) # <<>>
  BY <1>3
<1>6. SubSeq(p, 1, Len(p)) = p /\ SubSeq(Append(p, x), 1, Len(p)) = p
  BY <1>1, <1>2
<1> QED BY <1>3, <1>4, <1>5, <1>6 DEF IsPrefix, Root

LEMMA PathConcat ==
    ASSUME NEW p, IsPath(p), NEW q, IsPath(q)
    PROVE  IsPath(p \o q) /\ IsPrefix(p, p \o q)
<1> DEFINE S == ToSet(p) \cup ToSet(q)
<1>1. p \in Seq(S) /\ q \in Seq(S)
  BY SeqMonotonic DEF IsPath
<1> HIDE DEF S
<1>2. p \o q \in Seq(S) /\ Len(p \o q) = Len(p) + Len(q) /\ Len(p) \in Nat /\ Len(q) \in Nat
  BY <1>1
<1>3. SubSeq(p, 1, Len(p)) = SubSeq(p \o q, 1, Len(p))
  BY <1>1
<1>4. IsPath(p \o q)
  BY <1>2, SequenceIsPath
<1>5. Len(p) =< Len(p \o q)
  BY <1>2
<1> QED BY <1>3, <1>4, <1>5 DEF IsPrefix

LEMMA PathFront ==
    ASSUME NEW p, IsPath(p), p # Root
    PROVE  IsPath(Front(p))
<1>1. Front(p) \in Seq(ToSet(p))
  BY DEF IsPath, Front, Root
<1> QED BY <1>1, SequenceIsPath

LEMMA PrefixTransitive ==
    ASSUME NEW p, IsPath(p), NEW q, IsPath(q), NEW u, IsPath(u), IsPrefix(p, q), IsPrefix(q, u)
    PROVE  IsPrefix(p, u)
<1> DEFINE S == ToSet(p) \cup ToSet(q) \cup ToSet(u)
<1>1. p \in Seq(S) /\ q \in Seq(S) /\ u \in Seq(S)
  BY SeqMonotonic DEF IsPath
<1> HIDE DEF S
<1>2. Len(p) =< Len(q) /\ Len(q) =< Len(u) /\ Len(p) \in Nat /\ Len(q) \in Nat /\ Len(u) \in Nat
  BY <1>1 DEF IsPrefix
<1>3. SubSeq(p, 1, Len(p)) = p /\ SubSeq(q, 1, Len(q)) = q
  BY <1>1, SubSeqFull
<1>4. \A i \in 1 .. Len(p) : p[i] = q[i]
  <2>1. \A i \in 1 .. Len(p) : SubSeq(q, 1, Len(p))[i] = q[i]
    BY <1>1, <1>2
  <2> QED BY <2>1, <1>3 DEF IsPrefix
<1>5. \A i \in 1 .. Len(q) : q[i] = u[i]
  <2>1. \A i \in 1 .. Len(q) : SubSeq(u, 1, Len(q))[i] = u[i]
    BY <1>1, <1>2
  <2> QED BY <2>1, <1>3 DEF IsPrefix
<1>6. SubSeq(u, 1, Len(p)) \in Seq(S) /\ Len(SubSeq(u, 1, Len(p))) = Len(p)
      /\ \A i \in 1 .. Len(p) : SubSeq(u, 1, Len(p))[i] = u[i]
  BY <1>1, <1>2
<1>7. p = SubSeq(u, 1, Len(p))
  BY <1>1, <1>2, <1>4, <1>5, <1>6, SeqEqual
<1> QED BY <1>2, <1>3, <1>7 DEF IsPrefix

\* Moving a path from src to dst and back
LEMMA RebasedBack ==
    ASSUME NEW p, IsPath(p), NEW src, IsPath(src), NEW dst, IsPath(dst), IsPrefix(src, p)
    PROVE  /\ IsPath(Rebased(p, src, dst)) /\ IsPrefix(dst, Rebased(p, src, dst))
           /\ Rebased(Rebased(p, src, dst), dst, src) = p
<1> DEFINE S == ToSet(p) \cup ToSet(src) \cup ToSet(dst)
           t == SubSeq(p, Len(src) + 1, Len(p))
<1>1. p \in Seq(S) /\ src \in Seq(S) /\ dst \in Seq(S)
  BY SeqMonotonic DEF IsPath
<1> HIDE DEF S
<1>2. Len(src) =< Len(p) /\ Len(p) \in Nat /\ Len(src) \in Nat /\ Len(dst) \in Nat
  BY <1>1 DEF IsPrefix
<1>3. t \in Seq(S) /\ Len(t) = Len(p) - Len(src)
      /\ \A i \in 1 .. Len(t) : t[i] = p[i + Len(src)]
  BY <1>1, <1>2
<1>4. \A i \in 1 .. Len(src) : src[i] = p[i]
  <2>1. SubSeq(src, 1, Len(src)) = src
    BY <1>1, SubSeqFull
  <2>2. \A i \in 1 .. Len(src) : SubSeq(p, 1, Len(src))[i] = p[i]
    BY <1>1, <1>2
  <2> QED BY <2>1, <2>2 DEF IsPrefix
<1> HIDE DEF t
<1>5. IsPath(t)
  BY <1>3, SequenceIsPath
<1>6. Rebased(p, src, dst) = dst \o t
  BY DEF Rebased, t
<1>7. IsPath(dst \o t) /\ IsPrefix(dst, dst \o t)
  BY <1>5, PathConcat
<1>8. SubSeq(dst \o t, Len(dst) + 1, Len(dst \o t)) = t
  BY <1>1, <1>2, <1>3
<1>9. src \o t = p
  <2>1. src \o t \in Seq(S) /\ Len(src \o t) = Len(p)
    BY <1>1, <1>2, <1>3
  <2>2. ASSUME NEW i \in 1 .. Len(p) PROVE (src \o t)[i] = p[i]
    <3>1. CASE i =< Len(src)
      BY <1>1, <1>2, <1>3, <1>4, <3>1
    <3>2. CASE ~ (i =< Len(src))
      <4>1. i - Len(src) \in 1 .. Len(t)
        BY <1>2, <1>3, <3>2
      <4>2. (src \o t)[i] = t[i - Len(src)]
        BY <1>1, <1>2, <1>3, <3>2
      <4>3. t[i - Len(src)] = p[i - Len(src) + Len(src)]
        BY <1>3, <4>1
      <4> QED BY <4>2, <4>3, <1>2
    <3> QED BY <3>1, <3>2
  <2> QED BY <1>1, <2>1, <2>2, SeqEqual
<1> QED BY <1>6, <1>7, <1>8, <1>9 DEF Rebased

-----------------------------------------------------------------------------
(* What a handler decides from a listing.                                  *)

\* The first free number is free
LEMMA FreeNumber ==
    ASSUME NEW free \in SUBSET Nat, free # {}
    PROVE  (CHOOSE n \in free : \A m \in free : n =< m) \in free
<1> DEFINE R == OpToRel(<, Nat)
<1>1. IsWellFoundedOn(R, Nat)
  BY NatLessThanWellFounded
<1>2. \E n \in free : \A m \in free : ~ (<<m, n>> \in R)
  BY <1>1, WFMin
<1>3. PICK n \in free : \A m \in free : ~ (<<m, n>> \in R)
  BY <1>2
<1>4. \A m \in free : m < n => <<m, n>> \in R
  BY Zenon DEF OpToRel
<1>5. \A m \in free : ~ (m < n)
  BY <1>3, <1>4
<1> HIDE DEF R
<1>6. \A m \in free : n =< m
  BY <1>5
<1> QED BY <1>6

LEMMA FirstSuffixIsFree ==
    ASSUME NEW path, IsPath(path), path # Root, NEW names, FirstSuffix(path, names) # Root
    PROVE  FirstSuffix(path, names) \notin names /\ IsPath(FirstSuffix(path, names))
<1> DEFINE name == Last(path)
           free == {n \in 1 .. MaxSuffix : Append(Front(path), Append(name, n)) \notin names}
           least == CHOOSE n \in free : \A m \in free : n =< m
<1>1. free # {} /\ FirstSuffix(path, names) = Append(Front(path), Append(name, least))
  BY Zenon DEF FirstSuffix
<1>2. free \in SUBSET Nat
  BY SuffixAssumption
<1>3. least \in free
  <2> HIDE DEF free
  <2> QED BY <1>1, <1>2, FreeNumber
<1>4. Append(Front(path), Append(name, least)) \notin names
  BY <1>3
<1>5. IsPath(Append(Front(path), Append(name, least)))
  BY PathFront, PathAppend
<1> QED BY <1>1, <1>4, <1>5

\* resolveDestination replaces something it has seen for OVERWRITE only
LEMMA ResolvedIsFree ==
    ASSUME NEW path, IsPath(path), path # Root, NEW names, NEW strategy, NEW dirs,
           Resolved(path, names, strategy, dirs).status \in {"done", "renamed"}
    PROVE  LET d == Resolved(path, names, strategy, dirs)
           IN  /\ d.to # Root /\ IsPath(d.to)
               /\ strategy = "OVERWRITE" \/ d.to \notin names
<1> DEFINE d == Resolved(path, names, strategy, dirs)
<1>1. CASE path \notin names
  BY <1>1 DEF Resolved
<1>2. CASE path \in names /\ strategy = "RENAME"
  <2>1. d = IF FirstSuffix(path, names) = Root THEN [to |-> path, status |-> "conflict"]
            ELSE [to |-> FirstSuffix(path, names), status |-> "renamed"]
    BY <1>2 DEF Resolved
  <2>2. FirstSuffix(path, names) # Root
    BY <2>1
  <2>3. d.to = FirstSuffix(path, names)
    BY <2>1, <2>2
  <2> QED BY <2>2, <2>3, FirstSuffixIsFree
<1>3. CASE path \in names /\ strategy = "OVERWRITE"
  BY <1>3 DEF Resolved
<1>4. CASE path \in names /\ strategy \notin {"RENAME", "OVERWRITE"}
  BY <1>4 DEF Resolved
<1> QED BY <1>1, <1>2, <1>3, <1>4

\* A handler that is in none of these phases has nothing to remember
Careless == {"ticket", "stream", "look", "mkdir", "delete", "page", "done"}

LEMMA CarelessRemembers ==
    ASSUME NEW r \in Requests, phase'[r] \in Careless
    PROVE  Remembers(r)'
BY DEF Remembers, Careless

LEMMA ReturnsRemembers ==
    ASSUME Typed, NEW r \in Requests, Returns(r) \/ Proceeds(r)
    PROVE  Remembers(r)'
<1>1. CASE Returns(r)
  <2>1. phase'[r] = "done"
    BY <1>1 DEF Returns, Finish, Goto, Typed
  <2> QED BY <2>1, CarelessRemembers DEF Careless
<1>2. CASE Proceeds(r)
  BY <1>2 DEF Proceeds, Remembers
<1> QED BY <1>1, <1>2

LEMMA UploadLooksRemembers ==
    ASSUME Typed, NEW r \in Requests, UploadLooks(r)
    PROVE  Remembers(r)'
<1> DEFINE path == Append(op[r].dest, op[r].name)
           d == Resolved(path, Children(op[r].dest), op[r].strategy, IsDir(path))
           m == [mem[r] EXCEPT !.seen = Children(op[r].dest), !.final = d.to, !.status = d.status]
           p == IF d.status = "skipped" THEN "verify" ELSE "send"
<1>1. phase[r] = "look" /\ op' = op /\ phase[r] \in Work
  BY DEF UploadLooks, Known, Work, Phases
<1>2. \/ Finish(r, IF IsDir(op[r].dest) THEN "conflict" ELSE "error")
      \/ d.status # "conflict" /\ Keep(r, m) /\ Goto(r, p)
  BY Zenon DEF UploadLooks
<1>3. CASE Finish(r, IF IsDir(op[r].dest) THEN "conflict" ELSE "error")
  BY <1>3, CarelessRemembers DEF Finish, Goto, Typed, Careless
<1>4. CASE d.status # "conflict" /\ Keep(r, m) /\ Goto(r, p)
  <2>1. d.status \in {"done", "skipped", "renamed"}
    BY <1>4, ResolvedType
  <2>2. IsPath(path) /\ path # Root
    BY <1>1, PathAppend DEF Typed, IsOp
  <2>3. d.status # "skipped" =>
          /\ d.to # Root /\ IsPath(d.to)
          /\ op[r].strategy = "OVERWRITE" \/ d.to \notin Children(op[r].dest)
    <3>1. SUFFICES ASSUME d.status \in {"done", "renamed"}
                   PROVE  /\ d.to # Root /\ IsPath(d.to)
                          /\ op[r].strategy = "OVERWRITE" \/ d.to \notin Children(op[r].dest)
      BY <2>1
    <3> HIDE DEF path
    <3> QED BY <2>2, <3>1, ResolvedIsFree
  <2> HIDE DEF d
  <2>4. m.seen = Children(op[r].dest) /\ m.final = d.to /\ m.status = d.status
    BY DEF Typed, IsMem
  <2> HIDE DEF m
  <2>5. mem'[r] = m /\ phase'[r] = p
    BY <1>4 DEF Keep, Goto, Typed
  <2> QED BY <1>1, <2>1, <2>3, <2>4, <2>5 DEF Remembers, Decided
<1> QED BY <1>2, <1>3, <1>4

LEMMA StreamUploadRemembers ==
    ASSUME Typed, NEW r \in Requests, Remembers(r), StreamUpload(r)
    PROVE  Remembers(r)'
<1> DEFINE m == [mem[r] EXCEPT !.read = BytesRead(op[r])]
<1>1. phase[r] = "send" /\ op' = op
  BY DEF StreamUpload, Known
<1>2. \/ Goto(r, "done")
      \/ Keep(r, m) /\ Goto(r, "verify")
  BY Zenon DEF StreamUpload, Finish
<1>3. CASE Goto(r, "done")
  BY <1>3, CarelessRemembers DEF Goto, Typed, Careless
<1>4. CASE Keep(r, m) /\ Goto(r, "verify")
  <2>1. m.read = BytesRead(op[r]) /\ m.status = mem[r].status
    BY DEF Typed, IsMem
  <2> HIDE DEF m
  <2>2. mem'[r] = m /\ phase'[r] = "verify"
    BY <1>4 DEF Keep, Goto, Typed
  <2> QED BY <1>1, <2>1, <2>2 DEF Remembers
<1> QED BY <1>2, <1>3, <1>4

LEMMA ResolveDestinationRemembers ==
    ASSUME Typed, NEW r \in Requests, Remembers(r), ResolveDestination(r)
    PROVE  Remembers(r)'
<1> DEFINE d == Resolved(Target(r), Children(op[r].dest), op[r].strategy,
                         IsDir(Target(r)) \/ mem[r].dir)
           moves == op[r].kind \in {"move", "batch-move"}
           m == [mem[r] EXCEPT !.seen = Children(op[r].dest), !.final = d.to, !.status = d.status]
           p == IF moves THEN "rename" ELSE IF mem[r].dir THEN "make" ELSE "copy"
<1>1. phase[r] = "resolve" /\ phase[r] \in Work /\ op' = op /\ op[r].kind \in Mutations
  BY KindTable DEF ResolveDestination, Known, Work, Phases, Typed
<1>2. \/ d.status \in {"skipped", "conflict"} /\ ItemEnds(r, d.status)
      \/ ItemEnds(r, "failed")
      \/ d.status \notin {"skipped", "conflict"} /\ Keep(r, m) /\ Goto(r, p)
  BY Zenon DEF ResolveDestination
<1>3. CASE (d.status \in {"skipped", "conflict"} /\ ItemEnds(r, d.status)) \/ ItemEnds(r, "failed")
  <2> HIDE DEF d
  <2>1. Returns(r) \/ Proceeds(r)
    BY <1>1, <1>3, ItemEndsShape DEF Results
  <2> QED BY <2>1, ReturnsRemembers
<1>4. CASE d.status \notin {"skipped", "conflict"} /\ Keep(r, m) /\ Goto(r, p)
  <2>1. d.status \in {"done", "renamed"}
    BY <1>4, ResolvedType
  <2>2. IsPath(Target(r)) /\ Target(r) # Root
    BY <1>1, PathAppend DEF Typed, IsOp, Target
  <2>3. /\ d.to # Root /\ IsPath(d.to)
        /\ op[r].strategy = "OVERWRITE" \/ d.to \notin Children(op[r].dest)
    BY <2>1, <2>2, ResolvedIsFree
  <2> HIDE DEF d
  <2>4. m.seen = Children(op[r].dest) /\ m.final = d.to /\ m.todo = mem[r].todo
    BY DEF Typed, IsMem
  <2> HIDE DEF m
  <2>5. mem'[r] = m /\ phase'[r] = p
    BY <1>4 DEF Keep, Goto, Typed
  <2> QED BY <1>1, <2>1, <2>3, <2>4, <2>5 DEF Remembers, Decided
<1> QED BY <1>2, <1>3, <1>4

LEMMA CopyMakesTargetRemembers ==
    ASSUME Typed, NEW r \in Requests, Remembers(r), CopyMakesTarget(r)
    PROVE  Remembers(r)'
<1> DEFINE m == [mem[r] EXCEPT !.queue = <<<<Item(r), mem[r].final>>>>]
<1>1. phase[r] = "make" /\ phase[r] \in Work /\ op' = op /\ op[r].kind \in Mutations
  BY KindTable DEF CopyMakesTarget, Known, Work, Phases, Typed, Mutations
<1>2. ItemEnds(r, "partial") \/ (Keep(r, m) /\ Goto(r, "walk"))
  BY Zenon DEF CopyMakesTarget
<1>3. CASE ItemEnds(r, "partial")
  BY <1>1, <1>3, ItemEndsShape, ReturnsRemembers DEF Results
<1>4. CASE Keep(r, m) /\ Goto(r, "walk")
  <2>1. m.queue = <<<<Item(r), mem[r].final>>>> /\ m.todo = mem[r].todo /\ m.final = mem[r].final
        /\ m.seen = mem[r].seen
    BY DEF Typed, IsMem
  <2>2. Decided(r) /\ mem[r].todo = {}
    BY <1>1 DEF Remembers
  <2>3. /\ IsPath(m.queue)
        /\ \A i \in DOMAIN m.queue : m.queue[i][2] = mem[r].final
    <3> DEFINE e == <<Item(r), mem[r].final>>
    <3>1. e[2] = mem[r].final
      OBVIOUS
    <3>2. m.queue = <<e>>
      BY <2>1
    <3> HIDE DEF e, m
    <3>3. <<e>> \in Seq({e}) /\ DOMAIN <<e>> = {1} /\ <<e>>[1] = e
      OBVIOUS
    <3> QED BY <3>1, <3>2, <3>3, SequenceIsPath
  <2>4. IsPrefix(mem[r].final, mem[r].final)
    BY <2>2 DEF IsPrefix, Decided, IsPath
  <2> HIDE DEF m
  <2>5. mem'[r] = m /\ phase'[r] = "walk"
    BY <1>4 DEF Keep, Goto, Typed
  <2>6. Below(r)'
    BY <2>1, <2>2, <2>3, <2>4, <2>5 DEF Below, Decided
  <2> QED BY <1>1, <2>1, <2>2, <2>5, <2>6 DEF Remembers, Decided
<1> QED BY <1>2, <1>3, <1>4

LEMMA CopyListsRemembers ==
    ASSUME Typed, NEW r \in Requests, Remembers(r), CopyLists(r)
    PROVE  Remembers(r)'
<1> DEFINE d == Head(mem[r].queue)
           todo == {<<c, Append(d[2], Last(c)), tree[c].dir>> : c \in Children(d[1])}
           m == [mem[r] EXCEPT !.queue = Tail(@), !.todo = todo]
<1>1. phase[r] = "walk" /\ phase[r] \in Work /\ op' = op /\ op[r].kind \in Mutations
  BY KindTable DEF CopyLists, Known, Work, Phases, Typed, Mutations
<1>2. \/ ItemEnds(r, "partial") \/ ItemEnds(r, mem[r].status)
      \/ mem[r].queue # <<>> /\ Keep(r, m) /\ UNCHANGED phase
  BY Zenon DEF CopyLists
<1>3. CASE ItemEnds(r, "partial") \/ ItemEnds(r, mem[r].status)
  BY <1>1, <1>3, ItemEndsShape, ReturnsRemembers, StatusIsResult DEF Results
<1>4. CASE mem[r].queue # <<>> /\ Keep(r, m) /\ UNCHANGED phase
  <2>1. Decided(r) /\ Below(r)
    BY <1>1 DEF Remembers
  <2>2. PICK S : mem[r].queue \in Seq(S)
    BY <2>1 DEF Below, IsPath
  <2>3. /\ Tail(mem[r].queue) \in Seq(S) /\ d = mem[r].queue[1] /\ 1 \in DOMAIN mem[r].queue
        /\ \A i \in DOMAIN Tail(mem[r].queue) :
             i + 1 \in DOMAIN mem[r].queue /\ Tail(mem[r].queue)[i] = mem[r].queue[i + 1]
    BY <1>4, <2>2
  <2>4. IsPath(d[2]) /\ IsPrefix(mem[r].final, d[2])
    BY <2>1, <2>3 DEF Below
  <2> HIDE DEF d
  <2>5. ASSUME NEW c \in todo PROVE IsPath(c[2]) /\ IsPrefix(mem[r].final, c[2])
    <3>1. PICK x \in Children(d[1]) : c = <<x, Append(d[2], Last(x)), tree[x].dir>>
      BY <2>5
    <3>2. c[2] = Append(d[2], Last(x))
      BY <3>1
    <3>3. IsPath(c[2]) /\ IsPrefix(d[2], c[2])
      BY <2>4, <3>2, PathAppend
    <3> QED BY <2>1, <2>4, <3>3, PrefixTransitive DEF Decided
  <2> HIDE DEF todo
  <2>6. m.queue = Tail(mem[r].queue) /\ m.todo = todo /\ m.final = mem[r].final /\ m.seen = mem[r].seen
    BY DEF Typed, IsMem
  <2> HIDE DEF m
  <2>7. mem'[r] = m /\ phase'[r] = "walk"
    BY <1>1, <1>4 DEF Keep, Typed
  <2>8. IsPath(Tail(mem[r].queue))
    BY <2>3, SequenceIsPath
  <2>9. Below(r)'
    <3>1. \A i \in DOMAIN m.queue : IsPath(m.queue[i][2]) /\ IsPrefix(m.final, m.queue[i][2])
      BY <2>1, <2>3, <2>6 DEF Below
    <3>2. IsPath(m.queue) /\ \A c \in m.todo : IsPath(c[2]) /\ IsPrefix(m.final, c[2])
      BY <2>5, <2>6, <2>8
    <3> QED BY <2>7, <3>1, <3>2 DEF Below
  <2> QED BY <1>1, <2>1, <2>6, <2>7, <2>9 DEF Remembers, Decided
<1> QED BY <1>2, <1>3, <1>4

LEMMA CopyMemberRemembers ==
    ASSUME Typed, NEW r \in Requests, Remembers(r), CopyMember(r)
    PROVE  Remembers(r)'
<1>1. phase[r] = "walk" /\ phase[r] \in Work /\ op' = op /\ op[r].kind \in Mutations
  BY KindTable DEF CopyMember, Known, Work, Phases, Typed, Mutations
<1>2. PICK c \in mem[r].todo :
        \/ ItemEnds(r, "partial")
        \/ /\ UNCHANGED phase
           /\ \/ Keep(r, [[mem[r] EXCEPT !.todo = @ \ {c}] EXCEPT !.queue = Append(@, <<c[1], c[2]>>)])
              \/ Keep(r, [mem[r] EXCEPT !.todo = @ \ {c}])
  BY Zenon DEF CopyMember
<1> DEFINE m == [mem[r] EXCEPT !.todo = @ \ {c}]
           n == [m EXCEPT !.queue = Append(@, <<c[1], c[2]>>)]
<1>3. CASE ItemEnds(r, "partial")
  BY <1>1, <1>3, ItemEndsShape, ReturnsRemembers DEF Results
<1>4. CASE UNCHANGED phase /\ (Keep(r, n) \/ Keep(r, m))
  <2>1. Decided(r) /\ Below(r)
    BY <1>1 DEF Remembers
  <2>2. m.todo = mem[r].todo \ {c} /\ m.queue = mem[r].queue /\ m.final = mem[r].final
        /\ m.seen = mem[r].seen /\ IsMem(m)
    BY DEF Typed, IsMem
  <2> HIDE DEF m
  <2> DEFINE e == <<c[1], c[2]>>
  <2>3. n.todo = m.todo /\ n.queue = Append(m.queue, e) /\ n.final = m.final /\ n.seen = m.seen
    BY <2>2 DEF IsMem
  <2>4. e[2] = c[2] /\ IsPath(c[2]) /\ IsPrefix(mem[r].final, c[2])
    BY <1>2, <2>1 DEF Below
  <2> HIDE DEF n, e
  <2>5. PICK S : mem[r].queue \in Seq(S)
    BY <2>1 DEF Below, IsPath
  <2>6. IsPath(Append(mem[r].queue, e))
    BY <2>1, PathAppend DEF Below
  <2>7. mem[r].queue \in Seq(S \cup {e})
    BY <2>5, SeqMonotonic
  <2>8. \A i \in DOMAIN Append(mem[r].queue, e) :
          \/ i \in DOMAIN mem[r].queue /\ Append(mem[r].queue, e)[i] = mem[r].queue[i]
          \/ Append(mem[r].queue, e)[i] = e
    BY <2>7
  <2>9. PICK k \in {m, n} : Keep(r, k)
    BY <1>4
  <2>10. mem'[r] = k /\ phase'[r] = "walk"
    BY <1>1, <1>4, <2>9 DEF Keep, Typed
  <2>11. /\ k.final = mem[r].final /\ k.seen = mem[r].seen /\ k.todo \subseteq mem[r].todo
         /\ k.queue \in {mem[r].queue, Append(mem[r].queue, e)}
    BY <2>2, <2>3, <2>9
  <2>12. /\ IsPath(k.queue)
         /\ \A i \in DOMAIN k.queue : IsPath(k.queue[i][2]) /\ IsPrefix(mem[r].final, k.queue[i][2])
    <3>1. CASE k.queue = mem[r].queue
      BY <3>1, <2>1 DEF Below
    <3>2. CASE k.queue = Append(mem[r].queue, e)
      BY <3>2, <2>1, <2>4, <2>6, <2>8 DEF Below
    <3> QED BY <2>11, <3>1, <3>2
  <2>13. Below(r)'
    BY <2>1, <2>10, <2>11, <2>12 DEF Below
  <2> QED BY <1>1, <2>1, <2>10, <2>11, <2>13 DEF Remembers, Decided
<1> QED BY <1>2, <1>3, <1>4

LEMMA DeleteLooksRemembers ==
    ASSUME Typed, NEW r \in Requests, NEW kind, DeleteLooks(r, kind)
    PROVE  Remembers(r)'
<1> DEFINE p == Item(r)
           m == [mem[r] EXCEPT !.dir = tree[p].dir, !.seen = Children(p)]
<1>1. phase[r] = "delete" /\ phase[r] \in Work /\ op' = op /\ op[r].kind \in {"delete", "batch-delete"}
  BY KindTable DEF DeleteLooks, Known, Work, Phases, Typed
<1>2. \/ ItemEnds(r, "failed")
      \/ /\ ~ (tree[p].dir /\ ~ op[r].recursive /\ Children(p) # {})
         /\ Keep(r, m) /\ Goto(r, "remove")
  BY Zenon DEF DeleteLooks
<1>3. CASE ItemEnds(r, "failed")
  BY <1>1, <1>3, ItemEndsShape, ReturnsRemembers DEF Results
<1>4. CASE ~ (tree[p].dir /\ ~ op[r].recursive /\ Children(p) # {}) /\ Keep(r, m) /\ Goto(r, "remove")
  <2>1. m.dir = tree[p].dir /\ m.seen = Children(p)
    BY DEF Typed, IsMem
  <2> HIDE DEF m, p
  <2>2. mem'[r] = m /\ phase'[r] = "remove"
    BY <1>4 DEF Keep, Goto, Typed
  <2>3. op[r].recursive \/ ~ m.dir \/ m.seen = {}
    BY <1>4, <2>1, Zenon
  <2> QED BY <1>1, <2>2, <2>3, Zenon DEF Remembers
<1> QED BY <1>2, <1>3, <1>4

\* A step of request r leaves the others alone
Elsewhere(r) ==
    \A s \in Requests \ {r} :
        op'[s] = op[s] /\ phase'[s] = phase[s] /\ mem'[s] = mem[s] /\ answer'[s] = answer[s]

LEMMA ShapeElsewhere ==
    ASSUME Typed, NEW r \in Requests, Returns(r) \/ GoesOn(r)
    PROVE  Elsewhere(r)
BY DEF Returns, GoesOn, Acts, Elsewhere

\* A request moves to a phase and remembers what it did
LEMMA JumpElsewhere ==
    ASSUME Typed, NEW r \in Requests, NEW p, Goto(r, p), UNCHANGED <<op, mem>>,
           NEW a, Reply(r, a) \/ UNCHANGED answer
    PROVE  Elsewhere(r) /\ phase'[r] = p /\ mem'[r] = mem[r] /\ answer'[r] \in {a, answer[r]}
BY DEF Typed, Goto, Reply, Elsewhere

LEMMA SameRemembers ==
    ASSUME NEW s \in Requests, Remembers(s), op'[s] = op[s], phase'[s] = phase[s], mem'[s] = mem[s]
    PROVE  Remembers(s)'
BY DEF Remembers, Decided, Below, BytesRead

LEMMA ElsewhereRemembers ==
    ASSUME Remembered, NEW r \in Requests, Elsewhere(r), Remembers(r)'
    PROVE  Remembered'
BY SameRemembers DEF Remembered, Elsewhere

LEMMA ValidateRemembers ==
    ASSUME Typed, NEW r \in Requests, Remembers(r), Validate(r)
    PROVE  Remembers(r)'
<1> DEFINE m == [mem[r] EXCEPT !.dir = tree[Item(r)].dir]
<1>1. phase[r] = "inspect" /\ phase[r] \in Work /\ op' = op /\ op[r].kind \in Mutations
  BY KindTable DEF Validate, Known, Work, Phases, Typed, Mutations
<1>2. ItemEnds(r, "failed") \/ (Keep(r, m) /\ Goto(r, "resolve"))
  BY Zenon DEF Validate
<1>3. CASE ItemEnds(r, "failed")
  BY <1>1, <1>3, ItemEndsShape, ReturnsRemembers DEF Results
<1>4. CASE Keep(r, m) /\ Goto(r, "resolve")
  <2>1. m.todo = mem[r].todo
    BY DEF Typed, IsMem
  <2> HIDE DEF m
  <2>2. mem'[r] = m /\ phase'[r] = "resolve"
    BY <1>4 DEF Keep, Goto, Typed
  <2> QED BY <1>1, <2>1, <2>2 DEF Remembers
<1> QED BY <1>2, <1>3, <1>4

LEMMA MkdirLooksRemembers ==
    ASSUME Typed, NEW r \in Requests, MkdirLooks(r)
    PROVE  Remembers(r)'
<1>1. \/ Finish(r, IF IsDir(op[r].dest) THEN "conflict" ELSE "error")
      \/ Goto(r, "mkdir")
  BY Zenon DEF MkdirLooks
<1>2. phase'[r] \in {"done", "mkdir"}
  BY <1>1 DEF Finish, Goto, Typed
<1> QED BY <1>2, CarelessRemembers DEF Careless

LEMMA ListPageRemembers ==
    ASSUME Typed, NEW r \in Requests, ListPage(r)
    PROVE  Remembers(r)'
<1>1. phase[r] = "page"
  BY DEF ListPage
<1>2. Finish(r, "error") \/ Finish(r, "changed") \/ Finish(r, "listed") \/ UNCHANGED phase
  BY Zenon DEF ListPage
<1>3. phase'[r] \in {"done", "page"}
  BY <1>1, <1>2 DEF Finish, Goto, Typed
<1> QED BY <1>3, CarelessRemembers DEF Careless

LEMMA StepRemembers ==
    ASSUME Typed, Remembered, StatusKnown, NEW r \in Requests, Step(r), ~ TicketForgotten(r)
    PROVE  Remembers(r)'
<1>0. Remembers(r)
  BY DEF Remembered
<1>1. CASE StreamEnds(r) BY <1>1, StreamEndsShape, ReturnsRemembers
<1>2. CASE UploadLooks(r) BY <1>2, UploadLooksRemembers
<1>3. CASE StreamUpload(r) BY <1>0, <1>3, StreamUploadRemembers
<1>4. CASE UploadAnswers(r)
  BY <1>4, UploadAnswersShape, ReturnsRemembers DEF StatusKnown, UploadAnswers
<1>5. CASE MkdirLooks(r) BY <1>5, MkdirLooksRemembers
<1>6. CASE CreateDirectory(r) BY <1>6, CreateDirectoryShape, ReturnsRemembers
<1>7. CASE Validate(r) BY <1>0, <1>7, ValidateRemembers
<1>8. CASE ResolveDestination(r) BY <1>0, <1>8, ResolveDestinationRemembers
<1>9. CASE RenameFile(r) BY <1>9, RenameFileShape, ReturnsRemembers
<1>10. CASE CopyFile(r) BY <1>10, CopyFileShape, ReturnsRemembers
<1>11. CASE CopyMakesTarget(r) BY <1>0, <1>11, CopyMakesTargetRemembers
<1>12. CASE CopyLists(r) BY <1>0, <1>12, CopyListsRemembers
<1>13. CASE CopyMember(r) BY <1>0, <1>13, CopyMemberRemembers
<1>14. CASE handleFileEntryDelete(r) BY <1>14, DeleteLooksRemembers DEF handleFileEntryDelete
<1>15. CASE handleFileEntriesBatchDelete(r)
  BY <1>15, DeleteLooksRemembers DEF handleFileEntriesBatchDelete
<1>16. CASE DeleteManagerItem(r) BY <1>16, DeleteManagerItemShape, ReturnsRemembers
<1>17. CASE ListPage(r) BY <1>17, ListPageRemembers
<1> QED BY <1>1, <1>2, <1>3, <1>4, <1>5, <1>6, <1>7, <1>8, <1>9, <1>10, <1>11, <1>12, <1>13,
           <1>14, <1>15, <1>16, <1>17 DEF Step

\* The steps of a request that are neither its arrival nor calls of the provider
Jumps(r) ==
    \/ Begin(r) \/ TicketForgotten(r) \/ TicketNotStored(r) \/ Disconnect(r)
    \/ handleFileDownload(r) \/ handleFileArchive(r)

LEMMA JumpFacts ==
    ASSUME Typed, NEW r \in Requests, Jumps(r)
    PROVE  /\ UNCHANGED <<op, mem, tree>> /\ Elsewhere(r) /\ mem'[r] = mem[r]
           /\ \/ phase'[r] \in {"done", "ticket", "stream", "look"}
              \/ phase[r] = "wait" /\ phase'[r] = "inspect"
           /\ answer'[r] \in {"too large", "error", "unavailable", "expired", "gone", answer[r]}
           /\ phase[r] \in Work \cup {"wait", "ticket"} \/ ticket[r] >= 0
<1>1. ASSUME NEW kind, FileTicket(r, kind)
      PROVE  /\ UNCHANGED <<op, mem, tree>> /\ phase[r] = "wait"
             /\ \/ Goto(r, "ticket") /\ UNCHANGED answer
                \/ Goto(r, "done") /\ Reply(r, "too large")
  BY <1>1, Zenon DEF FileTicket, Known
<1>2. ASSUME NEW kind, NEW next, TakeSlot(r, kind, next)
      PROVE  /\ UNCHANGED <<op, mem, tree>> /\ phase[r] = "wait"
             /\ Goto(r, next) /\ UNCHANGED answer
  BY <1>2, Zenon DEF TakeSlot, Known
<1>3. ASSUME NEW kind, UseTicket(r, kind)
      PROVE  /\ UNCHANGED <<op, mem, tree>> /\ ticket[r] >= 0
             /\ \/ Goto(r, "stream") /\ UNCHANGED answer
                \/ Goto(r, "done") /\ Reply(r, "error")
  BY <1>3, Zenon DEF UseTicket, Known
<1>4. ASSUME TicketNotStored(r)
      PROVE  /\ UNCHANGED <<op, mem, tree>> /\ phase[r] = "wait"
             /\ Goto(r, "done") /\ Reply(r, "unavailable")
  BY <1>4, Zenon DEF TicketNotStored
<1>5. ASSUME TicketForgotten(r)
      PROVE  /\ UNCHANGED <<op, mem, tree>> /\ phase[r] = "ticket" /\ Goto(r, "done") /\ Reply(r, "expired")
  BY <1>5, Zenon DEF TicketForgotten, Known
<1>6. ASSUME Disconnect(r)
      PROVE  /\ UNCHANGED <<op, mem, tree>> /\ phase[r] \in Work /\ Goto(r, "done") /\ Reply(r, "gone")
  BY <1>6 DEF Disconnect, Known, Work, Typed
<1>7. /\ UNCHANGED <<op, mem, tree>>
      /\ phase[r] \in Work \cup {"wait", "ticket"} \/ ticket[r] >= 0
      /\ \E p \in {"done", "ticket", "stream", "look", "inspect"} :
           /\ Goto(r, p) /\ (p = "inspect" => phase[r] = "wait")
           /\ \E a \in {"too large", "error", "unavailable", "expired", "gone"} : Reply(r, a) \/ UNCHANGED answer
  BY <1>1, <1>2, <1>3, <1>4, <1>5, <1>6
     DEF Jumps, Begin, handleFileDownloadTicket, handleFileArchiveTicket, handleFileUpload,
         handleFileEntryCopy, handleFileEntriesBatchCopy, handleFileDownload, handleFileArchive
<1>8. PICK p \in {"done", "ticket", "stream", "look", "inspect"} :
        /\ Goto(r, p) /\ (p = "inspect" => phase[r] = "wait")
        /\ \E a \in {"too large", "error", "unavailable", "expired", "gone"} : Reply(r, a) \/ UNCHANGED answer
  BY <1>7
<1>9. PICK a \in {"too large", "error", "unavailable", "expired", "gone"} : Reply(r, a) \/ UNCHANGED answer
  BY <1>8
<1>10. Elsewhere(r) /\ phase'[r] = p /\ mem'[r] = mem[r] /\ answer'[r] \in {a, answer[r]}
  BY <1>7, <1>8, <1>9, JumpElsewhere
<1>11. phase'[r] \in {"done", "ticket", "stream", "look"} \/ (phase[r] = "wait" /\ phase'[r] = "inspect")
  BY <1>8, <1>10
<1>12. answer'[r] \in {"too large", "error", "unavailable", "expired", "gone", answer[r]}
  BY <1>9, <1>10
<1> QED BY <1>7, <1>10, <1>11, <1>12

LEMMA JumpRemembers ==
    ASSUME Typed, NEW r \in Requests, Remembers(r), Jumps(r)
    PROVE  Remembers(r)'
<1>1. CASE phase'[r] \in {"done", "ticket", "stream", "look"}
  BY <1>1, CarelessRemembers DEF Careless
<1>2. CASE phase[r] = "wait" /\ phase'[r] = "inspect"
  BY <1>2, JumpFacts DEF Remembers
<1> QED BY <1>1, <1>2, JumpFacts

LEMMA ArriveRemembers ==
    ASSUME Typed, NEW r \in Requests, Remembers(r), Arrive(r)
    PROVE  Remembers(r)'
<1>1. /\ phase'[r] \in {"done", "wait", "inspect", "delete", "look", "page"}
      /\ mem' = mem /\ phase[r] = "idle"
  BY ArriveFacts
<1> QED BY <1>1 DEF Remembers

\* A request acts
ActsOf(r) == Arrive(r) \/ Jumps(r) \/ Step(r) \/ ProviderFails(r)

LEMMA ActElsewhere ==
    ASSUME Typed, StatusKnown, NEW r \in Requests, ActsOf(r)
    PROVE  Elsewhere(r)
<1>1. CASE Arrive(r) BY <1>1, ArriveFacts DEF Elsewhere
<1>2. CASE Jumps(r) BY <1>2, JumpFacts
<1>3. CASE Step(r) /\ ~ TicketForgotten(r)
  BY <1>3, StepShape, ShapeElsewhere
<1>4. CASE ProviderFails(r)
  BY <1>4, ProviderFailsShape, ShapeElsewhere DEF Proceeds
<1> QED BY <1>1, <1>2, <1>3, <1>4 DEF ActsOf, Jumps

LEMMA ActRemembers ==
    ASSUME Typed, StatusKnown, Remembered, NEW r \in Requests, ActsOf(r)
    PROVE  Remembered'
<1>0. Remembers(r)
  BY DEF Remembered
<1>1. CASE Arrive(r) BY <1>0, <1>1, ArriveRemembers, ActElsewhere, ElsewhereRemembers
<1>2. CASE Jumps(r) BY <1>0, <1>2, JumpRemembers, ActElsewhere, ElsewhereRemembers
<1>3. CASE Step(r) /\ ~ TicketForgotten(r)
  BY <1>3, StepRemembers, ActElsewhere, ElsewhereRemembers
<1>4. CASE ProviderFails(r)
  BY <1>4, ProviderFailsShape, ReturnsRemembers, ActElsewhere, ElsewhereRemembers
<1> QED BY <1>1, <1>2, <1>3, <1>4 DEF ActsOf, Jumps

-----------------------------------------------------------------------------
(* What a step writes to the tree.                                         *)

\* A node of the tree after a step of r: an old one, a directory, or r's upload
NodeOf(r, n) ==
    \/ \E q \in DOMAIN tree : n = tree[q]
    \/ n = Directory
    \/ /\ op[r].kind = "upload" /\ phase[r] # "idle"
       /\ n.by = r /\ (op[r].body = op[r].size => n.whole)

\* A step of r writes such nodes only, and destroys what r may
Allowed(r) ==
    /\ \A p \in DOMAIN tree' : IsPath(p) /\ NodeOf(r, tree'[p])
    /\ \A p \in DOMAIN tree :
         (p \in DOMAIN tree' /\ tree'[p] = tree[p]) \/ (Moved(r) /\ MayDestroy(r, p))

LEMMA SameTree ==
    ASSUME Whole, NEW r \in Requests, tree' = tree
    PROVE  Allowed(r)
BY DEF Allowed, NodeOf, Whole

LEMMA PutAllowed ==
    ASSUME Whole, NEW r \in Requests, NEW p, IsPath(p), NEW n, NodeOf(r, n), tree' = Put(tree, p, n),
           p \in DOMAIN tree => Moved(r) /\ MayDestroy(r, p)
    PROVE  Allowed(r)
<1>1. /\ DOMAIN tree' = DOMAIN tree \cup {p} /\ tree'[p] = n
      /\ \A q \in DOMAIN tree \ {p} : tree'[q] = tree[q]
  BY DEF Put
<1>2. \A q \in DOMAIN tree : IsPath(q) /\ NodeOf(r, tree[q])
  BY DEF Whole, NodeOf
<1>3. \A q \in DOMAIN tree' : IsPath(q) /\ NodeOf(r, tree'[q])
  BY <1>1, <1>2
<1> QED BY <1>1, <1>3 DEF Allowed

LEMMA MadeAllowed ==
    ASSUME Whole, NEW r \in Requests, NEW p, IsPath(p), tree' = Made(p)
    PROVE  Allowed(r)
<1>1. CASE p \in DOMAIN tree
  BY <1>1, SameTree DEF Made
<1>2. CASE p \notin DOMAIN tree
  BY <1>2, PutAllowed DEF Made, NodeOf
<1> QED BY <1>1, <1>2

LEMMA RemovedAllowed ==
    ASSUME Whole, NEW r \in Requests, NEW p, tree' = Removed(p),
           \A q \in DOMAIN tree : IsPrefix(p, q) => Moved(r) /\ MayDestroy(r, q)
    PROVE  Allowed(r)
<1>1. /\ DOMAIN tree' = DOMAIN tree \ Under(p)
      /\ \A q \in DOMAIN tree \ Under(p) : tree'[q] = tree[q]
  BY DEF Removed, Restrict
<1>2. \A q \in DOMAIN tree : q \in Under(p) \/ ~ IsPrefix(p, q)
  BY DEF Under
<1>3. \A q \in DOMAIN tree : IsPath(q) /\ NodeOf(r, tree[q])
  BY DEF Whole, NodeOf
<1>4. \A q \in DOMAIN tree : q \in Under(p) => IsPrefix(p, q)
  BY DEF Under
<1> QED BY <1>1, <1>3, <1>4 DEF Allowed

LEMMA MovedAllowed ==
    ASSUME Whole, NEW r \in Requests, NEW src \in DOMAIN tree, NEW dst, IsPath(dst), tree' = MovedTree(src, dst),
           \A q \in DOMAIN tree : IsPrefix(src, q) \/ IsPrefix(dst, q) => Moved(r) /\ MayDestroy(r, q)
    PROVE  Allowed(r)
<1> DEFINE moved == {Rebased(p, src, dst) : p \in Under(src)}
<1>1. /\ DOMAIN tree' = moved \cup (DOMAIN tree \ Under(src))
      /\ \A q \in moved : tree'[q] = tree[Rebased(q, dst, src)]
      /\ \A q \in (DOMAIN tree \ Under(src)) \ moved : tree'[q] = tree[q]
  BY DEF MovedTree
<1>2. \A q \in DOMAIN tree : IsPath(q) /\ NodeOf(r, tree[q])
  BY DEF Whole, NodeOf
<1>3. ASSUME NEW q \in moved
      PROVE  IsPath(q) /\ IsPrefix(dst, q) /\ Rebased(q, dst, src) \in DOMAIN tree
  <2>1. PICK p \in Under(src) : q = Rebased(p, src, dst)
    OBVIOUS
  <2>2. p \in DOMAIN tree /\ IsPrefix(src, p)
    BY DEF Under
  <2> QED BY <1>2, <2>1, <2>2, RebasedBack
<1> HIDE DEF moved
<1>4. \A q \in DOMAIN tree' : IsPath(q) /\ NodeOf(r, tree'[q])
  <2>1. \A q \in moved : IsPath(q) /\ NodeOf(r, tree'[q])
    BY <1>1, <1>2, <1>3
  <2>2. \A q \in (DOMAIN tree \ Under(src)) \ moved : IsPath(q) /\ NodeOf(r, tree'[q])
    BY <1>1, <1>2
  <2> QED BY <1>1, <2>1, <2>2
<1>5. ASSUME NEW q \in DOMAIN tree, ~ (Moved(r) /\ MayDestroy(r, q))
      PROVE  q \in DOMAIN tree' /\ tree'[q] = tree[q]
  <2>1. ~ IsPrefix(src, q) /\ ~ IsPrefix(dst, q)
    BY <1>5
  <2>2. q \notin Under(src) /\ q \notin moved
    BY <1>3, <2>1 DEF Under
  <2> QED BY <1>1, <2>2
<1> QED BY <1>4, <1>5 DEF Allowed

LEMMA OwnPrefix ==
    ASSUME NEW p, IsPath(p)
    PROVE  IsPrefix(p, p)
BY DEF IsPrefix, IsPath

\* Where a handler has decided to write, it may destroy
LEMMA DecidedMayDestroy ==
    ASSUME NEW r \in Requests, Decided(r), NEW p, IsPrefix(mem[r].final, p)
    PROVE  MayDestroy(r, p)
BY DEF Decided, MayDestroy

LEMMA ReturnsMoved ==
    ASSUME Typed, NEW r \in Requests, phase[r] \in {"rename", "copy", "remove", "walk"},
           Returns(r) \/ Proceeds(r)
    PROVE  Moved(r)
<1>1. CASE Returns(r)
  BY <1>1 DEF Returns, Finish, Goto, Typed, Moved
<1>2. CASE Proceeds(r)
  BY <1>2 DEF Proceeds, Moved
<1> QED BY <1>1, <1>2

LEMMA StreamUploadAllowed ==
    ASSUME Typed, Whole, NEW r \in Requests, Remembers(r), StreamUpload(r)
    PROVE  Allowed(r)
<1> DEFINE o    == op[r]
           node == [dir |-> FALSE, by |-> r, whole |-> o.body = o.size]
<1>1. phase[r] = "send" /\ op[r].kind = "upload"
  BY KindTable DEF StreamUpload, Typed, Phases
<1>2. \/ tree' = Put(tree, mem[r].final, node) /\ Goto(r, "verify")
      \/ tree' = tree
  BY Zenon DEF StreamUpload, Stored
<1>3. CASE tree' = Put(tree, mem[r].final, node) /\ Goto(r, "verify")
  <2>1. Decided(r)
    BY <1>1 DEF Remembers
  <2>2. Moved(r)
    BY <1>1, <1>3 DEF Goto, Typed, Moved
  <2>3. node.by = r /\ (o.body = o.size => node.whole)
    OBVIOUS
  <2>4. NodeOf(r, node)
    <3> HIDE DEF node
    <3> QED BY <1>1, <2>3 DEF NodeOf
  <2>5. MayDestroy(r, mem[r].final) /\ IsPath(mem[r].final)
    BY <2>1, OwnPrefix, DecidedMayDestroy DEF Decided
  <2> HIDE DEF node
  <2> QED BY <1>3, <2>2, <2>4, <2>5, PutAllowed
<1> QED BY <1>2, <1>3, SameTree

LEMMA CreateDirectoryAllowed ==
    ASSUME Typed, Whole, NEW r \in Requests, CreateDirectory(r)
    PROVE  Allowed(r)
<1>1. tree' = Made(Append(op[r].dest, op[r].name)) \/ tree' = tree
  BY Zenon DEF CreateDirectory
<1>2. IsPath(op[r].dest)
  BY DEF CreateDirectory, Typed, IsOp
<1> QED BY <1>1, <1>2, PathAppend, MadeAllowed, SameTree

LEMMA RenameFileAllowed ==
    ASSUME Typed, Whole, NEW r \in Requests, Remembers(r), RenameFile(r)
    PROVE  Allowed(r)
<1>1. phase[r] = "rename" /\ op[r].kind \in {"move", "batch-move"}
  BY KindTable DEF RenameFile, Typed, Phases
<1>2. \/ Item(r) \in DOMAIN tree /\ tree' = MovedTree(Item(r), mem[r].final)
      \/ tree' = tree
  BY Zenon DEF RenameFile, CanRename
<1>3. Moved(r)
  BY <1>1, RenameFileShape, ReturnsMoved
<1>4. Decided(r) /\ IsPath(mem[r].final)
  BY <1>1 DEF Remembers, Decided
<1>5. \A q \in DOMAIN tree : IsPrefix(Item(r), q) \/ IsPrefix(mem[r].final, q) => MayDestroy(r, q)
  BY <1>1, <1>4, DecidedMayDestroy DEF MayDestroy
<1> QED BY <1>2, <1>3, <1>4, <1>5, MovedAllowed, SameTree

LEMMA CopyFileAllowed ==
    ASSUME Typed, Whole, NEW r \in Requests, Remembers(r), CopyFile(r)
    PROVE  Allowed(r)
<1>1. phase[r] = "copy"
  BY DEF CopyFile
<1>2. \/ Item(r) \in DOMAIN tree /\ tree' = Put(tree, mem[r].final, tree[Item(r)])
      \/ tree' = tree
  BY Zenon DEF CopyFile, IsFile, Stored
<1>3. Moved(r)
  BY <1>1, CopyFileShape, ReturnsMoved
<1>4. Decided(r) /\ IsPath(mem[r].final)
  BY <1>1 DEF Remembers, Decided
<1>5. MayDestroy(r, mem[r].final)
  BY <1>4, OwnPrefix, DecidedMayDestroy
<1>6. Item(r) \in DOMAIN tree => NodeOf(r, tree[Item(r)])
  BY DEF NodeOf
<1> QED BY <1>2, <1>3, <1>4, <1>5, <1>6, PutAllowed, SameTree

LEMMA CopyMakesTargetAllowed ==
    ASSUME Typed, Whole, NEW r \in Requests, Remembers(r), CopyMakesTarget(r)
    PROVE  Allowed(r)
<1>1. tree' = Made(mem[r].final) \/ tree' = tree
  BY Zenon DEF CopyMakesTarget
<1>2. IsPath(mem[r].final)
  BY DEF CopyMakesTarget, Remembers, Decided
<1> QED BY <1>1, <1>2, MadeAllowed, SameTree

LEMMA CopyMemberAllowed ==
    ASSUME Typed, Whole, NEW r \in Requests, Remembers(r), CopyMember(r)
    PROVE  Allowed(r)
<1>1. phase[r] = "walk"
  BY DEF CopyMember
<1>2. PICK c \in mem[r].todo :
        \/ tree' = Made(c[2]) \/ tree' = tree
        \/ /\ c[1] \in DOMAIN tree /\ tree' = Put(tree, c[2], tree[c[1]])
           /\ Keep(r, [mem[r] EXCEPT !.todo = @ \ {c}])
  BY Zenon DEF CopyMember, IsFile, Stored
<1>3. Decided(r) /\ IsPath(c[2]) /\ IsPrefix(mem[r].final, c[2])
  BY <1>1 DEF Remembers, Below
<1>4. CASE /\ c[1] \in DOMAIN tree /\ tree' = Put(tree, c[2], tree[c[1]])
           /\ Keep(r, [mem[r] EXCEPT !.todo = @ \ {c}])
  <2>1. mem'[r].todo = mem[r].todo \ {c}
    <3> DEFINE m == [mem[r] EXCEPT !.todo = @ \ {c}]
    <3>1. m.todo = mem[r].todo \ {c}
      BY DEF Typed, IsMem
    <3> HIDE DEF m
    <3>2. mem'[r] = m
      BY <1>4 DEF Keep, Typed, m
    <3> QED BY <3>1, <3>2
  <2>2. Moved(r)
    <3>1. mem'[r] # mem[r]
      BY <2>1
    <3> QED BY <3>1 DEF Moved
  <2>3. MayDestroy(r, c[2])
    BY <1>3, DecidedMayDestroy
  <2>4. NodeOf(r, tree[c[1]])
    BY <1>4 DEF NodeOf
  <2> QED BY <1>3, <1>4, <2>2, <2>3, <2>4, PutAllowed
<1> QED BY <1>2, <1>3, <1>4, MadeAllowed, SameTree

LEMMA DeleteManagerItemAllowed ==
    ASSUME Typed, Whole, NEW r \in Requests, Remembers(r), DeleteManagerItem(r)
    PROVE  Allowed(r)
<1>1. phase[r] = "remove" /\ op[r].kind \in {"delete", "batch-delete"}
  BY KindTable DEF DeleteManagerItem, Typed, Phases
<1>2. tree' = Removed(Item(r)) \/ tree' = tree
  BY Zenon DEF DeleteManagerItem
<1>3. Moved(r)
  BY <1>1, DeleteManagerItemShape, ReturnsMoved
<1>4. op[r].recursive \/ ~ mem[r].dir \/ mem[r].seen = {}
  BY <1>1 DEF Remembers
<1>5. \A q \in DOMAIN tree : IsPrefix(Item(r), q) => MayDestroy(r, q)
  BY <1>1, <1>4 DEF MayDestroy
<1> QED BY <1>2, <1>3, <1>5, RemovedAllowed, SameTree

LEMMA ActAllowed ==
    ASSUME Typed, Whole, NEW r \in Requests, Remembers(r), ActsOf(r)
    PROVE  Allowed(r)
<1>1. CASE Arrive(r) BY <1>1, SameTree DEF Arrive
<1>2. CASE Jumps(r) BY <1>2, JumpFacts, SameTree
<1>3. CASE ProviderFails(r) BY <1>3, SameTree DEF ProviderFails
<1>4. CASE Step(r)
  <2>1. CASE TicketForgotten(r) BY <2>1, SameTree DEF TicketForgotten
  <2>2. CASE StreamUpload(r) BY <2>2, StreamUploadAllowed
  <2>3. CASE CreateDirectory(r) BY <2>3, CreateDirectoryAllowed
  <2>4. CASE RenameFile(r) BY <2>4, RenameFileAllowed
  <2>5. CASE CopyFile(r) BY <2>5, CopyFileAllowed
  <2>6. CASE CopyMakesTarget(r) BY <2>6, CopyMakesTargetAllowed
  <2>7. CASE CopyMember(r) BY <2>7, CopyMemberAllowed
  <2>8. CASE DeleteManagerItem(r) BY <2>8, DeleteManagerItemAllowed
  <2>9. CASE StreamEnds(r) \/ UploadLooks(r) \/ UploadAnswers(r) \/ MkdirLooks(r) \/ Validate(r)
    BY <2>9, SameTree DEF StreamEnds, UploadLooks, UploadAnswers, MkdirLooks, Validate
  <2>10. CASE ResolveDestination(r) \/ CopyLists(r) \/ handleFileEntryDelete(r)
              \/ handleFileEntriesBatchDelete(r) \/ ListPage(r)
    BY <2>10, SameTree DEF ResolveDestination, CopyLists, handleFileEntryDelete,
         handleFileEntriesBatchDelete, DeleteLooks, ListPage
  <2> QED BY <1>4, <2>1, <2>2, <2>3, <2>4, <2>5, <2>6, <2>7, <2>8, <2>9, <2>10 DEF Step
<1> QED BY <1>1, <1>2, <1>3, <1>4 DEF ActsOf

LEMMA ActPhase ==
    ASSUME Typed, StatusKnown, NEW r \in Requests, ActsOf(r)
    PROVE  phase'[r] # "idle" /\ (phase[r] # "idle" => op'[r] = op[r])
<1>1. CASE Arrive(r) BY <1>1, ArriveFacts
<1>2. CASE Jumps(r) BY <1>2, JumpFacts
<1>3. ASSUME Returns(r) \/ GoesOn(r)
      PROVE  phase'[r] # "idle" /\ (phase[r] # "idle" => op'[r] = op[r])
  BY <1>3 DEF Returns, GoesOn, Finish, Goto, Typed, Work
<1>4. CASE Step(r) /\ ~ TicketForgotten(r) BY <1>3, <1>4, StepShape
<1>5. CASE ProviderFails(r) BY <1>3, <1>5, ProviderFailsShape DEF Proceeds
<1> QED BY <1>1, <1>2, <1>4, <1>5 DEF ActsOf, Jumps

LEMMA ActWhole ==
    ASSUME Typed, StatusKnown, Remembered, Whole, NEW r \in Requests, ActsOf(r)
    PROVE  Whole'
<1>1. Elsewhere(r) /\ Allowed(r) /\ phase'[r] # "idle" /\ (phase[r] # "idle" => op'[r] = op[r])
  BY ActElsewhere, ActAllowed, ActPhase DEF Remembered
<1>2. ASSUME NEW p \in DOMAIN tree', NEW s \in Requests, tree'[p].by = s, ~ tree'[p].whole
      PROVE  phase'[s] # "idle" /\ op'[s].kind = "upload" /\ op'[s].body # op'[s].size
  <2>1. NodeOf(r, tree'[p])
    BY <1>1 DEF Allowed
  <2>2. tree'[p] # Directory
    BY <1>2 DEF Directory
  <2>3. phase[s] # "idle" /\ op[s].kind = "upload" /\ op[s].body # op[s].size
    <3>1. CASE \E q \in DOMAIN tree : tree'[p] = tree[q]
      BY <1>2, <3>1 DEF Whole
    <3>2. CASE /\ op[r].kind = "upload" /\ phase[r] # "idle" /\ tree'[p].by = r
               /\ (op[r].body = op[r].size => tree'[p].whole)
      BY <1>2, <3>2
    <3> QED BY <2>1, <2>2, <3>1, <3>2 DEF NodeOf
  <2>4. CASE s = r
    BY <1>1, <2>3, <2>4
  <2>5. CASE s # r
    BY <1>1, <2>3, <2>5 DEF Elsewhere
  <2> QED BY <2>4, <2>5
<1>3. \A p \in DOMAIN tree' : IsPath(p)
  BY <1>1 DEF Allowed
<1> QED BY <1>2, <1>3 DEF Whole

\* Verify accepts a body of the declared size only
LEMMA VerifyIsExact ==
    ASSUME NEW o, o.size \in Nat, o.body \in Nat, Verify(o, BytesRead(o))
    PROVE  o.body = o.size
BY DEF Verify, BytesRead

LEMMA FinishAnswers ==
    ASSUME Typed, NEW r \in Requests, NEW a, Finish(r, a)
    PROVE  answer'[r] = a
BY DEF Finish, Reply, Typed

LEMMA UploadAnswersExact ==
    ASSUME Typed, NEW r \in Requests, Remembers(r), UploadAnswers(r), answer'[r] \in {"uploaded", "renamed"}
    PROVE  op[r].body = op[r].size
<1> DEFINE t == [done |-> "uploaded", renamed |-> "renamed", skipped |-> "skipped"]
           v == Verify(op[r], mem[r].read)
<1>1. phase[r] = "verify" /\ Finish(r, IF v THEN t[mem[r].status] ELSE "mismatch")
  BY DEF UploadAnswers
<1>2. answer'[r] = IF v THEN t[mem[r].status] ELSE "mismatch"
  BY <1>1, FinishAnswers
<1>3. v /\ mem[r].status # "skipped"
  BY <1>2
<1>4. mem[r].read = BytesRead(op[r])
  BY <1>1, <1>3 DEF Remembers
<1>5. op[r].size \in Nat /\ op[r].body \in Nat
  BY <1>1 DEF Typed, IsOp
<1> QED BY <1>3, <1>4, <1>5, VerifyIsExact

\* Nothing else that ends an upload says that it is stored
LEMMA UploadEnds ==
    ASSUME Typed, NEW r \in Requests, Remembers(r), Step(r) \/ ProviderFails(r),
           phase'[r] = "done", op[r].kind = "upload", answer'[r] \in {"uploaded", "renamed"},
           ~ TicketForgotten(r)
    PROVE  op[r].body = op[r].size
<1>1. phase[r] # "idle" => phase[r] \in {"wait", "look", "send", "verify", "done"}
  <2>1. op[r].kind \in KindsIn(phase[r]) \/ phase[r] = "idle"
    BY DEF Typed
  <2>2. phase[r] \in Phases
    BY DEF Typed
  <2> QED BY <2>1, <2>2, KindTable DEF Phases, Mutations
<1>2. CASE UploadAnswers(r) BY <1>2, UploadAnswersExact
<1>3. CASE UploadLooks(r)
  <2>1. \/ Finish(r, IF IsDir(op[r].dest) THEN "conflict" ELSE "error")
        \/ \E p \in {"verify", "send"} : Goto(r, p)
    BY <1>3, Zenon DEF UploadLooks
  <2>2. Finish(r, IF IsDir(op[r].dest) THEN "conflict" ELSE "error")
    BY <2>1 DEF Goto, Typed
  <2> QED BY <2>2, FinishAnswers
<1>4. CASE StreamUpload(r)
  <2>1. \/ Finish(r, IF op[r].body # op[r].size THEN "mismatch" ELSE "error")
        \/ Goto(r, "verify")
    BY <1>4, Zenon DEF StreamUpload
  <2>2. Finish(r, IF op[r].body # op[r].size THEN "mismatch" ELSE "error")
    BY <2>1 DEF Goto, Typed
  <2> QED BY <2>2, FinishAnswers
<1>5. CASE ProviderFails(r)
  BY <1>5, FinishAnswers DEF ProviderFails
<1>6. CASE MkdirLooks(r) BY <1>6 DEF MkdirLooks
<1>7. CASE StreamEnds(r) \/ CreateDirectory(r) \/ Validate(r) \/ ResolveDestination(r)
           \/ RenameFile(r) \/ CopyFile(r)
  BY <1>1, <1>7 DEF StreamEnds, CreateDirectory, Validate, ResolveDestination, RenameFile, CopyFile
<1>8. CASE CopyMakesTarget(r) \/ CopyLists(r) \/ CopyMember(r) \/ DeleteManagerItem(r) \/ ListPage(r)
  BY <1>1, <1>8 DEF CopyMakesTarget, CopyLists, CopyMember, DeleteManagerItem, ListPage
<1>9. CASE handleFileEntryDelete(r) \/ handleFileEntriesBatchDelete(r)
  BY <1>9 DEF handleFileEntryDelete, handleFileEntriesBatchDelete, DeleteLooks
<1> QED BY <1>2, <1>3, <1>4, <1>5, <1>6, <1>7, <1>8, <1>9 DEF Step

LEMMA ActAccepted ==
    ASSUME Typed, TicketsOut, StatusKnown, Remembered, Accepted, NEW r \in Requests, ActsOf(r)
    PROVE  Accepted'
<1>1. Elsewhere(r) /\ Remembers(r)
  BY ActElsewhere DEF Remembered
<1>2. ASSUME answer'[r] \in {"uploaded", "renamed"}
      PROVE  phase'[r] = "done" /\ (op'[r].kind = "upload" => op'[r].body = op'[r].size)
  <2>1. phase[r] # "done" => answer[r] \notin {"uploaded", "renamed"}
    BY DEF Accepted
  <2>2. CASE Arrive(r)
    BY <1>2, <2>1, <2>2, ArriveFacts
  <2>3. CASE Jumps(r)
    <3>1. phase[r] # "done"
      BY <2>3, JumpFacts DEF TicketsOut, Work
    <3> QED BY <1>2, <2>1, <2>3, <3>1, JumpFacts
  <2>4. CASE GoesOn(r)
    BY <1>2, <2>1, <2>4 DEF GoesOn, Work
  <2>5. CASE Returns(r) /\ (Step(r) \/ ProviderFails(r)) /\ ~ TicketForgotten(r)
    <3>1. phase'[r] = "done" /\ op' = op
      BY <2>5 DEF Returns, Finish, Goto, Typed
    <3> QED BY <1>1, <1>2, <2>5, <3>1, UploadEnds
  <2> QED BY <2>2, <2>3, <2>4, <2>5, StepShape, ProviderFailsShape DEF ActsOf, Jumps, Proceeds
<1>3. ASSUME NEW s \in Requests \ {r}, answer'[s] \in {"uploaded", "renamed"}
      PROVE  phase'[s] = "done" /\ (op'[s].kind = "upload" => op'[s].body = op'[s].size)
  BY <1>1, <1>3 DEF Elsewhere, Accepted
<1> QED BY <1>2, <1>3 DEF Accepted

-----------------------------------------------------------------------------
(* The theorems.                                                           *)

Inv == StreamInv /\ FileInv

LEMMA RememberedStatus ==
    ASSUME Remembered
    PROVE  StatusKnown
BY DEF Remembered, Remembers, StatusKnown

LEMMA FilesInit ==
    ASSUME Init
    PROVE  Inv
<1>1. StreamInv
  BY SlotsInit
<1>2. /\ \A r \in Requests : phase[r] = "idle" /\ mem[r] = NoMem /\ answer[r] = "none"
      /\ tree \in InitialTrees
  BY DEF Init
<1>3. Remembered
  BY <1>2 DEF Remembered, Remembers, NoMem
<1>4. Whole
  BY <1>2, TreesAssumption DEF Whole
<1>5. Accepted
  BY <1>2 DEF Accepted
<1> QED BY <1>1, <1>3, <1>4, <1>5 DEF Inv, FileInv, StreamInv

\* A step is one of a request, or leaves requests and tree alone
LEMMA NextIs ==
    ASSUME [Next]_vars
    PROVE  (\E r \in Requests : ActsOf(r)) \/ UNCHANGED <<tree, local>>
<1>1. CASE UNCHANGED vars
  BY <1>1 DEF vars
<1>2. ASSUME NEW r \in Requests,
             \/ Arrive(r) \/ Begin(r) \/ Step(r)
             \/ handleFileDownload(r) \/ handleFileArchive(r)
             \/ TicketNotStored(r) \/ ProviderFails(r) \/ Disconnect(r)
      PROVE  ActsOf(r)
  BY <1>2 DEF ActsOf, Jumps
<1>3. ASSUME NEW s \in StreamIds, RenewLease(s) \/ StopRenewal(s) \/ LoseRenewal(s)
      PROVE  UNCHANGED <<tree, local>>
  BY <1>3 DEF RenewLease, StopRenewal, LoseRenewal, Outside
<1>4. ASSUME NEW k \in Kinds, SlotExpires(k)
      PROVE  UNCHANGED <<tree, local>>
  BY <1>4 DEF SlotExpires, Outside
<1>5. CASE PeriodPasses BY <1>5 DEF PeriodPasses, Outside
<1> QED BY <1>1, <1>2, <1>3, <1>4, <1>5 DEF Next

LEMMA FilesStep ==
    ASSUME Inv, [Next]_vars
    PROVE  Inv'
<1>0. Typed /\ TicketsOut /\ StreamInv /\ Remembered /\ Whole /\ Accepted /\ StatusKnown
  BY RememberedStatus DEF Inv, StreamInv, FileInv
<1>1. StreamInv'
  BY <1>0, StreamInvStep
<1>2. ASSUME NEW r \in Requests, ActsOf(r)
      PROVE  Remembered' /\ Whole' /\ Accepted'
  BY <1>0, <1>2, ActRemembers, ActWhole, ActAccepted
<1>3. ASSUME UNCHANGED <<tree, local>> PROVE Remembered' /\ Whole' /\ Accepted'
  <2>1. op' = op /\ phase' = phase /\ answer' = answer /\ mem' = mem /\ tree' = tree
    BY <1>3 DEF local
  <2>2. Remembered'
    BY <1>0, <2>1, SameRemembers DEF Remembered
  <2>3. Whole' /\ Accepted'
    BY <1>0, <2>1 DEF Whole, Accepted
  <2> QED BY <2>2, <2>3
<1>4. Remembered' /\ Whole' /\ Accepted'
  BY <1>2, <1>3, NextIs
<1> QED BY <1>1, <1>4 DEF Inv, FileInv, StreamInv

\* Every state the file manager reaches satisfies the two invariants
THEOREM FilesInv == Spec => []Inv
<1>1. Init => Inv
  BY FilesInit
<1>2. Inv /\ [Next]_vars => Inv'
  BY FilesStep
<1> QED BY <1>1, <1>2, PTL DEF Spec

\* However requests, renewals, expiries, tickets and clients that go away
\* interleave: no more live slots than allowed, a running stream is without its
\* own only after a failed renewal or a ticket that shortened the key, and a
\* slot that was given back stays given back (acquireFileStream,
\* renewFileStreamLease, handleFileDownload)
THEOREM StreamsStayLimited == Spec => []StreamsAreLimited
<1>1. Inv => StreamsAreLimited
  BY SlotsAreLimited DEF Inv
<1> QED BY <1>1, FilesInv, PTL

\* An upload the client was told succeeded is whole wherever its bytes are
\* by now, copies and moves by others included (ExactSizeReader, Verify)
THEOREM AcceptedUploadsAreWhole == Spec => []AcceptedUploadIsWhole
<1>1. Inv => AcceptedUploadIsWhole
  BY DEF Inv, FileInv, Whole, Accepted, AcceptedUploadIsWhole
<1> QED BY <1>1, FilesInv, PTL

LEMMA StepDestroys ==
    ASSUME Inv, [Next]_vars, NEW p \in DOMAIN tree, p \in DOMAIN tree' => tree'[p] # tree[p]
    PROVE  \E r \in Requests : Moved(r) /\ MayDestroy(r, p)
<1>1. Typed /\ Whole /\ Remembered
  BY DEF Inv, FileInv
<1>2. CASE UNCHANGED <<tree, local>>
  BY <1>2
<1>3. ASSUME NEW r \in Requests, ActsOf(r)
      PROVE  Moved(r) /\ MayDestroy(r, p)
  <2>1. Allowed(r)
    BY <1>1, <1>3, ActAllowed DEF Remembered
  <2> QED BY <2>1 DEF Allowed
<1> QED BY <1>2, <1>3, NextIs

\* No request destroys what was there when it looked unless it was asked to,
\* whatever other requests do between its look and its write
\* (resolveDestination, uploadLegacyManager, deleteManagerPathItem)
THEOREM OnlyAskedIsDestroyed == Spec => OnlyWhatWasAsked
<1>1. Inv /\ [Next]_vars =>
        [\A p \in DOMAIN tree :
            ~ tree[p].dir /\ (p \in DOMAIN tree' => tree'[p] # tree[p])
              => \E r \in Requests : Moved(r) /\ MayDestroy(r, p)]_vars
  BY StepDestroys
<1> QED BY <1>1, FilesInv, PTL DEF Spec, OnlyWhatWasAsked
====

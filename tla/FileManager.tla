----------------------------- MODULE FileManager -----------------------------
(***************************************************************************)
(* The file-manager API on one path-backed profile: listing in pages,      *)
(* downloads and archives by ticket, uploads, new directories, deletion,   *)
(* rename, move and copy, singly and in batches.                           *)
(*                                                                         *)
(* The tree of the provider maps paths (sequences of names) to nodes; the  *)
(* root is always there.  A name is a sequence, so that "f (1)" is the     *)
(* name of f with the number 1 appended.  A call of the provider is one    *)
(* step, and other requests act between the calls.  Sealed references,     *)
(* capabilities and rate limits decide whether a request begins at all and *)
(* are left to the set of operations the client may ask for.               *)
(***************************************************************************)
EXTENDS FileStreams, Sequences, SequencesExt

CONSTANTS
    Operations(_),  \* what a request may ask for
    InitialTrees,
    PageSize,
    MaxSuffix,      \* numbers tried by RENAME (100 in the code)
    MaxArchive,     \* fileArchiveMaximumFiles
    MaxFaults       \* bound: provider errors

VARIABLES
    tree,      \* the provider: path -> [dir, by, whole]
    op,        \* what a request asks for
    phase,     \* where its handler is
    mem,       \* what its handler remembers from call to call
    answer,    \* what the client was told
    faults

local == <<op, phase, mem, answer>>
vars  == <<streams, tree, local, faults>>

Root   == <<>>
Mutations == {"move", "copy", "batch-move", "batch-copy"}
OpKinds   == Mutations \cup {"download", "archive", "upload", "mkdir", "list",
                             "delete", "batch-delete"}

\* A path is a sequence, whatever its names are.
IsPath(p) == p \in Seq(ToSet(p))

ASSUME OperationsAssumption ==
    \A r \in Requests : \A o \in Operations(r) :
        /\ DOMAIN o = {"kind", "items", "dirs", "dest", "name", "strategy", "recursive",
                       "size", "body"}
        /\ o.kind \in OpKinds /\ IsPath(o.dest)
        /\ o.size \in Nat /\ o.body \in Nat

ASSUME SuffixAssumption == MaxSuffix \in Nat

\* Whatever the user had before is whole.
ASSUME TreesAssumption ==
    \A t \in InitialTrees : \A p \in DOMAIN t : IsPath(p) /\ t[p].whole

NoOp  == [kind |-> "none"]
NoMem == [at |-> 1, dir |-> FALSE, seen |-> {}, final |-> Root, status |-> "none",
          read |-> 0, queue |-> <<>>, todo |-> {}, results |-> <<>>,
          page |-> <<>>, print |-> <<>>]

Init ==
    /\ StreamsInit
    /\ tree \in InitialTrees
    /\ op = [r \in Requests |-> NoOp]
    /\ phase = [r \in Requests |-> "idle"]
    /\ mem = [r \in Requests |-> NoMem]
    /\ answer = [r \in Requests |-> "none"]
    /\ faults = 0

-----------------------------------------------------------------------------
(* The provider.                                                           *)

Exists(p)   == p = Root \/ p \in DOMAIN tree
IsDir(p)    == p = Root \/ (p \in DOMAIN tree /\ tree[p].dir)
Under(p)    == {q \in DOMAIN tree : IsPrefix(p, q)}
Children(p) == {q \in Under(p) : Len(q) = Len(p) + 1}
Directory   == [dir |-> TRUE, by |-> "dir", whole |-> TRUE]

CanStore(p)  == IsDir(Front(p)) /\ ~ IsDir(p)
Stored(p, n) == Put(tree, p, n)
CanMake(p)   == IsDir(Front(p)) /\ (Exists(p) => IsDir(p))
Made(p)      == IF p \in DOMAIN tree THEN tree ELSE Put(tree, p, Directory)
Removed(p)   == Restrict(tree, DOMAIN tree \ Under(p))

(* RenameFile replaces a file but not a directory.                         *)
CanRename(src, dst) ==
    /\ src \in DOMAIN tree /\ IsDir(Front(dst)) /\ ~ IsPrefix(src, dst)
    /\ ~ IsDir(dst) /\ (tree[src].dir => ~ Exists(dst))
Rebased(p, src, dst) == dst \o SubSeq(p, Len(src) + 1, Len(p))
MovedTree(src, dst) ==
    LET moved == {Rebased(p, src, dst) : p \in Under(src)}
    IN  [q \in moved \cup (DOMAIN tree \ Under(src)) |->
           IF q \in moved THEN tree[Rebased(q, dst, src)] ELSE tree[q]]

-----------------------------------------------------------------------------
Goto(r, p)     == phase' = [phase EXCEPT ![r] = p]
Keep(r, m)     == mem' = [mem EXCEPT ![r] = m]
Reply(r, a)    == answer' = [answer EXCEPT ![r] = a]
NoStream       == UNCHANGED streams
Known          == UNCHANGED <<op, faults>>

SlotKind(r) ==
    CASE r \in Abandoned -> "download"
      [] op[r].kind = "copy" -> "mutation"
      [] op[r].kind = "batch-copy" -> "batch-mutation"
      [] OTHER -> op[r].kind

HasSlot(r) == SlotKind(r) \in Kinds

(* Only these three start renewFileStreamLease; archives and batches do    *)
(* not.                                                                    *)
RenewedKinds == {"download", "upload", "mutation"}

Start(k) ==
    CASE k \in {"download", "archive", "upload", "copy", "batch-copy"} -> "wait"
      [] k \in {"move", "batch-move"} -> "inspect"
      [] k \in {"delete", "batch-delete"} -> "delete"
      [] k = "mkdir" -> "look"
      [] k = "list" -> "page"

(* The client calls; a batch is normalised when its references are opened. *)
ByDepth(items) == SortSeq(items, LAMBDA p, q : Len(p) < Len(q))

(* openBatchReferences, normalizeBatchReferences: duplicates are refused,  *)
(* descendants of a selected directory are dropped.                        *)
WellFormed(items) == items # <<>> /\ IsInjective(items)
Normalized(items, dirs) ==
    FoldLeft(LAMBDA kept, p :
               IF \E i \in DOMAIN kept : kept[i] \in dirs /\ IsStrictPrefix(kept[i], p)
                 THEN kept
               ELSE Append(kept, p), <<>>, ByDepth(items))

(* The checks a handler makes before it calls the provider: no root, and   *)
(* for a batch no directory into itself.                                   *)
Refused(o) ==
    \/ ~ WellFormed(o.items)
    \/ o.kind # "list" /\ o.kind # "upload" /\ o.kind # "mkdir"
         /\ Root \in ToSet(o.items)
    \/ o.kind \in {"batch-move", "batch-copy"}
         /\ \E p \in ToSet(o.items) \cap o.dirs : IsPrefix(p, o.dest)

Arrive(r) ==
    /\ phase[r] = "idle"
    /\ \E o \in Operations(r) :
         /\ op' = [op EXCEPT ![r] = [o EXCEPT !.items = Normalized(@, o.dirs)]]
         /\ IF Refused(o) THEN Goto(r, "done") /\ Reply(r, "refused")
            ELSE Goto(r, Start(o.kind)) /\ UNCHANGED answer
    /\ NoStream /\ UNCHANGED <<tree, mem, faults>>

(* The handler returns: the renewer is stopped, then the slot released.    *)
Finish(r, a) ==
    /\ Goto(r, "done") /\ Reply(r, a)
    /\ IF HasSlot(r)
         THEN /\ zset' = Released(SlotKind(r), r)
              /\ active' = [active EXCEPT ![r] = 0]
              /\ UNCHANGED <<ticket, due, exposed>>
       ELSE NoStream

(* ... but ZREM runs under the context of the request: after the client    *)
(* has gone away, or the process, the slot is left to its expiry.          *)
Disconnect(r) ==
    /\ phase[r] \notin {"idle", "wait", "ticket", "done"}
    /\ Goto(r, "done") /\ Reply(r, "gone")
    /\ active' = [active EXCEPT ![r] = 0]
    /\ UNCHANGED <<zset, ticket, due, exposed, tree, mem>> /\ Known

-----------------------------------------------------------------------------
(* Downloads and archives.                                                 *)

(* planFileArchive: every file below the selected items.                   *)
planFileArchive(items) ==
    {p \in UNION {Under(items[i]) : i \in DOMAIN items} : ~ tree[p].dir}

PlanFits(r) ==
    op[r].kind = "archive" => Cardinality(planFileArchive(op[r].items)) =< MaxArchive

(* A request that finds every slot taken is told so and tries again.       *)
FileTicket(r, kind) ==
    /\ phase[r] = "wait" /\ op[r].kind = kind
    /\ UNCHANGED <<active, due, tree, mem>> /\ Known
    /\ IF PlanFits(r)
         THEN /\ acquireFileStream(kind, r, TicketTTL) /\ Shortens(kind)
              /\ ticket' = [ticket EXCEPT ![r] = TicketTTL]
              /\ Goto(r, "ticket") /\ UNCHANGED answer
       ELSE /\ Goto(r, "done") /\ Reply(r, "too large")
            /\ UNCHANGED <<zset, ticket, exposed>>

handleFileDownloadTicket(r) == FileTicket(r, "download")
handleFileArchiveTicket(r)  == FileTicket(r, "archive")

(* The slot is taken, then the ticket cannot be stored: the slot is given  *)
(* back, unless Redis is still away; the key has been shortened.           *)
TicketNotStored(r) ==
    /\ phase[r] = "wait" /\ op[r].kind \in {"download", "archive"}
    /\ HasRoom(op[r].kind) /\ PlanFits(r)
    /\ faults < MaxFaults /\ faults' = faults + 1
    /\ LET k     == op[r].kind
           taken == Added(k, r, TicketTTL)
       IN  zset' \in {taken, [taken EXCEPT ![k] = Without(@, r)]} /\ Shortens(k)
    /\ Goto(r, "done") /\ Reply(r, "unavailable")
    /\ UNCHANGED <<ticket, active, due, tree, op, mem>>

(* GETDEL                                                                  *)
GetDelTicket(r) == ticket' = [ticket EXCEPT ![r] = -1]

(* handleFileDownload, handleFileArchive, called with the ticket: the slot *)
(* of the ticket becomes that of the stream, unless it has expired first.  *)
UseTicket(r, kind) ==
    /\ ticket[r] >= 0 /\ op[r].kind = kind /\ active[r] < 2
    /\ GetDelTicket(r)
    /\ UNCHANGED <<due, tree, mem>> /\ Known
    /\ IF Renewable(kind, r) /\ PlanFits(r)
         THEN /\ zset' = Renewed(kind, r) /\ exposed' = exposed \ {r}
              /\ active' = [active EXCEPT ![r] = @ + 1]
              /\ Goto(r, "stream") /\ UNCHANGED answer
       ELSE /\ zset' = Released(kind, r)
            /\ Goto(r, "done") /\ Reply(r, "error")
            /\ UNCHANGED <<active, exposed>>

handleFileDownload(r) == UseTicket(r, "download")
handleFileArchive(r)  == UseTicket(r, "archive")

StreamEnds(r) ==
    /\ phase[r] = "stream"
    /\ Finish(r, "streamed")
    /\ UNCHANGED <<tree, mem>> /\ Known

(* The ticket was never used.                                              *)
TicketForgotten(r) ==
    /\ phase[r] = "ticket" /\ TicketExpires(r)
    /\ Goto(r, "done") /\ Reply(r, "expired")
    /\ UNCHANGED <<tree, mem>> /\ Known

-----------------------------------------------------------------------------
(* Uploads and streamed copies take their slot when they begin.            *)
TakeSlot(r, kind, next) ==
    /\ phase[r] = "wait" /\ op[r].kind = kind
    /\ acquireFileStream(SlotKind(r), r, Lease)
    /\ active' = [active EXCEPT ![r] = 1]
    /\ Goto(r, next)
    /\ exposed' = exposed \ {r}
    /\ UNCHANGED <<ticket, due, tree, mem, answer>> /\ Known

handleFileUpload(r)        == TakeSlot(r, "upload", "look")
handleFileEntryCopy(r)     == TakeSlot(r, "copy", "inspect")
handleFileEntriesBatchCopy(r) == TakeSlot(r, "batch-copy", "inspect")

(* resolveDestination and uploadLegacyManager decide alike from a listing: *)
(* the path to write to, and what the client is told; for a mutation the   *)
(* conflict is reported unless the client names a strategy.                *)
FirstSuffixUnchecked(path, names) ==
    Append(Front(path), Append(Last(path), 1))

FirstSuffix(path, names) ==
    LET name == Last(path)
        free == {n \in 1 .. MaxSuffix : Append(Front(path), Append(name, n)) \notin names}
    IN  IF free = {} THEN Root
        ELSE Append(Front(path), Append(name, CHOOSE n \in free : \A m \in free : n =< m))

Resolved(path, names, strategy, dirs) ==
    IF path \notin names THEN [to |-> path, status |-> "done"]
    ELSE CASE strategy = "SKIP"      -> [to |-> path, status |-> "skipped"]
           [] strategy = "RENAME"    -> IF FirstSuffix(path, names) = Root
                                          THEN [to |-> path, status |-> "conflict"]
                                        ELSE [to |-> FirstSuffix(path, names),
                                              status |-> "renamed"]
           [] strategy = "OVERWRITE" -> [to |-> path, status |->
                                           IF dirs THEN "conflict" ELSE "done"]
           [] OTHER                  -> [to |-> path, status |-> "conflict"]

(* uploadLegacyManager: list the parent and decide ...                     *)
UploadLooks(r) ==
    /\ phase[r] = "look" /\ op[r].kind = "upload"
    /\ LET path == Append(op[r].dest, op[r].name)
           d    == Resolved(path, Children(op[r].dest), op[r].strategy, IsDir(path))
       IN  IF ~ IsDir(op[r].dest) \/ d.status = "conflict"
             THEN /\ Finish(r, IF IsDir(op[r].dest) THEN "conflict" ELSE "error")
                  /\ UNCHANGED mem
           ELSE /\ Keep(r, [mem[r] EXCEPT !.seen = Children(op[r].dest), !.final = d.to,
                                          !.status = d.status])
                /\ Goto(r, IF d.status = "skipped" THEN "verify" ELSE "send")
                /\ NoStream /\ UNCHANGED answer
    /\ UNCHANGED tree /\ Known

(* ExactSizeReader.Read yields at most the declared size.                  *)
BytesRead(o) == IF o.body < o.size THEN o.body ELSE o.size

(* ... and stream the body through it: a provider that asks for more at    *)
(* the end meets checkTrailing and fails, one that does not ask, or takes  *)
(* a short body for the whole, has stored what it got.                     *)
StreamUpload(r) ==
    /\ phase[r] = "send"
    /\ LET o    == op[r]
           node == [dir |-> FALSE, by |-> r, whole |-> o.body = o.size]
       IN  \/ /\ CanStore(mem[r].final)
              /\ tree' = Stored(mem[r].final, node)
              /\ Keep(r, [mem[r] EXCEPT !.read = BytesRead(o)])
              /\ Goto(r, "verify") /\ NoStream /\ UNCHANGED answer
           \/ /\ ~ CanStore(mem[r].final) \/ o.body # o.size
              /\ Finish(r, IF o.body # o.size THEN "mismatch" ELSE "error")
              /\ UNCHANGED <<tree, mem>>
    /\ Known

VerifyTrailingOnly(o, read) == o.body =< o.size

(* Verify: everything declared was read, and nothing is left.              *)
Verify(o, read) == read = o.size /\ o.body =< o.size

(* handleFileUpload calls it whatever the uploader returned without error. *)
UploadAnswers(r) ==
    /\ phase[r] = "verify"
    /\ Finish(r, IF Verify(op[r], mem[r].read)
                   THEN [done |-> "uploaded", renamed |-> "renamed",
                         skipped |-> "skipped"][mem[r].status]
                 ELSE "mismatch")
    /\ UNCHANGED <<tree, mem>> /\ Known

-----------------------------------------------------------------------------
(* createDirectoryLegacyManager: list the parent, then create.             *)
MkdirLooks(r) ==
    /\ phase[r] = "look" /\ op[r].kind = "mkdir"
    /\ IF ~ IsDir(op[r].dest) \/ Append(op[r].dest, op[r].name) \in Children(op[r].dest)
         THEN Finish(r, IF IsDir(op[r].dest) THEN "conflict" ELSE "error")
       ELSE Goto(r, "mkdir") /\ NoStream /\ UNCHANGED answer
    /\ UNCHANGED <<tree, mem>> /\ Known

CreateDirectory(r) ==
    /\ phase[r] = "mkdir"
    /\ LET p == Append(op[r].dest, op[r].name)
       IN  IF CanMake(p) THEN tree' = Made(p) /\ Finish(r, "created")
           ELSE Finish(r, "error") /\ UNCHANGED tree
    /\ UNCHANGED mem /\ Known

-----------------------------------------------------------------------------
(* Rename, move, copy and delete go through their items one by one; the    *)
(* operations on a single item are batches of one.                         *)
Item(r)   == op[r].items[mem[r].at]
Single(r) == op[r].kind \in {"move", "copy", "delete"}
Target(r) == Append(op[r].dest, IF op[r].name = <<>> THEN Last(Item(r)) ELSE op[r].name)

ReplyFor(r, result) == IF Single(r) THEN result ELSE "results"

(* One result per item of a batch; a single request answers with it.       *)
ItemEnds(r, result) ==
    LET results == Append(mem[r].results, result)
    IN  IF Single(r) \/ mem[r].at = Len(op[r].items)
          THEN /\ Keep(r, [mem[r] EXCEPT !.results = results])
               /\ Finish(r, ReplyFor(r, result))
        ELSE /\ Keep(r, [NoMem EXCEPT !.at = mem[r].at + 1, !.results = results])
             /\ Goto(r, IF op[r].kind = "batch-delete" THEN "delete" ELSE "inspect")
             /\ NoStream /\ UNCHANGED answer

(* PathManagerMutator.validate                                             *)
Invalid(src, dest) ==
    \/ ~ Exists(src) \/ ~ IsDir(dest)
    \/ tree[src].dir /\ IsPrefix(src, dest)

Validate(r) ==
    /\ phase[r] = "inspect"
    /\ IF Invalid(Item(r), op[r].dest) THEN ItemEnds(r, "failed")
       ELSE /\ Keep(r, [mem[r] EXCEPT !.dir = tree[Item(r)].dir])
            /\ Goto(r, "resolve") /\ NoStream /\ UNCHANGED answer
    /\ UNCHANGED tree /\ Known

(* resolveDestination lists the destination                                *)
ResolveDestination(r) ==
    /\ phase[r] = "resolve"
    /\ LET d == Resolved(Target(r), Children(op[r].dest), op[r].strategy,
                         IsDir(Target(r)) \/ mem[r].dir)
           moves == op[r].kind \in {"move", "batch-move"}
       IN  IF d.status \in {"skipped", "conflict"} THEN ItemEnds(r, d.status)
           ELSE IF moves /\ d.to = Item(r) THEN ItemEnds(r, "failed")
           ELSE /\ Keep(r, [mem[r] EXCEPT !.seen = Children(op[r].dest),
                                          !.final = d.to, !.status = d.status])
                /\ Goto(r, IF moves THEN "rename"
                           ELSE IF mem[r].dir THEN "make" ELSE "copy")
                /\ NoStream /\ UNCHANGED answer
    /\ UNCHANGED tree /\ Known

RenameFile(r) ==
    /\ phase[r] = "rename"
    /\ IF CanRename(Item(r), mem[r].final)
         THEN tree' = MovedTree(Item(r), mem[r].final) /\ ItemEnds(r, mem[r].status)
       ELSE ItemEnds(r, "failed") /\ UNCHANGED tree
    /\ Known

IsFile(p) == p \in DOMAIN tree /\ ~ tree[p].dir

CopyFile(r) ==
    /\ phase[r] = "copy"
    /\ IF IsFile(Item(r)) /\ CanStore(mem[r].final)
         THEN tree' = Stored(mem[r].final, tree[Item(r)]) /\ ItemEnds(r, mem[r].status)
       ELSE ItemEnds(r, "failed") /\ UNCHANGED tree
    /\ Known

(* copyDirectory: the target first, then breadth first, one listing and    *)
(* one member at a time; any failure leaves a part behind.                 *)
CopyMakesTarget(r) ==
    /\ phase[r] = "make"
    /\ IF CanMake(mem[r].final)
         THEN /\ tree' = Made(mem[r].final)
              /\ Keep(r, [mem[r] EXCEPT !.queue = <<<<Item(r), mem[r].final>>>>])
              /\ Goto(r, "walk") /\ NoStream /\ UNCHANGED answer
       ELSE ItemEnds(r, "partial") /\ UNCHANGED tree
    /\ Known

CopyLists(r) ==
    /\ phase[r] = "walk" /\ mem[r].todo = {}
    /\ IF mem[r].queue = <<>> THEN ItemEnds(r, mem[r].status)
       ELSE LET d == Head(mem[r].queue)
            IN  IF IsDir(d[1])
                  THEN /\ Keep(r, [mem[r] EXCEPT
                              !.queue = Tail(@),
                              !.todo = {<<c, Append(d[2], Last(c)), tree[c].dir>> :
                                          c \in Children(d[1])}])
                       /\ UNCHANGED phase /\ NoStream /\ UNCHANGED answer
                ELSE ItemEnds(r, "partial")
    /\ UNCHANGED tree /\ Known

CopyMember(r) ==
    /\ phase[r] = "walk"
    /\ \E c \in mem[r].todo :
         LET rest == [mem[r] EXCEPT !.todo = @ \ {c}]
             more == /\ UNCHANGED phase /\ NoStream /\ UNCHANGED answer
         IN  IF c[3] /\ CanMake(c[2])
               THEN /\ tree' = Made(c[2]) /\ more
                    /\ Keep(r, [rest EXCEPT !.queue = Append(@, <<c[1], c[2]>>)])
             ELSE IF ~ c[3] /\ IsFile(c[1]) /\ CanStore(c[2])
               THEN tree' = Stored(c[2], tree[c[1]]) /\ Keep(r, rest) /\ more
             ELSE ItemEnds(r, "partial") /\ UNCHANGED tree
    /\ Known

(* deleteManagerPathItem: look first ...                                   *)
DeleteLooks(r, kind) ==
    /\ phase[r] = "delete" /\ op[r].kind = kind
    /\ LET p == Item(r)
       IN  IF ~ Exists(p) \/ (tree[p].dir /\ ~ op[r].recursive /\ Children(p) # {})
             THEN ItemEnds(r, "failed")
           ELSE /\ Keep(r, [mem[r] EXCEPT !.dir = tree[p].dir, !.seen = Children(p)])
                /\ Goto(r, "remove") /\ NoStream /\ UNCHANGED answer
    /\ UNCHANGED tree /\ Known

handleFileEntryDelete(r)        == DeleteLooks(r, "delete")
handleFileEntriesBatchDelete(r) == DeleteLooks(r, "batch-delete")

(* ... then delete, a directory with whatever it holds by then.            *)
DeleteManagerItem(r) ==
    /\ phase[r] = "remove"
    /\ IF Exists(Item(r)) THEN tree' = Removed(Item(r)) /\ ItemEnds(r, "deleted")
       ELSE ItemEnds(r, "failed") /\ UNCHANGED tree
    /\ Known

(* A call of the provider fails.                                           *)
ProviderFails(r) ==
    /\ phase[r] \in {"look", "send", "inspect", "resolve", "rename", "copy", "make",
                     "walk", "delete", "remove", "mkdir", "page"}
    /\ faults < MaxFaults /\ faults' = faults + 1
    /\ IF op[r].kind \in {"upload", "mkdir", "list"} THEN Finish(r, "error") /\ UNCHANGED mem
       ELSE ItemEnds(r, IF phase[r] \in {"make", "walk"} THEN "partial" ELSE "failed")
    /\ UNCHANGED <<tree, op>>

-----------------------------------------------------------------------------
(* listLegacyManager: every page lists the whole directory again, and a    *)
(* cursor is good only for the listing it was made from.                   *)
Listing(p)     == SetToSeq(Children(p))
Fingerprint(p) == Restrict(tree, Children(p))

CursorFits(r) ==
    mem[r].page # <<>> => mem[r].print = Fingerprint(op[r].dest)

(* One page, and whether it is the last.                                   *)
Page(dest, from) ==
    LET all == Listing(dest)
        to  == IF from + PageSize > Len(all) THEN Len(all) ELSE from + PageSize
    IN  [entries |-> SubSeq(all, from + 1, to), last |-> to = Len(all)]

(* handleFileEntriesList                                                   *)
ListPage(r) ==
    /\ phase[r] = "page"
    /\ LET from == Len(mem[r].page)
           page == Page(op[r].dest, from)
       IN  IF ~ IsDir(op[r].dest) THEN Finish(r, "error") /\ UNCHANGED mem
           ELSE IF ~ CursorFits(r) \/ from > Len(Listing(op[r].dest))
             THEN Finish(r, "changed") /\ UNCHANGED mem
           ELSE /\ Keep(r, [mem[r] EXCEPT !.page = @ \o page.entries,
                                          !.print = Fingerprint(op[r].dest)])
                /\ IF page.last THEN Finish(r, "listed")
                   ELSE UNCHANGED <<phase, answer, streams>>
    /\ UNCHANGED tree /\ Known

-----------------------------------------------------------------------------
Outside == UNCHANGED <<tree, local, faults>>

RenewLease(r) == HasSlot(r) /\ RenewFileStreamLease(SlotKind(r), r) /\ Outside
StopRenewal(r) == RenewalStops(r) /\ Outside
LoseRenewal(r) ==
    /\ RenewalFails(r)
    /\ faults < MaxFaults /\ faults' = faults + 1
    /\ UNCHANGED <<tree, local>>
SlotExpires(k) ==
    /\ \/ KeyExpires(k)
       \/ \E s \in StreamIds : ScoreExpires(k, s)
    /\ Outside
(* A ticket that is still out runs out with the period.                    *)
PeriodPasses ==
    /\ \A r \in Requests : ticket[r] # 0
    /\ Tick({r \in StreamIds : Renewing(r) /\ SlotKind(r) \in RenewedKinds})
    /\ Outside

Step(r) ==
    \/ StreamEnds(r) \/ TicketForgotten(r)
    \/ UploadLooks(r) \/ StreamUpload(r) \/ UploadAnswers(r)
    \/ MkdirLooks(r) \/ CreateDirectory(r)
    \/ Validate(r) \/ ResolveDestination(r) \/ RenameFile(r) \/ CopyFile(r)
    \/ CopyMakesTarget(r) \/ CopyLists(r) \/ CopyMember(r)
    \/ handleFileEntryDelete(r) \/ handleFileEntriesBatchDelete(r) \/ DeleteManagerItem(r)
    \/ ListPage(r)

Begin(r) ==
    \/ handleFileDownloadTicket(r) \/ handleFileArchiveTicket(r)
    \/ handleFileUpload(r) \/ handleFileEntryCopy(r) \/ handleFileEntriesBatchCopy(r)

Next ==
    \/ \E r \in Requests :
         \/ Arrive(r) \/ Begin(r) \/ Step(r)
         \/ handleFileDownload(r) \/ handleFileArchive(r)
         \/ TicketNotStored(r) \/ ProviderFails(r) \/ Disconnect(r)
    \/ \E s \in StreamIds : RenewLease(s) \/ StopRenewal(s) \/ LoseRenewal(s)
    \/ \E k \in Kinds : SlotExpires(k)
    \/ PeriodPasses

Spec == Init /\ [][Next]_vars

(* Handlers run, a client reads its stream to the end or goes away and     *)
(* asks again when it is refused; tickers fire and time passes.            *)
FairSpec ==
    /\ Spec
    /\ \A r \in Requests : WF_vars(Begin(r)) /\ WF_vars(Step(r))
    /\ WF_vars(\E s \in StreamIds : RenewLease(s))
    /\ WF_vars(PeriodPasses)

-----------------------------------------------------------------------------
Answers == {"none", "refused", "gone", "too large", "error", "unavailable", "expired",
            "streamed", "conflict", "mismatch", "uploaded", "renamed", "skipped", "created",
            "done", "failed", "partial", "deleted", "results", "changed", "listed"}
Phases  == {"idle", "wait", "ticket", "stream", "look", "send", "verify", "mkdir",
            "inspect", "resolve", "rename", "copy", "make", "walk", "delete",
            "remove", "page", "done"}

(* Type invariant; in the tree every parent is a directory.                *)
TypeOK ==
    /\ StreamsTypeOK
    /\ \A p \in DOMAIN tree : IsDir(Front(p))
    /\ phase \in [Requests -> Phases]
    /\ answer \in [Requests -> Answers]
    /\ \A r \in Requests : answer[r] = "none" <=> phase[r] # "done"
    /\ \A r \in Requests : phase[r] \notin {"idle", "done"} /\ op[r].kind \in Mutations
         => mem[r].at \in DOMAIN op[r].items /\ Len(mem[r].results) = mem[r].at - 1
    /\ faults \in 0 .. MaxFaults

(* There are never more slots than allowed, no ticket is used by two       *)
(* handlers, and a slot that was given back does not come back.  A handler *)
(* that streams a download, an upload or a copy loses its slot only after  *)
(* a renewal of its own failed or a ticket shortened the key it shares,    *)
(* and only until its next renewal that finds it: renewals race releases   *)
(* and the expiry of the key, and a ticket may be presented twice          *)
(* (acquireFileStream, renewFileStreamScript, renewFileStreamLease).       *)
StreamsAreLimited ==
    /\ \A k \in RenewedKinds :
         LET live    == DOMAIN Purged(zset[k].members)
             running == {r \in Requests : SlotKind(r) = k /\ active[r] > 0}
         IN  /\ Cardinality(live) =< MaxStreams
             /\ running \ exposed \subseteq live
             /\ \A r \in running : active[r] = 1
    /\ \A r \in Requests :
         /\ phase[r] = "done" /\ HasSlot(r)
         /\ answer[r] \notin {"gone", "expired", "unavailable"}
         => r \notin DOMAIN zset[SlotKind(r)].members

(* An upload the client is told succeeded is stored whole: neither a body  *)
(* cut short nor one that goes on after its declared length is accepted    *)
(* (ExactSizeReader, handleFileUpload).                                    *)
AcceptedUploadIsWhole ==
    \A r \in Requests : answer[r] \in {"uploaded", "renamed"} /\ op[r].kind = "upload"
        => \A p \in DOMAIN tree : tree[p].by = r => tree[p].whole

(* What a step of request r may destroy: what it was asked to take away or *)
(* to overwrite, and what came to be after it looked.                      *)
MayDestroy(r, p) ==
    \/ /\ op[r].kind \in {"delete", "batch-delete"} /\ IsPrefix(Item(r), p)
       /\ op[r].recursive \/ ~ mem[r].dir \/ p \notin mem[r].seen
    \/ op[r].kind \in {"move", "batch-move"} /\ IsPrefix(Item(r), p)
    \/ /\ mem[r].final # Root /\ IsPrefix(mem[r].final, p)
       /\ op[r].strategy = "OVERWRITE" \/ mem[r].final \notin mem[r].seen

Moved(r) == phase'[r] # phase[r] \/ mem'[r] # mem[r]

(* No request destroys a file that was there when it looked unless it was  *)
(* asked to: SKIP and RENAME and a mutation without a strategy replace     *)
(* nothing, a non-recursive delete removes no populated directory          *)
(* (resolveDestination, uploadLegacyManager, deleteManagerPathItem).       *)
OnlyWhatWasAsked ==
    [][\A p \in DOMAIN tree :
          ~ tree[p].dir /\ (p \in DOMAIN tree' => tree'[p] # tree[p])
            => \E r \in Requests : Moved(r) /\ MayDestroy(r, p)]_vars

(* A client that waits for a slot gets one: slots of clients that went     *)
(* away and of tickets that were never used expire (fileStreamLease).      *)
EveryClientIsServed ==
    \A r \in Requests : phase[r] = "wait" ~> phase[r] # "wait"

-----------------------------------------------------------------------------
(* What comments and documents say and what the code does not do.  No run  *)
(* checks these formulas; the README gives the constants under which TLC   *)
(* finds a counterexample.                                                 *)

(* Every stream that runs holds a slot.                                    *)
RunningStreamsHoldSlots ==
    \A r \in Requests : active[r] > 0 /\ SlotKind(r) \in RenewedKinds
        => r \in DOMAIN Purged(zset[SlotKind(r)].members)

(* An upload that the conflict strategy skips is answered as skipped.      *)
SkipIsAnswered ==
    \A r \in Requests : op[r].kind = "upload" /\ mem[r].status = "skipped"
        => answer[r] \in {"none", "skipped", "gone"}

=============================================================================

------------------------------ MODULE SyncDelta -----------------------------
(***************************************************************************)
(* package sync, delta.go and the delta loop of engine.go: from what a     *)
(* pass listed on both sides and the baseline the last pass stored, the    *)
(* tasks to create, the directories to prune, and the next baseline.       *)
(*                                                                         *)
(* One file in one directory stands for the tree.  A file is the version   *)
(* of its content.  What tells versions apart depends on the providers of  *)
(* the job: a hash both of them have; an ETag of each side, with times     *)
(* that the target sets itself; or no more than size and time.  A listing  *)
(* of a side also says whether the directory is there and which ETag it    *)
(* had, as the version it was read with: a pass skips a directory whose    *)
(* stored ETag is current.                                                 *)
(***************************************************************************)
EXTENDS Integers

CONSTANTS MaxVersion,  \* versions of the file, the first ones included
          Alike        \* pairs of versions of one size, less than two seconds apart

ASSUME SyncVersionsAssumption == MaxVersion \in Nat /\ MaxVersion >= 2

ASSUME AlikeAssumption ==
    /\ Alike \subseteq (1..MaxVersion) \X (1..MaxVersion)
    /\ \A p \in Alike : <<p[2], p[1]>> \in Alike

Absent == 0
Sides == {"source", "target"}
Kinds == {"copy", "move", "del", "mkdir"}

NoTag == -1
Listing == [file : 0..MaxVersion, dir : BOOLEAN, tag : NoTag..MaxVersion]
Nothing == [file |-> Absent, dir |-> FALSE, tag |-> NoTag]

\* The settings of a job: two_way or one_way, the conflict strategy and
\* delete_propagation; by: what its providers tell versions apart by.
Settings == [two : BOOLEAN, strategy : {"OVERWRITE", "SKIP", "RENAME"}, del : BOOLEAN,
             by : {"hash", "etag", "times"}]

-----------------------------------------------------------------------------
\* The ETags of two sides are not compared: without a hash in common it is size
\* and time, and no time the target set itself is that of the source.
isFileMatchingTarget(c, src, tgt) ==
    /\ src # Absent
    /\ \/ c.by # "etag" /\ src = tgt
       \/ c.by = "times" /\ <<src, tgt>> \in Alike

isFileModified(c, cur, prev) ==
    \/ prev = Absent
    \/ cur # prev /\ ~(c.by = "times" /\ <<cur, prev>> \in Alike)

\* The task to create for a file: a set of at most a conflict copy and one other.
FileTasks(c, src, tgt, prevSrc, prevTgt) ==
    LET match == isFileMatchingTarget(c, src, tgt)
        srcModified == src # Absent /\ ~match /\ isFileModified(c, src, prevSrc)
        tgtModified == tgt # Absent /\ ~match /\ isFileModified(c, tgt, prevTgt)
        srcDeleted == src = Absent /\ prevSrc # Absent
        tgtDeleted == tgt = Absent /\ prevTgt # Absent
        Upload == {<<"move", "target">>}
        Download == {<<"move", "source">>}
        Delete(side) == {<<"del", side>>}
    IN
    IF ~c.two THEN
        CASE src # Absent /\ (srcModified \/ tgt = Absent)         -> Upload
          [] srcDeleted /\ c.del /\ tgt # Absent                   -> Delete("target")
          [] OTHER                                                 -> {}
    ELSE IF match THEN {}
    ELSE IF srcModified /\ tgtModified THEN
        CASE c.strategy = "OVERWRITE" -> Upload
          [] c.strategy = "RENAME"    -> Upload \cup {<<"copy", "target">>}
          [] c.strategy = "SKIP"      -> {}
    ELSE IF src # Absent /\ (srcModified \/ (tgt = Absent /\ ~tgtDeleted)) THEN Upload
    ELSE IF tgt # Absent /\ (tgtModified \/ (src = Absent /\ ~srcDeleted)) THEN Download
    ELSE IF srcDeleted /\ c.del /\ tgt # Absent THEN Delete("target")
    ELSE IF tgtDeleted /\ c.del /\ src # Absent THEN Delete("source")
    ELSE {}

\* calculateDirectoryDelta: directories to create, and those whose deletion on
\* the other side is to be followed once they are empty.
DirectoryTasks(c, src, tgt, prevSrc, prevTgt) ==
    (IF src /\ ~tgt /\ (~c.two \/ ~prevTgt) THEN {<<"mkdir", "target">>} ELSE {})
    \cup (IF c.two /\ tgt /\ ~src /\ ~prevSrc THEN {<<"mkdir", "source">>} ELSE {})

CleanupCandidates(c, src, tgt, prevSrc, prevTgt) ==
    IF ~c.del THEN {}
    ELSE (IF c.two /\ src /\ ~tgt /\ prevTgt THEN {"source"} ELSE {})
         \cup (IF tgt /\ ~src /\ prevSrc THEN {"target"} ELSE {})

Delta(c, seen, prev) ==
    FileTasks(c, seen["source"].file, seen["target"].file, prev["source"].file, prev["target"].file)
    \cup DirectoryTasks(c, seen["source"].dir, seen["target"].dir, prev["source"].dir, prev["target"].dir)

Cleanup(c, seen, prev) ==
    CleanupCandidates(c, seen["source"].dir, seen["target"].dir, prev["source"].dir, prev["target"].dir)

-----------------------------------------------------------------------------
\* Mutant: a failed upload, download or deletion protects nothing.
CopyProtected(undone) == \E t \in undone : t[1] = "copy"

\* A task that did not complete protects the baseline of its path.
FileProtected(undone) == \E t \in undone : t[1] # "mkdir"

\* reconcileSuccessfulOperations: what the finished operations made of the two
\* listings, a destination being inspected again.
Reconciled(seen, done, disk) ==
    [s \in Sides |->
        [file |-> IF <<"move", s>> \in done THEN disk[s].file
                  ELSE IF <<"del", s>> \in done THEN Absent
                  ELSE seen[s].file,
         dir  |-> seen[s].dir \/ <<"mkdir", s>> \in done,
         tag  |-> IF \E t \in done : t[2] = s THEN NoTag ELSE seen[s].tag]]

\* Mutant: the ETag survives a path that was not synchronised.
NotInvalidated(listing, protected) == listing

\* invalidateProtectedPathDirectoryETags
Invalidated(listing, protected) ==
    [s \in Sides |-> IF protected THEN [listing[s] EXCEPT !.tag = NoTag] ELSE listing[s]]

\* syncStateChanges: the next baseline; a protected file keeps its old one.
NextBaseline(listing, prev, protected) ==
    [s \in Sides |-> [listing[s] EXCEPT !.file = IF protected THEN prev[s].file ELSE @]]

\* applyDirectoryCleanupResults
Pruned(listing, removed) ==
    [s \in Sides |-> IF s \in removed THEN [listing[s] EXCEPT !.dir = FALSE, !.tag = NoTag] ELSE listing[s]]
=============================================================================

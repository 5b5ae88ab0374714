------------------------------- MODULE MCFiles -------------------------------
(* A directory with one file, a file beside it, two requests, and the slot *)
(* of a client that went away.                                             *)
EXTENDS FileManager

CONSTANTS r1, r2, x

f == <<"f">>
d == <<"d">>
e == <<"e">>

File(by) == [dir |-> FALSE, by |-> by, whole |-> TRUE]
Trees == {(<<f>> :> File("f")) @@ (<<d>> :> Directory) @@ (<<d, f>> :> File("df"))
            @@ (<<e>> :> Directory)}

Op(kind, items, dest, name, strategy) ==
    [kind |-> kind, items |-> items, dirs |-> {<<d>>, <<e>>},
     dest |-> dest, name |-> name, strategy |-> strategy, recursive |-> FALSE,
     size |-> 1, body |-> 1]

Root1 == <<Root>>

Slots ==
    {Op("download", <<<<f>>>>, Root, <<>>, ""),
     Op("upload", Root1, Root, f, "OVERWRITE")}

Uploads ==
    {[Op("upload", Root1, Root, f, s) EXCEPT !.size = sb[1], !.body = sb[2]] :
        s \in {"SKIP", "OVERWRITE", "RENAME"},
        sb \in {<<1, 1>>, <<1, 0>>}}
      \cup {[Op("upload", Root1, Root, f, "SKIP") EXCEPT !.size = 0, !.body = b] : b \in {0, 1}}

Changes ==
    {Op("mkdir", Root1, Root, d, ""),
     Op("delete", <<<<d>>>>, Root, <<>>, ""), Op("delete", <<<<e>>>>, Root, <<>>, ""),
     Op("move", <<<<d, f>>>>, Root, <<>>, ""), Op("move", <<<<d, f>>>>, Root, <<>>, "OVERWRITE"),
     Op("move", <<<<d>>>>, <<d>>, <<>>, ""), Op("move", <<<<f>>>>, <<e>>, <<>>, ""),
     Op("copy", <<<<d, f>>>>, Root, <<>>, "SKIP"), Op("copy", <<<<d, f>>>>, Root, <<>>, "RENAME"),
     Op("copy", <<<<d>>>>, <<e>>, <<>>, "")}

(* what the second client does in between                                  *)
Interference ==
    {Op("mkdir", Root1, Root, <<"f", 1>>, ""),
     Op("delete", <<<<f>>>>, Root, <<>>, ""),
     [Op("delete", <<<<d>>>>, Root, <<>>, "") EXCEPT !.recursive = TRUE],
     Op("move", <<<<d, f>>>>, Root, <<>>, "RENAME")}

Batches ==
    {[Op(b[1], b[2], <<e>>, <<>>, "") EXCEPT !.recursive = TRUE] : b \in
        {<<"batch-delete", <<<<d, f>>, <<d>>>>>>, <<"batch-delete", <<<<f>>, <<d>>>>>>,
         <<"batch-copy", <<<<d, f>>, <<d>>, <<f>>>>>>, <<"batch-move", <<<<d, f>>, <<f>>>>>>,
         <<"batch-move", <<<<e>>>>>>}}

Reads ==
    {Op("list", Root1, Root, <<>>, ""), Op("archive", <<<<d>>, <<f>>, <<e>>>>, Root, <<>>, "")}

OpsOf(r) ==
    CASE r = r1 -> Slots \cup Uploads \cup Reads \cup Changes \cup Batches
      [] r = r2 -> Slots \cup Interference

(* normalizeBatchReferences: of any selection nothing is left out, and no  *)
(* item lies below a selected directory, in whatever order they come.      *)
ASSUME SelectionIsCovered ==
    LET paths == {<<f>>, <<d>>, <<d, f>>, <<d, d>>, <<d, d, f>>}
        dirs  == {<<d>>, <<d, d>>}
    IN  \A n \in 1 .. 3 : \A items \in [1 .. n -> paths] : IsInjective(items) =>
            LET kept == ToSet(Normalized(items, dirs))
            IN  /\ kept \subseteq ToSet(items)
                /\ \A s \in ToSet(items) : \E p \in kept : IsPrefix(p, s)
                /\ \A p \in kept \cap dirs, q \in kept : ~ IsStrictPrefix(p, q)

=============================================================================

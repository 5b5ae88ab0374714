------------------------------- MODULE MCSync -------------------------------
(* Instances of SyncSystem for TLC. *)
EXTENDS SyncSystem, TLC

Choice(two, strategy, del, by) == [two |-> two, strategy |-> strategy, del |-> del, by |-> by]

\* The settings an owner switches between, each with another way to compare.
Mixed ==
    {Choice(TRUE, "RENAME", TRUE, "hash"),
     Choice(TRUE, "OVERWRITE", FALSE, "times"),
     Choice(FALSE, "SKIP", TRUE, "etag")}

\* An edit that size and time do not show.
Unnoticed == {<<1, 3>>, <<3, 1>>}
=============================================================================

--------------------------- MODULE MCOAuthTokens ---------------------------
(* Small worlds for the token pair: every kind of job with the callers that
   meet on its row.  In the good worlds a single-use credential is used by
   one row only, the Redis lock outlives a refresh of one, and nobody browses
   a sync job whose provider hands out single-use tokens.                   *)
EXTENDS OAuthTokens

World(k, single, shared, slow, callers) ==
    [kind |-> k, single |-> single, shared |-> shared, slow |-> slow,
     callers |-> callers]

Good == {World("migration", TRUE, FALSE, FALSE, {"w1", "w2", "daemon", "user"}),
         World("migration", FALSE, TRUE, TRUE, {"w1", "indexer", "daemon", "resolver1"}),
         World("sync", TRUE, FALSE, FALSE, {"w1", "engine", "daemon", "user"}),
         World("sync", FALSE, TRUE, TRUE, {"engine", "browser", "daemon", "user"}),
         World("backup", TRUE, FALSE, FALSE, {"coordinator", "reader1", "resolver1", "resolver2"}),
         World("restore", TRUE, FALSE, FALSE, {"reader1", "reader2", "daemon"})}

ASSUME GoodAssumption == \A s \in Good : OwnCredential(s) /\ LockedWorld(s)

Browsed == {World("sync", TRUE, FALSE, FALSE, {"browser", "daemon"})}
Copied  == {World("migration", TRUE, TRUE, FALSE, {"w1", "daemon", "resolver1"})}
=============================================================================

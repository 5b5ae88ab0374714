----------------------------- MODULE FencedClaim -----------------------------
(***************************************************************************)
(* What a fenced claim promises, without saying how: a resource is claimed *)
(* by one client at a time, every claim gets a number nobody else has, and *)
(* only the client with the newest number can finish the resource.  Claims *)
(* can be taken away at any time, and clients are not told.                *)
(***************************************************************************)
EXTENDS Integers

CONSTANTS Resources, Clients

VARIABLES
    state,   \* per resource: free, held or done
    epoch,   \* per resource: the newest claim number
    token    \* per client: the set of (at most one) claim it believes it has

claimVars == <<state, epoch, token>>

ClaimInit ==
    /\ state = [r \in Resources |-> "free"]
    /\ epoch = [r \in Resources |-> 0]
    /\ token = [c \in Clients |-> {}]

Claim(c, r) ==
    /\ token[c] = {}
    /\ state[r] = "free"
    /\ state' = [state EXCEPT ![r] = "held"]
    /\ epoch' = [epoch EXCEPT ![r] = @ + 1]
    /\ token' = [token EXCEPT ![c] = {<<r, epoch[r] + 1>>}]

\* Some clients stop believing in their claims
Forgets == \A c \in Clients : token'[c] \in {token[c], {}}

\* The holder of the newest number finishes the resource.  It may give its
\* token back or keep it for a while; nobody else moves.
Finish(c, r) ==
    /\ state[r] = "held"
    /\ token[c] = {<<r, epoch[r]>>}
    /\ state' = [state EXCEPT ![r] = "done"]
    /\ token' \in {token, [token EXCEPT ![c] = {}]}
    /\ UNCHANGED epoch

\* Claims are given up or revoked, by whomever
Withdraw(S) ==
    /\ \A r \in S : state[r] = "held"
    /\ state' = [r \in Resources |-> IF r \in S THEN "free" ELSE state[r]]
    /\ Forgets
    /\ UNCHANGED epoch

\* The result is thrown away: the resource has to be claimed afresh
Reopen(S) ==
    /\ state' = [r \in Resources |-> IF r \in S THEN "free" ELSE state[r]]
    /\ UNCHANGED <<epoch, token>>

ClaimNext ==
    \/ \E c \in Clients, r \in Resources : Claim(c, r) \/ Finish(c, r)
    \/ \E S \in SUBSET Resources : Withdraw(S) \/ Reopen(S)

ClaimSpec == ClaimInit /\ [][ClaimNext]_claimVars

=============================================================================

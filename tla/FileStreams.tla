----------------------------- MODULE FileStreams -----------------------------
(***************************************************************************)
(* Stream slots and one-use tickets of the file manager, kept in Redis:    *)
(* per kind of stream a sorted set of stream ids with their expiry as      *)
(* score, under a key that has an expiry of its own, and one key for every *)
(* ticket.                                                                 *)
(*                                                                         *)
(* Time passes in steps of one renewal period (half a lease).  What has 0  *)
(* periods left expires within the current one, at a moment of its own: a  *)
(* score of -1 is in the past.  The client of one user stands for all: the *)
(* keys carry the user's id.                                               *)
(***************************************************************************)
EXTENDS Integers, FiniteSets, Functions, TLC

CONSTANTS
    Requests,     \* requests of the client; a stream id is drawn for each
    Abandoned,    \* downloads whose client went away before
    MaxStreams    \* fileMaxStreamsPerUser

ASSUME MaxStreamsAssumption == MaxStreams \in Nat \ {0}

\* The slots that are left over were given out under the limit.
ASSUME AbandonedAssumption ==
    /\ Requests \cap Abandoned = {}
    /\ IsFiniteSet(Abandoned) /\ Cardinality(Abandoned) =< MaxStreams

Kinds     == {"download", "upload", "mutation", "batch-mutation", "archive"}
TicketTTL == 1     \* fileTicketTTL, one minute
Lease     == 2     \* fileStreamLease, two minutes

StreamIds == Requests \cup Abandoned

VARIABLES
    zset,      \* zset[k]: [members: stream -> score, ttl of the key]
    ticket,    \* periods left of the ticket of a request, -1 without one
    active,    \* number of handlers that stream under the id of a request
    due,       \* the renewal ticker of the request has fired
    exposed    \* history: streams whose slot is no longer sure

streams == <<zset, ticket, active, due, exposed>>

NoKey == [members |-> <<>>, ttl |-> -1]

StreamsInit ==
    /\ zset = [k \in Kinds |->
                IF k # "download" \/ Abandoned = {} THEN NoKey
                ELSE [members |-> [s \in Abandoned |-> Lease], ttl |-> Lease]]
    /\ ticket = [s \in StreamIds |-> -1]
    /\ active = [s \in StreamIds |-> 0]
    /\ due = [s \in StreamIds |-> FALSE]
    /\ exposed = {}

-----------------------------------------------------------------------------
(* The scripts.                                                            *)

\* f with the value v at x
Put(f, x, v) == [y \in DOMAIN f \cup {x} |-> IF y = x THEN v ELSE f[y]]

(* ZREMRANGEBYSCORE -inf now                                               *)
Purged(members) == Restrict(members, {s \in DOMAIN members : members[s] >= 0})

HasRoom(k) == Cardinality(DOMAIN Purged(zset[k].members)) < MaxStreams

Added(k, s, ttl) ==
    [zset EXCEPT ![k] = [members |-> Put(Purged(@.members), s, ttl), ttl |-> ttl]]

acquireFileStream(k, s, ttl) == HasRoom(k) /\ zset' = Added(k, s, ttl)

Renewable(k, s) == s \in DOMAIN Purged(zset[k].members)

RenewedMemberOnly(k, s) ==
    IF Renewable(k, s)
      THEN [zset EXCEPT ![k].members = Put(Purged(@), s, Lease)]
    ELSE zset

(* renewFileStreamScript: score and key expiry together, and only for a    *)
(* stream that still has its slot.                                         *)
Renewed(k, s) ==
    IF Renewable(k, s) THEN Added(k, s, Lease)
    ELSE [zset EXCEPT ![k].members = Purged(@)]

(* ZREM; Redis drops the key of an empty set.                              *)
Without(z, s) ==
    LET left == DOMAIN z.members \ {s}
    IN  IF left = {} THEN NoKey
        ELSE [members |-> Restrict(z.members, left), ttl |-> z.ttl]

Released(k, s) == [zset EXCEPT ![k] = Without(@, s)]

(* A ticket shortens the life of the key it shares with streams that run:  *)
(* until its next renewal each of them may lose its slot with the key.     *)
Shortens(k) == exposed' = exposed \cup {s \in DOMAIN zset[k].members : active[s] > 0}

-----------------------------------------------------------------------------
(* renewFileStreamLease: a goroutine of the handler, stopped with it; a    *)
(* renewal it has begun may land after the slot was given back.            *)
RenewFileStreamLease(k, r) ==
    /\ due[r]
    /\ due' = [due EXCEPT ![r] = FALSE]
    /\ zset' = Renewed(k, r)
    /\ exposed' = IF Renewable(k, r) THEN exposed \ {r} ELSE exposed
    /\ UNCHANGED <<ticket, active>>

(* Redis does not answer: the error is dropped, the stream goes on.        *)
RenewalFails(r) ==
    /\ due[r] /\ active[r] > 0
    /\ due' = [due EXCEPT ![r] = FALSE]
    /\ exposed' = exposed \cup {r}
    /\ UNCHANGED <<zset, ticket, active>>

RenewalStops(r) ==
    /\ due[r] /\ active[r] = 0
    /\ due' = [due EXCEPT ![r] = FALSE]
    /\ UNCHANGED <<zset, ticket, active, exposed>>

RenewingWhileHeld(r) ==
    ticket[r] = -1 /\ \E k \in Kinds : r \in DOMAIN zset[k].members

(* The handlers that start the goroutine.                                  *)
Renewing(r) == active[r] > 0

-----------------------------------------------------------------------------
(* Expiry, at any moment of the period: a key that has 0 periods left may  *)
(* go before or after the renewals of the period.                          *)
KeyExpires(k) ==
    /\ zset[k].ttl = 0
    /\ zset' = [zset EXCEPT ![k] = NoKey]
    /\ UNCHANGED <<ticket, active, due, exposed>>

ScoreExpires(k, s) ==
    /\ s \in DOMAIN zset[k].members /\ zset[k].members[s] = 0
    /\ zset' = [zset EXCEPT ![k].members[s] = -1]
    /\ UNCHANGED <<ticket, active, due, exposed>>

TicketExpires(r) ==
    /\ ticket[r] = 0
    /\ ticket' = [ticket EXCEPT ![r] = -1]
    /\ UNCHANGED <<zset, active, due, exposed>>

Older(n) == IF n >= 0 THEN n - 1 ELSE -1

Aged(z) ==
    IF z.ttl =< 0 THEN NoKey
    ELSE [members |-> [s \in DOMAIN z.members |-> Older(z.members[s])],
          ttl |-> z.ttl - 1]

(* One period: every ticker fires once, and Redis answers before the next. *)
Tick(renewing) ==
    /\ \A s \in StreamIds : ~ due[s]
    /\ zset' = [k \in Kinds |-> Aged(zset[k])]
    /\ ticket' = [s \in StreamIds |-> Older(ticket[s])]
    /\ due' = [s \in StreamIds |-> s \in renewing]
    /\ UNCHANGED <<active, exposed>>

-----------------------------------------------------------------------------
StreamsTypeOK ==
    /\ \A k \in Kinds :
         /\ zset[k].ttl \in -1 .. Lease
         /\ DOMAIN zset[k].members \subseteq StreamIds
         /\ \A s \in DOMAIN zset[k].members : zset[k].members[s] \in -1 .. Lease
    /\ ticket \in [StreamIds -> -1 .. TicketTTL]
    /\ active \in [StreamIds -> 0 .. 2]
    /\ due \in [StreamIds -> BOOLEAN]
    /\ exposed \subseteq StreamIds

=============================================================================

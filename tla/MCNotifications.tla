--------------------------- MODULE MCNotifications ---------------------------
(* Two notifiers with one send worker each, and one run of any kind; or two
   migrations from before the outbox, of a user who begins without a channel,
   so that a sweep meets several.  Once it has an event a run is the same whatever
   its kind: only an open migration starts with a mailer.                   *)
EXTENDS Notifications

Live  == {r \in Runs : run[r] # "deleted"}
First == CHOOSE r \in Runs : TRUE

MCInit ==
    /\ Init
    /\ First \in Live
    /\ \A r \in Runs \ {First} : kind[r] = "migration" /\ run[r] # "open"
    /\ Live # {First} => ~ channel["hook"].saved /\ run[First] = "ended"
    /\ kind[First] # "migration" \/ run[First] = "ended" => smtp = "none"

MCFairSpec == MCInit /\ [][Next]_vars /\ Fairness
=============================================================================

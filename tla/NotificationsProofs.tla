------------------------- MODULE NotificationsProofs -------------------------
(***************************************************************************)
(* A delivery recorded as SENT was accepted, and one that no fault touched *)
(* was accepted at most once: for any runs, notifiers and limits.          *)
(*                                                                         *)
(* Neither is inductive.  A delivery in somebody's batch is RUNNING with a *)
(* lease that has not run out, or its job was deleted meanwhile (InHand);  *)
(* nobody else has it (OneHand); a RUNNING delivery without a fault is in  *)
(* a batch (Attended), so only one with a fault is claimed again by the    *)
(* lease; and whatever will be sent was not accepted before (NotYet).      *)
(***************************************************************************)
EXTENDS Notifications, TLAPS

RowStates  == {"NONE", "PENDING", "RUNNING", "SENT", "FAILED"}
RunStates  == {"open", "ended", "event", "deleted"}
BatchSteps == {"queued", "send", "sent", "failed", "unopened"}

DeliveryRow ==
    [state : RowStates, attempts : Nat, stale : BOOLEAN, secret : Nat]

BatchTypes ==
    /\ DOMAIN batch = Notifiers
    /\ \A n \in Notifiers : /\ DOMAIN batch[n] \subseteq Deliveries
                            /\ batch[n] \in [DOMAIN batch[n] -> BatchSteps]

\* The third failure is the final one.
AttemptsFit(e) == /\ e.attempts <= MaxAttempts
                  /\ e.state = "FAILED" <=> e.attempts = MaxAttempts

Types ==
    /\ channel \in [Channels -> [saved : BOOLEAN, enabled : BOOLEAN, secret : Nat]]
    /\ edit \in [open : BOOLEAN, prior : Nat]
    /\ smtp \in {"none", "legacy", "smtp"}
    /\ run \in [Runs -> RunStates]
    /\ row \in [Deliveries -> DeliveryRow]
    /\ \A d \in Deliveries : AttemptsFit(row[d])
    /\ accepted \in [Deliveries -> Nat]
    /\ faulty \subseteq Deliveries
    /\ BatchTypes

Deleted(d) == run[d[1]] = "deleted"

InHand(d) ==
    \A n \in Notifiers : Step(n, d) # "none" =>
        \/ row[d].state = "RUNNING" /\ ~ row[d].stale
        \/ row[d].state = "NONE" /\ Deleted(d)

OneHand(d) ==
    \A n, m \in Notifiers : Step(n, d) # "none" /\ Step(m, d) # "none" => n = m

Attended(d) ==
    row[d].state = "RUNNING" => \E n \in Notifiers : Step(n, d) # "none"

\* d waits to be sent, and nothing of it has been accepted.
NotYet(d) ==
    /\ accepted[d] <= 1
    /\ row[d].state = "PENDING" \/ (row[d].state = "NONE" /\ ~ Deleted(d))
         => accepted[d] = 0
    /\ \A n \in Notifiers : Step(n, d) \notin {"none", "sent"} => accepted[d] = 0

\* A result "sent", in a batch or in the row, is the answer of the remote side.
TrueResult(d) ==
    /\ \A n \in Notifiers : Step(n, d) = "sent" => accepted[d] > 0
    /\ row[d].state = "SENT" => accepted[d] > 0

DeliveryInv(d) ==
    /\ InHand(d) /\ OneHand(d) /\ TrueResult(d)
    /\ d \notin faulty => Attended(d) /\ NotYet(d)

OutboxInv == Types /\ \A d \in Deliveries : DeliveryInv(d)

-----------------------------------------------------------------------------
(* The batches: only Step is looked at below.                              *)

SameBatches == \A n \in Notifiers, d \in Deliveries : Step(n, d)' = Step(n, d)

\* Nothing but the step of d in the batch of n changes.
OnlyStep(n, d) ==
    \A m \in Notifiers, e \in Deliveries : m # n \/ e # d => Step(m, e)' = Step(m, e)

LEMMA StepType ==
    ASSUME Types, NEW n \in Notifiers, NEW d \in Deliveries
    PROVE  /\ Step(n, d) \in BatchSteps \cup {"none"}
           /\ Step(n, d) # "none" <=> d \in DOMAIN batch[n]
<1>1. "none" \notin BatchSteps  BY DEF BatchSteps
<1>2. CASE d \in DOMAIN batch[n]
  <2>1. batch[n][d] \in BatchSteps  BY <1>2 DEF Types, BatchTypes
  <2> QED  BY <1>1, <1>2, <2>1 DEF Step
<1>3. CASE d \notin DOMAIN batch[n]  BY <1>3 DEF Step
<1> QED  BY <1>2, <1>3

LEMMA ResultStep ==
    ASSUME Types, NEW n \in Notifiers, NEW d \in Deliveries, NEW s \in BatchSteps,
           Step(n, d) # "none", batch' = [batch EXCEPT ![n][d] = s]
    PROVE  BatchTypes' /\ Step(n, d)' = s /\ OnlyStep(n, d)
<1>1. d \in DOMAIN batch[n]  BY StepType
<1>2. /\ DOMAIN batch' = Notifiers
      /\ batch'[n] = [batch[n] EXCEPT ![d] = s]
      /\ \A m \in Notifiers \ {n} : batch'[m] = batch[m]
  BY DEF Types, BatchTypes
<1>3. /\ DOMAIN batch'[n] = DOMAIN batch[n] /\ batch'[n][d] = s
      /\ \A e \in DOMAIN batch[n] \ {d} : batch'[n][e] = batch[n][e]
      /\ batch'[n] \in [DOMAIN batch[n] -> BatchSteps]
  BY <1>1, <1>2 DEF Types, BatchTypes
<1>4. BatchTypes'  BY <1>2, <1>3 DEF BatchTypes, Types
<1>5. Step(n, d)' = s  BY <1>1, <1>3 DEF Step
<1>6. OnlyStep(n, d)  BY <1>2, <1>3 DEF OnlyStep, Step
<1> QED  BY <1>4, <1>5, <1>6

LEMMA DoneStep ==
    ASSUME Types, NEW n \in Notifiers, NEW d \in Deliveries, Done(n, d)
    PROVE  BatchTypes' /\ Step(n, d)' = "none" /\ OnlyStep(n, d)
<1> DEFINE left == DOMAIN batch[n] \ {d}
<1>1. batch' = [batch EXCEPT ![n] = [x \in left |-> batch[n][x]]]
  BY DEF Done, Restrict
<1>2. /\ DOMAIN batch' = Notifiers
      /\ batch'[n] = [x \in left |-> batch[n][x]]
      /\ \A m \in Notifiers \ {n} : batch'[m] = batch[m]
  BY <1>1 DEF Types, BatchTypes
<1>3. /\ DOMAIN batch'[n] = left
      /\ \A e \in left : batch'[n][e] = batch[n][e]
      /\ batch'[n] \in [left -> BatchSteps]
  BY <1>2 DEF Types, BatchTypes
<1>4. BatchTypes'  BY <1>2, <1>3 DEF BatchTypes, Types
<1>5. Step(n, d)' = "none"  BY <1>3 DEF Step
<1>6. OnlyStep(n, d)  BY <1>2, <1>3 DEF OnlyStep, Step
<1> QED  BY <1>4, <1>5, <1>6

\* The batch of n is replaced as a whole.
LEMMA BatchStep ==
    ASSUME Types, NEW n \in Notifiers, NEW S \in SUBSET Deliveries,
           batch' = [batch EXCEPT ![n] = [d \in S |-> "queued"]]
    PROVE  /\ BatchTypes'
           /\ \A d \in Deliveries : Step(n, d)' = IF d \in S THEN "queued" ELSE "none"
           /\ \A m \in Notifiers \ {n}, d \in Deliveries : Step(m, d)' = Step(m, d)
<1>1. /\ DOMAIN batch' = Notifiers
      /\ batch'[n] = [d \in S |-> "queued"]
      /\ \A m \in Notifiers \ {n} : batch'[m] = batch[m]
  BY DEF Types, BatchTypes
<1>2. BatchTypes'  BY <1>1 DEF BatchTypes, Types, BatchSteps
<1>3. \A d \in Deliveries : Step(n, d)' = IF d \in S THEN "queued" ELSE "none"
  BY <1>1 DEF Step
<1>4. \A m \in Notifiers \ {n}, d \in Deliveries : Step(m, d)' = Step(m, d)
  BY <1>1 DEF Step
<1> QED  BY <1>2, <1>3, <1>4

LEMMA BatchesKept ==
    ASSUME Types, batch' = batch  PROVE BatchTypes' /\ SameBatches
  BY DEF Types, BatchTypes, SameBatches, Step

-----------------------------------------------------------------------------
\* A delivery that a step does not concern.
Untouched(d) ==
    /\ \A n \in Notifiers : Step(n, d)' = Step(n, d)
    /\ row'[d] = row[d] /\ accepted'[d] = accepted[d]
    /\ d \in faulty => d \in faulty'
    /\ Deleted(d)' <=> Deleted(d)

LEMMA UntouchedStep ==
    ASSUME NEW d \in Deliveries, DeliveryInv(d), Untouched(d)
    PROVE  DeliveryInv(d)'
<1>1. InHand(d)' /\ OneHand(d)'  BY DEF DeliveryInv, Untouched, InHand, OneHand
<1>2. TrueResult(d)'  BY DEF DeliveryInv, Untouched, TrueResult
<1>3. d \notin faulty' => Attended(d)' /\ NotYet(d)'
  BY DEF DeliveryInv, Untouched, Attended, NotYet
<1> QED  BY <1>1, <1>2, <1>3 DEF DeliveryInv

\* A step that leaves the outbox and the batches alone.
LEMMA OutboxKept ==
    ASSUME OutboxInv, Types', UNCHANGED <<run, row, batch, accepted, faulty>>
    PROVE  OutboxInv'
<1>1. SameBatches  BY BatchesKept DEF OutboxInv
<1>2. \A d \in Deliveries : Untouched(d)  BY <1>1 DEF Untouched, SameBatches, Deleted
<1> QED  BY <1>2, UntouchedStep DEF OutboxInv

LEMMA SettingsStep ==
    ASSUME OutboxInv,
           \/ \E on \in BOOLEAN : \/ SaveEmailPreference(on)
                                  \/ \E given \in {0, 2} : UpsertNotificationChannel(given, on)
           \/ GetNotificationChannel \/ DeleteInstanceSMTPSettings
           \/ \E blank \in BOOLEAN : UpsertInstanceSMTPSettings(blank)
    PROVE  OutboxInv'
<1>1. UNCHANGED <<run, row, batch, accepted, faulty>>
  BY DEF SaveEmailPreference, UpsertNotificationChannel, GetNotificationChannel,
         DeleteInstanceSMTPSettings, UpsertInstanceSMTPSettings, outbox, sending
<1> DEFINE SettingsTypes ==
      /\ channel' \in [Channels -> [saved : BOOLEAN, enabled : BOOLEAN, secret : Nat]]
      /\ edit' \in [open : BOOLEAN, prior : Nat]
      /\ smtp' \in {"none", "legacy", "smtp"}
<1>2. SettingsTypes
  <2> USE DEF OutboxInv, Types
  <2>0. "hook" \in Channels /\ "email" \in Channels  BY DEF Channels
  <2>1. ASSUME NEW on \in BOOLEAN, SaveEmailPreference(on)  PROVE SettingsTypes
    BY <2>0, <2>1 DEF SaveEmailPreference
  <2>2. ASSUME NEW on \in BOOLEAN, NEW given \in {0, 2}, UpsertNotificationChannel(given, on)
        PROVE  SettingsTypes
    <3>1. Merged(given) \in Nat  BY DEF Merged
    <3>2. NoEdit \in [open : BOOLEAN, prior : Nat]  BY DEF NoEdit
    <3>3. [saved |-> TRUE, enabled |-> on, secret |-> Merged(given)]
            \in [saved : BOOLEAN, enabled : BOOLEAN, secret : Nat]
      BY <3>1
    <3> QED  BY <2>0, <2>2, <3>2, <3>3 DEF UpsertNotificationChannel
  <2>3. CASE GetNotificationChannel
    BY <2>0, <2>3 DEF GetNotificationChannel
  <2>4. CASE DeleteInstanceSMTPSettings \/ \E blank \in BOOLEAN : UpsertInstanceSMTPSettings(blank)
    BY <2>4 DEF DeleteInstanceSMTPSettings, UpsertInstanceSMTPSettings
  <2> QED  BY <2>1, <2>2, <2>3, <2>4
<1>3. Types'  BY <1>1, <1>2 DEF OutboxInv, Types, BatchTypes
<1> QED  BY <1>1, <1>3, OutboxKept

LEMMA LimitsFacts == MaxAttempts \in Nat /\ MaxAttempts > 0
  BY LimitsAssumption

LEMMA NewRowType ==
    ASSUME NEW k \in Nat
    PROVE  /\ [NoRow EXCEPT !.state = "PENDING", !.secret = k] \in DeliveryRow
           /\ [NoRow EXCEPT !.state = "PENDING", !.secret = k].state = "PENDING"
           /\ AttemptsFit([NoRow EXCEPT !.state = "PENDING", !.secret = k])
           /\ NoRow \in DeliveryRow /\ NoRow.state = "NONE" /\ AttemptsFit(NoRow)
<1> DEFINE new == [NoRow EXCEPT !.state = "PENDING", !.secret = k]
<1>1. NoRow \in DeliveryRow /\ NoRow.state = "NONE" /\ NoRow.attempts = 0
  BY DEF NoRow, DeliveryRow, RowStates
<1>2. new \in DeliveryRow /\ new.state = "PENDING" /\ new.attempts = 0
  BY <1>1 DEF DeliveryRow, RowStates
<1> HIDE DEF new
<1>3. AttemptsFit(new) /\ AttemptsFit(NoRow)  BY <1>1, <1>2, LimitsFacts DEF AttemptsFit
<1> QED  BY <1>1, <1>2, <1>3 DEF new

\* The event of a run that had none.
LEMMA NewEventStep ==
    ASSUME OutboxInv, NEW r \in Runs, run[r] # "deleted", NewEvent(r),
           UNCHANGED <<settings, sending, faulty>>
    PROVE  OutboxInv'
<1> USE DEF OutboxInv
<1>0. SameBatches /\ BatchTypes'  BY BatchesKept DEF sending
<1>1. /\ run' = [run EXCEPT ![r] = "event"] /\ run' \in [Runs -> RunStates]
      /\ \A q \in Runs : run'[q] = "deleted" <=> run[q] = "deleted"
  BY DEF NewEvent, Types, RunStates
<1>2. \A d \in Deliveries : d[1] \in Runs /\ d[2] \in Channels  BY DEF Deliveries
<1>3. \A d \in Deliveries : Deleted(d)' <=> Deleted(d)  BY <1>1, <1>2 DEF Deleted
<1>4. /\ DOMAIN row' = Deliveries
      /\ \A d \in Deliveries :
           \/ row'[d] = row[d]
           \/ /\ d[1] = r /\ row[d].state = "NONE"
              /\ row'[d] = [NoRow EXCEPT !.state = "PENDING", !.secret = channel[d[2]].secret]
  BY DEF NewEvent, createNotificationDeliveries
<1>5. \A d \in Deliveries :
        \/ row'[d] = row[d]
        \/ /\ d[1] = r /\ row[d].state = "NONE" /\ row'[d].state = "PENDING"
           /\ row'[d] \in DeliveryRow /\ AttemptsFit(row'[d])
  <2> SUFFICES ASSUME NEW d \in Deliveries, row'[d] # row[d]
               PROVE  /\ d[1] = r /\ row[d].state = "NONE" /\ row'[d].state = "PENDING"
                      /\ row'[d] \in DeliveryRow /\ AttemptsFit(row'[d])
    OBVIOUS
  <2>1. channel[d[2]].secret \in Nat  BY <1>2 DEF Types
  <2> QED  BY <1>4, <2>1, NewRowType
<1>6. row' \in [Deliveries -> DeliveryRow] /\ \A d \in Deliveries : AttemptsFit(row'[d])
  <2>1. \A d \in Deliveries : row'[d] \in DeliveryRow /\ AttemptsFit(row'[d])
    BY <1>5 DEF Types
  <2>2. row' = [d \in Deliveries |-> row'[d]]  BY DEF NewEvent, createNotificationDeliveries
  <2> QED  BY <2>1, <2>2
<1>7. Types'  BY <1>0, <1>1, <1>6 DEF Types, settings, sending
<1>8. ASSUME NEW d \in Deliveries  PROVE DeliveryInv(d)'
  <2>1. CASE row'[d] = row[d]
    BY <1>0, <1>3, <2>1, UntouchedStep DEF Untouched, SameBatches, sending
  <2>2. CASE row'[d] # row[d]
    <3>1. row[d].state = "NONE" /\ row'[d].state = "PENDING" /\ ~ Deleted(d)
      BY <1>5, <2>2 DEF Deleted
    <3>2. DeliveryInv(d)  OBVIOUS
    <3>3. \A n \in Notifiers : Step(n, d) = "none" /\ Step(n, d)' = "none"
      BY <1>0, <3>1, <3>2 DEF DeliveryInv, InHand, SameBatches
    <3>4. InHand(d)' /\ OneHand(d)' /\ TrueResult(d)'
      BY <3>1, <3>3 DEF InHand, OneHand, TrueResult
    <3>5. d \notin faulty' => Attended(d)' /\ NotYet(d)'
      BY <3>1, <3>2, <3>3 DEF DeliveryInv, Attended, NotYet, sending
    <3> QED  BY <3>4, <3>5 DEF DeliveryInv
  <2> QED  BY <2>1, <2>2
<1> QED  BY <1>7, <1>8

\* Steps on the runs: the rows of r stay, or go with r.
LEMMA RunStep ==
    ASSUME OutboxInv, NEW r \in Runs,
           \/ EndMigration(r) \/ createRestoreNotificationEventTx(r)
           \/ createBackupNotificationEventTx(r) \/ FinalizeSyncPass(r)
           \/ CreateSyncNotificationEvent(r) \/ SyncEventIsOmitted(r)
           \/ DeleteJob(r) \/ StartAgain(r)
    PROVE  OutboxInv'
<1> USE DEF OutboxInv
<1>1. CASE \/ EndMigration(r) \/ createRestoreNotificationEventTx(r)
           \/ createBackupNotificationEventTx(r) \/ CreateSyncNotificationEvent(r)
  BY <1>1, NewEventStep
     DEF EndMigration, createRestoreNotificationEventTx, createBackupNotificationEventTx,
         CreateSyncNotificationEvent
<1>2. CASE FinalizeSyncPass(r) \/ SyncEventIsOmitted(r) \/ DeleteJob(r) \/ StartAgain(r)
  <2>0. UNCHANGED <<channel, edit, smtp, sending, faulty>>
    BY <1>2 DEF FinalizeSyncPass, SyncEventIsOmitted, DeleteJob, StartAgain, settings
  <2>1. SameBatches /\ BatchTypes'  BY <2>0, BatchesKept DEF sending
  <2>2. PICK s \in {"open", "ended", "deleted"} : run' = [run EXCEPT ![r] = s] /\ (run[r] = "deleted" => s = "deleted")
    BY <1>2 DEF FinalizeSyncPass, SyncEventIsOmitted, DeleteJob, StartAgain
  <2>3. /\ run' \in [Runs -> RunStates] /\ run'[r] = s
        /\ \A q \in Runs \ {r} : run'[q] = run[q]
    BY <2>2 DEF Types, RunStates
  <2>4. \A d \in Deliveries : d[1] \in Runs  BY DEF Deliveries
  <2>5. /\ DOMAIN row' = Deliveries /\ row' = [d \in Deliveries |-> row'[d]]
        /\ \A d \in Deliveries : row'[d] = row[d] \/ (d[1] = r /\ row'[d] = NoRow /\ s = "deleted")
    <3>1. CASE row' = row  BY <3>1 DEF Types
    <3>2. CASE DeleteJob(r)
      <4>1. s = "deleted"  BY <2>3, <3>2 DEF DeleteJob, Types
      <4> QED  BY <3>2, <4>1 DEF DeleteJob
    <3> QED  BY <1>2, <3>1, <3>2 DEF FinalizeSyncPass, SyncEventIsOmitted, StartAgain
  <2>6. NoRow \in DeliveryRow /\ NoRow.state = "NONE" /\ AttemptsFit(NoRow)
    BY NewRowType
  <2>7. row' \in [Deliveries -> DeliveryRow] /\ \A d \in Deliveries : AttemptsFit(row'[d])
    BY <2>5, <2>6 DEF Types
  <2>8. Types'  BY <2>0, <2>1, <2>3, <2>7 DEF Types, sending
  <2>9. ASSUME NEW d \in Deliveries  PROVE DeliveryInv(d)'
    <3>0. DeliveryInv(d) /\ \A n \in Notifiers : Step(n, d)' = Step(n, d)
      BY <2>1 DEF SameBatches
    <3>1. CASE d[1] # r
      <4>1. row'[d] = row[d] /\ (Deleted(d)' <=> Deleted(d))
        BY <2>3, <2>4, <2>5, <3>1 DEF Deleted
      <4> QED  BY <2>0, <3>0, <4>1, UntouchedStep DEF Untouched, sending
    <3>2. CASE d[1] = r
      <4>1. Deleted(d)' <=> s = "deleted"  BY <2>3, <3>2 DEF Deleted
      <4>2. Deleted(d) => Deleted(d)'  BY <2>2, <3>2, <4>1 DEF Deleted
      <4>3. row'[d] = row[d] \/ (row'[d].state = "NONE" /\ Deleted(d)')
        BY <2>5, <2>6, <4>1
      <4>4. InHand(d)' /\ OneHand(d)'
        BY <3>0, <4>2, <4>3 DEF DeliveryInv, InHand, OneHand
      <4>5. TrueResult(d)'  BY <2>0, <3>0, <4>3 DEF DeliveryInv, TrueResult, sending
      <4>6. d \notin faulty' => Attended(d)' /\ NotYet(d)'
        BY <2>0, <3>0, <4>2, <4>3 DEF DeliveryInv, Attended, NotYet, sending
      <4> QED  BY <4>4, <4>5, <4>6 DEF DeliveryInv
    <3> QED  BY <3>1, <3>2
  <2> QED  BY <2>8, <2>9
<1> QED  BY <1>1, <1>2

LEMMA RepairStep ==
    ASSUME OutboxInv, NEW n \in Notifiers, Repair(n) \/ RepairStops(n)
    PROVE  OutboxInv'
<1> USE DEF OutboxInv
<1>1. ASSUME UNCHANGED <<settings, run, row, sending, faulty>>  PROVE OutboxInv'
  <2>1. UNCHANGED <<run, row, batch, accepted, faulty>>  BY <1>1 DEF sending
  <2>2. Types'  BY <1>1, BatchesKept DEF Types, settings, sending
  <2> QED  BY <2>1, <2>2, OutboxKept
<1>2. CASE RepairLists(n) \/ RepairStops(n)  BY <1>1, <1>2 DEF RepairLists, RepairStops
<1>3. ASSUME NEW r \in Runs, CreateMigrationNotificationEvent(n, r)  PROVE OutboxInv'
  <2>1. UNCHANGED <<settings, sending, faulty>>
    BY <1>3 DEF CreateMigrationNotificationEvent
  <2>2. CASE UNCHANGED <<run, row>>  BY <1>1, <2>1, <2>2
  <2>3. CASE run[r] # "deleted" /\ NewEvent(r)  BY <2>1, <2>3, NewEventStep
  <2> QED  BY <1>3, <2>2, <2>3 DEF CreateMigrationNotificationEvent, InsertEvent
<1> QED  BY <1>2, <1>3 DEF Repair

-----------------------------------------------------------------------------
(* Steps on deliveries.                                                    *)

LEMMA FailedOnceType ==
    ASSUME NEW e \in DeliveryRow, AttemptsFit(e), e.state # "FAILED"
    PROVE  /\ FailedOnce(e) \in DeliveryRow /\ AttemptsFit(FailedOnce(e))
           /\ FailedOnce(e).state \in {"FAILED", "PENDING"}
<1> DEFINE n == e.attempts + 1
           s == IF n >= MaxAttempts THEN "FAILED" ELSE "PENDING"
           new == [e EXCEPT !.attempts = n, !.stale = FALSE, !.state = s]
<1>1. FailedOnce(e) = new  BY DEF FailedOnce
<1>2. /\ n \in Nat /\ n <= MaxAttempts /\ s \in {"FAILED", "PENDING"}
      /\ s = "FAILED" <=> n = MaxAttempts
  BY LimitsFacts DEF AttemptsFit, DeliveryRow
<1> HIDE DEF n, s
<1>3. new \in DeliveryRow /\ new.attempts = n /\ new.state = s
  BY <1>2 DEF DeliveryRow, RowStates
<1> HIDE DEF new
<1> QED  BY <1>1, <1>2, <1>3 DEF AttemptsFit

\* A step of n on d: the other deliveries do not change.
LEMMA OneDelivery ==
    ASSUME OutboxInv, Types', NEW n \in Notifiers, NEW d \in Deliveries, OnlyStep(n, d),
           run' = run, faulty' \in {faulty, faulty \cup {d}},
           \A e \in Deliveries \ {d} : row'[e] = row[e] /\ accepted'[e] = accepted[e],
           DeliveryInv(d)'
    PROVE  OutboxInv'
<1> SUFFICES ASSUME NEW e \in Deliveries \ {d}  PROVE DeliveryInv(e)'
  BY DEF OutboxInv
<1>1. Untouched(e)  BY DEF Untouched, OnlyStep, Deleted
<1> QED  BY <1>1, UntouchedStep DEF OutboxInv

\* What a step of n on d knows of d.
LEMMA HandFacts ==
    ASSUME OutboxInv, NEW n \in Notifiers, NEW d \in Deliveries, Step(n, d) # "none",
           OnlyStep(n, d)
    PROVE  /\ \A m \in Notifiers \ {n} : Step(m, d) = "none" /\ Step(m, d)' = "none"
           /\ \/ row[d].state = "RUNNING" /\ ~ row[d].stale
              \/ row[d].state = "NONE" /\ Deleted(d)
           /\ row[d] \in DeliveryRow /\ AttemptsFit(row[d]) /\ accepted[d] \in Nat
<1>1. DeliveryInv(d)  BY DEF OutboxInv
<1>2. \A m \in Notifiers \ {n} : Step(m, d) = "none"  BY <1>1 DEF DeliveryInv, OneHand
<1>3. \A m \in Notifiers \ {n} : Step(m, d)' = Step(m, d)  BY DEF OnlyStep
<1> QED  BY <1>1, <1>2, <1>3 DEF DeliveryInv, InHand, OutboxInv, Types

LEMMA SendStep ==
    ASSUME OutboxInv, NEW n \in Notifiers, NEW d \in Deliveries,
           \/ TakeDelivery(n, d) \/ SendNotPossible(n, d) \/ SendAccepted(n, d)
           \/ SendRefused(n, d) \/ SendAnswerLost(n, d)
    PROVE  OutboxInv'
<1> USE DEF OutboxInv
<1>0. DeliveryInv(d)  OBVIOUS
<1>1. PICK s \in BatchSteps :
        /\ batch' = [batch EXCEPT ![n][d] = s] /\ UNCHANGED <<settings, outbox>>
        /\ Step(n, d) \in {"queued", "send"}
        /\ faulty' \in {faulty, faulty \cup {d}}
        /\ \/ accepted' = accepted /\ s # "sent"
           \/ /\ accepted' = [accepted EXCEPT ![d] = @ + 1]
              /\ s = "sent" \/ d \in faulty'
  BY DEF TakeDelivery, SendNotPossible, SendAccepted, SendRefused, SendAnswerLost, Result,
         BatchSteps
<1>2. BatchTypes' /\ Step(n, d)' = s /\ OnlyStep(n, d)  BY <1>1, ResultStep
<1>3. /\ \A m \in Notifiers \ {n} : Step(m, d) = "none" /\ Step(m, d)' = "none"
      /\ \/ row[d].state = "RUNNING" /\ ~ row[d].stale
         \/ row[d].state = "NONE" /\ Deleted(d)
      /\ accepted[d] \in Nat
  BY <1>1, <1>2, HandFacts
<1>4. /\ accepted' \in [Deliveries -> Nat]
      /\ \A e \in Deliveries \ {d} : accepted'[e] = accepted[e]
      /\ \/ accepted'[d] = accepted[d] /\ s # "sent"
         \/ /\ accepted'[d] = accepted[d] + 1
            /\ s = "sent" \/ d \in faulty'
  BY <1>1 DEF Types
<1>5. run' = run /\ row' = row /\ (Deleted(d)' <=> Deleted(d))
  BY <1>1 DEF outbox, Deleted
<1>6. Types'  BY <1>1, <1>2, <1>4, <1>5 DEF Types, settings
<1>7. s # "none"  BY DEF BatchSteps
<1>8. InHand(d)' /\ OneHand(d)'
  BY <1>2, <1>3, <1>5 DEF InHand, OneHand
<1>9. TrueResult(d)'
  BY <1>0, <1>2, <1>3, <1>4, <1>5 DEF DeliveryInv, TrueResult
<1>10. ASSUME d \notin faulty'  PROVE Attended(d)' /\ NotYet(d)'
  <2>1. d \notin faulty  BY <1>1, <1>10
  <2>2. Attended(d)'  BY <1>2, <1>7 DEF Attended
  <2>3. accepted[d] = 0  BY <1>0, <1>1, <2>1 DEF DeliveryInv, NotYet
  <2>4. NotYet(d)'  BY <1>2, <1>3, <1>4, <1>5, <1>10, <2>3 DEF NotYet
  <2> QED  BY <2>2, <2>4
<1>11. DeliveryInv(d)'  BY <1>8, <1>9, <1>10 DEF DeliveryInv
<1> QED  BY <1>1, <1>2, <1>4, <1>5, <1>6, <1>11, OneDelivery

LEMMA CompleteStep ==
    ASSUME OutboxInv, NEW n \in Notifiers, NEW d \in Deliveries,
           CompleteNotificationDelivery(n, d) \/ CompletionIsLost(n, d)
    PROVE  OutboxInv'
<1> USE DEF OutboxInv
<1>0. DeliveryInv(d)  OBVIOUS
<1>1. /\ Done(n, d) /\ Step(n, d) \in {"sent", "failed", "unopened"}
      /\ run' = run /\ UNCHANGED <<settings, accepted>>
      /\ faulty' \in {faulty, faulty \cup {d}}
  BY DEF CompleteNotificationDelivery, CompletionIsLost, outbox
<1>2. BatchTypes' /\ Step(n, d)' = "none" /\ OnlyStep(n, d)  BY <1>1, DoneStep
<1>3. /\ \A m \in Notifiers : Step(m, d)' = "none"
      /\ row[d].state = "RUNNING" \/ (row[d].state = "NONE" /\ Deleted(d))
      /\ row[d] \in DeliveryRow /\ AttemptsFit(row[d])
  BY <1>1, <1>2, HandFacts
<1>4. /\ row' \in [Deliveries -> DeliveryRow] /\ \A e \in Deliveries : AttemptsFit(row'[e])
      /\ \A e \in Deliveries \ {d} : row'[e] = row[e]
      /\ \/ row'[d] = row[d] /\ (row[d].state = "RUNNING" => d \in faulty')
         \/ Step(n, d) = "sent" /\ row'[d].state = "SENT"
         \/ Step(n, d) # "sent" /\ row'[d].state \in {"PENDING", "FAILED"}
  <2>1. CASE row' = row /\ (row[d].state = "RUNNING" => d \in faulty')
    BY <2>1 DEF Types
  <2>2. CASE row[d].state = "RUNNING" /\ row' = [row EXCEPT ![d] = Completed(Step(n, d), row[d])]
    <3>1. CASE Step(n, d) = "sent"
      <4> DEFINE new == [row[d] EXCEPT !.state = "SENT"]
      <4>1. new \in DeliveryRow /\ new.state = "SENT" /\ new.attempts = row[d].attempts
        BY <1>3 DEF DeliveryRow, RowStates
      <4>2. row' = [row EXCEPT ![d] = new]  BY <2>2, <3>1 DEF Completed
      <4> HIDE DEF new
      <4>3. AttemptsFit(new)  BY <1>3, <2>2, <4>1 DEF AttemptsFit
      <4> QED  BY <3>1, <4>1, <4>2, <4>3 DEF Types
    <3>2. CASE Step(n, d) # "sent"
      <4>1. row' = [row EXCEPT ![d] = FailedOnce(row[d])]  BY <2>2, <3>2 DEF Completed
      <4> QED  BY <1>3, <2>2, <3>2, <4>1, FailedOnceType DEF Types
    <3> QED  BY <3>1, <3>2
  <2>3. CASE CompletionIsLost(n, d)  BY <2>1, <2>3 DEF CompletionIsLost, outbox
  <2>4. CASE CompleteNotificationDelivery(n, d)
    BY <2>1, <2>2, <2>4 DEF CompleteNotificationDelivery
  <2> QED  BY <2>3, <2>4
<1>5. Types'  BY <1>1, <1>2, <1>4 DEF Types, settings
<1>6. Deleted(d)' <=> Deleted(d)  BY <1>1 DEF Deleted
<1>7. InHand(d)' /\ OneHand(d)'  BY <1>3 DEF InHand, OneHand
<1>8. TrueResult(d)'
  BY <1>0, <1>1, <1>3, <1>4 DEF DeliveryInv, TrueResult
<1>9. ASSUME d \notin faulty'  PROVE Attended(d)' /\ NotYet(d)'
  <2>1. d \notin faulty  BY <1>1, <1>9
  <2>2. Attended(d)'  BY <1>3, <1>4, <1>9 DEF Attended
  <2>3. NotYet(d)'
    BY <1>0, <1>1, <1>3, <1>4, <1>6, <1>9, <2>1 DEF DeliveryInv, NotYet
  <2> QED  BY <2>2, <2>3
<1>10. DeliveryInv(d)'  BY <1>7, <1>8, <1>9 DEF DeliveryInv
<1> QED  BY <1>1, <1>2, <1>4, <1>5, <1>10, OneDelivery

\* The lease of a delivery that nobody has; without a fault there is none.
LEMMA LeaseStep ==
    ASSUME OutboxInv, NEW d \in Deliveries, LeaseExpires(d)
    PROVE  OutboxInv'
<1> USE DEF OutboxInv
<1> DEFINE new == [row[d] EXCEPT !.stale = TRUE]
<1>0. /\ row[d].state = "RUNNING" /\ \A n \in Notifiers : Step(n, d) = "none"
      /\ UNCHANGED <<settings, run, sending, faulty>> /\ DeliveryInv(d)
      /\ row[d] \in DeliveryRow /\ AttemptsFit(row[d])
  BY DEF LeaseExpires, Types
<1>1. /\ new \in DeliveryRow /\ new.state = row[d].state /\ new.attempts = row[d].attempts
  BY <1>0 DEF DeliveryRow
<1>2. row' = [row EXCEPT ![d] = new]  BY DEF LeaseExpires, Types
<1> HIDE DEF new
<1>3. /\ row' \in [Deliveries -> DeliveryRow] /\ \A e \in Deliveries : AttemptsFit(row'[e])
      /\ \A e \in Deliveries \ {d} : row'[e] = row[e] /\ row'[d].state = "RUNNING"
      /\ row'[d].state = "RUNNING"
  BY <1>0, <1>1, <1>2 DEF Types, AttemptsFit
<1>4. BatchTypes' /\ SameBatches  BY <1>0, BatchesKept DEF sending
<1>5. Types'  BY <1>0, <1>3, <1>4 DEF Types, settings, sending
<1>6. \A e \in Deliveries \ {d} : DeliveryInv(e)'
  BY <1>0, <1>3, <1>4, UntouchedStep DEF Untouched, SameBatches, Deleted, sending
<1>7. d \in faulty /\ \A n \in Notifiers : Step(n, d)' = "none"
  BY <1>0, <1>4 DEF DeliveryInv, Attended, SameBatches
<1>8. DeliveryInv(d)'
  BY <1>0, <1>3, <1>7 DEF DeliveryInv, InHand, OneHand, TrueResult
<1> QED  BY <1>5, <1>6, <1>8

LEMMA CrashStep ==
    ASSUME OutboxInv, NEW n \in Notifiers, Crash(n)
    PROVE  OutboxInv'
<1> USE DEF OutboxInv
<1>0. /\ faulty' = faulty \cup DOMAIN batch[n] /\ UNCHANGED <<settings, run, row, accepted>>
      /\ batch' = [batch EXCEPT ![n] = [d \in {} |-> "queued"]]
  BY DEF Crash, NoBatch
<1>1. /\ BatchTypes'
      /\ \A d \in Deliveries : Step(n, d)' = "none"
      /\ \A m \in Notifiers \ {n}, d \in Deliveries : Step(m, d)' = Step(m, d)
  <2>1. {} \in SUBSET Deliveries  OBVIOUS
  <2> QED  BY <1>0, <2>1, BatchStep
<1>2. faulty' \subseteq Deliveries  BY <1>0 DEF Types, BatchTypes
<1>3. Types'  BY <1>0, <1>1, <1>2 DEF Types, settings
<1>4. ASSUME NEW d \in Deliveries  PROVE DeliveryInv(d)'
  <2>0. DeliveryInv(d)  OBVIOUS
  <2>1. CASE d \notin DOMAIN batch[n]
    <3>1. Step(n, d) = "none"  BY <2>1, StepType
    <3> QED  BY <1>0, <1>1, <2>0, <3>1, UntouchedStep DEF Untouched, Deleted
  <2>2. CASE d \in DOMAIN batch[n]
    <3>1. d \in faulty'  BY <1>0, <2>2
    <3>2. InHand(d)' /\ OneHand(d)' /\ TrueResult(d)'
      BY <1>0, <1>1, <2>0 DEF DeliveryInv, InHand, OneHand, TrueResult, Deleted
    <3> QED  BY <3>1, <3>2 DEF DeliveryInv
  <2> QED  BY <2>1, <2>2
<1> QED  BY <1>3, <1>4

LEMMA ClaimStep ==
    ASSUME OutboxInv, NEW n \in Notifiers, ClaimNotificationDeliveries(n)
    PROVE  OutboxInv'
<1> USE DEF OutboxInv
<1>1. PICK S \in SUBSET {d \in Deliveries : Claimable(Reaped[d])} :
        /\ row' = [d \in Deliveries |->
                     IF d \in S THEN [Reaped[d] EXCEPT !.state = "RUNNING", !.stale = FALSE]
                     ELSE Reaped[d]]
        /\ batch' = [batch EXCEPT ![n] = [d \in S |-> "queued"]]
  BY DEF ClaimNotificationDeliveries
<1>2. batch[n] = NoBatch /\ UNCHANGED <<settings, run, accepted, faulty>>
  BY DEF ClaimNotificationDeliveries
<1>3. /\ BatchTypes'
      /\ \A d \in Deliveries : Step(n, d)' = IF d \in S THEN "queued" ELSE "none"
      /\ \A m \in Notifiers \ {n}, d \in Deliveries : Step(m, d)' = Step(m, d)
  <2>1. S \in SUBSET Deliveries  OBVIOUS
  <2> QED  BY <1>1, <2>1, BatchStep
<1>4. \A d \in Deliveries : Step(n, d) = "none"
  <2>1. DOMAIN batch[n] = {}  BY <1>2 DEF NoBatch
  <2> QED  BY <2>1 DEF Step
\* A lease that ran out belongs to a delivery with a fault.
<1>5. ASSUME NEW d \in Deliveries
      PROVE  /\ Reaped[d] \in DeliveryRow /\ AttemptsFit(Reaped[d])
             /\ \/ Reaped[d] = row[d]
                \/ /\ row[d].state = "RUNNING" /\ d \in faulty
                   /\ Reaped[d].state \in {"PENDING", "FAILED"}
                   /\ \A m \in Notifiers : Step(m, d) = "none"
  <2>0. row[d] \in DeliveryRow /\ AttemptsFit(row[d]) /\ DeliveryInv(d)  BY DEF Types
  <2>1. CASE row[d].state = "RUNNING" /\ row[d].stale
    <3>1. Reaped[d] = FailedOnce(row[d])  BY <2>1 DEF Reaped
    <3>2. \A m \in Notifiers : Step(m, d) = "none"  BY <2>0, <2>1 DEF DeliveryInv, InHand
    <3>3. d \in faulty  BY <2>0, <2>1, <3>2 DEF DeliveryInv, Attended
    <3> QED  BY <2>0, <2>1, <3>1, <3>2, <3>3, FailedOnceType
  <2>2. CASE ~ (row[d].state = "RUNNING" /\ row[d].stale)
    <3>1. Reaped[d] = row[d]  BY <2>2 DEF Reaped
    <3> QED  BY <2>0, <3>1
  <2> QED  BY <2>1, <2>2
<1>6. ASSUME NEW d \in Deliveries
      PROVE  /\ row'[d] \in DeliveryRow /\ AttemptsFit(row'[d])
             /\ d \in S => /\ row'[d].state = "RUNNING" /\ ~ row'[d].stale
                           /\ Reaped[d].state = "PENDING"
             /\ d \notin S => row'[d] = Reaped[d]
  <2>1. CASE d \notin S  BY <1>1, <1>5, <2>1
  <2>2. CASE d \in S
    <3> DEFINE new == [Reaped[d] EXCEPT !.state = "RUNNING", !.stale = FALSE]
    <3>1. row'[d] = new  BY <1>1, <2>2
    <3>2. Reaped[d].state = "PENDING"  BY <1>1, <2>2 DEF Claimable
    <3>3. Reaped[d] \in DeliveryRow /\ AttemptsFit(Reaped[d])  BY <1>5
    <3>4. /\ new \in DeliveryRow /\ new.state = "RUNNING" /\ ~ new.stale
          /\ new.attempts = Reaped[d].attempts
      BY <3>3 DEF DeliveryRow, RowStates
    <3> HIDE DEF new
    <3>5. AttemptsFit(new)  BY <3>2, <3>3, <3>4 DEF AttemptsFit
    <3> QED  BY <2>2, <3>1, <3>2, <3>4, <3>5
  <2> QED  BY <2>1, <2>2
<1>7. Types'
  <2>1. row' \in [Deliveries -> DeliveryRow]
    <3>1. row' = [d \in Deliveries |-> row'[d]]  BY <1>1
    <3> QED  BY <1>6, <3>1
  <2> QED  BY <1>2, <1>3, <1>6, <2>1 DEF Types, settings
<1>8. ASSUME NEW d \in Deliveries  PROVE DeliveryInv(d)'
  <2>0. DeliveryInv(d) /\ (Deleted(d)' <=> Deleted(d))  BY <1>2 DEF Deleted
  <2>1. CASE d \notin S /\ Reaped[d] = row[d]
    <3>1. row'[d] = row[d] /\ \A m \in Notifiers : Step(m, d)' = Step(m, d)
      BY <1>3, <1>4, <1>6, <2>1
    <3> QED  BY <1>2, <2>0, <3>1, UntouchedStep DEF Untouched
  <2>2. CASE d \notin S /\ Reaped[d] # row[d]
    <3>1. /\ d \in faulty' /\ row'[d].state \in {"PENDING", "FAILED"}
          /\ \A m \in Notifiers : Step(m, d)' = "none"
      BY <1>2, <1>3, <1>4, <1>5, <1>6, <2>2
    <3> QED  BY <3>1 DEF DeliveryInv, InHand, OneHand, TrueResult
  <2>3. CASE d \in S
    <3>1. \A m \in Notifiers : Step(m, d) = "none"
      BY <1>5, <1>6, <2>0, <2>3 DEF DeliveryInv, InHand
    <3>2. /\ row'[d].state = "RUNNING" /\ ~ row'[d].stale /\ Step(n, d)' = "queued"
          /\ \A m \in Notifiers \ {n} : Step(m, d)' = "none"
      BY <1>3, <1>6, <2>3, <3>1
    <3>3. d \notin faulty => accepted[d] = 0
      BY <1>5, <1>6, <2>0, <2>3 DEF DeliveryInv, NotYet
    <3>4. InHand(d)' /\ OneHand(d)' /\ TrueResult(d)'
      BY <3>2 DEF InHand, OneHand, TrueResult
    <3>5. d \notin faulty' => Attended(d)' /\ NotYet(d)'
      BY <1>2, <3>2, <3>3 DEF Attended, NotYet
    <3> QED  BY <3>4, <3>5 DEF DeliveryInv
  <2> QED  BY <2>1, <2>2, <2>3
<1> QED  BY <1>7, <1>8

-----------------------------------------------------------------------------
LEMMA OutboxInvInit == Init => OutboxInv
<1> SUFFICES ASSUME Init PROVE OutboxInv  OBVIOUS
<1>1. NoRow \in DeliveryRow /\ NoRow.state = "NONE" /\ AttemptsFit(NoRow)  BY NewRowType
<1>2. \A n \in Notifiers : batch[n] = NoBatch /\ DOMAIN batch[n] = {}
  BY DEF Init, NoBatch
<1>3. \A n \in Notifiers, d \in Deliveries : Step(n, d) = "none"
  BY <1>2 DEF Step
<1>4. BatchTypes  BY <1>2 DEF BatchTypes, NoBatch, Init
<1>5. channel \in [Channels -> [saved : BOOLEAN, enabled : BOOLEAN, secret : Nat]]
  <2>1. CASE channel = [c \in Channels |-> [saved |-> FALSE, enabled |-> FALSE, secret |-> 0]]
    BY <2>1
  <2>2. CASE channel = [c \in Channels |-> [saved |-> TRUE, enabled |-> TRUE,
                                            secret |-> IF c = "hook" THEN 1 ELSE 0]]
    <3>1. \A c \in Channels : (IF c = "hook" THEN 1 ELSE 0) \in Nat  OBVIOUS
    <3> QED  BY <2>2, <3>1
  <2> QED  BY <2>1, <2>2 DEF Init
<1>6. edit \in [open : BOOLEAN, prior : Nat]  BY DEF Init, NoEdit
<1>7. run \in [Runs -> RunStates]  BY DEF Init, RunStates
<1>8. Types
  BY <1>1, <1>4, <1>5, <1>6, <1>7 DEF Types, Init
<1>9. ASSUME NEW d \in Deliveries  PROVE DeliveryInv(d)
  <2>1. row[d].state = "NONE" /\ accepted[d] = 0  BY <1>1 DEF Init
  <2> QED  BY <1>3, <2>1 DEF DeliveryInv, InHand, OneHand, TrueResult, Attended, NotYet
<1> QED  BY <1>8, <1>9 DEF OutboxInv

LEMMA OutboxInvNext == OutboxInv /\ [Next]_vars => OutboxInv'
<1> SUFFICES ASSUME OutboxInv, [Next]_vars PROVE OutboxInv'  OBVIOUS
<1>1. CASE UNCHANGED vars
  <2>1. UNCHANGED <<channel, edit, smtp, run, row, batch, accepted, faulty>>
    BY <1>1 DEF vars, settings, outbox, sending
  <2>2. Types'  BY <2>1, BatchesKept DEF OutboxInv, Types
  <2> QED  BY <2>1, <2>2, OutboxKept
<1>2. CASE \/ \E on \in BOOLEAN : \/ SaveEmailPreference(on)
                                  \/ \E given \in {0, 2} : UpsertNotificationChannel(given, on)
           \/ GetNotificationChannel \/ DeleteInstanceSMTPSettings
           \/ \E blank \in BOOLEAN : UpsertInstanceSMTPSettings(blank)
  BY <1>2, SettingsStep
<1>3. ASSUME NEW n \in Notifiers,
             ClaimNotificationDeliveries(n) \/ Repair(n) \/ RepairStops(n) \/ Crash(n)
      PROVE  OutboxInv'
  BY <1>3, ClaimStep, RepairStep, CrashStep
<1>4. ASSUME NEW n \in Notifiers, NEW d \in Deliveries,
             Handle(n, d) \/ SendAnswerLost(n, d) \/ CompletionIsLost(n, d)
      PROVE  OutboxInv'
  BY <1>4, SendStep, CompleteStep DEF Handle
<1> QED  BY <1>1, <1>2, <1>3, <1>4, RunStep, LeaseStep DEF Next

(* A delivery in state SENT was taken by the remote side: no refused, lost or
   repeated attempt of any notifier records it (CompleteNotificationDelivery). *)
THEOREM SentIsAccepted == Spec => []SentWasAccepted
<1>1. OutboxInv => SentWasAccepted
  BY DEF OutboxInv, DeliveryInv, TrueResult, SentWasAccepted
<1> QED  BY <1>1, OutboxInvInit, OutboxInvNext, PTL DEF Spec

(* Without a crash, a lost answer or a failed write no event reaches the user
   twice on one channel, however many processes claim, repair and retry
   (ClaimNotificationDeliveries, CreateMigrationNotificationEvent).         *)
THEOREM DuplicatesNeedAFault == Spec => []DuplicatesHaveACause
<1>1. OutboxInv => DuplicatesHaveACause
  <2> SUFFICES ASSUME OutboxInv, NEW d \in Deliveries, d \notin faulty
               PROVE  ~ (accepted[d] > 1)
    BY DEF DuplicatesHaveACause
  <2> QED  BY DEF OutboxInv, DeliveryInv, NotYet, Types
<1> QED  BY <1>1, OutboxInvInit, OutboxInvNext, PTL DEF Spec

(* The types of the tables, and the limit on attempts: a delivery is tried at
   most MaxAttempts times and is FAILED exactly then, whatever expired leases
   and failures come between (FailedOnce).                                  *)
THEOREM TypeCorrect == Spec => []TypeOK
<1>1. OutboxInv => TypeOK
  <2> SUFFICES ASSUME OutboxInv PROVE TypeOK  OBVIOUS
  <2>1. ASSUME NEW d \in Deliveries
        PROVE  /\ row[d].state \in {"NONE", "PENDING", "RUNNING", "SENT", "FAILED"}
               /\ row[d].attempts \in 0 .. MaxAttempts
               /\ row[d].state = "FAILED" <=> row[d].attempts = MaxAttempts
    BY LimitsFacts DEF OutboxInv, Types, DeliveryRow, RowStates, AttemptsFit
  <2> QED  BY <2>1 DEF OutboxInv, Types, RunStates, TypeOK
<1> QED  BY <1>1, OutboxInvInit, OutboxInvNext, PTL DEF Spec
=============================================================================

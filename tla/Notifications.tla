---------------------------- MODULE Notifications ----------------------------
(***************************************************************************)
(* The notification outbox of one user: channel settings, the events of    *)
(* runs that ended, one delivery per event and channel, and the notifiers  *)
(* of the worker processes that send them.                                 *)
(*                                                                         *)
(* A run is one generation of a migration, one backup or restore run, or   *)
(* one sync pass.  Its event is written in the transaction that ends it,   *)
(* for a sync pass in a second one; a sweep repairs migrations that ended  *)
(* without.  The payload and the language are not told apart, the back-off *)
(* before a retry is left to the scheduler, and a secret is the number     *)
(* under which it was entered (0 is none).                                 *)
(***************************************************************************)
EXTENDS Naturals, FiniteSets, Functions

CONSTANTS
    Runs,         \* runs that may end
    Kinds,        \* of "migration", "backup", "restore", "sync"
    Notifiers,    \* worker processes, each with RunNotifier
    BatchLimit,   \* deliveries of one claim (10 in the code)
    SendWorkers,  \* deliveries a notifier sends at once (3 in the code)
    MaxAttempts,  \* 3 in the code
    MaxEdits,     \* bound: changes of settings
    MaxFaults     \* bound: crashes, lost answers, failed statements

ASSUME KindsAssumption == Kinds \subseteq {"migration", "backup", "restore", "sync"}
ASSUME LimitsAssumption ==
    /\ {BatchLimit, SendWorkers, MaxAttempts} \subseteq Nat \ {0}
    /\ {MaxEdits, MaxFaults} \subseteq Nat

(* Every channel but e-mail works like the others: one stands for them.    *)
Channels   == {"email", "hook"}
Deliveries == Runs \X Channels

VARIABLES
    channel,   \* notification_channels: [saved, enabled, secret]
    edit,      \* the settings request in progress, and the secret it read
    smtp,      \* instance_smtp_settings: "none", or how the password was encrypted
    kind,      \* what a run is a run of (never changes)
    run,       \* "open", "ended" (no event yet), "event" or "deleted"; a migration
               \* that ended without an event is "open" again in its next generation
    sweep,     \* migrations the repair of a process is going through
    row,       \* notification_deliveries: [state, attempts, stale, secret]
    batch,     \* what a notifier does with the deliveries it claimed
    accepted,  \* history: how often the remote side took a delivery
    faulty,    \* history: deliveries hit by a crash, a lost answer, a failed write
    edits, faults

settings == <<channel, edit, smtp, edits>>
outbox   == <<run, sweep, row>>
sending  == <<batch, accepted>>
vars     == <<kind, settings, outbox, sending, faulty, faults>>

NoRow   == [state |-> "NONE", attempts |-> 0, stale |-> FALSE, secret |-> 0]
NoBatch == [d \in {} |-> "queued"]
NoEdit  == [open |-> FALSE, prior |-> 0]

Init ==
    /\ channel \in {[c \in Channels |-> [saved |-> FALSE, enabled |-> FALSE, secret |-> 0]],
                    [c \in Channels |-> [saved |-> TRUE, enabled |-> TRUE,
                                         secret |-> IF c = "hook" THEN 1 ELSE 0]]}
    /\ edit = NoEdit
    /\ smtp \in {"none", "legacy"}
    /\ kind \in [Runs -> Kinds]
    /\ run \in [Runs -> {"open", "ended", "deleted"}]
    /\ \A r \in Runs : run[r] = "ended" => kind[r] = "migration"  \* before the outbox
    /\ sweep = [n \in Notifiers |-> {}]
    /\ row = [d \in Deliveries |-> NoRow]
    /\ batch = [n \in Notifiers |-> NoBatch]
    /\ accepted = [d \in Deliveries |-> 0]
    /\ faulty = {}
    /\ edits = 0 /\ faults = 0

Fault == faults < MaxFaults /\ faults' = faults + 1

-----------------------------------------------------------------------------
(* Settings.                                                               *)

Edit == edits < MaxEdits /\ edits' = edits + 1

(* handleUpdateNotificationSettings, e-mail: a preference, no secret.      *)
SaveEmailPreference(on) ==
    /\ Edit /\ smtp # "none"
    /\ channel' = [channel EXCEPT !["email"] =
                     [saved |-> TRUE, enabled |-> on, secret |-> 0]]
    /\ UNCHANGED <<kind, edit, smtp, outbox, sending, faulty, faults>>

(* The other channels: the saved configuration is read first ...           *)
GetNotificationChannel ==
    /\ ~ edit.open /\ Edit
    /\ edit' = [open |-> TRUE, prior |-> channel["hook"].secret]
    /\ UNCHANGED <<kind, channel, smtp, outbox, sending, faulty, faults>>

(* ... a blank secret keeps the one that was read ...                      *)
Merged(given) == IF given = 0 THEN edit.prior ELSE given

(* ... and what notify.Validate accepts replaces the row.                  *)
UpsertNotificationChannel(given, on) ==
    /\ edit.open
    /\ channel' = IF edit.prior # 0 \/ given # 0
                    THEN [channel EXCEPT !["hook"] = [saved |-> TRUE, enabled |-> on,
                                                      secret |-> Merged(given)]]
                  ELSE channel
    /\ edit' = NoEdit
    /\ UNCHANGED <<kind, smtp, edits, outbox, sending, faulty, faults>>

(* handleAdminPutSMTP: a blank password keeps the stored ciphertext.       *)
UpsertInstanceSMTPSettings(blank) ==
    /\ Edit /\ (blank => smtp # "none")
    /\ smtp' = IF blank THEN smtp ELSE "smtp"
    /\ UNCHANGED <<kind, channel, edit, outbox, sending, faulty, faults>>

DeleteInstanceSMTPSettings ==
    /\ Edit
    /\ smtp' = "none"
    /\ UNCHANGED <<kind, channel, edit, outbox, sending, faulty, faults>>

-----------------------------------------------------------------------------
(* Events.                                                                 *)

(* The channels an event is sent to: the enabled ones, and e-mail if there is
   a mailer and the user never saved a preference.                          *)
Wanted(c) == \/ channel[c].enabled
             \/ c = "email" /\ smtp # "none" /\ ~ channel[c].saved

(* One delivery per wanted channel, with its configuration of this moment. *)
createNotificationDeliveries(r) ==
    row' = [d \in Deliveries |->
              IF d[1] = r /\ Wanted(d[2]) /\ row[d].state = "NONE"
                THEN [NoRow EXCEPT !.state = "PENDING", !.secret = channel[d[2]].secret]
              ELSE row[d]]

NewEvent(r) == run' = [run EXCEPT ![r] = "event"] /\ createNotificationDeliveries(r)

(* The unique key of the event makes every writer but the first a no-op.   *)
InsertEvent(r) == IF run[r] = "event" THEN UNCHANGED <<run, row>> ELSE NewEvent(r)

(* The transaction that ends a migration, a backup or a restore run.       *)
EndMigration(r) ==
    /\ run[r] = "open" /\ kind[r] = "migration"
    /\ NewEvent(r)
    /\ UNCHANGED <<kind, settings, sweep, sending, faulty, faults>>

createRestoreNotificationEventTx(r) ==
    /\ run[r] = "open" /\ kind[r] = "restore"
    /\ NewEvent(r)
    /\ UNCHANGED <<kind, settings, sweep, sending, faulty, faults>>

createBackupNotificationEventTx(r) ==
    /\ run[r] = "open" /\ kind[r] = "backup"
    /\ NewEvent(r)
    /\ UNCHANGED <<kind, settings, sweep, sending, faulty, faults>>

(* A sync pass: the event follows in a transaction of its own, which a crash
   or an error leaves out.                                                  *)
FinalizeSyncPass(r) ==
    /\ run[r] = "open" /\ kind[r] = "sync"
    /\ run' = [run EXCEPT ![r] = "ended"]
    /\ UNCHANGED <<kind, settings, sweep, row, sending, faulty, faults>>

CreateSyncNotificationEvent(r) ==
    /\ run[r] = "ended" /\ kind[r] = "sync"
    /\ NewEvent(r)
    /\ UNCHANGED <<kind, settings, sweep, sending, faulty, faults>>

SyncEventIsOmitted(r) ==
    /\ run[r] = "ended" /\ kind[r] = "sync" /\ Fault
    /\ run' = [run EXCEPT ![r] = "deleted"]
    /\ UNCHANGED <<kind, settings, sweep, row, sending, faulty>>

RepairListsReported(n) ==
    /\ sweep[n] = {}
    /\ sweep' = [sweep EXCEPT ![n] =
                   {r \in Runs : kind[r] = "migration" /\ run[r] = "event"}]
    /\ sweep'[n] # {}
    /\ UNCHANGED <<kind, settings, run, row, sending, faulty, faults>>

(* RepairMissingMigrationNotificationEvents: the ids are listed, then an
   event is written for one after the other.                                *)
RepairLists(n) ==
    /\ sweep[n] = {}
    /\ sweep' = [sweep EXCEPT ![n] =
                   {r \in Runs : kind[r] = "migration" /\ run[r] = "ended"}]
    /\ sweep'[n] # {}
    /\ UNCHANGED <<kind, settings, run, row, sending, faulty, faults>>

(* The migration may have changed since it was listed: one that is gone is an
   error, which stops the sweep; one that was started again gets no event.  *)
CreateMigrationNotificationEvent(n, r) ==
    /\ r \in sweep[n]
    /\ CASE run[r] = "deleted" -> sweep' = [sweep EXCEPT ![n] = {}] /\ UNCHANGED <<run, row>>
         [] run[r] = "open"    -> sweep' = [sweep EXCEPT ![n] = @ \ {r}] /\ UNCHANGED <<run, row>>
         [] OTHER              -> sweep' = [sweep EXCEPT ![n] = @ \ {r}] /\ InsertEvent(r)
    /\ UNCHANGED <<kind, settings, sending, faulty, faults>>

(* A statement of the sweep fails: the migrations not reached wait for the
   next one.                                                                *)
RepairStops(n) ==
    /\ sweep[n] # {} /\ Fault
    /\ sweep' = [sweep EXCEPT ![n] = {}]
    /\ UNCHANGED <<kind, settings, run, row, sending, faulty>>

(* A request starts an ended migration again: its next generation is open. *)
StartAgain(r) ==
    /\ run[r] = "ended" /\ kind[r] = "migration" /\ Edit
    /\ run' = [run EXCEPT ![r] = "open"]
    /\ UNCHANGED <<kind, channel, edit, smtp, sweep, row, sending, faulty, faults>>

(* The user deletes the job: events and deliveries go with it.             *)
DeleteJob(r) ==
    /\ run[r] \in {"ended", "event"} /\ Edit
    /\ run' = [run EXCEPT ![r] = "deleted"]
    /\ row' = [d \in Deliveries |-> IF d[1] = r THEN NoRow ELSE row[d]]
    /\ UNCHANGED <<kind, channel, edit, smtp, sweep, sending, faulty, faults>>

-----------------------------------------------------------------------------
(* Deliveries.                                                             *)

InState(s) == {d \in Deliveries : row[d].state = s}

(* attempts + 1; the third failure is final.                               *)
FailedOnce(e) ==
    [e EXCEPT !.attempts = @ + 1, !.stale = FALSE,
              !.state = IF e.attempts + 1 >= MaxAttempts THEN "FAILED" ELSE "PENDING"]

ReapedNothing == row

(* ClaimNotificationDeliveries: leases that ran out count as a failure ...  *)
Reaped == [d \in Deliveries |-> IF row[d].state = "RUNNING" /\ row[d].stale
                                   THEN FailedOnce(row[d]) ELSE row[d]]

Claimable(e) == e.state = "PENDING"

(* ... then some that are due become RUNNING.                              *)
ClaimNotificationDeliveries(n) ==
    /\ batch[n] = NoBatch
    /\ \E S \in SUBSET {d \in Deliveries : Claimable(Reaped[d])} :
         /\ Cardinality(S) <= BatchLimit
         /\ row' = [d \in Deliveries |->
                      IF d \in S THEN [Reaped[d] EXCEPT !.state = "RUNNING", !.stale = FALSE]
                      ELSE Reaped[d]]
         /\ batch' = [batch EXCEPT ![n] = [d \in S |-> "queued"]]
    /\ row' # row
    /\ UNCHANGED <<kind, settings, run, sweep, accepted, faulty, faults>>

Step(n, d) == IF d \in DOMAIN batch[n] THEN batch[n][d] ELSE "none"
Busy(n)    == {d \in DOMAIN batch[n] : Step(n, d) # "queued"}

(* One of the send workers takes a delivery from the channel of jobs.      *)
TakeDelivery(n, d) ==
    /\ Step(n, d) = "queued" /\ Cardinality(Busy(n)) < SendWorkers
    /\ batch' = [batch EXCEPT ![n][d] = "send"]
    /\ UNCHANGED <<kind, settings, outbox, accepted, faulty, faults>>

(* withDecryptedNotificationSecret opens every ciphertext as a notification
   configuration: one of the mailer's own domain is rejected, one from before
   the domains is accepted.                                                 *)
CanOpen(c) == c = "email" => smtp = "legacy"

Result(n, d, s) == batch' = [batch EXCEPT ![n][d] = s]

(* SMTP_NOT_CONFIGURED or SMTP_DECRYPT_FAILED: nothing is sent.            *)
SendNotPossible(n, d) ==
    /\ Step(n, d) = "send" /\ ~ CanOpen(d[2])
    /\ Result(n, d, IF smtp = "none" THEN "failed" ELSE "unopened")
    /\ UNCHANGED <<kind, settings, outbox, accepted, faulty, faults>>

QuitIsReported(n, d) ==
    /\ Step(n, d) = "send" /\ CanOpen(d[2])
    /\ Result(n, d, "failed")
    /\ accepted' = [accepted EXCEPT ![d] = @ + 1]
    /\ UNCHANGED <<kind, settings, outbox, faulty, faults>>

(* notify.Send: the remote side takes the message, or not; its answer may
   not arrive within the timeout.                                           *)
SendAccepted(n, d) ==
    /\ Step(n, d) = "send" /\ CanOpen(d[2])
    /\ Result(n, d, "sent")
    /\ accepted' = [accepted EXCEPT ![d] = @ + 1]
    /\ UNCHANGED <<kind, settings, outbox, faulty, faults>>

SendAnswerLost(n, d) ==
    /\ Step(n, d) = "send" /\ CanOpen(d[2]) /\ Fault
    /\ Result(n, d, "failed")
    /\ accepted' = [accepted EXCEPT ![d] = @ + 1]
    /\ faulty' = faulty \cup {d}
    /\ UNCHANGED <<kind, settings, outbox>>

SendRefused(n, d) ==
    /\ Step(n, d) = "send" /\ CanOpen(d[2])
    /\ Result(n, d, "failed")
    /\ UNCHANGED <<kind, settings, outbox, accepted, faulty, faults>>

(* The delivery leaves the batch; the round ends with an empty one.        *)
Done(n, d) ==
    batch' = [batch EXCEPT ![n] = Restrict(@, DOMAIN @ \ {d})]

CompletedRegardless(s, e) == [e EXCEPT !.state = "SENT"]

(* The row after a send with result s, if it is still RUNNING.             *)
Completed(s, e) == IF s = "sent" THEN [e EXCEPT !.state = "SENT"] ELSE FailedOnce(e)

CompleteNotificationDelivery(n, d) ==
    /\ Step(n, d) \in {"sent", "failed", "unopened"}
    /\ row' = IF row[d].state = "RUNNING"
                THEN [row EXCEPT ![d] = Completed(Step(n, d), @)] ELSE row
    /\ Done(n, d)
    /\ UNCHANGED <<kind, settings, run, sweep, accepted, faulty, faults>>

(* Its error is ignored: the row stays RUNNING.                            *)
CompletionIsLost(n, d) ==
    /\ Step(n, d) \in {"sent", "failed", "unopened"} /\ Fault
    /\ faulty' = faulty \cup {d}
    /\ Done(n, d)
    /\ UNCHANGED <<kind, settings, outbox, accepted>>

(* A process dies in the middle of a batch, of a sweep or of both.         *)
Crash(n) ==
    /\ batch[n] # NoBatch \/ sweep[n] # {}
    /\ Fault
    /\ faulty' = faulty \cup DOMAIN batch[n]
    /\ batch' = [batch EXCEPT ![n] = NoBatch]
    /\ sweep' = [sweep EXCEPT ![n] = {}]
    /\ UNCHANGED <<kind, settings, run, row, accepted>>

(* Ten minutes pass: no notifier takes that long, as every send has a
   timeout of fifteen seconds, so the one that claimed it is gone.          *)
LeaseExpires(d) ==
    /\ row[d].state = "RUNNING" /\ ~ row[d].stale
    /\ \A n \in Notifiers : Step(n, d) = "none"
    /\ row' = [row EXCEPT ![d].stale = TRUE]
    /\ UNCHANGED <<kind, settings, run, sweep, sending, faulty, faults>>

-----------------------------------------------------------------------------
Handle(n, d) ==
    \/ TakeDelivery(n, d) \/ SendNotPossible(n, d) \/ SendAccepted(n, d)
    \/ SendRefused(n, d) \/ CompleteNotificationDelivery(n, d)

Repair(n) == RepairLists(n) \/ \E r \in Runs : CreateMigrationNotificationEvent(n, r)

Next ==
    \/ \E on \in BOOLEAN : \/ SaveEmailPreference(on)
                           \/ \E given \in {0, 2} : UpsertNotificationChannel(given, on)
    \/ GetNotificationChannel \/ DeleteInstanceSMTPSettings
    \/ \E blank \in BOOLEAN : UpsertInstanceSMTPSettings(blank)
    \/ \E r \in Runs : \/ EndMigration(r) \/ createRestoreNotificationEventTx(r)
                       \/ createBackupNotificationEventTx(r) \/ FinalizeSyncPass(r)
                       \/ CreateSyncNotificationEvent(r) \/ SyncEventIsOmitted(r)
                       \/ DeleteJob(r) \/ StartAgain(r)
    \/ \E n \in Notifiers :
         \/ ClaimNotificationDeliveries(n) \/ Repair(n) \/ RepairStops(n) \/ Crash(n)
         \/ \E d \in Deliveries : \/ Handle(n, d) \/ SendAnswerLost(n, d)
                                  \/ CompletionIsLost(n, d)
    \/ \E d \in Deliveries : LeaseExpires(d)

Spec == Init /\ [][Next]_vars

(* The ticker of every notifier and of the repair keeps firing, a batch is
   worked off, and time passes.                                             *)
Fairness ==
    /\ \A n \in Notifiers : /\ WF_vars(ClaimNotificationDeliveries(n)) /\ WF_vars(Repair(n))
                            /\ \A d \in Deliveries : WF_vars(Handle(n, d))
    /\ \A d \in Deliveries : WF_vars(LeaseExpires(d))

FairSpec == Spec /\ Fairness

-----------------------------------------------------------------------------
(* The tables keep their types, and a delivery is never tried more than three
   times, whatever crashes and expired leases come between.                 *)
TypeOK ==
    /\ \A d \in Deliveries :
         /\ row[d].state \in {"NONE", "PENDING", "RUNNING", "SENT", "FAILED"}
         /\ row[d].attempts \in 0 .. MaxAttempts
         /\ row[d].state = "FAILED" <=> row[d].attempts = MaxAttempts
    /\ \A r \in Runs : run[r] \in {"open", "ended", "event", "deleted"}
    /\ smtp \in {"none", "legacy", "smtp"}

(* A delivery recorded as SENT was taken by the remote side.               *)
SentWasAccepted ==
    \A d \in Deliveries : row[d].state = "SENT" => accepted[d] > 0

(* The user gets an event twice on a channel only after a crash, a lost answer
   or a failed write: neither a second writer of the event nor a retry
   repeats what was accepted (sendSMTPMessage: "would make the durable outbox
   resend an already accepted delivery").                                   *)
DuplicatesHaveACause ==
    \A d \in Deliveries : accepted[d] > 1 => d \in faulty

(* No migration stays ended without its event: one from before the outbox gets
   it although the process that listed it crashed, a statement of the sweep
   failed or another migration of the same sweep was deleted, unless it is
   deleted or started again itself.                                         *)
EveryMigrationIsReported ==
    \A r \in Runs : kind[r] = "migration" =>
        (run[r] = "ended" ~> run[r] # "ended")

(* Every delivery is settled: a crashed sender or a full batch delays it, and
   nothing leaves it PENDING or RUNNING for ever.                           *)
DeliveriesSettle ==
    \A d \in Deliveries :
        (row[d].state \in {"PENDING", "RUNNING"}
            ~> row[d].state \in {"SENT", "FAILED", "NONE"})

-----------------------------------------------------------------------------
(* What a document says and the code does not do.  No run checks this formula;
   the README gives the constants under which TLC finds a counterexample.   *)

(* The notifier can open the mailer's password: "One administrator-managed
   SMTP configuration is encrypted in PostgreSQL and serves account mail plus
   optional email notifications".                                           *)
MailerCanBeOpened ==
    \A n \in Notifiers, d \in Deliveries : Step(n, d) # "unopened"
=============================================================================

---------------------------- MODULE Verification ----------------------------
(***************************************************************************)
(* Checksum verification of a migration in VERIFYING.  Each worker process *)
(* runs at most one pass for it (verifyingEntities), and the processes     *)
(* compete for the lease: a pass holds the generation it claimed, and each *)
(* of its writes is fenced by VERIFYING, that generation and a live lease. *)
(***************************************************************************)
EXTENDS MigrationStore

VARIABLE verifier

\* claimed: lease and generation taken.  renewed: lease confirmed at the start
\* of the pass.  checking: unverified tasks listed.  applying: the statistics
\* of the final reconciliation are read.  releasing: deferred lease release.
VerifierPC == {"idle", "claimed", "renewed", "checking", "applying", "releasing"}

Verifier == [pc : VerifierPC, generation : Nat, todo : SUBSET Tasks, stats : Stats]

IdleVerifier == [pc |-> "idle", generation |-> 0, todo |-> {}, stats |-> NoStats]

VerificationTypeOK == verifier \in [Procs -> Verifier]

VerificationInit == verifier = [p \in Procs |-> IdleVerifier]

OwnsVerification(p) ==
    /\ mig.status = "VERIFYING"
    /\ mig.verificationGeneration = verifier[p].generation
    /\ mig.verificationLease

EndPass(p) == verifier' = [verifier EXCEPT ![p].pc = "releasing", ![p].todo = {}]

ClaimMigrationVerification(p) ==
    /\ p \in up
    /\ verifier[p].pc = "idle"
    /\ mig.status = "VERIFYING"
    /\ ~mig.verificationLease
    /\ mig' = [mig EXCEPT !.verificationGeneration = @ + 1, !.verificationLease = TRUE]
    /\ verifier' = [verifier EXCEPT ![p].pc = "claimed",
                                    ![p].generation = mig.verificationGeneration + 1]
    /\ UNCHANGED <<progress, tasks, indexErrors, events, faults>>

\* The target token cannot be refreshed: the pass ends and keeps the lease
AbandonClaim(p) ==
    /\ verifier[p].pc = "claimed"
    /\ Fault
    /\ verifier' = [verifier EXCEPT ![p] = IdleVerifier]
    /\ UNCHANGED <<mig, progress, tasks, indexErrors, events>>

RenewVerificationLease(p) ==
    /\ verifier[p].pc = "claimed"
    /\ IF OwnsVerification(p)
       THEN verifier' = [verifier EXCEPT ![p].pc = "renewed"]
       ELSE EndPass(p)
    /\ UNCHANGED storeVars

\* A read, a lease renewal or the connection to the target fails
PassFails(p) ==
    /\ verifier[p].pc \in {"claimed", "renewed", "checking"}
    /\ Fault
    /\ EndPass(p)
    /\ UNCHANGED <<mig, progress, tasks, indexErrors, events>>

ListUnverifiedTasks(p) ==
    /\ verifier[p].pc = "renewed"
    /\ verifier' = [verifier EXCEPT ![p].pc = "checking", ![p].todo = Completed(FALSE)]
    /\ UNCHANGED storeVars

\* MarkMigrationTaskChecksum{Verified,Mismatch}WhileVerifying match a row
CanMark(p, t) ==
    /\ OwnsVerification(p)
    /\ tasks[t].status = "COMPLETED"
    /\ ~tasks[t].checksumVerified

MarkVerified(p, t) ==
    /\ verifier[p].pc = "checking"
    /\ t \in verifier[p].todo
    /\ IF CanMark(p, t)
       THEN /\ tasks' = [tasks EXCEPT ![t].checksumVerified = TRUE]
            /\ progress' = [progress EXCEPT !.verified = @ + 1]
       ELSE UNCHANGED <<tasks, progress>>
    /\ verifier' = [verifier EXCEPT ![p].todo = @ \ {t}]
    /\ UNCHANGED <<mig, indexErrors, events, faults>>

\* The verifier passes no retry time, so the migration stays VERIFYING.  A
\* size-only target ends the pass at the first mismatch.
MarkMismatch(p, t) ==
    /\ verifier[p].pc = "checking"
    /\ t \in verifier[p].todo
    /\ Fault
    /\ IF CanMark(p, t)
       THEN tasks' = [tasks EXCEPT ![t].status = "FAILED", ![t].retry = FALSE]
       ELSE UNCHANGED tasks
    /\ \E rest \in {verifier[p].todo \ {t}, {}} :
         verifier' = [verifier EXCEPT ![p].todo = rest]
    /\ UNCHANGED <<mig, progress, indexErrors, events>>

\* The target cannot be examined now: the task stays unverified
LeaveUnverified(p, t) ==
    /\ verifier[p].pc = "checking"
    /\ t \in verifier[p].todo
    /\ Fault
    /\ \E rest \in {verifier[p].todo \ {t}, {}} :
         verifier' = [verifier EXCEPT ![p].todo = rest]
    /\ UNCHANGED <<mig, progress, tasks, indexErrors, events>>

\* The watcher could not renew the lease and cancelled the pass
PassCancelled(p) ==
    /\ verifier[p].pc = "checking"
    /\ ~OwnsVerification(p)
    /\ EndPass(p)
    /\ UNCHANGED storeVars

FinishSnapshot(p) ==
    /\ verifier[p].pc = "checking"
    /\ verifier[p].todo = {}
    /\ verifier' = [verifier EXCEPT ![p].pc = "applying", ![p].stats = TaskStats]
    /\ UNCHANGED storeVars

\* ReconcileMigrationProgressWhileVerifying
FinishPass(p) ==
    /\ verifier[p].pc = "applying"
    /\ IF OwnsVerification(p)
       THEN ReconcileMigrationProgress(verifier[p].stats)
       ELSE UNCHANGED <<mig, progress, tasks, indexErrors, events>>
    /\ EndPass(p)
    /\ UNCHANGED faults

ReleaseVerificationLease(p) ==
    /\ verifier[p].pc = "releasing"
    /\ mig' = IF /\ mig.status = "VERIFYING"
                 /\ mig.verificationGeneration = verifier[p].generation
              THEN [mig EXCEPT !.verificationLease = FALSE]
              ELSE mig
    /\ verifier' = [verifier EXCEPT ![p] = IdleVerifier]
    /\ UNCHANGED <<progress, tasks, indexErrors, events, faults>>

\* Time passes.  While its owner is alive this takes failing renewals: a fault.
VerificationLeaseExpires ==
    /\ mig.verificationLease
    /\ IF \E p \in Procs : verifier[p].pc # "idle" /\ OwnsVerification(p)
       THEN Fault
       ELSE UNCHANGED faults
    /\ mig' = [mig EXCEPT !.verificationLease = FALSE]
    /\ UNCHANGED <<progress, tasks, indexErrors, events, verifier>>

VerifierCrash(p) == verifier' = [verifier EXCEPT ![p] = IdleVerifier]

VerifierStep(p) ==
    \/ ClaimMigrationVerification(p)
    \/ AbandonClaim(p)
    \/ RenewVerificationLease(p)
    \/ PassFails(p)
    \/ ListUnverifiedTasks(p)
    \/ \E t \in Tasks : MarkVerified(p, t) \/ MarkMismatch(p, t) \/ LeaveUnverified(p, t)
    \/ PassCancelled(p)
    \/ FinishSnapshot(p)
    \/ FinishPass(p)
    \/ ReleaseVerificationLease(p)

VerificationNext ==
    \/ \E p \in Procs : VerifierStep(p)
    \/ VerificationLeaseExpires

=============================================================================

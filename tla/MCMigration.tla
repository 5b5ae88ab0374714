----------------------------- MODULE MCMigration -----------------------------
(* Instances of MigrationSystem for TLC. *)
EXTENDS MigrationSystem, TLC

CONSTANTS t1, t2, a, b, p1, p2, w1, w2, i1, i2, h1, h2

\* two processes with one thread each, and one process with one
TwoProcesses == w1 :> p1 @@ w2 :> p2
OneThread == w1 :> p1

\* Threads of different processes are interchangeable together with them only,
\* so the symmetry is that of the tasks and of the paths.  The task an idle
\* thread is shown with is arbitrary, but no action reads it.
TaskSymmetry == Permutations(Tasks) \cup Permutations(Items)

=============================================================================

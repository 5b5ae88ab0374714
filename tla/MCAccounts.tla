----------------------------- MODULE MCAccounts -----------------------------
(* A small installation: two accounts, two requests at a time.             *)
EXTENDS Accounts, TLC

(* No property of the run is a liveness property, and neither accounts nor
   requests are told apart by their names.                                  *)
Symmetry == Permutations(Users) \cup Permutations(Requests)
=============================================================================

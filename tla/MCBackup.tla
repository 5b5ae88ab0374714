------------------------------ MODULE MCBackup ------------------------------
(* Instances of BackupSystem for TLC. *)
EXTENDS BackupSystem, TLC

BlockSymmetry == Permutations(Blocks) \cup Permutations(Files) \cup Permutations(Coords)
=============================================================================

------------------------------ MODULE MCRestore -----------------------------
(* Instances of RestoreSystem for TLC. *)
EXTENDS RestoreSystem, TLC

CONSTANTS d, f, g

\* A directory with two files whose names differ in case only.
Tree == {d, f, g}
TreeDirs == {d}
TreeParent == [i \in Tree |-> IF i = d THEN NoItem ELSE d]
TreeName == [i \in Tree |-> IF i = d THEN "dir" ELSE "file"]

\* A single file.
One == {f}
OneParent == [i \in One |-> NoItem]
OneName == [i \in One |-> "file"]

WorkerSymmetry == Permutations(Workers)
=============================================================================

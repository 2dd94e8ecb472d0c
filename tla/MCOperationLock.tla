-------------------------- MODULE MCOperationLock --------------------------
(* Instances of OperationLock; processes and inode numbers are interchangeable. *)
EXTENDS OperationLock, TLC

Interchangeable == Permutations(Processes) \cup Permutations(Inodes)
=============================================================================

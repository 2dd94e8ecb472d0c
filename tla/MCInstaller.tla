---------------------------- MODULE MCInstaller ----------------------------
(* The installer on a small instance; the processes are interchangeable. *)
EXTENDS Installer, TLC

Symmetric == Permutations(Processes) \cup Permutations(Versions)
=============================================================================

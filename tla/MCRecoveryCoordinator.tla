---------------------- MODULE MCRecoveryCoordinator ----------------------
(* Instances of RecoveryCoordinator: effect 1 is the controller_acquire. *)
EXTENDS RecoveryCoordinator, TLC

CONSTANTS p1, p2

(* Processes are interchangeable. *)
Interchangeable == Permutations(Processes)

(* A refresh, a session whose unit refuses its success, a manual review, the *)
(* release of the slot. *)
Harness == <<"git", "git", "session", "launch", "git">>
Handovers == <<"git", "verify">>
=============================================================================

--------------------------- MODULE OperationLease ---------------------------
(***************************************************************************)
(* What src/src/fencing/operation-lock.ts promises its callers: at most one *)
(* process is inside its operation, and a process leaves only its own.      *)
(* recoverAndRun (RecoveryCoordinator with Exclusive) rests on it.          *)
(***************************************************************************)
CONSTANT Processes

VARIABLE holders

Init == holders = {}

Acquire(p) == holders = {} /\ holders' = {p}

Leave(p) == p \in holders /\ holders' = holders \ {p}

Next == \E p \in Processes : Acquire(p) \/ Leave(p)

Spec == Init /\ [][Next]_holders

=============================================================================

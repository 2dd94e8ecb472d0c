---------------------------- MODULE MCRunReducer ----------------------------
EXTENDS RunReducer, TLC

CONSTANTS b1, b2, h1, h2, r1, r2

AllKinds == UnitKinds \cup ControllerKinds

(* Every effect whose ambiguity a blocked aggregate can settle. *)
SettleableKinds == AllKinds \ {"candidate_refresh"}

ResourceSymmetry == Permutations(Resources)
=============================================================================

-------------------------- MODULE MCKnowledgeGate --------------------------
(* Two waves, the first of two units.  The outputs of the first wave share  *)
(* a stem, and destinations a and b are two aliases of one directory: what  *)
(* names them apart is the clock.  Two targets share the optional alias a.  *)
EXTENDS KnowledgeGate

TwoWaves == <<{"u1", "u2"}, {"u3"}>>
FiveTargets == 1..5
SixItems == 1..6
Aliases == {"a", "b"}
Owners == <<"u1", "u1", "u2", "u3", "none">>
Places == <<"b", "a", "a", "b", "b">>
Matches == <<1, 1, 2, 3, 4, 5>>
OneStem == [i \in SixItems |-> "report"]
OneDirectory == [d \in Aliases |-> "inode"]
=============================================================================

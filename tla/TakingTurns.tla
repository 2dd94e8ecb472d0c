----------------------------- MODULE TakingTurns -----------------------------
(***************************************************************************)
(* What a Beads store promises the controllers that share it, whichever of *)
(* the two it is and with nothing of how: no clones, transactions, pushes, *)
(* lost answers or late writes.  Runs take turns through the merge slot: a *)
(* run takes the slot on its recorded intent, works and records what it    *)
(* did only while it holds it, and gives it up only on a recorded close.   *)
(* The export of a predecessor is claimed by one run, for good, and every  *)
(* other run that asks for it learns so.                                   *)
(***************************************************************************)
CONSTANTS
  Controllers,
  None

VARIABLES
  slot,    \* the run that holds the merge slot, or None
  phase,   \* where each run's recorded projection stands
  claim    \* the run that claimed the predecessor's export, or None

vars == <<slot, phase, claim>>

AtWork == {"owned", "claiming", "imported", "refused"}

Init ==
  /\ slot = None
  /\ phase = [c \in Controllers |-> "absent"]
  /\ claim = None

-----------------------------------------------------------------------------
(* The slot changes hands.                                                 *)

Take(c) ==
  /\ phase[c] = "intent"
  /\ slot = None
  /\ slot' = c
  /\ UNCHANGED <<phase, claim>>

GiveUp(c) ==
  /\ phase[c] = "closing"
  /\ slot = c
  /\ slot' = None
  /\ UNCHANGED <<phase, claim>>

(* The export is claimed, by a run whose turn it is and that recorded that *)
(* it was about to.                                                        *)
Claim(c) ==
  /\ phase[c] = "claiming"
  /\ slot = c
  /\ claim = None
  /\ claim' = c
  /\ UNCHANGED <<slot, phase>>

-----------------------------------------------------------------------------
(* A run records where it stands.                                          *)

Record(c, next) ==
  /\ phase' = [phase EXCEPT ![c] = next]
  /\ UNCHANGED <<slot, claim>>

Intend(c)   == phase[c] = "absent" /\ Record(c, "intent")
Own(c)      == phase[c] = "intent" /\ slot = c /\ Record(c, "owned")
AskFor(c)   == phase[c] = "owned" /\ slot = c /\ Record(c, "claiming")

Learn(c) ==
  /\ phase[c] = "claiming"
  /\ slot = c
  /\ claim # None
  /\ Record(c, IF claim = c THEN "imported" ELSE "refused")

Close(c) ==
  /\ phase[c] \in {"owned", "imported", "refused"}
  /\ slot = c
  /\ Record(c, "closing")

Leave(c) == phase[c] = "closing" /\ slot # c /\ Record(c, "released")

Next == \E c \in Controllers :
  \/ Take(c) \/ GiveUp(c) \/ Claim(c)
  \/ Intend(c) \/ Own(c) \/ AskFor(c) \/ Learn(c) \/ Close(c) \/ Leave(c)

Spec == Init /\ [][Next]_vars

-----------------------------------------------------------------------------
(* A run at work holds the slot, so no two runs are ever at work, and what *)
(* it learned of the export is so.                                         *)
TurnsHold ==
  \A c \in Controllers :
    /\ phase[c] \in AtWork => slot = c
    /\ phase[c] = "imported" => claim = c
    /\ phase[c] = "refused" => claim \notin {None, c}
=============================================================================

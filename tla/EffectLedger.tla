---------------------------- MODULE EffectLedger ----------------------------
(***************************************************************************)
(* What src/src/commands/recovery.ts promises of the effects of a run, with  *)
(* nothing of how: no processes, no lock, no lost answers.  The run is       *)
(* founded once, by its controller_acquire; an effect is intended once,      *)
(* durably, before anything comes of it, and only moves forward; what only   *)
(* the host can do is handed over once; only what is observed is reported.   *)
(***************************************************************************)
EXTENDS Naturals

CONSTANTS
    Effects,    \* effects the run can journal
    Boot,       \* the controller_acquire
    Performed,  \* effects the engine performs itself and can read back
    Launched,   \* effects handed to the host on their intent
    Verified    \* effects handed over on a durable ambiguity

VARIABLES
    revision,   \* of the run; 0 before it is founded
    status,     \* of each effect
    happened,   \* performed effects that took place
    handed,     \* how often each effect was handed to the host
    reported    \* effects some caller was told are applied

vars == <<revision, status, happened, handed, reported>>

Init ==
    /\ revision = 0
    /\ status = [e \in Effects |-> "none"]
    /\ happened = {} /\ reported = {}
    /\ handed = [e \in Effects |-> 0]

Unblocked == \A e \in Effects : status[e] # "ambiguous"

(* A durable change of one effect, or of none of them. *)
Become(e, s) ==
    /\ revision' = revision + 1
    /\ status' = [status EXCEPT ![e] = s]
    /\ UNCHANGED <<happened, handed, reported>>

Advance ==
    /\ revision > 0 /\ Unblocked
    /\ revision' = revision + 1
    /\ UNCHANGED <<status, happened, handed, reported>>

Found == revision = 0 /\ Become(Boot, "intended")

(* Nothing further is begun while the run does not know where it stands. *)
Intend(e) ==
    /\ status[e] = "none" /\ status[Boot] = "observed" /\ Unblocked
    /\ Become(e, "intended")

Doubt(e) == status[e] = "intended" /\ Become(e, "ambiguous")

Settle(e) == status[e] \in {"intended", "ambiguous"} /\ Become(e, "observed")

Happen(e) ==
    /\ e \in Performed /\ status[e] # "none"
    /\ happened' = happened \cup {e}
    /\ UNCHANGED <<revision, status, handed, reported>>

HandOver(e) ==
    /\ handed[e] = 0
    /\ \/ e \in Launched /\ status[e] # "none"
       \/ e \in Verified /\ status[e] = "ambiguous"
    /\ handed' = [handed EXCEPT ![e] = 1]
    /\ UNCHANGED <<revision, status, happened, reported>>

Report(e) ==
    /\ status[e] = "observed"
    /\ reported' = reported \cup {e}
    /\ UNCHANGED <<revision, status, happened, handed>>

Next ==
    \/ Found \/ Advance
    \/ \E e \in Effects :
          Intend(e) \/ Doubt(e) \/ Settle(e) \/ Happen(e) \/ HandOver(e) \/ Report(e)

Spec == Init /\ [][Next]_vars

=============================================================================

----------------------------- MODULE ServerStore -----------------------------
(***************************************************************************)
(* The shared-server Beads store: the controllers of several runs work on  *)
(* one Dolt SQL server, each with a root projection of its own, and take   *)
(* turns through the built-in merge slot; the export of a finished run may *)
(* be carried into one of them (src/src/adapters/beads-server/index.ts).   *)
(*                                                                         *)
(* Every access to the server is a step of its own.  A write is an SQL     *)
(* transaction: its predicates are read in the snapshot it starts from, it *)
(* is merged when it commits, and it fails if the value it replaces has    *)
(* changed by then; rows it only reads (the slot) are not checked again.   *)
(* The answer of a write or of a bd command may be lost, and a child that  *)
(* was given up may still land its write later, or never.                  *)
(*                                                                         *)
(* Every command may also be refused (unavailable, ambiguous, blocked,     *)
(* quarantined), which disarms the adapter until the next command: the     *)
(* actions state what the code needs to go on, and End is every refusal.   *)
(* One run is driven from one clone, whose operation lock leaves a single  *)
(* command at work.                                                        *)
(***************************************************************************)
EXTENDS Naturals, FiniteSets

CONSTANTS
  Controllers,
  None,
  MaxAbandoned, \* bound: writes and commands under way without a waiting sender
  Stragglers    \* may an abandoned slot command land after a later one was sent?

ASSUME ServerAssumption ==
  None \notin Controllers /\ MaxAbandoned \in Nat /\ Stragglers \in BOOLEAN

VARIABLES
  slot,     \* the holder in the merge-slot row, or None
  root,     \* the root projection of each run
  claim,    \* the run that claimed the predecessor's export, or None
  sent,     \* the writes and slot commands on their way to the server
  proc      \* the command at work in each clone

vars == <<slot, root, claim, sent, proc>>

(* Where a run stands, and whether its open effect is recorded ambiguous.  *)
Phases == {"absent", "fresh", "intent", "owned", "claiming", "imported",
           "refused", "closing", "released"}
Roots == [phase : Phases, noted : BOOLEAN]
At(phase) == [phase |-> phase, noted |-> FALSE]

(* A write of run c: what it replaces and what it writes.  It is live      *)
(* while the command that sent it waits for its answer.                    *)
Writes == [run : Controllers, from : Roots, to : Roots, live : BOOLEAN]
SlotCommands == [run : Controllers, command : {"acquire", "release"}, live : BOOLEAN]
Claims == [run : Controllers, export : {"claim"}, live : BOOLEAN]

(* A command: where it is, the slot and the root it read, the root it is   *)
(* about to write, and what its caller was last told.                      *)
Idle == [pc |-> "idle", saw |-> None, seen |-> At("absent"), next |-> At("absent"),
         told |-> "nothing"]

Pcs == {"idle", "discover", "loaded", "write", "stale", "commit", "readback",
        "execute", "command", "completed", "rejected", "claim", "claim commit",
        "claim reread"}
Answers == {"nothing", "applied", "acquired", "released", "imported", "refused"}

TypeOK ==
  /\ slot \in Controllers \cup {None}
  /\ root \in [Controllers -> Roots]
  /\ claim \in Controllers \cup {None}
  /\ sent \subseteq Writes \cup SlotCommands \cup Claims
  /\ proc \in [Controllers -> [pc : Pcs, saw : Controllers \cup {None}, seen : Roots,
                               next : Roots, told : Answers]]

(* A run starts without a projection, or from one provisioned beforehand.  *)
Init ==
  /\ slot = None
  /\ root \in [Controllers -> {At("absent"), At("fresh")}]
  /\ claim = None
  /\ sent = {}
  /\ proc = [c \in Controllers |-> Idle]

-----------------------------------------------------------------------------
(* Moving through a command.                                               *)

Is(c, pc) == proc[c].pc = pc
Goto(c, pc) == proc' = [proc EXCEPT ![c].pc = pc]
Tell(c, answer) == proc' = [proc EXCEPT ![c].pc = "loaded", ![c].told = answer]

(* The command gives up on what it sent.                                   *)
Orphaned(c) ==
  {IF e.run = c THEN [e EXCEPT !.live = FALSE] ELSE e : e \in sent}

(* The transition the run's journal authorises: kind, slot before, after.  *)
Transitions == {"intent", "closing"}
Kind(c)   == IF proc[c].seen.phase = "intent" THEN "acquire" ELSE "release"
Before(c) == IF Kind(c) = "acquire" THEN None ELSE c
After(c)  == IF Kind(c) = "acquire" THEN c ELSE None
Done(c)   == IF Kind(c) = "acquire" THEN "acquired" ELSE "released"

Unsettled(c) == Is(c, "loaded") /\ proc[c].told \in {"nothing", "applied"}

-----------------------------------------------------------------------------
(* load: the slot is read before the root, which may be absent only while  *)
(* the slot is available.                                                  *)

Discover(c) ==
  /\ Is(c, "idle")
  /\ proc' = [proc EXCEPT ![c].pc = "discover", ![c].saw = slot]
  /\ UNCHANGED <<slot, root, claim, sent>>

Load(c) ==
  /\ Is(c, "discover")
  /\ root[c].phase = "absent" => proc[c].saw = None
  /\ proc' = [proc EXCEPT ![c] = [Idle EXCEPT !.pc = "loaded", !.seen = root[c]]]
  /\ UNCHANGED <<slot, root, claim, sent>>

-----------------------------------------------------------------------------
(* What a caller may write next.                                           *)

Submit(c, next) ==
  /\ proc' = [proc EXCEPT ![c].pc = "write", ![c].next = next, ![c].told = "nothing"]
  /\ UNCHANGED <<slot, root, claim, sent>>

(* prepareControllerTransition reads the slot as the intent's baseline.    *)
PlanAcquire(c) ==
  /\ Unsettled(c)
  /\ proc[c].seen.phase \in {"absent", "fresh"}
  /\ slot = None
  /\ Submit(c, At("intent"))

PlanRelease(c) ==
  /\ Unsettled(c)
  /\ proc[c].seen.phase \in {"owned", "imported", "refused"}
  /\ slot = c
  /\ Submit(c, At("closing"))

(* prepareProvenanceCarryClaim: the plan ignores claims already made.      *)
PlanClaim(c) ==
  /\ Unsettled(c)
  /\ proc[c].seen.phase = "owned"
  /\ Submit(c, At("claiming"))

(* The observation of an effect found done.                                *)
Observe(c) ==
  /\ Is(c, "loaded")
  /\ proc[c].told \in {"acquired", "released", "imported", "refused"}
  /\ Submit(c, At(IF proc[c].told = "acquired" THEN "owned" ELSE proc[c].told))

(* A slot that is another run's settles nothing and leaves the adapter     *)
(* armed: the coordinator records the effect as ambiguous, once.           *)
Unsure(c) ==
  /\ Unsettled(c) \/ Is(c, "rejected")
  /\ proc[c].seen.phase \in Transitions
  /\ slot \notin {None, c}
  /\ ~ proc[c].seen.noted
  /\ Submit(c, [proc[c].seen EXCEPT !.noted = TRUE])

-----------------------------------------------------------------------------
(* compareAndSet, persistControllerAcquireIntent and                       *)
(* createControllerAcquireIntent: one guarded transaction each.            *)

(* A plausible slip: the loaded root is trusted, only the slot is checked. *)
EligibleUnchecked(c, next) ==
  slot = IF next = At("intent") THEN None ELSE c

(* The root is the one loaded; the intent to acquire is written under an   *)
(* available slot, every other projection under the run's own.             *)
Eligible(c, next) ==
  /\ root[c] = proc[c].seen
  /\ slot = IF next = At("intent") THEN None ELSE c

Begin(c) ==
  /\ Is(c, "write")
  /\ IF Eligible(c, proc[c].next)
     THEN /\ sent' = sent \cup {[run |-> c, from |-> root[c],
                                 to |-> proc[c].next, live |-> TRUE]}
          /\ Goto(c, "commit")
     ELSE Goto(c, "stale") /\ UNCHANGED sent
  /\ UNCHANGED <<slot, root, claim>>

(* COMMIT: merged unless the root changed since the snapshot.              *)
Commit(e) ==
  /\ e \in Writes
  /\ sent' = sent \ {e}
  /\ IF root[e.run] = e.from
     THEN /\ root' = [root EXCEPT ![e.run] = e.to]
          /\ IF e.live THEN Goto(e.run, "readback") ELSE UNCHANGED proc
     ELSE UNCHANGED <<root, proc>>
  /\ UNCHANGED <<slot, claim>>

(* The exact projection is read back, and the caller goes on from it.      *)
Readback(c) ==
  /\ Is(c, "readback")
  /\ root[c] = proc[c].next
  /\ proc' = [proc EXCEPT ![c] = [Idle EXCEPT !.pc = "loaded", !.seen = root[c],
                                               !.told = "applied"]]
  /\ UNCHANGED <<slot, root, claim, sent>>

-----------------------------------------------------------------------------
(* reconcileControllerTransition: exact before is the authority to act,    *)
(* exact after is completion.                                              *)

Reconcile(c) ==
  /\ Unsettled(c)
  /\ proc[c].seen.phase \in Transitions
  /\ \/ slot = After(c) /\ Tell(c, Done(c))
     \/ slot = Before(c) /\ Goto(c, "execute")
  /\ UNCHANGED <<slot, root, claim, sent>>

(* executeControllerTransition, after reconcile or on the intent just      *)
(* written: the release command is sent only while the slot is its own.    *)
Execute(c) ==
  /\ \/ Is(c, "execute")
     \/ /\ Is(c, "loaded") /\ proc[c].told = "applied"
        /\ proc[c].seen \in {At("intent"), At("closing")}
  /\ Kind(c) = "release" => slot = c
  /\ Stragglers \/ ~ \E e \in sent : e \in SlotCommands /\ e.run = c
  /\ sent' = sent \cup {[run |-> c, command |-> Kind(c), live |-> TRUE]}
  /\ Goto(c, "command")
  /\ UNCHANGED <<slot, root, claim>>

(* bd merge-slot acquire and release: the slot row is compared and set.    *)
SlotCommand(e) ==
  /\ e \in SlotCommands
  /\ sent' = sent \ {e}
  /\ LET done == slot = IF e.command = "acquire" THEN None ELSE e.run
     IN  /\ slot' = IF ~ done THEN slot ELSE IF e.command = "acquire" THEN e.run ELSE None
         /\ IF e.live THEN Goto(e.run, IF done THEN "completed" ELSE "rejected")
                      ELSE UNCHANGED proc
  /\ UNCHANGED <<root, claim>>

(* A completed command counts only with the exact slot read back.          *)
SlotReadback(c) ==
  /\ Is(c, "completed")
  /\ slot = After(c)
  /\ Tell(c, Done(c))
  /\ UNCHANGED <<slot, root, claim, sent>>

-----------------------------------------------------------------------------
(* reconcile- and executeProvenanceCarryClaim.                             *)

(* A plausible slip: any claim found is taken for the run's own.           *)
ClassifiedAny(c) == "imported"

Classified(c) == IF claim = c THEN "imported" ELSE "refused"

InspectClaim(c) ==
  /\ Unsettled(c)
  /\ proc[c].seen.phase = "claiming"
  /\ IF claim = None THEN Goto(c, "claim") ELSE Tell(c, Classified(c))
  /\ UNCHANGED <<slot, root, claim, sent>>

(* The guarded update; a zero-row race is classified from a fresh read.    *)
BeginClaim(c) ==
  /\ Is(c, "claim")
  /\ IF claim = None /\ slot = c
     THEN /\ sent' = sent \cup {[run |-> c, export |-> "claim", live |-> TRUE]}
          /\ Goto(c, "claim commit")
     ELSE Goto(c, "claim reread") /\ UNCHANGED sent
  /\ UNCHANGED <<slot, root, claim>>

CommitClaim(e) ==
  /\ e \in Claims
  /\ sent' = sent \ {e}
  /\ IF claim = None
     THEN /\ claim' = e.run
          /\ IF e.live THEN Goto(e.run, "claim reread") ELSE UNCHANGED proc
     ELSE UNCHANGED <<claim, proc>>
  /\ UNCHANGED <<slot, root>>

RereadClaim(c) ==
  /\ Is(c, "claim reread")
  /\ claim # None
  /\ Tell(c, Classified(c))
  /\ UNCHANGED <<slot, root, claim, sent>>

-----------------------------------------------------------------------------
(* A crash, a timeout, or any answer that ends the command.                *)
End(c) ==
  /\ ~ Is(c, "idle")
  /\ proc' = [proc EXCEPT ![c] = Idle]
  /\ sent' = Orphaned(c)
  /\ Cardinality({e \in sent' : ~ e.live}) <= MaxAbandoned
  /\ UNCHANGED <<slot, root, claim>>

(* What a child sent never reaches the server.                             *)
Lose(e) ==
  /\ sent' = sent \ {e}
  /\ UNCHANGED <<slot, root, claim, proc>>

Next ==
  \/ \E c \in Controllers :
       \/ Discover(c) \/ Load(c) \/ PlanAcquire(c) \/ PlanRelease(c) \/ PlanClaim(c)
       \/ Observe(c) \/ Unsure(c) \/ Begin(c) \/ Readback(c)
       \/ Reconcile(c) \/ Execute(c) \/ SlotReadback(c)
       \/ InspectClaim(c) \/ BeginClaim(c) \/ RereadClaim(c)
       \/ End(c)
  \/ \E e \in sent : Commit(e) \/ SlotCommand(e) \/ CommitClaim(e) \/ Lose(e)

Spec == Init /\ [][Next]_vars

-----------------------------------------------------------------------------
(* Whatever lands late or twice, the server does what TakingTurns promises, *)
(* one of its steps or none at a time: a run moves through its phases in   *)
(* order and writes and claims only while it holds the slot, although its  *)
(* transactions never check the slot again when they commit, takes the     *)
(* slot only on a persisted intent and gives it up only on one.            *)
Turns == INSTANCE TakingTurns WITH
  phase <- [c \in Controllers |->
              IF root[c].phase = "fresh" THEN "absent" ELSE root[c].phase]

TurnsTaken == Turns!Spec

(* What a caller was told is so on the server, and stays so until it acts  *)
(* on it, whatever other controllers and lost children do meanwhile.       *)
ToldIsTrue ==
  \A c \in Controllers :
    CASE proc[c].told = "acquired" -> slot = c
      [] proc[c].told = "released" -> slot # c
      [] proc[c].told = "imported" -> claim = c
      [] proc[c].told = "refused"  -> claim \notin {None, c}
      [] proc[c].told = "applied"  -> root[c] = proc[c].seen
      [] proc[c].told = "nothing"  -> TRUE

(* "persist positive release evidence before reacquisition"                *)
(* (skills/single-controller-engineer/references/beads-server.md:12): the  *)
(* observation of a release that landed, written over the root it was      *)
(* loaded with while the slot is still available, is not refused as stale  *)
(* (#casStatement).                                                        *)
ReleaseEvidencePersists ==
  \A c \in Controllers :
    Is(c, "stale") /\ proc[c].next = At("released") =>
      slot # None \/ root[c] # proc[c].seen
=============================================================================

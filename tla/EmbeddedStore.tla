---------------------------- MODULE EmbeddedStore ----------------------------
(***************************************************************************)
(* The embedded Beads store in git-sync mode: controllers in clones of one *)
(* Dolt database that share a remote and take turns through the built-in   *)
(* merge slot (src/src/adapters/beads-embedded/index.ts and                *)
(* pinned-bd-process.ts, the decisions of src/src/fencing/merge-slot.ts).  *)
(*                                                                         *)
(* A history is the sequence of commits beneath a head, so two heads are   *)
(* equal when their histories are.  A clone has a committed history and a  *)
(* working set; the operation lock leaves one command at work in it, and   *)
(* only the remote changes under that command's feet.  A local read or     *)
(* write is therefore part of the step of the remote access beside it,     *)
(* while a crash may fall between any mutation, commit and push, and a     *)
(* push may land with its answer lost.  A check the code repeats over an   *)
(* unchanged clone appears once, at its last occurrence: the remote only   *)
(* grows, so that one implies the earlier ones.                            *)
(*                                                                         *)
(* Every step may also be refused (unavailable, ambiguous, conflict,       *)
(* blocked): the actions state what the code needs to go on, End is every  *)
(* refusal, and Unsure the refusal the coordinator records.  One run is    *)
(* driven from one clone, and its slot is held once.                       *)
(***************************************************************************)
EXTENDS Naturals, FiniteSets, SequencesExt

CONSTANTS Controllers, None

VARIABLES
  remote,   \* the history of the remote's main branch
  local,    \* the committed history of each clone
  work,     \* the uncommitted change in each clone's working set, or None
  proc      \* the command at work in each clone

vars == <<remote, local, work, proc>>

(* What a commit does: write the run's next root projection, or the slot.  *)
SlotSteps == {"acquire", "release"}
Projections == {"intent", "noted", "owned", "work", "closing", "released"}

(* `at` is the length of the plan-time history that a persisted transition *)
(* intent names as its before-head, and tells two ambiguity records apart. *)
Commit(c, step, at) == [run |-> c, step |-> step, at |-> at]
Commits == [run : Controllers, step : SlotSteps \cup Projections, at : Nat]

ASSUME StoreAssumption == None \notin Controllers \cup Commits

(* A command: where it is, the commit it writes, the remote head its pull  *)
(* fetched, and the commit its caller was last told is applied.            *)
Idle == [pc |-> "idle", batch |-> None, seen |-> <<>>, said |-> None]

Init ==
  /\ remote = <<>>
  /\ local = [c \in Controllers |-> <<>>]
  /\ work = [c \in Controllers |-> None]
  /\ proc = [c \in Controllers |-> Idle]

-----------------------------------------------------------------------------
(* Reading a history.                                                      *)

IsSlotStep(k) == k.step \in SlotSteps

(* The position of the newest commit of some run and step, or 0; it is     *)
(* sought from the head back.                                              *)
Newest(h, runs, steps) ==
  LET Is(i) == h[i].step \in steps /\ h[i].run \in runs
      n     == Len(h)
      back  == CHOOSE k \in 0 .. n : /\ k = n \/ Is(n - k)
                                    /\ \A j \in n - k + 1 .. n : ~ Is(j)
  IN  n - back

SlotAt(h) == Newest(h, Controllers, SlotSteps)

(* The holder of the merge slot at a head.                                 *)
Slot(h) ==
  LET p == SlotAt(h)
  IN  IF p = 0 \/ h[p].step = "release" THEN None ELSE h[p].run

(* Run c's projection is the last of the commits that wrote its root.      *)
Rows(h, c) == {i \in DOMAIN h : h[i].run = c /\ h[i].step \in Projections}
Row(h, c) == h[Newest(h, {c}, Projections)]

(* Where the run stands, its ambiguity records left aside: they are no     *)
(* stage of it.                                                            *)
Stages == Projections \ {"noted"}
Phase(h, c) ==
  LET p == Newest(h, {c}, Stages)
  IN  IF p = 0 THEN "absent" ELSE h[p].step

(* Slot-untouched lineage: h is base, or continues it and no commit of the *)
(* continuation wrote the slot.                                            *)
Lineage(base, h) ==
  /\ IsPrefix(base, h)
  /\ \A i \in Len(base) + 1 .. Len(h) : ~ IsSlotStep(h[i])

(* The transition the run's journal authorises, as persisted with its      *)
(* intent: the kind, the plan-time head, the slot before and after.        *)
Transitions == {"intent", "closing"}
Base(c) ==
  LET p == Newest(local[c], {c}, Transitions)
  IN  SubSeq(local[c], 1, local[c][p].at)
Kind(c)   == IF Phase(local[c], c) = "intent" THEN "acquire" ELSE "release"
Before(c) == IF Kind(c) = "acquire" THEN None ELSE c
After(c)  == IF Kind(c) = "acquire" THEN c ELSE None

(* The exact transition is found: uncommitted on an untouched base, or as  *)
(* the newest slot commit, whose parent is an untouched base.              *)
Proof(c) ==
  LET h == local[c]
      p == SlotAt(h)
  IN  IF work[c] # None
      THEN work[c] = Commit(c, Kind(c), 0) /\ Lineage(Base(c), h)
      ELSE /\ p > 0
           /\ h[p] = Commit(c, Kind(c), 0)
           /\ Lineage(Base(c), SubSeq(h, 1, p - 1))

(* A plausible slip: an ordinary write is only kept off others' slots.     *)
AdmitsFree(h, c, step) == Slot(h) \in {None, c}

(* An ordinary write needs the slot held by its run; the observation that  *)
(* the run's own release landed needs the slot available.                  *)
Admits(h, c, step) == Slot(h) = IF step = "released" THEN None ELSE c

-----------------------------------------------------------------------------
(* Moving through a command, and the commands of the pinned process.       *)

Goto(c, pc) == proc' = [proc EXCEPT ![c].pc = pc]

(* dolt commit: the working set becomes the head.                          *)
DoCommit(c) ==
  /\ local' = [local EXCEPT ![c] = Append(@, work[c])]
  /\ work' = [work EXCEPT ![c] = None]
  /\ UNCHANGED remote

(* A plausible slip: the push is forced.                                   *)
DoPushForced(c, pc) ==
  /\ remote' = local[c]
  /\ \/ Goto(c, pc)
     \/ proc' = [proc EXCEPT ![c] = Idle]
  /\ UNCHANGED <<local, work>>

(* dolt push, never forced: it lands only on an ancestor of the local      *)
(* head.  It may land with its answer lost, and then the command ends.     *)
DoPush(c, pc) ==
  /\ IsPrefix(remote, local[c])
  /\ remote' = local[c]
  /\ \/ Goto(c, pc)
     \/ proc' = [proc EXCEPT ![c] = Idle]
  /\ UNCHANGED <<local, work>>

(* The command answers applied and the caller goes on from what it loads.  *)
Answer(c, commit) ==
  /\ proc' = [proc EXCEPT ![c] = [Idle EXCEPT !.pc = "loaded", !.said = commit]]
  /\ UNCHANGED <<remote, local, work>>

At(c, pc) == proc[c].pc = pc
Told(c) == proc[c].said # None /\ IsSlotStep(proc[c].said)
Clean(c) == work[c] = None
InSync(c) == work[c] = None /\ remote = local[c]

-----------------------------------------------------------------------------
(* load: serve the committed projection, but first settle a working set    *)
(* that is provably this run's own next checkpoint.                        *)

Settles(c) ==
  /\ work[c] # None
  /\ work[c].step \in Projections
  /\ Phase(local[c], c) # "absent"
  /\ Admits(local[c], c, work[c].step)

(* The probe of the working set may be unavailable: then nothing settles.  *)
Load(c) ==
  /\ At(c, "idle")
  /\ Goto(c, "loaded")
  /\ UNCHANGED <<remote, local, work>>

LoadSettles(c) ==
  /\ At(c, "idle")
  /\ Settles(c)
  /\ DoCommit(c)
  /\ Goto(c, "settling")

SettlePush(c) == At(c, "settling") /\ DoPush(c, "settled")

SettleConfirm(c) ==
  /\ At(c, "settled")
  /\ InSync(c)
  /\ Answer(c, Last(local[c]))

-----------------------------------------------------------------------------
(* The read-only plans of prepareControllerTransition, and what a caller   *)
(* may then write.                                                         *)

Submit(c, batch, pc) ==
  /\ proc' = [proc EXCEPT ![c] = [Idle EXCEPT !.batch = batch, !.pc = pc]]
  /\ UNCHANGED <<remote, local, work>>

PlanAcquire(c) ==
  /\ At(c, "loaded")
  /\ Phase(local[c], c) = "absent"
  /\ InSync(c)
  /\ Slot(local[c]) = None
  /\ Submit(c, Commit(c, "intent", Len(local[c])), "planned")

PlanRelease(c) ==
  /\ At(c, "loaded")
  /\ Phase(local[c], c) \in {"owned", "work"}
  /\ InSync(c)
  /\ Slot(local[c]) = c
  /\ Submit(c, Commit(c, "closing", Len(local[c])), "planned")

(* The remote slot, fetched again, still agrees with the local one.        *)
PlanConfirm(c) ==
  /\ At(c, "planned")
  /\ Slot(remote) = Slot(local[c])
  /\ Goto(c, "write")
  /\ UNCHANGED <<remote, local, work>>

(* An ordinary checkpoint, or the observation of a transition found done.  *)
WriteNext(c) ==
  /\ At(c, "loaded")
  /\ \/ Phase(local[c], c) = "owned" /\ Submit(c, Commit(c, "work", 0), "write")
     \/ /\ Phase(local[c], c) \in Transitions
        /\ Told(c)
        /\ Submit(c, Commit(c, IF Kind(c) = "acquire" THEN "owned" ELSE "released", 0),
                  "write")

(* A batch that is already the committed projection is submitted again.    *)
Resubmit(c) ==
  /\ At(c, "loaded")
  /\ Phase(local[c], c) \notin {"absent", "intent"}
  /\ Submit(c, Row(local[c], c), "write")

(* The transition ended without an observation: the coordinator records    *)
(* the effect as ambiguous, once.                                          *)
Unsure(c) ==
  /\ proc[c].pc \in {"loaded", "proving", "slot push", "slot confirm"}
  /\ ~ Told(c)
  /\ Phase(local[c], c) \in Transitions
  /\ Row(local[c], c).step # "noted"
  /\ Submit(c, Commit(c, "noted", Cardinality(Rows(local[c], c))), "write")

-----------------------------------------------------------------------------
(* createControllerAcquireIntent, compareAndSet and the pull they share.   *)

(* pull accepts only a fast-forward, and answers applied only if it ended  *)
(* at the head it fetched first.                                           *)
Pull(c) ==
  /\ proc[c].pc \in {"write", "pull"}
  /\ Clean(c)
  /\ IsPrefix(local[c], remote)
  /\ proc' = [proc EXCEPT ![c].seen = IF remote = local[c] THEN <<>> ELSE remote,
                          ![c].pc = IF remote = local[c] THEN "pulled" ELSE "pulling"]
  /\ UNCHANGED <<remote, local, work>>

PullApply(c) ==
  /\ At(c, "pulling")
  /\ local' = [local EXCEPT ![c] = remote]
  /\ IF remote = proc[c].seen
     THEN proc' = [proc EXCEPT ![c].pc = "pulled", ![c].seen = <<>>]
     ELSE proc' = [proc EXCEPT ![c] = Idle]
  /\ UNCHANGED <<remote, work>>

(* The bootstrap writes absent rows while the slot row is available.       *)
Initialize(c) ==
  /\ At(c, "pulled")
  /\ proc[c].batch.step = "intent"
  /\ InSync(c)
  /\ Slot(local[c]) = None
  /\ Phase(local[c], c) = "absent"
  /\ work' = [work EXCEPT ![c] = proc[c].batch]
  /\ Goto(c, "initialized")
  /\ UNCHANGED <<remote, local>>

InitialCommit(c) ==
  /\ At(c, "initialized")
  /\ DoCommit(c)
  /\ Goto(c, "committed")

(* The exact batch is in the working set of a replacement process.         *)
WritePending(c) ==
  /\ At(c, "write")
  /\ work[c] # None
  /\ work[c] = proc[c].batch
  /\ remote = local[c]
  /\ proc[c].batch.step # "intent"
  /\ Admits(local[c], c, proc[c].batch.step)
  /\ DoCommit(c)
  /\ Goto(c, "committed")

(* One unpublished commit on the remote head.                              *)
AheadByOne(c) == Clean(c) /\ local[c] # <<>> /\ Front(local[c]) = remote

(* It is the exact batch: go straight to its push.                         *)
WriteAhead(c) ==
  /\ At(c, "write")
  /\ AheadByOne(c)
  /\ Last(local[c]) = proc[c].batch
  /\ Admits(local[c], c, proc[c].batch.step)
  /\ Goto(c, "committed")
  /\ UNCHANGED <<remote, local, work>>

(* reconcileAheadOfRemote: it is another revision step of this run, whose  *)
(* root the remote already has; publish it before the pull.                *)
PublishAhead(c) ==
  /\ At(c, "write")
  /\ AheadByOne(c)
  /\ proc[c].batch.step # "intent"
  /\ LET k == Last(local[c])
     IN  k # proc[c].batch /\ k.run = c /\ k.step \in Projections \ {"intent"}
  /\ Admits(local[c], c, proc[c].batch.step)
  /\ Goto(c, "republish")
  /\ UNCHANGED <<remote, local, work>>

(* The pull that follows confirms it, and ends on a push that was refused. *)
Republish(c) == At(c, "republish") /\ DoPush(c, "pull")

(* The projection CAS; a batch that is the projection already is stale.    *)
Mutate(c) ==
  /\ At(c, "pulled")
  /\ proc[c].batch.step # "intent"
  /\ Admits(local[c], c, proc[c].batch.step)
  /\ IF Row(local[c], c) = proc[c].batch
     THEN Goto(c, "stale") /\ UNCHANGED work
     ELSE /\ work' = [work EXCEPT ![c] = proc[c].batch]
          /\ Goto(c, "mutated")
  /\ UNCHANGED <<remote, local>>

(* A stale batch is applied only as the published head itself.             *)
StaleConfirm(c) ==
  /\ At(c, "stale")
  /\ InSync(c)
  /\ Last(local[c]) = proc[c].batch
  /\ Answer(c, proc[c].batch)

CommitBatch(c) ==
  /\ At(c, "mutated")
  /\ remote = local[c]
  /\ DoCommit(c)
  /\ Goto(c, "committed")

(* The commit to push is the exact batch on the fetched remote head.       *)
ProvePush(c) ==
  /\ At(c, "committed")
  /\ AheadByOne(c)
  /\ Last(local[c]) = proc[c].batch
  /\ Goto(c, "push")
  /\ UNCHANGED <<remote, local, work>>

PushBatch(c) == At(c, "push") /\ DoPush(c, "confirm")

(* The fetched remote head must be the commit just pushed.                 *)
ConfirmBatch(c) ==
  /\ At(c, "confirm")
  /\ InSync(c)
  /\ Answer(c, proc[c].batch)

-----------------------------------------------------------------------------
(* acquire, release and reconcileControllerTransition, on the transition   *)
(* the run's journal holds.                                                *)

Authorised(c) == At(c, "loaded") /\ ~ Told(c) /\ Phase(local[c], c) \in Transitions

(* The slot command on a clean, synchronised clone whose slot is untouched *)
(* since the plan; bd commits it itself or leaves it in the working set.   *)
SlotCommand(c) ==
  /\ Authorised(c)
  /\ InSync(c)
  /\ Slot(local[c]) = Before(c)
  /\ Lineage(Base(c), local[c])
  /\ LET k == Commit(c, Kind(c), 0)
     IN  \/ work' = [work EXCEPT ![c] = k] /\ UNCHANGED local
         \/ local' = [local EXCEPT ![c] = Append(@, k)] /\ UNCHANGED work
  /\ Goto(c, "proving")
  /\ UNCHANGED remote

(* The result of a pushed transition was lost: prove it, change nothing.   *)
SlotLost(c) ==
  /\ Authorised(c)
  /\ InSync(c)
  /\ Slot(local[c]) = After(c)
  /\ Proof(c)
  /\ Answer(c, Commit(c, Kind(c), 0))

(* A clone left with an uncommitted or unpublished transition of its own.  *)
SlotRecover(c) ==
  /\ Authorised(c)
  /\ ~ InSync(c)
  /\ IF Clean(c) THEN Slot(local[c]) = After(c) /\ local[c] # Base(c)
                 ELSE Slot(Append(local[c], work[c])) = After(c) /\ Lineage(Base(c), local[c])
  /\ Lineage(Base(c), remote)
  /\ Slot(remote) = Before(c)
  /\ Goto(c, "proving")
  /\ UNCHANGED <<remote, local, work>>

(* A plausible slip: the remote slot is not read back.                     *)
ReconcileLocally(c) ==
  /\ Authorised(c)
  /\ Clean(c)
  /\ Slot(local[c]) = After(c)
  /\ Proof(c)
  /\ Answer(c, Commit(c, Kind(c), 0))

(* The read-only reconciliation of a journalled transition.                *)
Reconcile(c) ==
  /\ Authorised(c)
  /\ Clean(c)
  /\ Slot(local[c]) = After(c)
  /\ Proof(c)
  /\ Slot(remote) = After(c)
  /\ Answer(c, Commit(c, Kind(c), 0))

SlotCommit(c) ==
  /\ At(c, "proving")
  /\ work[c] # None
  /\ Proof(c)
  /\ DoCommit(c)
  /\ UNCHANGED proc

SlotProve(c) ==
  /\ At(c, "proving")
  /\ Clean(c)
  /\ Proof(c)
  /\ local[c] # remote
  /\ Lineage(Base(c), remote)
  /\ Slot(remote) = Before(c)
  /\ Goto(c, "slot push")
  /\ UNCHANGED <<remote, local, work>>

SlotPush(c) == At(c, "slot push") /\ DoPush(c, "slot confirm")

(* Applied only if the remote head is still the pushed one.                *)
SlotConfirm(c) ==
  /\ At(c, "slot confirm")
  /\ InSync(c)
  /\ Answer(c, Commit(c, Kind(c), 0))

-----------------------------------------------------------------------------
(* A crash, or any answer that ends the command.                           *)
End(c) ==
  /\ ~ At(c, "idle")
  /\ proc' = [proc EXCEPT ![c] = Idle]
  /\ UNCHANGED <<remote, local, work>>

(* What the refusals tell an operator to run while no command is at work.  *)
Operator(c) ==
  /\ At(c, "idle")
  /\ \/ work[c] # None /\ DoCommit(c)
     \/ /\ work[c] # None
        /\ work' = [work EXCEPT ![c] = None]
        /\ UNCHANGED <<remote, local>>
     \/ /\ Clean(c) /\ remote # local[c] /\ IsPrefix(remote, local[c])
        /\ remote' = local[c]
        /\ UNCHANGED <<local, work>>
  /\ UNCHANGED proc

Next == \E c \in Controllers :
  \/ Load(c) \/ LoadSettles(c) \/ SettlePush(c) \/ SettleConfirm(c)
  \/ PlanAcquire(c) \/ PlanRelease(c) \/ PlanConfirm(c)
  \/ WriteNext(c) \/ Resubmit(c) \/ Unsure(c)
  \/ Pull(c) \/ PullApply(c) \/ Initialize(c) \/ InitialCommit(c)
  \/ WritePending(c) \/ WriteAhead(c) \/ PublishAhead(c) \/ Republish(c)
  \/ Mutate(c) \/ StaleConfirm(c) \/ CommitBatch(c)
  \/ ProvePush(c) \/ PushBatch(c) \/ ConfirmBatch(c)
  \/ SlotCommand(c) \/ SlotLost(c) \/ SlotRecover(c) \/ Reconcile(c)
  \/ SlotCommit(c) \/ SlotProve(c) \/ SlotPush(c) \/ SlotConfirm(c)
  \/ End(c) \/ Operator(c)

Spec == Init /\ [][Next]_vars

-----------------------------------------------------------------------------
(* Whether commit k may follow history h: each run moves through its       *)
(* phases once and in order, takes the slot only when it is available, and *)
(* writes and releases only while it holds it.                             *)
Legal(h, k) ==
  LET c == k.run
      phase == Phase(h, c)
  IN  CASE k.step = "intent"   -> phase = "absent" /\ Slot(h) = None
        [] k.step = "acquire"  -> phase = "intent" /\ Slot(h) = None
        [] k.step = "owned"    -> phase = "intent" /\ Slot(h) = c
        [] k.step = "work"     -> phase = "owned" /\ Slot(h) = c
        [] k.step = "closing"  -> phase \in {"owned", "work"} /\ Slot(h) = c
        [] k.step = "noted"    -> phase \in Transitions /\ Slot(h) = c
        [] k.step = "release"  -> phase = "closing" /\ Slot(h) = c
        [] k.step = "released" -> /\ phase = "closing" /\ Slot(h) = None
                                  /\ \E i \in DOMAIN h : h[i] = Commit(c, "release", 0)

(* Whatever two clones interleave, lose and recover, the shared history is *)
(* one the runs could have written taking turns: no commit reaches the     *)
(* remote under a slot another run holds, out of its run's order, or twice *)
(* (slotAdmitsBatch, slotLineage, the baseline proofs and the unforced     *)
(* push together).                                                         *)
PublishedInOrder ==
  \A i \in DOMAIN remote : Legal(SubSeq(remote, 1, i - 1), remote[i])

(* Each push that lands is one step of TakingTurns, or none: what a clone  *)
(* publishes at once is never more than one change of a run's projection   *)
(* or of the slot, however many commands it took to get there.  Work is    *)
(* recorded under the slot; exports are not claimed here.                  *)
Turns == INSTANCE TakingTurns WITH
  slot <- Slot(remote),
  phase <- [c \in Controllers |->
              LET p == Phase(remote, c) IN IF p = "work" THEN "owned" ELSE p],
  claim <- None

TurnsTaken ==
  Turns!Init /\ [][remote' # remote => [Turns!Next]_(Turns!vars)]_remote

(* What a caller was told is applied is in the shared history, though the  *)
(* answer of any push may be lost and any command may die after it         *)
(* (durableCheckpoint, durableInitialIntent, durableSlotTransition,        *)
(* reconcileLostSlotTransition, reconcileControllerTransition).            *)
AppliedIsPublished ==
  \A c \in Controllers : proc[c].said # None => proc[c].said \in ToSet(remote)
=============================================================================

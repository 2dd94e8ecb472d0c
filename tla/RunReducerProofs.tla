-------------------------- MODULE RunReducerProofs --------------------------
(***************************************************************************)
(* Proofs about RunReducer, for every set of units, bases, heads and        *)
(* resources and every bound.                                               *)
(*                                                                          *)
(* The argument factors the 42 unit events through two shapes.  An intent    *)
(* moves one unit to the intent state of one kind and journals that kind;   *)
(* an observation settles the unit's one outstanding act and moves it to a   *)
(* state that has none.  What the journal, the aggregate and the bindings    *)
(* of the inductive invariant need is proved once per shape; what remains    *)
(* per event is that the unit it writes is well typed and bound.            *)
(*                                                                          *)
(* The second part is about queues and owners: QueuesAgree, OwnersAgree and  *)
(* ActiveAgrees.  It is stated of the position of a unit, its state or while *)
(* it is blocked the intent state of its ambiguous act, because the queues,  *)
(* owners and bindings of a blocked unit are those it resumes with.         *)
(*                                                                         *)
(* The third part is about what a single unit's record holds, and opens     *)
(* with an account of its own (PhaseInv).                                   *)
(***************************************************************************)
EXTENDS RunReducer, TLAPS, FiniteSetTheorems

-----------------------------------------------------------------------------
(* Operators *)

(* Opt adds None and nothing else. *)
LEMMA OptFacts ==
    ASSUME NEW S
    PROVE  /\ None \in Opt(S)
           /\ \A x \in S : x \in Opt(S)
           /\ \A x \in Opt(S) : x = None \/ x \in S
  BY DEF Opt

(* Every unit effect kind has an intent state of its own. *)
LEMMA IntentStateFacts ==
    /\ \A k \in UnitKinds : /\ IntentStateForEffect[k] \in IntentStates
                            /\ IntentStateForEffect[k] \in UnitStates
                            /\ IntentStateForEffect[k] \notin {"blocked", "closed"}
    /\ \A k, l \in UnitKinds :
           IntentStateForEffect[k] = IntentStateForEffect[l] => k = l
  <1>1. \A k \in UnitKinds : IntentStateForEffect[k] \in IntentStates
    BY DEF IntentStates
  <1>2. \A k \in UnitKinds : IntentStateForEffect[k] \in UnitStates
    BY <1>1 DEF UnitStates
  <1>3. \A k \in UnitKinds : IntentStateForEffect[k] \notin {"blocked", "closed"}
    BY DEF IntentStateForEffect, UnitKinds
  <1>4. \A k, l \in UnitKinds :
           IntentStateForEffect[k] = IntentStateForEffect[l] => k = l
    BY DEF IntentStateForEffect, UnitKinds
  <1>5. QED
    BY <1>1, <1>2, <1>3, <1>4

(* States an observation leads to: no act is outstanding in them. *)
RestStates == UnitStates \ (IntentStates \cup {"blocked"})

(* The states a unit rests in between two acts, among them every outcome   *)
(* of a unit.                                                              *)
LEMMA RestStateFacts ==
    /\ {"planned", "resources_reserved", "branch_observed",
        "worktree_observed", "dispatched", "collected", "candidate_committed",
        "qualified", "reviewer_dispatched", "approved", "published",
        "repair_required", "closed"} \cup TerminalStates \subseteq RestStates
  BY DEF RestStates, UnitStates, IntentStates, IntentStateForEffect, UnitKinds,
         TerminalStates

-----------------------------------------------------------------------------
(* The two shapes of a unit event *)

OwnersTyped ==
    /\ active \subseteq Units
    /\ qualificationQueue \subseteq Units /\ integrationQueue \subseteq Units
    /\ qualificationOwner \in Opt(Units) /\ integrationOwner \in Opt(Units)
    /\ currentReviewer \in Opt(Units)

ClosedTyped == closed \in [Units -> Opt(Closures)]

(* The evidence of the other units is not touched. *)
ClosedElsewhere(u) == \A v \in Units : v # u => closed'[v] = closed[v]

(* A written unit keeps its reservation, drops it, or takes what nobody has. *)
Takes(u, r) == r.res \subseteq units[u].res \/ r.res \cap Occupied = {}

IntentWith(u, k, r) ==
    /\ CanIntend(u) /\ Takes(u, r)
    /\ k \in HarnessKinds => harness
    /\ r.state = IntentStateForEffect[k] /\ Bound(r, r.state)
    /\ k = "reservation_release" => closed'[u] # None
    /\ units' = [units EXCEPT ![u] = r]
    /\ AppendIntent(u, k)
    /\ UNCHANGED <<runState, controller, harness, wave>>

IntentStep(u) ==
    /\ \E k \in UnitKinds, r \in Unit : IntentWith(u, k, r)
    /\ OwnersTyped' /\ ClosedTyped' /\ ClosedElsewhere(u)

(* The act is outstanding: intended, or ambiguous in a blocked aggregate. *)
Outstanding(u, k) ==
    \/ /\ units[u].state = IntentStateForEffect[k]
       /\ Entry(u, k, "intended") \in journal
    \/ /\ units[u].state = "blocked"
       /\ Entry(u, k, "ambiguous") \in journal

ObserveWith(u, k, r) ==
    /\ controller = "acquired" /\ Takes(u, r)
    /\ Outstanding(u, k)
    /\ r.state \in RestStates /\ Bound(r, r.state)
    /\ units' = [units EXCEPT ![u] = r]
    /\ MarkObserved(u, k)
    /\ SettleAmbiguityState
    /\ wave' = IF r.state = "closed" THEN wave \ {u} ELSE wave
    /\ UNCHANGED <<controller, harness>>

ObserveStep(u) ==
    /\ \E k \in UnitKinds, r \in Unit : ObserveWith(u, k, r)
    /\ OwnersTyped' /\ ClosedTyped' /\ ClosedElsewhere(u)

(* Bound does not read the state field, and a unit stays one under it. *)
LEMMA SetState ==
    ASSUME NEW r \in Unit, NEW s \in UnitStates, Bound(r, s)
    PROVE  LET q == [r EXCEPT !.state = s]
           IN  q \in Unit /\ q.state = s /\ Bound(q, s) /\ q.res = r.res
  BY DEF Unit, Bound

(* An action that emits an effect from an admissible unit, with typed      *)
(* owners and ledger and what the intent state asks for, has the shape of  *)
(* a unit intent.                                                          *)
LEMMA IntentShape ==
    ASSUME TypeOK, NEW u \in Units, NEW k \in UnitKinds, NEW r \in Unit,
           Takes(u, r), CanIntend(u), k \in HarnessKinds => harness,
           Emit(u, IntentStateForEffect[k], k, r),
           Bound(r, IntentStateForEffect[k]),
           k = "reservation_release" => closed'[u] # None,
           OwnersTyped', ClosedTyped', ClosedElsewhere(u)
    PROVE  IntentStep(u)
  <1> DEFINE q == [r EXCEPT !.state = IntentStateForEffect[k]]
  <1>1. q \in Unit /\ q.state = IntentStateForEffect[k] /\ Bound(q, q.state)
        /\ q.res = r.res
    BY SetState, IntentStateFacts, Zenon
  <1>2. IntentWith(u, k, q)
    BY <1>1 DEF IntentWith, Emit, Takes
  <1>3. QED
    BY <1>1, <1>2 DEF IntentStep

(* An action that settles the unit's outstanding effect into a resting     *)
(* state, with what that state asks for, has the shape of a unit           *)
(* observation.                                                            *)
LEMMA ObserveShape ==
    ASSUME TypeOK, NEW u \in Units, NEW k \in UnitKinds, NEW r \in Unit,
           NEW next \in RestStates,
           Takes(u, r), controller = "acquired", Outstanding(u, k),
           Observe(u, next, k, r), Bound(r, next),
           wave' = IF next = "closed" THEN wave \ {u} ELSE wave,
           OwnersTyped', ClosedTyped', ClosedElsewhere(u)
    PROVE  ObserveStep(u)
  <1> DEFINE q == [r EXCEPT !.state = next]
  <1>0. next \in UnitStates
    BY DEF RestStates
  <1>1. q \in Unit /\ q.state = next /\ Bound(q, q.state)
        /\ q.res = r.res
    BY <1>0, SetState, Zenon
  <1>2. ObserveWith(u, k, q)
    BY <1>1 DEF ObserveWith, Observe, Takes
  <1>3. QED
    BY <1>1, <1>2 DEF ObserveStep

-----------------------------------------------------------------------------
(* What the shapes preserve *)

CoreInv == TypeOK /\ JournalInv /\ AggregateInv /\ BindingInv

(* A journalled entry is a typed record, determined by its three fields. *)
LEMMA EntryFacts ==
    /\ \A u, k, s : /\ Entry(u, k, s).unit = u
                   /\ Entry(u, k, s).kind = k
                   /\ Entry(u, k, s).status = s
    /\ \A e \in Entries : /\ e = Entry(e.unit, e.kind, e.status)
                          /\ e.unit \in Opt(Units)
                          /\ e.kind \in UnitKinds \cup ControllerKinds
                          /\ e.status \in {"intended", "ambiguous", "observed"}
    /\ \A u \in Opt(Units), k \in UnitKinds \cup ControllerKinds,
          s \in {"intended", "ambiguous", "observed"} : Entry(u, k, s) \in Entries
  BY DEF Entry, Entries

(* What an intent does to the journal: only observed entries may go. *)
LEMMA AppendIntentFacts ==
    ASSUME NEW u, NEW k, AppendIntent(u, k)
    PROVE  /\ Entry(u, k, "intended") \in journal'
           /\ \A e \in journal : Unresolved(e) => e \in journal'
           /\ \A e \in journal' : e \in journal \/ e = Entry(u, k, "intended")
  BY DEF AppendIntent, Unresolved

(* What an observation does to the journal: the act it settles is replaced. *)
LEMMA MarkObservedFacts ==
    ASSUME NEW u, NEW k, MarkObserved(u, k)
    PROVE  /\ Entry(u, k, "intended") \notin journal'
           /\ Entry(u, k, "ambiguous") \notin journal'
           /\ Entry(u, k, "observed") \in journal'
           /\ \A e \in journal : \/ e \in journal'
                                 \/ e = Entry(u, k, "intended")
                                 \/ e = Entry(u, k, "ambiguous")
           /\ \A e \in journal' : e \in journal \/ e = Entry(u, k, "observed")
  BY EntryFacts DEF MarkObserved

(* A unit intent keeps the aggregate well typed.                           *)
LEMMA IntentKeepsType ==
    ASSUME TypeOK, NEW u \in Units, IntentStep(u)
    PROVE  TypeOK'
  <1>1. PICK k \in UnitKinds, r \in Unit : IntentWith(u, k, r)
    BY DEF IntentStep
  <1>2. units' \in [Units -> Unit]
    BY <1>1 DEF IntentWith, TypeOK
  <1>3. journal' \subseteq Entries
    BY <1>1, EntryFacts, OptFacts, AppendIntentFacts DEF IntentWith, TypeOK
  <1>4. QED
    BY <1>1, <1>2, <1>3 DEF IntentWith, IntentStep, OwnersTyped, ClosedTyped, TypeOK

(* A unit intent keeps the journal in step with the units: the emitted     *)
(* effect is the unit's only unresolved one.                               *)
LEMMA IntentKeepsJournal ==
    ASSUME TypeOK, JournalInv, NEW u \in Units, IntentStep(u)
    PROVE  JournalInv'
  <1>1. PICK k \in UnitKinds, r \in Unit : IntentWith(u, k, r)
    BY DEF IntentStep
  <1> DEFINE new == Entry(u, k, "intended")
  <1>2. /\ new \in journal' /\ Unresolved(new) /\ new.unit = u
        /\ new.kind = k /\ new.status = "intended"
        /\ \A e \in journal : Unresolved(e) => e \in journal'
        /\ \A e \in journal' : e \in journal \/ e = new
    BY <1>1, EntryFacts, AppendIntentFacts DEF IntentWith, Unresolved
  <1>3. \A e \in journal : Unresolved(e) => e.unit # u
    BY <1>1, EntryFacts
       DEF IntentWith, CanIntend, HasUnresolvedUnitEffect, UnresolvedEntries,
           Unresolved, TypeOK
  <1>4. u # None
    BY NoneAssumption
  <1>5. /\ units'[u].state = IntentStateForEffect[k]
        /\ \A v \in Units : v # u => units'[v] = units[v]
        /\ u \in wave' /\ wave' = wave
        /\ controller' = controller /\ controller = "acquired"
        /\ harness' = harness /\ (k \in HarnessKinds => harness)
    BY <1>1 DEF IntentWith, TypeOK, CanIntend
  <1> HIDE DEF new
  <1>6. \A e \in journal : Unresolved(e) /\ e.unit # None => e.unit \in Units
    BY OptFacts, EntryFacts DEF TypeOK
  <1>7. \A e \in journal' : Unresolved(e) /\ e.unit # None =>
           /\ controller' = "acquired"
           /\ e.unit \in wave' /\ e.kind \in UnitKinds
           /\ units'[e.unit].state = IF e.status = "ambiguous" THEN "blocked"
                                     ELSE IntentStateForEffect[e.kind]
    BY <1>2, <1>3, <1>5, <1>6 DEF JournalInv
  <1>8. \A e \in journal' : Unresolved(e) /\ e.unit = None =>
           \/ e.kind = "controller_acquire" /\ controller' = "acquire_intent"
           \/ e.kind = "controller_release" /\ controller' = "release_intent"
    BY <1>2, <1>4, <1>5 DEF JournalInv
  <1>9. \A e, f \in journal' :
           Unresolved(e) /\ Unresolved(f) /\ e.unit = f.unit => e = f
    BY <1>2, <1>3 DEF JournalInv
  <1>10. \A v \in Units : units'[v].state \in IntentStates \cup {"blocked"} =>
           \E e \in journal' : Unresolved(e) /\ e.unit = v
    BY <1>2, <1>5 DEF JournalInv
  <1>11. controller' \in {"acquire_intent", "release_intent"} =>
           \E e \in journal' : Unresolved(e) /\ e.unit = None
    BY <1>2, <1>5 DEF JournalInv
  <1>12. ~ harness' => \A e \in journal' : Unresolved(e) => e.kind \notin HarnessKinds
    BY <1>2, <1>5 DEF JournalInv
  <1>13. QED
    BY <1>7, <1>8, <1>9, <1>10, <1>11, <1>12 DEF JournalInv, Unresolved

(* A unit intent leaves run, controller and wave as they fit together.     *)
LEMMA IntentKeepsAggregate ==
    ASSUME TypeOK, AggregateInv, NEW u \in Units, IntentStep(u)
    PROVE  AggregateInv'
  <1>1. PICK k \in UnitKinds, r \in Unit : IntentWith(u, k, r)
    BY DEF IntentStep
  <1>2. (\E e \in journal' : e.status = "ambiguous")
            <=> \E e \in journal : e.status = "ambiguous"
    BY <1>1, EntryFacts, AppendIntentFacts DEF IntentWith, Unresolved
  <1>3. wave' \subseteq Live'
    BY <1>1, IntentStateFacts DEF IntentWith, AggregateInv, Live, TypeOK
  <1>4. QED
    BY <1>1, <1>2, <1>3 DEF IntentWith, AggregateInv

(* A unit not written stays where it is, and one written is where it says. *)
LEMMA IntentKeepsBindings ==
    ASSUME TypeOK, JournalInv, BindingInv, NEW u \in Units, IntentStep(u)
    PROVE  BindingInv'
  <1>1. PICK k \in UnitKinds, r \in Unit : IntentWith(u, k, r)
    BY DEF IntentStep
  <1> SUFFICES ASSUME NEW v \in Units, NEW s \in UnitStates \ {"blocked"}, At(v, s)'
               PROVE  /\ Bound(units[v], s)'
                      /\ s = "reservation_release_intent" => closed'[v] # None
    BY DEF BindingInv
  <1>2. CASE v = u
    <2>1. units'[u] = r /\ r.state = IntentStateForEffect[k] /\ r.state # "blocked"
      BY <1>1, IntentStateFacts DEF IntentWith, TypeOK
    <2>2. s = r.state
      BY <1>2, <2>1 DEF At
    <2>3. s = "reservation_release_intent" => k = "reservation_release"
      BY <2>1, <2>2, IntentStateFacts DEF IntentStateForEffect, UnitKinds
    <2>4. QED
      BY <1>1, <1>2, <2>1, <2>2, <2>3 DEF IntentWith, Bound
  <1>3. CASE v # u
    <2>1. units'[v] = units[v] /\ closed'[v] = closed[v]
      BY <1>1, <1>3 DEF IntentWith, TypeOK, IntentStep, ClosedElsewhere
    <2>2. \A l : Entry(v, l, "ambiguous") \in journal' => Entry(v, l, "ambiguous") \in journal
      BY <1>1, <1>3, EntryFacts, AppendIntentFacts DEF IntentWith
    <2>3. At(v, s)
      BY <2>1, <2>2 DEF At
    <2>4. QED
      BY <2>1, <2>3 DEF BindingInv, Bound
  <1>4. QED
    BY <1>2, <1>3

(* A unit observation keeps the aggregate well typed.                      *)
LEMMA ObserveKeepsType ==
    ASSUME TypeOK, NEW u \in Units, ObserveStep(u)
    PROVE  TypeOK'
  <1>1. PICK k \in UnitKinds, r \in Unit : ObserveWith(u, k, r)
    BY DEF ObserveStep
  <1>2. units' \in [Units -> Unit]
    BY <1>1 DEF ObserveWith, TypeOK
  <1>3. journal' \subseteq Entries
    BY <1>1, EntryFacts, OptFacts, MarkObservedFacts DEF ObserveWith, TypeOK
  <1>4. wave' \subseteq Units
    BY <1>1 DEF ObserveWith, TypeOK
  <1>5. runState' \in {"initializing", "active", "blocked", "release_intent",
                       "released"}
    BY <1>1 DEF ObserveWith, SettleAmbiguityState, TypeOK
  <1>6. QED
    BY <1>1, <1>2, <1>3, <1>4, <1>5
       DEF ObserveWith, ObserveStep, OwnersTyped, ClosedTyped, TypeOK

(* The settled act was the unit's only one, so none is left. *)
LEMMA ObserveSettles ==
    ASSUME TypeOK, JournalInv, NEW u \in Units, NEW k \in UnitKinds,
           Outstanding(u, k), MarkObserved(u, k)
    PROVE  \A e \in journal' : Unresolved(e) => e \in journal /\ e.unit # u
  <1>1. PICK s \in {"intended", "ambiguous"} : Entry(u, k, s) \in journal
    BY DEF Outstanding
  <1>2. \A e \in journal : Unresolved(e) /\ e.unit = u => e = Entry(u, k, s)
    BY <1>1, EntryFacts DEF JournalInv, Unresolved
  <1>3. QED
    BY <1>1, <1>2, EntryFacts, MarkObservedFacts DEF Unresolved

(* A unit observation keeps the journal in step with the units: the        *)
(* settled effect was the unit's only unresolved one.                      *)
LEMMA ObserveKeepsJournal ==
    ASSUME TypeOK, JournalInv, NEW u \in Units, ObserveStep(u)
    PROVE  JournalInv'
  <1>1. PICK k \in UnitKinds, r \in Unit : ObserveWith(u, k, r)
    BY DEF ObserveStep
  <1>2. \A e \in journal' : Unresolved(e) => e \in journal /\ e.unit # u
    BY <1>1, ObserveSettles DEF ObserveWith
  <1>3. \A e \in journal : Unresolved(e) /\ e.unit # u => e \in journal'
    BY <1>1, EntryFacts, MarkObservedFacts DEF ObserveWith
  <1>4. u # None
    BY NoneAssumption
  <1>5. /\ units'[u].state \in RestStates
        /\ \A v \in Units : v # u => units'[v] = units[v]
        /\ wave \ {u} \subseteq wave' /\ controller' = controller
        /\ harness' = harness
    BY <1>1 DEF ObserveWith, TypeOK
  <1>6. \A e \in journal : Unresolved(e) /\ e.unit # None => e.unit \in Units
    BY OptFacts, EntryFacts DEF TypeOK
  <1>7. \A e \in journal' : Unresolved(e) /\ e.unit # None =>
           /\ controller' = "acquired"
           /\ e.unit \in wave' /\ e.kind \in UnitKinds
           /\ units'[e.unit].state = IF e.status = "ambiguous" THEN "blocked"
                                     ELSE IntentStateForEffect[e.kind]
    BY <1>2, <1>5, <1>6 DEF JournalInv
  <1>8. \A e \in journal' : Unresolved(e) /\ e.unit = None =>
           \/ e.kind = "controller_acquire" /\ controller' = "acquire_intent"
           \/ e.kind = "controller_release" /\ controller' = "release_intent"
    BY <1>2, <1>5 DEF JournalInv
  <1>9. \A e, f \in journal' :
           Unresolved(e) /\ Unresolved(f) /\ e.unit = f.unit => e = f
    BY <1>2 DEF JournalInv
  <1>10. \A v \in Units : units'[v].state \in IntentStates \cup {"blocked"} =>
           \E e \in journal' : Unresolved(e) /\ e.unit = v
    BY <1>3, <1>5 DEF JournalInv, RestStates
  <1>11. controller' \in {"acquire_intent", "release_intent"} =>
           \E e \in journal' : Unresolved(e) /\ e.unit = None
    BY <1>3, <1>4, <1>5 DEF JournalInv
  <1>12. ~ harness' => \A e \in journal' : Unresolved(e) => e.kind \notin HarnessKinds
    BY <1>2, <1>5 DEF JournalInv
  <1>13. QED
    BY <1>7, <1>8, <1>9, <1>10, <1>11, <1>12 DEF JournalInv, Unresolved

(* A unit observation unblocks the run exactly when it settles the last    *)
(* ambiguity (settleAmbiguityState).                                       *)
LEMMA ObserveKeepsAggregate ==
    ASSUME TypeOK, AggregateInv, NEW u \in Units, ObserveStep(u)
    PROVE  AggregateInv'
  <1>1. PICK k \in UnitKinds, r \in Unit : ObserveWith(u, k, r)
    BY DEF ObserveStep
  <1>2. runState \in {"active", "blocked"} /\ controller' = "acquired"
    BY <1>1 DEF ObserveWith, AggregateInv, TypeOK
  <1>3. /\ runState' \in {"active", "blocked"}
        /\ runState' = "blocked" <=> \E e \in journal' : e.status = "ambiguous"
    BY <1>1, <1>2 DEF ObserveWith, SettleAmbiguityState
  <1>4. wave' \subseteq Live'
    BY <1>1 DEF ObserveWith, AggregateInv, Live, TypeOK
  <1>5. QED
    BY <1>2, <1>3, <1>4 DEF AggregateInv

(* A unit observation keeps what every lifecycle position has bound.       *)
LEMMA ObserveKeepsBindings ==
    ASSUME TypeOK, BindingInv, NEW u \in Units, ObserveStep(u)
    PROVE  BindingInv'
  <1>1. PICK k \in UnitKinds, r \in Unit : ObserveWith(u, k, r)
    BY DEF ObserveStep
  <1> SUFFICES ASSUME NEW v \in Units, NEW s \in UnitStates \ {"blocked"}, At(v, s)'
               PROVE  /\ Bound(units[v], s)'
                      /\ s = "reservation_release_intent" => closed'[v] # None
    BY DEF BindingInv
  <1>2. CASE v = u
    <2>1. units'[u] = r /\ r.state \in RestStates /\ r.state # "blocked"
      BY <1>1 DEF ObserveWith, RestStates, TypeOK
    <2>2. s = r.state
      BY <1>2, <2>1 DEF At
    <2>3. s # "reservation_release_intent"
      BY <2>1, <2>2 DEF RestStates, IntentStates, IntentStateForEffect, UnitKinds
    <2>4. QED
      BY <1>1, <1>2, <2>1, <2>2, <2>3 DEF ObserveWith, Bound
  <1>3. CASE v # u
    <2>1. units'[v] = units[v] /\ closed'[v] = closed[v]
      BY <1>1, <1>3 DEF ObserveWith, TypeOK, ObserveStep, ClosedElsewhere
    <2>2. \A l : Entry(v, l, "ambiguous") \in journal' => Entry(v, l, "ambiguous") \in journal
      BY <1>1, <1>3, EntryFacts, MarkObservedFacts DEF ObserveWith
    <2>3. At(v, s)
      BY <2>1, <2>2 DEF At
    <2>4. QED
      BY <2>1, <2>3 DEF BindingInv, Bound
  <1>4. QED
    BY <1>2, <1>3

(* The two shapes preserve the core of the inductive invariant. *)
LEMMA ShapesKeepCore ==
    ASSUME CoreInv, NEW u \in Units, IntentStep(u) \/ ObserveStep(u)
    PROVE  CoreInv'
  BY IntentKeepsType, IntentKeepsJournal, IntentKeepsAggregate,
     IntentKeepsBindings, ObserveKeepsType, ObserveKeepsJournal,
     ObserveKeepsAggregate, ObserveKeepsBindings DEF CoreInv

-----------------------------------------------------------------------------
(* Facts the events share *)

(* An admitted observation has its effect outstanding, and the unit has    *)
(* bound what the effect's intent state asks for, blocked or not.          *)
LEMMA ObservableFacts ==
    ASSUME TypeOK, BindingInv, NEW u \in Units, NEW k \in UnitKinds, NEW event,
           Observable(u, k, event)
    PROVE  /\ controller = "acquired" /\ Outstanding(u, k)
           /\ Bound(units[u], IntentStateForEffect[k])
           /\ k = "reservation_release" => closed[u] # None
           /\ units[u] \in Unit
  <1>1. controller = "acquired" /\ Outstanding(u, k)
    BY DEF Observable, Outstanding
  <1>2. At(u, IntentStateForEffect[k])
    BY <1>1 DEF At, Outstanding
  <1>3. k = "reservation_release" =>
            IntentStateForEffect[k] = "reservation_release_intent"
    BY DEF IntentStateForEffect
  <1>4. QED
    BY <1>1, <1>2, <1>3, IntentStateFacts DEF BindingInv, TypeOK

(* The facts a unit brings from the state an intent starts in. *)
LEMMA RestingBound ==
    ASSUME TypeOK, BindingInv, NEW u \in Units, NEW s \in RestStates,
           units[u].state = s
    PROVE  Bound(units[u], s)
  BY DEF BindingInv, At, RestStates

(* The positions that ask for no binding.                                  *)
LEMMA UnboundStates ==
    ASSUME NEW r,
           NEW s \in {"planned", "resources_reserved", "branch_observed",
               "worktree_observed", "dispatched", "collected",
               "repair_required", "closed", "failed", "timed_out", "parked",
               "cancelled", "reservation_intent", "branch_intent",
               "worktree_intent", "dispatch_intent", "collect_intent",
               "candidate_intent", "refresh_intent",
               "reservation_release_intent", "failure_intent",
               "timeout_intent", "park_intent", "cancel_intent"}
    PROVE  Bound(r, s)
  BY DEF Bound, CandidateStates, VerifiedStates, ApprovedStates

(* Unchanged owners and queues stay typed.                                 *)
LEMMA SameOwners ==
    ASSUME TypeOK, UNCHANGED owners
    PROVE  OwnersTyped'
  BY DEF TypeOK, OwnersTyped, owners

(* clearUnitOwners leaves owners and queues typed.                         *)
LEMMA ClearedOwners ==
    ASSUME TypeOK, NEW u, ClearUnitOwners(u)
    PROVE  OwnersTyped'
  BY OptFacts DEF TypeOK, OwnersTyped, ClearUnitOwners, Without

(* An unchanged ledger stays typed.                                        *)
LEMMA SameClosed ==
    ASSUME TypeOK, NEW u, UNCHANGED closed
    PROVE  ClosedTyped' /\ ClosedElsewhere(u)
  BY DEF TypeOK, ClosedTyped, ClosedElsewhere

(* A terminal observation writes a well-formed closure of its own unit     *)
(* only.                                                                   *)
LEMMA PersistedClosed ==
    ASSUME TypeOK, NEW u \in Units, NEW outcome \in TerminalStates,
           PersistTerminalClosureEvidence(u, outcome)
    PROVE  ClosedTyped' /\ ClosedElsewhere(u)
  <1> DEFINE c == [outcome |-> outcome, base |-> units[u].base,
                   cand |-> units[u].cand,
                   ver |-> IF Successful(outcome) THEN units[u].ver ELSE None,
                   review |-> IF Successful(outcome) THEN units[u].review ELSE None,
                   release |-> "none", final |-> FALSE]
  <1>1. /\ units[u].base \in Bases /\ units[u].cand \in Opt(Heads)
        /\ units[u].ver \in Opt(Pair) /\ units[u].review \in Opt(Pair)
    BY DEF TypeOK, Unit
  <1>2. None \in Opt(Pair)
    BY OptFacts
  <1>3. c \in Closures
    BY <1>1, <1>2 DEF Closures
  <1>4. c \in Opt(Closures)
    BY <1>3, OptFacts, Zenon
  <1>5. closed' = [closed EXCEPT ![u] = c]
    BY DEF PersistTerminalClosureEvidence, ClosureEvidenceFor
  <1> HIDE DEF c
  <1>6. QED
    BY <1>4, <1>5 DEF TypeOK, ClosedTyped, ClosedElsewhere

(* Amending the release lineage of a closure keeps it well formed.         *)
LEMMA UpdatedEvidence ==
    ASSUME TypeOK, NEW u \in Units, closed[u] # None,
           NEW status \in {"intended", "ambiguous", "observed"}
    PROVE  UpdateClosureReleaseEvidence(u, status) \in Closures
  <1>1. closed[u] \in Closures
    BY OptFacts DEF TypeOK
  <1>2. QED
    BY <1>1 DEF UpdateClosureReleaseEvidence, Closures

(* withoutReviewBindings drops the review and touches neither pair,        *)
(* verification nor reservations.                                          *)
LEMMA DroppedReview ==
    ASSUME NEW r \in Unit
    PROVE  LET q == WithoutReviewBindings(r)
           IN  /\ q \in Unit /\ q.res = r.res /\ q.base = r.base
               /\ q.cand = r.cand /\ q.diff = r.diff /\ q.ver = r.ver
  <1>1. None \in Opt(Pair) /\ None \in Opt(Bases \X Heads \X Heads \X (0..MaxScope))
    BY OptFacts
  <1>2. QED
    BY ZenonT(60), <1>1 DEF Unit, WithoutReviewBindings

-----------------------------------------------------------------------------
(* Every unit intent has the intent shape *)

(* An intent that leaves owners and evidence alone. *)
LEMMA PlainIntent ==
    ASSUME TypeOK, NEW u \in Units, NEW k \in UnitKinds, NEW r \in Unit,
           Takes(u, r), CanIntend(u), k \in HarnessKinds => harness,
           Emit(u, IntentStateForEffect[k], k, r),
           Bound(r, IntentStateForEffect[k]),
           k # "reservation_release", OwnersTyped', UNCHANGED closed
    PROVE  IntentStep(u)
  BY IntentShape, SameClosed

(* A worker packet names a base the unit has, or had, and its scope. *)
LEMMA WorkerPacketType ==
    ASSUME NEW r \in Unit, NEW packet \in WorkerPackets(r)
    PROVE  packet \in Opt(Bases \X (0..MaxScope))
  <1>1. r.base \in Bases /\ r.launchBase \in Opt(Bases) /\ r.scope \in 0..MaxScope
    BY DEF Unit
  <1>2. r.launchBase = None \/ r.launchBase \in Bases
    BY <1>1, OptFacts
  <1>3. packet \in Bases \X (0..MaxScope)
    BY <1>1, <1>2 DEF WorkerPackets
  <1>4. QED
    BY <1>3, OptFacts, Zenon

(* Every intent event of a unit has the shape of a unit intent.            *)
LEMMA UnitIntentShape ==
    ASSUME CoreInv, NEW u \in Units, UnitIntent(u)
    PROVE  IntentStep(u)
  <1> USE DEF CoreInv
  <1>0. units[u] \in Unit /\ Takes(u, units[u])
    BY DEF TypeOK, Takes
  <1>1. CASE ReservationIntent(u)
    <2>1. PICK s \in SUBSET Resources :
              /\ s \cap Occupied = {}
              /\ Emit(u, "reservation_intent", "reservation_acquire",
                      [units[u] EXCEPT !.res = s, !.resState = "intended"])
      BY <1>1 DEF ReservationIntent
    <2> DEFINE r == [units[u] EXCEPT !.res = s, !.resState = "intended"]
    <2>2. r \in Unit /\ r.res = s
      BY <1>0 DEF Unit
    <2>3. Bound(r, "reservation_intent")
      BY UnboundStates, Zenon
    <2>4. QED
      BY <1>1, <2>1, <2>2, <2>3, PlainIntent, SameOwners
         DEF Takes, ReservationIntent, IntentStateForEffect, UnitKinds, HarnessKinds
  <1>2. CASE BranchIntent(u)
    <2> DEFINE r == [units[u] EXCEPT !.branch = IF u \in LegacyUnits THEN "full" ELSE "short"]
    <2>1. r \in Unit /\ Takes(u, r)
      BY <1>0 DEF Takes, Unit
    <2>2. Bound(r, "branch_intent")
      BY UnboundStates, Zenon
    <2>3. QED
      BY <1>2, <2>1, <2>2, PlainIntent, SameOwners
         DEF BranchIntent, IntentStateForEffect, UnitKinds, HarnessKinds
  <1>3. CASE WorktreeIntent(u)
    <2> DEFINE r == [units[u] EXCEPT !.worktree = TRUE]
    <2>1. r \in Unit /\ Takes(u, r)
      BY <1>0 DEF Takes, Unit
    <2>2. Bound(r, "worktree_intent")
      BY UnboundStates, Zenon
    <2>3. QED
      BY <1>3, <2>1, <2>2, PlainIntent, SameOwners
         DEF WorktreeIntent, IntentStateForEffect, UnitKinds, HarnessKinds
  <1>4. CASE DispatchIntent(u)
    <2>1. PICK packet \in WorkerPackets(units[u]) :
              ModifyingIntent(u, "dispatch_intent", "dispatch",
                              [units[u] EXCEPT !.wpacket = packet])
      BY <1>4 DEF DispatchIntent
    <2> DEFINE r == [units[u] EXCEPT !.wpacket = packet]
    <2>2. packet \in Opt(Bases \X (0..MaxScope))
      BY <1>0, WorkerPacketType
    <2>3. r \in Unit /\ Takes(u, r) /\ r.repairs = units[u].repairs
      BY <1>0, <2>2 DEF Takes, Unit
    <2>4. Bound(r, "dispatch_intent")
      BY UnboundStates, Zenon
    <2>5. OwnersTyped'
      BY <2>1 DEF ModifyingIntent, TypeOK, OwnersTyped
    <2>6. ClosedTyped' /\ ClosedElsewhere(u)
      BY <1>4, SameClosed DEF DispatchIntent
    <2>7. QED
      BY <1>4, <2>1, <2>3, <2>4, <2>5, <2>6, IntentShape
         DEF DispatchIntent, ModifyingIntent, IntentStateForEffect, UnitKinds
  <1>5. CASE CollectIntent(u)
    <2> DEFINE r == units[u]
    <2>1. r \in Unit /\ Takes(u, r)
      BY <1>0 DEF Takes
    <2>2. Bound(r, "collect_intent")
      BY UnboundStates, Zenon
    <2>3. QED
      BY <1>5, <2>1, <2>2, PlainIntent, SameOwners
         DEF CollectIntent, IntentStateForEffect, UnitKinds, HarnessKinds
  <1>6. CASE CandidateIntent(u)
    <2> DEFINE r == units[u]
    <2>1. r \in Unit /\ Takes(u, r)
      BY <1>0 DEF Takes
    <2>2. Bound(r, "candidate_intent")
      BY UnboundStates, Zenon
    <2>3. QED
      BY <1>6, <2>1, <2>2, PlainIntent, SameOwners
         DEF CandidateIntent, IntentStateForEffect, UnitKinds, HarnessKinds
  <1>7. CASE CandidateRecheckIntent(u)
    <2> DEFINE d == WithoutReviewBindings(units[u])
               r == [d EXCEPT !.diff = None, !.ver = None, !.recheck = TRUE]
    <2>1. d \in Unit /\ d.res = units[u].res
      BY <1>0, DroppedReview
    <2>2. None \in Opt(Pair) /\ None \in Opt(Heads)
      BY OptFacts
    <2> HIDE DEF d
    <2>3. r \in Unit /\ Takes(u, r)
      BY <2>1, <2>2 DEF Takes, Unit
    <2>4. Bound(r, "candidate_intent")
      BY UnboundStates, Zenon
    <2>5. OwnersTyped'
      BY <1>7, OptFacts DEF CandidateRecheckIntent, TypeOK, OwnersTyped
    <2>6. Emit(u, "candidate_intent", "candidate_collect", r)
      BY <1>7 DEF CandidateRecheckIntent, d
    <2>7. QED
      BY <1>7, <2>3, <2>4, <2>5, <2>6, PlainIntent
         DEF CandidateRecheckIntent, IntentStateForEffect, UnitKinds, HarnessKinds
  <1>8. CASE RefreshIntent(u)
    <2>1. PICK target \in Bases :
              Emit(u, "refresh_intent", "candidate_refresh",
                   [units[u] EXCEPT !.refresh = target])
      BY <1>8 DEF RefreshIntent
    <2> DEFINE r == [units[u] EXCEPT !.refresh = target]
    <2>2. target \in Opt(Bases)
      BY OptFacts
    <2>3. r \in Unit /\ Takes(u, r)
      BY <1>0, <2>2 DEF Takes, Unit
    <2>4. Bound(r, "refresh_intent")
      BY UnboundStates, Zenon
    <2>5. OwnersTyped'
      BY <1>8, OptFacts DEF RefreshIntent, Without, TypeOK, OwnersTyped
    <2>6. QED
      BY <1>8, <2>1, <2>3, <2>4, <2>5, PlainIntent
         DEF RefreshIntent, IntentStateForEffect, UnitKinds, HarnessKinds
  <1>9. CASE VerificationIntent(u)
    <2>1. Bound(units[u], "candidate_committed")
      BY <1>9, RestingBound, RestStateFacts DEF VerificationIntent
    <2>2. Bound(units[u], "verification_intent")
      BY <2>1 DEF Bound, CandidateStates, VerifiedStates, ApprovedStates
    <2>3. OwnersTyped'
      BY <1>9, OptFacts DEF VerificationIntent, TypeOK, OwnersTyped
    <2>4. QED
      BY <1>0, <1>9, <2>2, <2>3, PlainIntent
         DEF VerificationIntent, IntentStateForEffect, UnitKinds, HarnessKinds
  <1>10. CASE ReviewerDispatchIntent(u)
    <2> DEFINE packet == ReviewerPacket(units[u])
               r == [units[u] EXCEPT !.rpacket = packet]
    <2>1. /\ Bound(units[u], "qualified")
          /\ units[u].cand \in Heads /\ units[u].diff \in Heads
      BY <1>0, <1>10, RestingBound, RestStateFacts
         DEF ReviewerDispatchIntent, Bound, CandidateStates, VerifiedStates
    <2>2. packet \in Bases \X Heads \X Heads \X (0..MaxScope)
      BY <1>0, <2>1 DEF ReviewerPacket, Unit
    <2>3. packet \in Opt(Bases \X Heads \X Heads \X (0..MaxScope))
      BY <2>2, OptFacts, Zenon
    <2> HIDE DEF packet
    <2>4. /\ r \in Unit /\ Takes(u, r) /\ r.cand = units[u].cand /\ r.diff = units[u].diff
          /\ r.base = units[u].base /\ r.ver = units[u].ver
      BY <1>0, <2>3 DEF Takes, Unit
    <2>5. Bound(r, "reviewer_dispatch_intent")
      BY <2>1, <2>4 DEF Bound, CandidateStates, VerifiedStates, ApprovedStates
    <2>6. OwnersTyped'
      BY <1>10, OptFacts DEF ReviewerDispatchIntent, TypeOK, OwnersTyped
    <2>7. Emit(u, "reviewer_dispatch_intent", "review_dispatch", r)
      BY <1>10 DEF ReviewerDispatchIntent, packet
    <2>8. QED
      BY <1>10, <2>4, <2>5, <2>6, <2>7, PlainIntent
         DEF ReviewerDispatchIntent, IntentStateForEffect, UnitKinds
  <1>11. CASE ReviewCollectIntent(u)
    <2>1. Bound(units[u], "reviewer_dispatched")
      BY <1>11, RestingBound, RestStateFacts DEF ReviewCollectIntent
    <2>2. Bound(units[u], "review_collect_intent")
      BY <2>1 DEF Bound, CandidateStates, VerifiedStates, ApprovedStates
    <2>3. OwnersTyped'
      BY <1>11, SameOwners DEF ReviewCollectIntent
    <2>4. QED
      BY <1>0, <1>11, <2>2, <2>3, PlainIntent
         DEF ReviewCollectIntent, IntentStateForEffect, UnitKinds, HarnessKinds
  <1>12. CASE PublishIntent(u)
    <2>1. Bound(units[u], "approved")
      BY <1>12, RestingBound, RestStateFacts DEF PublishIntent
    <2>2. Bound(units[u], "publish_intent")
      BY <2>1 DEF Bound, CandidateStates, VerifiedStates, ApprovedStates
    <2>3. OwnersTyped'
      BY <1>12, SameOwners DEF PublishIntent
    <2>4. QED
      BY <1>0, <1>12, <2>2, <2>3, PlainIntent
         DEF PublishIntent, IntentStateForEffect, UnitKinds, HarnessKinds
  <1>13. CASE IntegrateIntent(u)
    <2>1. Bound(units[u], "integrate_intent")
      BY <1>13, RestingBound, RestStateFacts
         DEF IntegrateIntent, CanIntegrateFrom, Bound, CandidateStates,
             VerifiedStates, ApprovedStates
    <2>2. OwnersTyped'
      BY <1>13, OptFacts DEF IntegrateIntent, TypeOK, OwnersTyped
    <2>3. QED
      BY <1>0, <1>13, <2>1, <2>2, PlainIntent
         DEF IntegrateIntent, IntentStateForEffect, UnitKinds, HarnessKinds
  <1>14. CASE ReservationReleaseIntent(u)
    <2> DEFINE r == [units[u] EXCEPT
                        !.resState = IF units[u].res = {} THEN @ ELSE "release_intent"]
               c == UpdateClosureReleaseEvidence(u, "intended")
    <2>1. r \in Unit /\ Takes(u, r)
      BY <1>0 DEF Takes, Unit
    <2>2. Bound(r, "reservation_release_intent")
      BY UnboundStates, Zenon
    <2>3. c \in Closures
      BY <1>14, UpdatedEvidence DEF ReservationReleaseIntent
    <2>4. c \in Opt(Closures) /\ c # None
      BY <2>3, OptFacts, NoneAssumption, Zenon
    <2>5. closed' = [closed EXCEPT ![u] = c]
      BY <1>14 DEF ReservationReleaseIntent
    <2> HIDE DEF c
    <2>6. ClosedTyped' /\ ClosedElsewhere(u) /\ closed'[u] # None
      BY <2>4, <2>5 DEF TypeOK, ClosedTyped, ClosedElsewhere
    <2>7. QED
      BY <1>14, <2>1, <2>2, <2>6, IntentShape, SameOwners
         DEF ReservationReleaseIntent, IntentStateForEffect, UnitKinds, HarnessKinds
  <1>15. CASE RepairIntent(u)
    <2>1. PICK packet \in WorkerPackets(units[u]) :
              ModifyingIntent(u, "repair_intent", "repair",
                              [units[u] EXCEPT !.wpacket = packet])
      BY <1>15 DEF RepairIntent
    <2> DEFINE r == [units[u] EXCEPT !.wpacket = packet]
    <2>2. packet \in Opt(Bases \X (0..MaxScope))
      BY <1>0, WorkerPacketType
    <2>3. r \in Unit /\ Takes(u, r) /\ r.repairs = units[u].repairs
      BY <1>0, <2>2 DEF Takes, Unit
    <2>4. Bound(r, "repair_intent")
      BY <1>15, <2>3 DEF RepairIntent, Bound, CandidateStates, VerifiedStates,
         ApprovedStates
    <2>5. OwnersTyped'
      BY <2>1 DEF ModifyingIntent, TypeOK, OwnersTyped
    <2>6. ClosedTyped' /\ ClosedElsewhere(u)
      BY <1>15, OptFacts DEF RepairIntent, TypeOK, ClosedTyped, ClosedElsewhere
    <2>7. QED
      BY <1>15, <2>1, <2>3, <2>4, <2>5, <2>6, IntentShape
         DEF RepairIntent, ModifyingIntent, IntentStateForEffect, UnitKinds
  <1>16. ASSUME NEW k \in TerminalKinds, TerminalIntent(u, k)
         PROVE  IntentStep(u)
    <2>1. /\ k \in UnitKinds \ HarnessKinds /\ k # "reservation_release"
          /\ IntentStateForEffect[k] \in {"failure_intent", "timeout_intent",
                                          "park_intent", "cancel_intent"}
      BY DEF TerminalKinds, UnitKinds, HarnessKinds, IntentStateForEffect
    <2>2. Bound(units[u], IntentStateForEffect[k])
      BY <2>1, UnboundStates
    <2>3. OwnersTyped'
      BY <1>16 DEF TerminalIntent, TypeOK, OwnersTyped
    <2>4. QED
      BY <1>0, <1>16, <2>1, <2>2, <2>3, PlainIntent DEF TerminalIntent
  <1>17. QED
    BY <1>1, <1>2, <1>3, <1>4, <1>5, <1>6, <1>7, <1>8, <1>9, <1>10, <1>11,
       <1>12, <1>13, <1>14, <1>15, <1>16
       DEF UnitIntent, FailureIntent, TimeoutIntent, ParkIntent, CancelIntent,
           TerminalKinds

-----------------------------------------------------------------------------
(* Every unit observation has the observation shape *)

(* An observation admitted by Observable that keeps the wave. *)
LEMMA PlainObservation ==
    ASSUME TypeOK, BindingInv, NEW u \in Units, NEW k \in UnitKinds, NEW event,
           NEW next \in RestStates, NEW r \in Unit,
           Takes(u, r), Observable(u, k, event), Observe(u, next, k, r),
           Bound(r, next), next # "closed", wave' = wave,
           OwnersTyped', ClosedTyped', ClosedElsewhere(u)
    PROVE  ObserveStep(u)
  BY ObservableFacts, ObserveShape

(* A unit whose repair context is rewritten. *)
LEMMA RepairSet ==
    ASSUME NEW r \in Unit, NEW b \in Bases, NEW h \in Opt(Heads)
    PROVE  /\ [r EXCEPT !.repair = <<b, h>>] \in Unit
           /\ [r EXCEPT !.repair = <<b, h>>].res = r.res
  <1> DEFINE context == <<b, h>>
  <1>1. context \in Opt(Bases \X Opt(Heads))
    BY OptFacts
  <1> HIDE DEF context
  <1>2. /\ [r EXCEPT !.repair = context] \in Unit
        /\ [r EXCEPT !.repair = context].res = r.res
    BY <1>1 DEF Unit
  <1>3. QED
    BY <1>2 DEF context

(* A session that finds a slot free leaves the count within its bound.       *)
LEMMA SlotTaken ==
    ASSUME NEW used \in 0..SessionsPerRole, SessionSlotFree(used)
    PROVE  used + 1 \in 0..SessionsPerRole
  BY ConstantsAssumption DEF SessionSlotFree, SessionsPerRole

(* The acts that establish a unit's place: reservation, branch, worktree and  *)
(* worker launch.                                                            *)
LEMMA LaunchObservationShape ==
    ASSUME CoreInv, NEW u \in Units,
           \/ ReservationObserved(u) \/ BranchObserved(u) \/ WorktreeObserved(u)
           \/ DispatchObserved(u) \/ RepairObserved(u)
    PROVE  ObserveStep(u)
  <1> USE DEF CoreInv
  <1>0. units[u] \in Unit /\ Takes(u, units[u])
    BY DEF TypeOK, Takes
  <1>1. CASE ReservationObserved(u)
    <2> DEFINE r == [units[u] EXCEPT !.resState = "reserved"]
    <2>1. r \in Unit /\ Takes(u, r)
      BY <1>0 DEF Takes, Unit
    <2>2. Bound(r, "resources_reserved")
      BY UnboundStates, Zenon
    <2>3. QED
      BY <1>1, <2>1, <2>2, PlainObservation, RestStateFacts, SameOwners, SameClosed
         DEF ReservationObserved, UnitKinds
  <1>2. CASE BranchObserved(u)
    <2> DEFINE r == units[u]
    <2>1. r \in Unit /\ Takes(u, r)
      BY <1>0 DEF Takes
    <2>2. Bound(r, "branch_observed")
      BY UnboundStates, Zenon
    <2>3. QED
      BY <1>2, <2>1, <2>2, PlainObservation, RestStateFacts, SameOwners, SameClosed
         DEF BranchObserved, UnitKinds
  <1>3. CASE WorktreeObserved(u)
    <2> DEFINE r == units[u]
    <2>1. r \in Unit /\ Takes(u, r)
      BY <1>0 DEF Takes
    <2>2. Bound(r, "worktree_observed")
      BY UnboundStates, Zenon
    <2>3. QED
      BY <1>3, <2>1, <2>2, PlainObservation, RestStateFacts, SameOwners, SameClosed
         DEF WorktreeObserved, UnitKinds
  <1>4. CASE DispatchObserved(u)
    <2> DEFINE r == [units[u] EXCEPT !.wsess = TRUE, !.workers = @ + 1]
    <2>0. units[u].workers + 1 \in 0..SessionsPerRole
      BY <1>0, <1>4, SlotTaken DEF DispatchObserved, Unit
    <2>1. r \in Unit /\ Takes(u, r)
      BY <1>0, <2>0 DEF Takes, Unit
    <2>2. Bound(r, "dispatched")
      BY UnboundStates, Zenon
    <2>3. QED
      BY <1>4, <2>1, <2>2, PlainObservation, RestStateFacts, SameOwners, SameClosed
         DEF DispatchObserved, UnitKinds
  <1>5. CASE RepairObserved(u)
    <2> DEFINE r == [units[u] EXCEPT !.wsess = TRUE, !.repairs = @ + 1,
                                     !.workers = @ + 1]
    <2>0. units[u].workers + 1 \in 0..SessionsPerRole
      BY <1>0, <1>5, SlotTaken DEF RepairObserved, Unit
    <2>1. Bound(units[u], "repair_intent")
      BY <1>5, ObservableFacts DEF RepairObserved, UnitKinds, IntentStateForEffect
    <2>2. units[u].repairs + 1 \in 0..MaxRepairs
      BY <1>0, <2>1, ConstantsAssumption DEF Bound, Unit
    <2>3. r \in Unit /\ Takes(u, r)
      BY <1>0, <2>0, <2>2 DEF Takes, Unit
    <2>4. Bound(r, "dispatched")
      BY UnboundStates, Zenon
    <2>5. QED
      BY <1>5, <2>3, <2>4, PlainObservation, RestStateFacts, SameOwners, SameClosed
         DEF RepairObserved, UnitKinds
  <1>6. QED
    BY <1>1, <1>2, <1>3, <1>4, <1>5

(* Worker collection, candidate collection and base refresh. *)
LEMMA CandidateObservationShape ==
    ASSUME CoreInv, NEW u \in Units,
           \/ WorkerCollected(u) \/ CandidateObserved(u) \/ CandidateRefused(u)
           \/ RefreshObserved(u) \/ RefreshFailed(u)
    PROVE  ObserveStep(u)
  <1> USE DEF CoreInv
  <1>0. units[u] \in Unit /\ units[u].base \in Bases /\ Takes(u, units[u])
    BY DEF TypeOK, Takes, Unit
  <1> DEFINE d == WithoutReviewBindings(units[u])
  <1>d. d \in Unit /\ d.res = units[u].res
    BY <1>0, DroppedReview
  <1>n. None \in Opt(Pair) /\ None \in Opt(Heads) /\ None \in Opt(Bases)
    BY OptFacts
  <1>1. CASE WorkerCollected(u)
    <2> DEFINE r == [units[u] EXCEPT !.repair = <<units[u].base, None>>]
    <2>1. r \in Unit /\ Takes(u, r)
      BY <1>0, <1>n, RepairSet DEF Takes
    <2> HIDE DEF r
    <2>2. Bound(units[u], "collected") /\ Bound(r, "repair_required") /\ Bound(r, "failed")
      BY UnboundStates, Zenon
    <2>3. /\ Observable(u, "worker_collect", "worker_collected")
          /\ "worker_collect" \in UnitKinds /\ wave' = wave
      BY <1>1 DEF WorkerCollected, UnitKinds
    <2>4. CASE /\ Observe(u, "collected", "worker_collect", units[u])
               /\ active' = active \ {u}
               /\ UNCHANGED <<qualificationQueue, integrationQueue, closed,
                      qualificationOwner, integrationOwner, currentReviewer>>
      <3>1. OwnersTyped'
        BY <2>4 DEF TypeOK, OwnersTyped
      <3>2. QED
        BY <1>0, <2>2, <2>3, <2>4, <3>1, PlainObservation, RestStateFacts, SameClosed
    <2>5. CASE /\ Observe(u, "repair_required", "worker_collect", r)
               /\ ClearUnitOwners(u) /\ UNCHANGED closed
      BY <2>1, <2>2, <2>3, <2>5, PlainObservation, RestStateFacts, ClearedOwners, SameClosed
    <2>6. CASE /\ Observe(u, "failed", "worker_collect", r)
               /\ ClearUnitOwners(u) /\ PersistTerminalClosureEvidence(u, "failed")
      BY <2>1, <2>2, <2>3, <2>6, PlainObservation, RestStateFacts, ClearedOwners,
         PersistedClosed DEF TerminalStates
    <2>7. QED
      BY <1>1, <2>4, <2>5, <2>6 DEF WorkerCollected, r
  <1>2. CASE CandidateObserved(u)
    <2>1. PICK head \in Heads :
              Observe(u, "candidate_committed", "candidate_collect",
                      [d EXCEPT !.recheck = FALSE, !.cand = head, !.diff = head])
      BY <1>2 DEF CandidateObserved
    <2> DEFINE r == [d EXCEPT !.recheck = FALSE, !.cand = head, !.diff = head]
    <2>2. head \in Opt(Heads)
      BY OptFacts
    <2> HIDE DEF d
    <2>3. r \in Unit /\ Takes(u, r) /\ r.cand = head /\ r.diff = head
      BY ZenonT(60), <1>d, <2>2 DEF Takes, Unit
    <2>4. Bound(r, "candidate_committed")
      BY <2>3 DEF Bound, CandidateStates, VerifiedStates, ApprovedStates
    <2>5. OwnersTyped'
      BY <1>2 DEF CandidateObserved, TypeOK, OwnersTyped
    <2>6. QED
      BY <1>2, <2>1, <2>3, <2>4, <2>5, PlainObservation, RestStateFacts, SameClosed
         DEF CandidateObserved, UnitKinds
  <1>3. CASE CandidateRefused(u)
    <2>1. PICK head \in Heads :
              Observe(u, "repair_required", "candidate_collect",
                      [d EXCEPT !.recheck = FALSE, !.diff = None, !.cand = head,
                                !.repair = <<units[u].base, head>>])
      BY <1>3 DEF CandidateRefused
    <2> DEFINE context == <<units[u].base, head>>
               r == [d EXCEPT !.recheck = FALSE, !.diff = None, !.cand = head,
                              !.repair = context]
    <2>2. head \in Opt(Heads) /\ context \in Opt(Bases \X Opt(Heads))
      BY <1>0, OptFacts
    <2>3. Observe(u, "repair_required", "candidate_collect", r)
      BY <2>1
    <2> HIDE DEF d, context
    <2>4. r \in Unit /\ Takes(u, r)
      BY ZenonT(60), <1>d, <1>n, <2>2 DEF Takes, Unit
    <2>5. Bound(r, "repair_required")
      BY UnboundStates, Zenon
    <2>6. QED
      BY <1>3, <2>3, <2>4, <2>5, PlainObservation, RestStateFacts, ClearedOwners, SameClosed
         DEF CandidateRefused, UnitKinds
  <1>4. CASE RefreshObserved(u)
    <2>1. units[u].refresh \in Bases
      BY <1>0, <1>4, OptFacts DEF RefreshObserved, Unit
    <2>2. CASE Observe(u, "worktree_observed", "candidate_refresh",
                       [units[u] EXCEPT !.refresh = None, !.base = units[u].refresh])
      <3> DEFINE r == [units[u] EXCEPT !.refresh = None, !.base = units[u].refresh]
      <3>1. r \in Unit /\ Takes(u, r)
        BY <1>0, <1>n, <2>1 DEF Takes, Unit
      <3>2. Bound(r, "worktree_observed")
        BY UnboundStates, Zenon
      <3>3. QED
        BY <1>4, <2>2, <3>1, <3>2, PlainObservation, RestStateFacts, SameOwners, SameClosed
           DEF RefreshObserved, UnitKinds
    <2>3. CASE Observe(u, "collected", "candidate_refresh", Rebased(units[u]))
      <3>1. Rebased(units[u]) \in Unit /\ Takes(u, Rebased(units[u]))
        <4> DEFINE launch == IF units[u].wpacket = None THEN units[u].base
                             ELSE units[u].wpacket[1]
        <4>1. units[u].wpacket = None \/ units[u].wpacket \in Bases \X (0..MaxScope)
          BY <1>0, OptFacts DEF Unit
        <4>2. launch \in Bases
          BY <1>0, <4>1
        <4>3. launch \in Opt(Bases)
          BY <4>2, OptFacts
        <4> HIDE DEF launch, d
        <4> DEFINE r == [d EXCEPT !.diff = None, !.cand = None, !.refresh = None,
                                  !.ver = None, !.base = units[u].refresh,
                                  !.launchBase = launch]
        <4>4. r \in Unit /\ Takes(u, r)
          BY <1>d, <1>n, <2>1, <4>3 DEF Unit, Takes
        <4>5. QED
          BY <4>4 DEF Rebased, launch, d
      <3>2. Bound(Rebased(units[u]), "collected")
        BY UnboundStates, Zenon
      <3>3. QED
        BY <1>4, <2>3, <3>1, <3>2, PlainObservation, RestStateFacts, SameOwners, SameClosed
           DEF RefreshObserved, UnitKinds
    <2>4. QED
      BY <1>4, <2>2, <2>3 DEF RefreshObserved
  <1>5. CASE RefreshFailed(u)
    <2>1. PICK head \in Heads :
              Observe(u, "repair_required", "candidate_refresh",
                      [d EXCEPT !.cand = head, !.repair = <<units[u].base, head>>])
      BY <1>5 DEF RefreshFailed
    <2> DEFINE context == <<units[u].base, head>>
               r == [d EXCEPT !.cand = head, !.repair = context]
    <2>2. head \in Opt(Heads) /\ context \in Opt(Bases \X Opt(Heads))
      BY <1>0, OptFacts
    <2>3. Observe(u, "repair_required", "candidate_refresh", r)
      BY <2>1
    <2> HIDE DEF d, context
    <2>4. r \in Unit /\ Takes(u, r)
      BY <1>d, <2>2 DEF Takes, Unit
    <2>5. Bound(r, "repair_required")
      BY UnboundStates, Zenon
    <2>6. QED
      BY <1>5, <2>3, <2>4, <2>5, PlainObservation, RestStateFacts, ClearedOwners, SameClosed
         DEF RefreshFailed, UnitKinds
  <1>6. QED
    BY <1>1, <1>2, <1>3, <1>4, <1>5

(* Verification and review: the pair verified is the pair reviewed. *)
LEMMA QualificationObservationShape ==
    ASSUME CoreInv, NEW u \in Units,
           \/ VerificationObserved(u) \/ VerificationFailed(u)
           \/ ReviewerObserved(u) \/ ReviewCollected(u)
    PROVE  ObserveStep(u)
  <1> USE DEF CoreInv
  <1>0. units[u] \in Unit /\ units[u].base \in Bases /\ units[u].cand \in Opt(Heads) /\ Takes(u, units[u])
    BY DEF TypeOK, Takes, Unit
  <1>1. CASE VerificationObserved(u)
    <2> DEFINE pair == <<units[u].base, units[u].cand>>
               r == [units[u] EXCEPT !.ver = pair]
    <2>1. Bound(units[u], "verification_intent")
      BY <1>1, ObservableFacts DEF VerificationObserved, UnitKinds, IntentStateForEffect
    <2>2. units[u].cand \in Heads /\ units[u].diff = units[u].cand
      BY <2>1 DEF Bound, CandidateStates
    <2>3. pair \in Pair /\ pair \in Opt(Pair)
      BY <1>0, <2>2, OptFacts DEF Pair
    <2>4. Observe(u, "qualified", "verify", r)
      BY <1>1 DEF VerificationObserved
    <2> HIDE DEF pair
    <2>5. /\ r \in Unit /\ Takes(u, r) /\ r.ver = pair /\ r.base = units[u].base
          /\ r.cand = units[u].cand /\ r.diff = units[u].diff
      BY <1>0, <2>3 DEF Takes, Unit
    <2>6. Bound(r, "qualified")
      BY <2>2, <2>5 DEF pair, Bound, CandidateStates, VerifiedStates, ApprovedStates
    <2>7. QED
      BY <1>1, <2>4, <2>5, <2>6, PlainObservation, RestStateFacts, SameOwners, SameClosed
         DEF VerificationObserved, UnitKinds
  <1>2. CASE VerificationFailed(u)
    <2> DEFINE r == [units[u] EXCEPT !.repair = <<units[u].base, units[u].cand>>]
    <2>1. r \in Unit /\ Takes(u, r)
      BY <1>0, RepairSet DEF Takes
    <2>2. Bound(r, "repair_required")
      BY UnboundStates, Zenon
    <2>3. QED
      BY <1>2, <2>1, <2>2, PlainObservation, RestStateFacts, ClearedOwners, SameClosed
         DEF VerificationFailed, UnitKinds
  <1>3. CASE ReviewerObserved(u)
    <2> DEFINE r == [units[u] EXCEPT !.rsess = TRUE, !.reviewers = @ + 1]
    <2>0. units[u].reviewers + 1 \in 0..SessionsPerRole
      BY <1>0, <1>3, SlotTaken DEF ReviewerObserved, Unit
    <2>1. Bound(units[u], "reviewer_dispatch_intent")
      BY <1>3, ObservableFacts DEF ReviewerObserved, UnitKinds, IntentStateForEffect
    <2>2. /\ r \in Unit /\ Takes(u, r) /\ r.ver = units[u].ver /\ r.base = units[u].base
          /\ r.cand = units[u].cand /\ r.diff = units[u].diff
      BY <1>0, <2>0 DEF Takes, Unit
    <2>3. Bound(r, "reviewer_dispatched")
      BY <2>1, <2>2 DEF Bound, CandidateStates, VerifiedStates, ApprovedStates
    <2>4. QED
      BY <1>3, <2>2, <2>3, PlainObservation, RestStateFacts, SameOwners, SameClosed
         DEF ReviewerObserved, UnitKinds
  <1>4. CASE ReviewCollected(u)
    <2> DEFINE judged == JudgedPair(units[u])
               r == [units[u] EXCEPT !.review = judged]
               d == WithoutReviewBindings(units[u])
               q == [d EXCEPT !.repair = judged]
    <2>1. /\ Observable(u, "review_collect", "review_collected")
          /\ "review_collect" \in UnitKinds /\ wave' = wave /\ UNCHANGED closed
          /\ judged \in Pair
      BY <1>4 DEF ReviewCollected, UnitKinds
    <2>2. Bound(units[u], "review_collect_intent")
      BY <2>1, ObservableFacts DEF UnitKinds, IntentStateForEffect
    <2>3. /\ units[u].cand \in Heads /\ units[u].diff = units[u].cand
          /\ units[u].ver = <<units[u].base, units[u].cand>>
      BY <2>2 DEF Bound, CandidateStates, VerifiedStates
    <2>4. judged = <<units[u].base, units[u].cand>>
      <3>1. units[u].ver \in Pair
        BY <1>0, <2>3 DEF Pair
      <3>2. units[u].ver # None
        BY <3>1, NoneAssumption
      <3>3. QED
        BY <2>3, <3>2 DEF JudgedPair
    <2>5. judged \in Opt(Pair) /\ judged \in Opt(Bases \X Opt(Heads))
      BY <1>0, <2>1, <2>3, <2>4, OptFacts
    <2>6. d \in Unit /\ d.res = units[u].res
      BY <1>0, DroppedReview
    <2>7. \/ /\ Observe(u, "approved", "review_collect", r)
             /\ currentReviewer' = None
             /\ integrationQueue' = integrationQueue \cup {u}
             /\ UNCHANGED <<active, qualificationQueue, qualificationOwner,
                            integrationOwner>>
          \/ /\ Observe(u, "repair_required", "review_collect", q)
             /\ ClearUnitOwners(u)
      BY <1>4 DEF ReviewCollected
    <2> HIDE DEF judged, d
    <2>8. /\ r \in Unit /\ Takes(u, r) /\ r.ver = units[u].ver /\ r.base = units[u].base
          /\ r.cand = units[u].cand /\ r.diff = units[u].diff /\ r.review = judged
      BY <1>0, <2>5 DEF Takes, Unit
    <2>9. Bound(r, "approved")
      BY <2>3, <2>4, <2>8 DEF Bound, CandidateStates, VerifiedStates, ApprovedStates
    <2>10. q \in Unit /\ Takes(u, q)
      BY <2>5, <2>6 DEF Takes, Unit
    <2>11. Bound(q, "repair_required")
      BY UnboundStates, Zenon
    <2> HIDE DEF r, q
    <2>12. CASE /\ Observe(u, "approved", "review_collect", r)
                /\ currentReviewer' = None
                /\ integrationQueue' = integrationQueue \cup {u}
                /\ UNCHANGED <<active, qualificationQueue, qualificationOwner,
                               integrationOwner>>
      <3>1. OwnersTyped'
        BY <2>12, OptFacts DEF TypeOK, OwnersTyped
      <3>2. QED
        BY <2>1, <2>8, <2>9, <2>12, <3>1, PlainObservation, RestStateFacts, SameClosed
    <2>13. CASE /\ Observe(u, "repair_required", "review_collect", q)
                /\ ClearUnitOwners(u)
      BY <2>1, <2>10, <2>11, <2>13, PlainObservation, RestStateFacts, ClearedOwners, SameClosed
    <2>14. QED
      BY <2>7, <2>12, <2>13
  <1>5. QED
    BY <1>1, <1>2, <1>3, <1>4

(* Publication, integration and the terminal acts. *)
LEMMA OutcomeObservationShape ==
    ASSUME CoreInv, NEW u \in Units,
           \/ PublishObserved(u) \/ PublishRefused(u)
           \/ IntegrateRefused(u) \/ IntegrateObserved(u)
           \/ FailureObserved(u) \/ TimeoutObserved(u)
           \/ ParkObserved(u) \/ CancelObserved(u)
    PROVE  ObserveStep(u)
  <1> USE DEF CoreInv
  <1>0. units[u] \in Unit /\ Takes(u, units[u])
    BY DEF TypeOK, Takes
  <1>1. CASE PublishObserved(u)
    <2> DEFINE r == [units[u] EXCEPT !.published = units[u].cand]
    <2>1. /\ Observable(u, "publish", "publish_observed")
          /\ "publish" \in UnitKinds /\ wave' = wave
      BY <1>1 DEF PublishObserved, UnitKinds
    <2>2. Bound(units[u], "publish_intent")
      BY <2>1, ObservableFacts DEF IntentStateForEffect
    <2>3. units[u].cand \in Opt(Heads)
      BY <1>0 DEF Unit
    <2>4. /\ r \in Unit /\ Takes(u, r) /\ r.ver = units[u].ver /\ r.base = units[u].base
          /\ r.cand = units[u].cand /\ r.diff = units[u].diff
          /\ r.review = units[u].review
      BY <1>0, <2>3 DEF Takes, Unit
    <2>5. Bound(r, "handoff") /\ Bound(r, "published")
      BY <2>2, <2>4 DEF Bound, CandidateStates, VerifiedStates, ApprovedStates
    <2>6. \/ /\ Observe(u, "handoff", "publish", r) /\ ClearUnitOwners(u)
             /\ PersistTerminalClosureEvidence(u, "handoff")
          \/ /\ Observe(u, "published", "publish", r)
             /\ UNCHANGED <<owners, closed>>
      BY <1>1 DEF PublishObserved
    <2> HIDE DEF r
    <2>7. "handoff" \in RestStates /\ "published" \in RestStates
          /\ "handoff" \in TerminalStates
      BY RestStateFacts DEF TerminalStates
    <2>8. CASE /\ Observe(u, "handoff", "publish", r) /\ ClearUnitOwners(u)
               /\ PersistTerminalClosureEvidence(u, "handoff")
      BY <2>1, <2>4, <2>5, <2>7, <2>8, PlainObservation, ClearedOwners, PersistedClosed
    <2>9. CASE /\ Observe(u, "published", "publish", r)
               /\ UNCHANGED <<owners, closed>>
      BY <2>1, <2>4, <2>5, <2>7, <2>9, PlainObservation, SameOwners, SameClosed
    <2>10. QED
      BY <2>6, <2>8, <2>9
  <1>2. CASE PublishRefused(u)
    <2> DEFINE r == [units[u] EXCEPT !.pubRef = TRUE]
    <2>1. Outstanding(u, "publish") /\ At(u, "publish_intent")
      BY <1>2 DEF PublishRefused, Outstanding, At, UnitKinds, IntentStateForEffect
    <2>2. Bound(units[u], "publish_intent")
      BY <2>1 DEF BindingInv, UnitStates, IntentStates, UnitKinds, IntentStateForEffect
    <2>3. /\ r \in Unit /\ Takes(u, r) /\ r.ver = units[u].ver /\ r.base = units[u].base
          /\ r.cand = units[u].cand /\ r.diff = units[u].diff
          /\ r.review = units[u].review
      BY <1>0 DEF Takes, Unit
    <2>4. Bound(r, "approved")
      BY <2>2, <2>3 DEF Bound, CandidateStates, VerifiedStates, ApprovedStates
    <2>5. QED
      BY <1>2, <2>1, <2>3, <2>4, ObserveShape, RestStateFacts, SameOwners, SameClosed
         DEF PublishRefused, UnitKinds
  <1>3. CASE IntegrateRefused(u) \/ IntegrateObserved(u)
    <2>1. \E event : Observable(u, "integrate", event)
      BY <1>3 DEF IntegrateRefused, IntegrateObserved
    <2>2. Bound(units[u], "integrate_intent")
      BY <2>1, ObservableFacts DEF UnitKinds, IntentStateForEffect
    <2>3. Bound(units[u], "approved") /\ Bound(units[u], "landed")
      BY <2>2 DEF Bound, CandidateStates, VerifiedStates, ApprovedStates
    <2>4. OwnersTyped'
      BY <1>3, OptFacts
         DEF IntegrateRefused, IntegrateObserved, TypeOK, OwnersTyped
    <2>5. CASE IntegrateRefused(u)
      BY <1>0, <2>3, <2>4, <2>5, PlainObservation, RestStateFacts, SameClosed
         DEF IntegrateRefused, UnitKinds
    <2>6. CASE IntegrateObserved(u)
      BY <1>0, <2>3, <2>4, <2>6, PlainObservation, RestStateFacts, PersistedClosed
         DEF IntegrateObserved, UnitKinds, TerminalStates
    <2>7. QED
      BY <1>3, <2>5, <2>6
  <1>4. ASSUME NEW k \in TerminalKinds, NEW event,
               NEW outcome \in {"failed", "timed_out", "parked", "cancelled"},
               TerminalObserved(u, k, event, outcome)
        PROVE  ObserveStep(u)
    <2> DEFINE r == IF k \in {"failure", "timeout"}
                    THEN FailureRepairContext(units[u]) ELSE units[u]
    <2>1. /\ FailureRepairContext(units[u]) \in Unit
          /\ FailureRepairContext(units[u]).res = units[u].res
      <3>1. /\ units[u].base \in Bases /\ units[u].cand \in Opt(Heads)
            /\ units[u].ver = None \/ units[u].ver \in Pair
        BY <1>0, OptFacts DEF Unit
      <3>2. (IF units[u].ver = None THEN units[u].base ELSE units[u].ver[1]) \in Bases
        BY <3>1 DEF Pair
      <3>3. QED
        BY <1>0, <3>1, <3>2, RepairSet DEF FailureRepairContext
    <2>2. r \in Unit /\ Takes(u, r)
      BY <1>0, <2>1 DEF Takes
    <2>3. Bound(r, outcome)
      BY UnboundStates, Zenon
    <2>4. outcome \in RestStates /\ outcome # "closed" /\ outcome \in TerminalStates
      BY RestStateFacts DEF TerminalStates
    <2>5. Observable(u, k, event) /\ Observe(u, outcome, k, r) /\ wave' = wave
      BY <1>4 DEF TerminalObserved
    <2>6. OwnersTyped' /\ ClosedTyped' /\ ClosedElsewhere(u)
      BY <1>4, <2>4, ClearedOwners, PersistedClosed DEF TerminalObserved
    <2>7. k \in UnitKinds
      BY DEF TerminalKinds, UnitKinds
    <2> HIDE DEF r
    <2>8. QED
      BY <2>2, <2>3, <2>4, <2>5, <2>6, <2>7, PlainObservation
  <1>5. QED
    BY <1>1, <1>2, <1>3, <1>4
       DEF FailureObserved, TimeoutObserved, ParkObserved, CancelObserved, TerminalKinds

(* The release closes the unit and removes it from the wave. *)
LEMMA ReleaseObservationShape ==
    ASSUME CoreInv, NEW u \in Units, ReservationReleased(u)
    PROVE  ObserveStep(u)
  <1> USE DEF CoreInv
  <1> DEFINE r == FreshUnit(units[u].base)
             c == [UpdateClosureReleaseEvidence(u, "observed") EXCEPT !.final = TRUE]
  <1>1. r \in Unit /\ Takes(u, r)
    <2>1. units[u].base \in Bases
      BY DEF TypeOK, Unit
    <2>2. /\ None \in Opt(Bases) /\ None \in Opt(Heads) /\ None \in Opt(Pair)
          /\ None \in Opt(Bases \X (0..MaxScope))
          /\ None \in Opt(Bases \X Heads \X Heads \X (0..MaxScope))
          /\ None \in Opt(Bases \X Opt(Heads))
      BY OptFacts
    <2>3. 0 \in 0..MaxRepairs /\ 0 \in 0..MaxScope /\ 0 \in 0..SessionsPerRole
      BY ConstantsAssumption DEF SessionsPerRole
    <2>4. "planned" \in UnitStates
      BY DEF UnitStates
    <2>5. QED
      BY <2>1, <2>2, <2>3, <2>4 DEF FreshUnit, Unit, Takes
  <1>2. Bound(r, "closed")
    BY UnboundStates, Zenon
  <1>3. UpdateClosureReleaseEvidence(u, "observed") \in Closures
    BY UpdatedEvidence DEF ReservationReleased
  <1>4. c \in Closures
    BY <1>3 DEF Closures
  <1>5. c \in Opt(Closures)
    BY <1>4, OptFacts, Zenon
  <1>6. closed' = [closed EXCEPT ![u] = c]
    BY DEF ReservationReleased
  <1> HIDE DEF c
  <1>7. ClosedTyped' /\ ClosedElsewhere(u)
    BY <1>5, <1>6 DEF TypeOK, ClosedTyped, ClosedElsewhere
  <1>8. "closed" \in RestStates /\ "reservation_release" \in UnitKinds
    BY RestStateFacts DEF UnitKinds
  <1>9. controller = "acquired" /\ Outstanding(u, "reservation_release")
    BY <1>8, ObservableFacts DEF ReservationReleased
  <1>10. QED
    BY <1>1, <1>2, <1>7, <1>8, <1>9, ObserveShape, SameOwners DEF ReservationReleased

(* Every observation event of a unit has the shape of a unit observation.  *)
LEMMA UnitObservationShape ==
    ASSUME CoreInv, NEW u \in Units, UnitObservation(u)
    PROVE  ObserveStep(u)
  BY LaunchObservationShape, CandidateObservationShape,
     QualificationObservationShape, OutcomeObservationShape,
     ReleaseObservationShape, Zenon DEF UnitObservation

-----------------------------------------------------------------------------
(* Resources and the remaining events *)

(* Neither shape lets two units hold one resource. *)
LEMMA ShapesKeepResources ==
    ASSUME TypeOK, ResourceExclusive, NEW u \in Units,
           IntentStep(u) \/ ObserveStep(u)
    PROVE  ResourceExclusive'
  <1>1. PICK r \in Unit : units' = [units EXCEPT ![u] = r] /\ Takes(u, r)
    BY DEF IntentStep, IntentWith, ObserveStep, ObserveWith
  <1>2. \A v \in Units : units[v].res \subseteq Occupied
    BY DEF Occupied
  <1>3. \A v \in Units : units'[v].res = IF v = u THEN r.res ELSE units[v].res
    BY <1>1 DEF TypeOK
  <1>4. QED
    BY <1>1, <1>2, <1>3 DEF ResourceExclusive, Takes

(* The initial states satisfy the invariant. *)
LEMMA InitEstablishes ==
    ASSUME Init
    PROVE  IndInv
  <1>1. PICK b \in Bases : units = [u \in Units |-> FreshUnit(b)]
    BY DEF Init
  <1>2. FreshUnit(b) \in Unit /\ FreshUnit(b).state = "planned" /\ FreshUnit(b).res = {}
    <2>1. /\ None \in Opt(Bases) /\ None \in Opt(Heads) /\ None \in Opt(Pair)
          /\ None \in Opt(Bases \X (0..MaxScope))
          /\ None \in Opt(Bases \X Heads \X Heads \X (0..MaxScope))
          /\ None \in Opt(Bases \X Opt(Heads))
      BY OptFacts
    <2>2. 0 \in 0..MaxRepairs /\ 0 \in 0..MaxScope /\ 0 \in 0..SessionsPerRole
      BY ConstantsAssumption DEF SessionsPerRole
    <2>3. "planned" \in UnitStates
      BY DEF UnitStates
    <2>4. QED
      BY <2>1, <2>2, <2>3 DEF FreshUnit, Unit
  <1>3. TypeOK
    <2>1. None \in Opt(Units) /\ None \in Opt(Closures)
      BY OptFacts
    <2>2. QED
      BY <1>1, <1>2, <2>1 DEF Init, TypeOK
  <1>4. JournalInv
    <2>1. "planned" \notin IntentStates \cup {"blocked"}
      BY RestStateFacts DEF RestStates
    <2>2. QED
      BY <1>1, <1>2, <2>1 DEF Init, JournalInv
  <1>5. AggregateInv
    BY DEF Init, AggregateInv
  <1>6. BindingInv
    <2>1. \A u \in Units, s \in UnitStates : At(u, s) => s = "planned"
      BY <1>1, <1>2 DEF At
    <2>2. \A u \in Units : Bound(units[u], "planned")
      BY UnboundStates
    <2>3. QED
      BY <2>1, <2>2 DEF BindingInv
  <1>7. ResourceExclusive
    BY <1>1, <1>2 DEF ResourceExclusive
  <1>8. QED
    BY <1>3, <1>4, <1>5, <1>6, <1>7 DEF IndInv

(* A step that leaves the units, the evidence and the units' own entries      *)
(* alone keeps their bindings and resources.                                 *)
LEMMA UnitsUntouched ==
    ASSUME BindingInv, ResourceExclusive, UNCHANGED <<units, closed>>,
           \A e \in journal' : e.unit \in Units => e \in journal
    PROVE  BindingInv' /\ ResourceExclusive'
  <1>1. \A v \in Units, s \in UnitStates : At(v, s)' => At(v, s)
    BY EntryFacts DEF At
  <1>2. QED
    BY <1>1 DEF BindingInv, Bound, ResourceExclusive

(* While the controller holds no ownership, or all units closed, no unit act  *)
(* is outstanding.                                                           *)
LEMMA NoUnitActs ==
    ASSUME TypeOK, JournalInv, AggregateInv, controller # "acquired" \/ Live = {}
    PROVE  \A e \in journal : Unresolved(e) => e.unit = None
  BY DEF JournalInv, AggregateInv

(* controller_acquire_intent and controller_release_intent preserve the    *)
(* invariant.                                                              *)
LEMMA ControllerIntentKeeps ==
    ASSUME IndInv, ControllerAcquireIntent \/ ControllerReleaseIntent
    PROVE  IndInv'
  <1> USE DEF IndInv
  <1>1. PICK k \in ControllerKinds :
          /\ AppendIntent(None, k)
          /\ \/ /\ k = "controller_acquire" /\ controller' = "acquire_intent"
                /\ runState = "initializing" /\ runState' = "initializing"
                /\ controller = "unacquired"
             \/ /\ k = "controller_release" /\ controller' = "release_intent"
                /\ runState' = "release_intent" /\ controller = "acquired"
                /\ Live = {}
          /\ UNCHANGED <<harness, wave, units, owners, closed>>
    BY DEF ControllerAcquireIntent, ControllerReleaseIntent, ControllerIntent,
           CanReleaseController, ControllerKinds
  <1> DEFINE new == Entry(None, k, "intended")
  <1>2. \A e \in journal : ~ Unresolved(e)
    BY <1>1, NoUnitActs DEF JournalInv
  <1>3. /\ new \in journal' /\ Unresolved(new) /\ new.unit = None /\ new.kind = k
        /\ new.status = "intended" /\ new \in Entries
        /\ \A e \in journal' : e \in journal \/ e = new
    BY <1>1, AppendIntentFacts, EntryFacts, OptFacts DEF Unresolved
  <1> HIDE DEF new
  <1>4. TypeOK'
    BY <1>1, <1>3 DEF TypeOK, owners
  <1>5. JournalInv'
    <2>1. \A u \in Units : units[u].state \notin IntentStates \cup {"blocked"}
      BY <1>2 DEF JournalInv
    <2>2. k \notin HarnessKinds
      BY DEF ControllerKinds, HarnessKinds
    <2>3. QED
      BY <1>1, <1>2, <1>3, <2>1, <2>2 DEF JournalInv, Unresolved
  <1>6. AggregateInv'
    <2>1. \A e \in journal' : e.status # "ambiguous"
      BY <1>2, <1>3 DEF Unresolved
    <2>2. QED
      BY <1>1, <2>1 DEF AggregateInv, Live
  <1>7. BindingInv' /\ ResourceExclusive'
    BY <1>1, <1>3, NoneAssumption, UnitsUntouched
  <1>8. QED
    BY <1>4, <1>5, <1>6, <1>7

(* controller_acquired and controller_released preserve the invariant,     *)
(* from the ordinary and from the blocked aggregate.                       *)
LEMMA ControllerObservationKeeps ==
    ASSUME IndInv, ControllerObservation
    PROVE  IndInv'
  <1> USE DEF IndInv
  <1>1. PICK k \in ControllerKinds :
          /\ MarkObserved(None, k)
          /\ {Entry(None, k, "intended"), Entry(None, k, "ambiguous")}
                 \cap journal # {}
          /\ controller # "acquired"
          /\ \/ runState' = "active" /\ controller' = "acquired"
             \/ runState' = "released" /\ controller' = "released"
          /\ UNCHANGED <<harness, wave, units, owners, closed>>
    BY DEF ControllerObservation, ControllerAcquired, ControllerReleased,
           MatchesRecoverableEffect, ControllerKinds
  <1>2. \A e \in journal' : ~ Unresolved(e)
    <2>1. PICK st \in {"intended", "ambiguous"} : Entry(None, k, st) \in journal
      BY <1>1
    <2>2. \A e \in journal : Unresolved(e) => e = Entry(None, k, st)
      BY <1>1, <2>1, NoUnitActs, EntryFacts DEF JournalInv, Unresolved
    <2>3. QED
      BY <1>1, <2>1, <2>2, MarkObservedFacts, EntryFacts DEF Unresolved
  <1>3. \A e \in journal' : e \in journal \/ e = Entry(None, k, "observed")
    BY <1>1, MarkObservedFacts
  <1>4. TypeOK'
    <2>1. journal' \subseteq Entries
      BY <1>3, EntryFacts, OptFacts DEF TypeOK
    <2>2. QED
      BY <1>1, <2>1 DEF TypeOK, owners
  <1>5. JournalInv'
    <2>1. \A u \in Units : units[u].state \notin IntentStates \cup {"blocked"}
      BY <1>1, NoUnitActs, NoneAssumption DEF JournalInv
    <2>2. QED
      BY <1>1, <1>2, <2>1 DEF JournalInv, Unresolved
  <1>6. AggregateInv'
    <2>1. \A e \in journal' : e.status # "ambiguous"
      BY <1>2 DEF Unresolved
    <2>2. QED
      BY <1>1, <2>1 DEF AggregateInv, Live
  <1>7. BindingInv' /\ ResourceExclusive'
    BY <1>1, <1>3, EntryFacts, NoneAssumption, UnitsUntouched
  <1>8. QED
    BY <1>4, <1>5, <1>6, <1>7

(* harness_configured and wave_planned preserve the invariant.             *)
LEMMA PlanningKeeps ==
    ASSUME IndInv, HarnessConfigured \/ WavePlanned
    PROVE  IndInv'
  <1> USE DEF IndInv
  <1>1. UNCHANGED <<runState, controller, units, owners, journal, closed>>
    BY DEF HarnessConfigured, WavePlanned
  <1>2. wave' \subseteq Live /\ (harness' = harness \/ harness' = TRUE)
    BY DEF HarnessConfigured, WavePlanned, AggregateInv
  <1>3. wave' = wave \/ \A e \in journal : e.status = "observed"
    BY DEF HarnessConfigured, WavePlanned
  <1>4. TypeOK'
    BY <1>1, <1>2 DEF TypeOK, owners, Live
  <1>5. JournalInv'
    BY <1>1, <1>2, <1>3 DEF JournalInv, Unresolved
  <1>6. AggregateInv'
    BY <1>1, <1>2 DEF AggregateInv, Live
  <1>7. BindingInv' /\ ResourceExclusive'
    BY <1>1, UnitsUntouched
  <1>8. QED
    BY <1>4, <1>5, <1>6, <1>7

(* repair_scope_extended discards packet, verification and review and      *)
(* preserves the invariant.                                                *)
LEMMA RepairScopeExtendedKeeps ==
    ASSUME IndInv, NEW u \in Units, RepairScopeExtended(u)
    PROVE  IndInv'
  <1> USE DEF IndInv
  <1> DEFINE d == WithoutReviewBindings(units[u])
             r == [d EXCEPT !.wpacket = None, !.ver = None, !.scope = @ + 1]
  <1>1. /\ units' = [units EXCEPT ![u] = r]
        /\ UNCHANGED <<runState, controller, harness, wave, owners, journal, closed>>
        /\ units[u].state = "repair_required" /\ units[u].scope < MaxScope
        /\ units[u] \in Unit
    BY DEF RepairScopeExtended, RepairScopeExtensionEligible, TypeOK
  <1>2. /\ d \in Unit /\ d.res = units[u].res /\ d.state = units[u].state
        /\ d.scope = units[u].scope
    BY ZenonT(60), <1>1, DroppedReview DEF WithoutReviewBindings, Unit
  <1>3. None \in Opt(Pair) /\ None \in Opt(Bases \X (0..MaxScope))
    BY OptFacts
  <1> HIDE DEF d
  <1>4. d.scope + 1 \in 0..MaxScope
    BY <1>1, <1>2, ConstantsAssumption DEF Unit
  <1>5. r \in Unit /\ r.res = units[u].res /\ r.state = units[u].state
    BY <1>2, <1>3, <1>4 DEF Unit
  <1> HIDE DEF r
  <1>6. /\ units' \in [Units -> Unit]
        /\ \A v \in Units : /\ units'[v].state = units[v].state
                            /\ units'[v].res = units[v].res
                            /\ v # u => units'[v] = units[v]
    BY <1>1, <1>5 DEF TypeOK
  <1>7. TypeOK'
    BY <1>1, <1>6 DEF TypeOK, owners
  <1>8. JournalInv'
    <2>1. \A e \in journal : Unresolved(e) /\ e.unit # None => e.unit \in Units
      BY OptFacts, EntryFacts DEF TypeOK
    <2>2. QED
      BY <1>1, <1>6, <2>1 DEF JournalInv, Unresolved
  <1>9. AggregateInv'
    BY <1>1, <1>6 DEF AggregateInv, Live
  <1>10. BindingInv'
    <2>1. \A v \in Units, s \in UnitStates : At(v, s)' <=> At(v, s)
      BY <1>1, <1>6 DEF At
    <2>2. \A s \in UnitStates : At(u, s) => s = "repair_required"
      BY <1>1 DEF At
    <2>3. Bound(units'[u], "repair_required")
      BY UnboundStates
    <2>4. QED
      BY <1>1, <1>6, <2>1, <2>2, <2>3 DEF BindingInv, Bound
  <1>11. ResourceExclusive'
    BY <1>6 DEF ResourceExclusive
  <1>12. QED
    BY <1>7, <1>8, <1>9, <1>10, <1>11

(* Recording an ambiguity moves one entry and, at most, one unit to blocked;  *)
(* the unit stays at the same lifecycle position.                            *)
LEMMA EffectAmbiguousKeeps ==
    ASSUME IndInv, NEW e \in journal, EffectAmbiguous(e)
    PROVE  IndInv'
  <1> USE DEF IndInv
  <1> DEFINE lost == [e EXCEPT !.status = "ambiguous"]
  <1>1. /\ e \in Entries /\ e.status = "intended" /\ Unresolved(e)
        /\ runState' = "blocked" /\ runState # "released"
        /\ journal' = (journal \ {e}) \cup {lost}
        /\ UNCHANGED <<controller, harness, wave, owners>>
    BY DEF EffectAmbiguous, TypeOK, Unresolved
  <1>2. /\ lost \in Entries /\ Unresolved(lost) /\ lost.unit = e.unit
        /\ lost.kind = e.kind /\ lost.status = "ambiguous"
        /\ lost = Entry(e.unit, e.kind, "ambiguous")
    BY <1>1 DEF Entries, Entry, Unresolved
  <1> HIDE DEF lost
  <1>3. \A f \in journal' : f = lost \/ (f \in journal /\ f # e)
    BY <1>1
  <1>4. \A f \in journal : Unresolved(f) /\ f.unit = e.unit => f = e
    BY <1>1 DEF JournalInv
  <1>5. \A f, g \in journal' : Unresolved(f) /\ Unresolved(g) /\ f.unit = g.unit => f = g
    BY <1>2, <1>3, <1>4 DEF JournalInv
  <1>6. /\ ~ harness => \A f \in journal' : Unresolved(f) => f.kind \notin HarnessKinds
        /\ controller \in {"acquire_intent", "release_intent"} =>
               \E f \in journal' : Unresolved(f) /\ f.unit = None
        /\ \A f \in journal' : Unresolved(f) /\ f.unit = None =>
               \/ f.kind = "controller_acquire" /\ controller = "acquire_intent"
               \/ f.kind = "controller_release" /\ controller = "release_intent"
        /\ \A v \in Units : (\E f \in journal : Unresolved(f) /\ f.unit = v) =>
               \E f \in journal' : Unresolved(f) /\ f.unit = v
    BY <1>1, <1>2, <1>3 DEF JournalInv
  <1>7. journal' \subseteq Entries
    BY <1>1, <1>2 DEF TypeOK
  <1>8. \A f \in journal : Unresolved(f) /\ f.unit # None => f.unit \in Units
    BY OptFacts, EntryFacts DEF TypeOK
  <1>9. \E f \in journal' : f.status = "ambiguous"
    BY <1>1, <1>2
  <1>10. CASE e.unit = None
    <2>1. UNCHANGED <<units, closed>>
      BY <1>10 DEF EffectAmbiguous
    <2>2. TypeOK'
      BY <1>1, <1>7, <2>1 DEF TypeOK, owners
    <2>3. JournalInv'
      <3>1. \A f \in journal' : Unresolved(f) /\ f.unit # None => f \in journal
        BY <1>2, <1>3, <1>10
      <3>2. QED
        BY <1>1, <1>5, <1>6, <2>1, <3>1 DEF JournalInv, Unresolved
    <2>4. AggregateInv'
      BY <1>1, <1>9, <1>10, <2>1 DEF AggregateInv, JournalInv, Live
    <2>5. BindingInv' /\ ResourceExclusive'
      BY <1>2, <1>3, <1>10, <2>1, NoneAssumption, UnitsUntouched
    <2>6. QED
      BY <2>2, <2>3, <2>4, <2>5
  <1>11. CASE e.unit # None
    <2> DEFINE u == e.unit
               r == BlockUnit(units[u])
    <2>1. /\ u \in Units /\ u \in wave /\ e.kind \in UnitKinds
          /\ controller = "acquired"
          /\ units[u].state = IntentStateForEffect[e.kind]
      BY <1>1, <1>8, <1>11 DEF JournalInv
    <2> HIDE DEF u
    <2>2. /\ units' = [units EXCEPT ![u] = r]
          /\ closed' = IF e.kind # "reservation_release" THEN closed
                       ELSE [closed EXCEPT ![u] =
                               UpdateClosureReleaseEvidence(u, "ambiguous")]
      BY <1>11 DEF EffectAmbiguous, u
    <2>3. /\ r \in Unit /\ r.state = "blocked" /\ r.res = units[u].res
          /\ \A s : Bound(r, s) <=> Bound(units[u], s)
      <3>1. units[u] \in Unit /\ "blocked" \in UnitStates
        BY <2>1 DEF TypeOK, UnitStates
      <3>2. /\ r \in Unit /\ r.state = "blocked" /\ r.res = units[u].res
            /\ r.repairs = units[u].repairs /\ r.cand = units[u].cand
            /\ r.diff = units[u].diff /\ r.ver = units[u].ver
            /\ r.review = units[u].review /\ r.base = units[u].base
        BY <3>1 DEF BlockUnit, Unit
      <3>3. QED
        BY <3>2 DEF Bound
    <2> HIDE DEF r
    <2>4. units' \in [Units -> Unit]
          /\ \A v \in Units : units'[v] = IF v = u THEN r ELSE units[v]
      BY <2>1, <2>2, <2>3 DEF TypeOK
    <2>5. ClosedTyped' /\ \A v \in Units : closed[v] # None => closed'[v] # None
      <3>1. CASE e.kind # "reservation_release"
        BY <2>2, <3>1 DEF TypeOK, ClosedTyped
      <3>2. CASE e.kind = "reservation_release"
        <4> DEFINE c == UpdateClosureReleaseEvidence(u, "ambiguous")
        <4>1. At(u, "reservation_release_intent")
          BY <2>1, <3>2 DEF At, IntentStateForEffect
        <4>2. "reservation_release_intent" \in UnitStates \ {"blocked"}
          BY IntentStateFacts DEF UnitKinds, IntentStateForEffect
        <4>3. closed[u] # None
          BY <2>1, <4>1, <4>2 DEF BindingInv
        <4>4. c \in Closures
          BY <2>1, <4>3, UpdatedEvidence
        <4>5. c \in Opt(Closures) /\ c # None
          BY <4>4, OptFacts, NoneAssumption, Zenon
        <4>6. closed' = [closed EXCEPT ![u] = c]
          BY <2>2, <3>2
        <4> HIDE DEF c
        <4>7. QED
          BY <2>1, <4>5, <4>6 DEF TypeOK, ClosedTyped
      <3>3. QED
        BY <3>1, <3>2
    <2>6. TypeOK'
      BY <1>1, <1>7, <2>4, <2>5 DEF TypeOK, ClosedTyped, owners
    <2>7. JournalInv'
      <3>1. \A f \in journal' : Unresolved(f) /\ f.unit # None =>
               /\ controller' = "acquired"
               /\ f.unit \in wave' /\ f.kind \in UnitKinds
               /\ units'[f.unit].state = IF f.status = "ambiguous" THEN "blocked"
                                         ELSE IntentStateForEffect[f.kind]
        BY <1>1, <1>2, <1>3, <1>4, <1>8, <2>1, <2>3, <2>4 DEF JournalInv, u
      <3>2. \A v \in Units : units'[v].state \in IntentStates \cup {"blocked"} =>
               \E f \in journal : Unresolved(f) /\ f.unit = v
        BY <1>1, <2>1, <2>4 DEF JournalInv, u
      <3>3. QED
        BY <1>1, <1>5, <1>6, <3>1, <3>2 DEF JournalInv, Unresolved
    <2>8. AggregateInv'
      BY <1>1, <1>9, <2>1, <2>3, <2>4 DEF AggregateInv, Live
    <2>9. BindingInv'
      <3>1. ASSUME NEW v \in Units, NEW s \in UnitStates \ {"blocked"}, At(v, s)'
            PROVE  At(v, s)
        <4>1. CASE v = u
          <5>1. units'[v].state = "blocked"
            BY <2>3, <2>4, <4>1
          <5>2. PICK k \in UnitKinds : /\ IntentStateForEffect[k] = s
                                       /\ Entry(u, k, "ambiguous") \in journal'
            BY <3>1, <4>1, <5>1 DEF At
          <5>3. Entry(u, k, "ambiguous") = lost
            BY <1>1, <1>2, <1>5, <5>2, EntryFacts DEF u, Unresolved
          <5>4. k = e.kind
            BY <1>2, <5>3, EntryFacts
          <5>5. QED
            BY <2>1, <4>1, <5>2, <5>4 DEF At
        <4>2. CASE v # u
          <5>1. units'[v] = units[v]
            BY <2>4, <4>2
          <5>2. \A k : Entry(v, k, "ambiguous") \in journal'
                          => Entry(v, k, "ambiguous") \in journal
            BY <1>2, <1>3, <4>2, EntryFacts DEF u
          <5>3. QED
            BY <3>1, <5>1, <5>2 DEF At
        <4>3. QED
          BY <4>1, <4>2
      <3>2. \A v \in Units, s \in UnitStates : Bound(units'[v], s) <=> Bound(units[v], s)
        BY <2>3, <2>4
      <3>3. \A v \in Units : closed[v] # None => closed'[v] # None
        BY <2>5
      <3>4. QED
        BY <3>1, <3>2, <3>3 DEF BindingInv, Bound
    <2>10. ResourceExclusive'
      BY <2>3, <2>4 DEF ResourceExclusive
    <2>11. QED
      BY <2>6, <2>7, <2>8, <2>9, <2>10
  <1>12. QED
    BY <1>10, <1>11

-----------------------------------------------------------------------------
(* The theorems *)

(* Every event of the reducer preserves the inductive invariant. *)
LEMMA NextKeeps ==
    ASSUME IndInv, [Next]_vars
    PROVE  IndInv'
  <1>1. CASE ControllerAcquireIntent \/ ControllerReleaseIntent
    BY <1>1, ControllerIntentKeeps
  <1>2. CASE ControllerObservation
    BY <1>2, ControllerObservationKeeps
  <1>3. CASE HarnessConfigured \/ WavePlanned
    BY <1>3, PlanningKeeps
  <1>4. ASSUME NEW u \in Units, UnitIntent(u) \/ UnitObservation(u)
        PROVE  IndInv'
    <2>1. CoreInv
      BY DEF IndInv, CoreInv
    <2>2. IntentStep(u) \/ ObserveStep(u)
      BY <1>4, <2>1, UnitIntentShape, UnitObservationShape
    <2>3. QED
      BY <2>1, <2>2, ShapesKeepCore, ShapesKeepResources DEF IndInv, CoreInv
  <1>5. ASSUME NEW u \in Units, RepairScopeExtended(u)
        PROVE  IndInv'
    BY <1>5, RepairScopeExtendedKeeps
  <1>6. ASSUME NEW e \in journal, EffectAmbiguous(e)
        PROVE  IndInv'
    BY <1>6, EffectAmbiguousKeeps
  <1>7. CASE UNCHANGED vars
    BY <1>7 DEF vars, owners, IndInv, TypeOK, JournalInv, AggregateInv, BindingInv,
                ResourceExclusive, Unresolved, Live, At, Bound
  <1>8. QED
    BY <1>1, <1>2, <1>3, <1>4, <1>5, <1>6, <1>7 DEF Next, Released

(* The inductive invariant holds in every reachable state, whatever        *)
(* events the reducer is given.                                            *)
THEOREM Invariance == Spec => []IndInv
  <1>1. Init => IndInv
    BY InitEstablishes
  <1>2. IndInv /\ [Next]_vars => IndInv'
    BY NextKeeps
  <1>3. QED
    BY <1>1, <1>2, PTL DEF Spec

(* Every reachable aggregate is well typed; in particular the repair count    *)
(* never exceeds its budget and no binding ever holds half a pair, because an *)
(* observation finds what its intent relied on.                              *)
THEOREM TypeCorrect == Spec => []TypeOK
  <1>1. IndInv => TypeOK
    BY DEF IndInv
  <1>2. QED
    BY <1>1, Invariance, PTL

(* No two units ever hold one resource, from the intent to reserve it to the  *)
(* observed release.                                                         *)
THEOREM ResourcesExclusive == Spec => []ResourceExclusive
  <1>1. IndInv => ResourceExclusive
    BY DEF IndInv
  <1>2. QED
    BY <1>1, Invariance, PTL

(* Whatever is approved, published, integrated or landed is the exact pair    *)
(* that was verified and reviewed, also while an act on it is ambiguous.     *)
THEOREM ExactlyBound == Spec => []ExactBinding
  <1>1. ASSUME IndInv PROVE ExactBinding
    <2> SUFFICES ASSUME NEW u \in Units,
                        \/ units[u].state \in IntegrationQueueStates \cup SuccessStates
                        \/ BlockedOn(u, {"publish", "integrate"})
                 PROVE  /\ units[u].ver = <<units[u].base, units[u].cand>>
                        /\ units[u].review = <<units[u].base, units[u].cand>>
                        /\ units[u].diff = units[u].cand
      BY DEF ExactBinding
    <2>1. PICK s \in ApprovedStates : At(u, s)
      BY DEF At, BlockedOn, AmbiguousOn, ApprovedStates, IntegrationQueueStates,
             SuccessStates, UnitKinds, IntentStateForEffect
    <2>2. s \in UnitStates \ {"blocked"}
      BY DEF ApprovedStates, UnitStates, IntentStates, UnitKinds,
             IntentStateForEffect, TerminalStates
    <2>3. Bound(units[u], s)
      BY <1>1, <2>1, <2>2 DEF IndInv, BindingInv
    <2>4. QED
      BY <2>1, <2>3 DEF Bound, CandidateStates, VerifiedStates
  <1>2. QED
    BY <1>1, Invariance, PTL

(* A unit's durable state names exactly the act it has outstanding, and the   *)
(* aggregate is blocked exactly while an outcome is unknown.                 *)
THEOREM EffectsAgreeAlways == Spec => []EffectsAgree
  <1>1. ASSUME IndInv PROVE EffectsAgree
    <2> USE <1>1 DEF IndInv
    <2>0. \A u : \A e : e \in UnresolvedEntries(u)
                            <=> e \in journal /\ e.unit = u /\ Unresolved(e)
      BY EntryFacts DEF UnresolvedEntries, Unresolved, TypeOK
    <2>1. ASSUME NEW e \in journal, Unresolved(e)
          PROVE  UnresolvedEntries(e.unit) = {e}
      BY <2>0, <2>1 DEF JournalInv
    <2>2. ASSUME NEW e \in journal, Unresolved(e)
          PROVE  e = Entry(e.unit, e.kind, e.status) /\ e.status \in {"intended", "ambiguous"}
      BY <2>2, EntryFacts DEF TypeOK, Unresolved
    <2>3. ASSUME NEW u \in Live
          PROVE  /\ units[u].state = "blocked" =>
                       \E k \in UnitKinds :
                           UnresolvedEntries(u) = {Entry(u, k, "ambiguous")}
                 /\ units[u].state \in IntentStates =>
                       \E k \in UnitKinds :
                           /\ IntentStateForEffect[k] = units[u].state
                           /\ UnresolvedEntries(u) = {Entry(u, k, "intended")}
                 /\ units[u].state \notin IntentStates \cup {"blocked"} =>
                       UnresolvedEntries(u) = {}
      <3>1. u \in Units /\ u # None
        BY NoneAssumption DEF Live
      <3>2. \A e \in journal : Unresolved(e) /\ e.unit = u =>
                units[u].state = (IF e.status = "ambiguous" THEN "blocked"
                                  ELSE IntentStateForEffect[e.kind])
                /\ e.kind \in UnitKinds
        BY <3>1 DEF JournalInv
      <3>3. CASE units[u].state \in IntentStates \cup {"blocked"}
        <4>1. PICK e \in journal : Unresolved(e) /\ e.unit = u
          BY <3>1, <3>3 DEF JournalInv
        <4>2. /\ UnresolvedEntries(u) = {Entry(u, e.kind, e.status)}
              /\ e.kind \in UnitKinds /\ e.status \in {"intended", "ambiguous"}
              /\ units[u].state = (IF e.status = "ambiguous" THEN "blocked"
                                   ELSE IntentStateForEffect[e.kind])
          BY <2>1, <2>2, <3>2, <4>1
        <4>3. IntentStateForEffect[e.kind] # "blocked" /\ "blocked" \notin IntentStates
          BY <4>2, IntentStateFacts DEF IntentStates
        <4>4. QED
          BY <3>3, <4>2, <4>3
      <3>4. CASE units[u].state \notin IntentStates \cup {"blocked"}
        BY <2>0, <2>2, <3>2, <3>4, IntentStateFacts
      <3>5. QED
        BY <3>3, <3>4, IntentStateFacts DEF IntentStates
    <2>4. \/ /\ controller = "acquire_intent"
             /\ \E st \in {"intended", "ambiguous"} :
                  UnresolvedEntries(None) = {Entry(None, "controller_acquire", st)}
          \/ /\ controller = "release_intent"
             /\ \E st \in {"intended", "ambiguous"} :
                  UnresolvedEntries(None) = {Entry(None, "controller_release", st)}
          \/ /\ controller \notin {"acquire_intent", "release_intent"}
             /\ UnresolvedEntries(None) = {}
      <3>1. CASE controller \in {"acquire_intent", "release_intent"}
        <4>1. PICK e \in journal : Unresolved(e) /\ e.unit = None
          BY <3>1 DEF JournalInv
        <4>2. QED
          BY <2>1, <2>2, <4>1 DEF JournalInv
      <3>2. CASE controller \notin {"acquire_intent", "release_intent"}
        BY <2>0, <3>2 DEF JournalInv
      <3>3. QED
        BY <3>1, <3>2
    <2>5. QED
      BY <2>3, <2>4 DEF EffectsAgree, JournalInv, AggregateInv, Unresolved, HarnessKinds
  <1>2. QED
    BY <1>1, Invariance, PTL

(* A blocked aggregate emits no effect: the intents are refused outright, and *)
(* the controller's release is out of reach because an ambiguous act belongs  *)
(* to a unit that has not closed, or to the controller itself.               *)
THEOREM BlockedAggregateEmitsNothing == Spec => BlockedEmitsNothing
  <1>1. ASSUME IndInv, [Next]_vars
        PROVE  [runState = "blocked" =>
                  \A e \in journal' : e.status = "intended" => e \in journal]_vars
    <2> USE <1>1 DEF IndInv
    <2> SUFFICES ASSUME Next, runState = "blocked",
                        NEW e \in journal', e.status = "intended"
                 PROVE  e \in journal
      BY DEF vars
    <2>1. CASE ControllerAcquireIntent \/ ControllerReleaseIntent
      <3>1. ControllerReleaseIntent
        BY <2>1 DEF ControllerAcquireIntent
      <3>2. controller = "acquired" /\ Live = {}
        BY <3>1 DEF ControllerReleaseIntent, CanReleaseController
      <3>3. PICK f \in journal : Unresolved(f)
        BY DEF AggregateInv, Unresolved
      <3>4. QED
        BY <3>2, <3>3, NoUnitActs DEF JournalInv
    <2>2. CASE ControllerObservation
      BY <2>2, EntryFacts, MarkObservedFacts
         DEF ControllerObservation, ControllerAcquired, ControllerReleased
    <2>3. CASE HarnessConfigured \/ WavePlanned \/ Released
      BY <2>3 DEF HarnessConfigured, WavePlanned, Released, vars
    <2>4. ASSUME NEW u \in Units, UnitIntent(u) \/ UnitObservation(u)
          PROVE  e \in journal
      <3>1. IntentStep(u) \/ ObserveStep(u)
        BY <2>4, UnitIntentShape, UnitObservationShape DEF CoreInv
      <3>2. ~ IntentStep(u)
        BY DEF IntentStep, IntentWith, CanIntend
      <3>3. QED
        BY <3>1, <3>2, EntryFacts, MarkObservedFacts DEF ObserveStep, ObserveWith
    <2>5. ASSUME NEW u \in Units, RepairScopeExtended(u)
          PROVE  e \in journal
      BY <2>5 DEF RepairScopeExtended
    <2>6. ASSUME NEW f \in journal, EffectAmbiguous(f)
          PROVE  e \in journal
      <3>1. [f EXCEPT !.status = "ambiguous"].status = "ambiguous"
        BY DEF TypeOK, Entries
      <3>2. QED
        BY <2>6, <3>1 DEF EffectAmbiguous
    <2>7. QED
      BY <2>1, <2>2, <2>3, <2>4, <2>5, <2>6 DEF Next
  <1>2. QED
    BY <1>1, Invariance, PTL DEF Spec, BlockedEmitsNothing

(* No event loses an unresolved journal entry: it stays, turns ambiguous, or   *)
(* is replaced by its observation.                                           *)
THEOREM IntentsNeverLost == Spec => IntentNeverLost
  <1>1. ASSUME IndInv, [Next]_vars
        PROVE  [\A e \in journal : e.status # "observed" =>
                  \E st \in {"intended", "ambiguous", "observed"} :
                      [e EXCEPT !.status = st] \in journal']_vars
    <2> USE <1>1 DEF IndInv
    <2> SUFFICES ASSUME Next, NEW e \in journal, Unresolved(e)
                 PROVE  \E st \in {"intended", "ambiguous", "observed"} :
                            [e EXCEPT !.status = st] \in journal'
      BY DEF vars, Unresolved
    <2>0. /\ \A st : [e EXCEPT !.status = st] = Entry(e.unit, e.kind, st)
          /\ e = Entry(e.unit, e.kind, e.status)
          /\ e.status \in {"intended", "ambiguous"}
      BY DEF TypeOK, Entries, Entry, Unresolved
    <2>1. CASE e \in journal'
      BY <2>0, <2>1
    <2>3. CASE EffectAmbiguous(e)
      BY <2>3 DEF EffectAmbiguous
    <2>4. CASE ControllerAcquireIntent \/ ControllerReleaseIntent
      BY <2>1, <2>4, AppendIntentFacts
         DEF ControllerAcquireIntent, ControllerReleaseIntent, ControllerIntent
    <2>5. ASSUME NEW u, NEW k, MarkObserved(u, k)
          PROVE  \E st \in {"intended", "ambiguous", "observed"} :
                     [e EXCEPT !.status = st] \in journal'
      BY <2>0, <2>1, <2>5, MarkObservedFacts, EntryFacts
    <2>6. CASE ControllerObservation
      BY <2>5, <2>6 DEF ControllerObservation, ControllerAcquired, ControllerReleased
    <2>7. CASE HarnessConfigured \/ WavePlanned \/ Released
      BY <2>1, <2>7 DEF HarnessConfigured, WavePlanned, Released, vars
    <2>8. ASSUME NEW u \in Units, UnitIntent(u) \/ UnitObservation(u)
          PROVE  \E st \in {"intended", "ambiguous", "observed"} :
                     [e EXCEPT !.status = st] \in journal'
      <3>1. IntentStep(u) \/ ObserveStep(u)
        BY <2>8, UnitIntentShape, UnitObservationShape DEF CoreInv
      <3>2. CASE IntentStep(u)
        BY <2>1, <3>2, AppendIntentFacts DEF IntentStep, IntentWith
      <3>3. CASE ObserveStep(u)
        BY <2>5, <3>3 DEF ObserveStep, ObserveWith
      <3>4. QED
        BY <3>1, <3>2, <3>3
    <2>9. ASSUME NEW u \in Units, RepairScopeExtended(u)
          PROVE  e \in journal'
      BY <2>9 DEF RepairScopeExtended
    <2>10. ASSUME NEW f \in journal, EffectAmbiguous(f), f # e
           PROVE  e \in journal'
      BY <2>10 DEF EffectAmbiguous
    <2>11. QED
      BY <2>1, <2>3, <2>4, <2>6, <2>7, <2>8, <2>9, <2>10 DEF Next
  <1>2. QED
    BY <1>1, Invariance, PTL DEF Spec, IntentNeverLost

Positions == UnitStates \ {"blocked"}

-----------------------------------------------------------------------------
(* Seats: what queues and owners say of a unit at position s *)

QualifyingStates == QualificationOwnerStates \cup {"candidate_committed"}

WorkingStates == {"dispatch_intent", "dispatched", "collect_intent", "repair_intent"}

(* Stopping: a terminal act is intended, and not yet lost. *)
Stopping(u) == units[u].state \in TerminalIntentStates

Sits(u, s) ==
    /\ u \in qualificationQueue <=>
           s \in QualifyingStates \/ (qualificationOwner = u /\ Stopping(u))
    /\ u \in integrationQueue <=> s \in IntegrationQueueStates
    /\ s \in QualificationOwnerStates => qualificationOwner = u
    /\ qualificationOwner = u => s \in QualificationOwnerStates \/ Stopping(u)
    /\ integrationOwner = u <=> s = "integrate_intent"
    /\ s \in ReviewerStates => currentReviewer = u
    /\ currentReviewer = u => /\ units[u].state \in ReviewerStates \/ Stopping(u)
                              /\ qualificationOwner = u
    /\ s \in WorkingStates => u \in active
    /\ u \in active => s \in WorkingStates \cup TerminalIntentStates

SeatInv == \A u \in Units : \A s \in Positions : At(u, s) => Sits(u, s)

Queued == qualificationQueue \cup integrationQueue \cup active

WaveInv == Cardinality(wave) <= ModifyingSlots /\ Queued \subseteq wave

-----------------------------------------------------------------------------
(* Positions *)

LEMMA TerminalIntentFacts ==
    TerminalIntentStates =
        {"failure_intent", "timeout_intent", "park_intent", "cancel_intent"}
  BY DEF TerminalIntentStates, TerminalKinds, IntentStateForEffect

(* A unit has one position. *)
LEMMA OnePosition ==
    ASSUME TypeOK, JournalInv, NEW u \in Units
    PROVE  /\ \E s \in Positions : At(u, s)
           /\ \A s, t \in Positions : At(u, s) /\ At(u, t) => s = t
  <1>1. CASE units[u].state # "blocked"
    BY <1>1 DEF At, Positions, TypeOK, Unit
  <1>2. CASE units[u].state = "blocked"
    <2>1. PICK e \in journal : Unresolved(e) /\ e.unit = u
      BY <1>2 DEF JournalInv
    <2>2. e.unit # None
      BY <2>1, NoneAssumption
    <2>3. e.kind \in UnitKinds /\ e.status = "ambiguous"
      BY <1>2, <2>1, <2>2, IntentStateFacts DEF JournalInv
    <2>4. e = Entry(u, e.kind, "ambiguous")
      BY <2>1, <2>3, EntryFacts DEF TypeOK
    <2>5. \A k : Entry(u, k, "ambiguous") \in journal => k = e.kind
      BY <2>1, EntryFacts DEF JournalInv, Unresolved
    <2>6. IntentStateForEffect[e.kind] \in Positions
      BY <2>3, IntentStateFacts DEF Positions
    <2>7. At(u, IntentStateForEffect[e.kind])
      BY <1>2, <2>3, <2>4 DEF At
    <2>8. \A s \in Positions : At(u, s) => s = IntentStateForEffect[e.kind]
      BY <1>2, <2>5 DEF At, Positions
    <2>9. QED BY <2>6, <2>7, <2>8
  <1>3. QED BY <1>1, <1>2

(* An event moves one unit from position a to b, where it rests or intends.  *)
Moved(u, a, b) ==
    /\ a \in Positions /\ At(u, a)
    /\ b \in Positions /\ units'[u].state = b
    /\ \A v \in Units : v # u =>
           /\ units'[v].state = units[v].state
           /\ \A s \in Positions : At(v, s)' => At(v, s)

LEMMA WrittenState ==
    ASSUME NEW r, NEW next, NEW q \in Unit, q = [r EXCEPT !.state = next]
    PROVE  q.state = next
  BY DEF Unit

LEMMA IntentMoves ==
    ASSUME CoreInv, NEW u \in Units, UnitIntent(u), NEW next, NEW k \in UnitKinds, NEW r,
           CanIntend(u), Emit(u, next, k, r)
    PROVE  Moved(u, units[u].state, next) /\ next = IntentStateForEffect[k]
  <1> USE DEF CoreInv
  <1>0. TypeOK'
    BY UnitIntentShape, ShapesKeepCore
  <1>1. units[u].state \in Positions /\ At(u, units[u].state)
    <2>1. units[u].state # "blocked"
      BY DEF CanIntend, HasUnresolvedUnitEffect, UnresolvedEntries, JournalInv,
             Unresolved, Entries, TypeOK
    <2>2. QED BY <2>1 DEF Positions, TypeOK, Unit, At
  <1>2. PICK l \in UnitKinds, q \in Unit : IntentWith(u, l, q)
    BY UnitIntentShape DEF IntentStep
  <1>3. units'[u].state = IntentStateForEffect[l]
    BY <1>2 DEF IntentWith, TypeOK
  <1>4. l = k
    <2>1. Entry(u, k, "intended") \in journal'
      BY AppendIntentFacts DEF Emit
    <2>2. Entry(u, k, "intended") \notin journal
      BY EntryFacts DEF CanIntend, HasUnresolvedUnitEffect, UnresolvedEntries
    <2>3. QED BY <1>2, <2>1, <2>2, AppendIntentFacts, EntryFacts DEF IntentWith
  <1>5. units'[u].state = next /\ \A v \in Units : v # u => units'[v] = units[v]
    BY <1>0, WrittenState DEF Emit, TypeOK
  <1>6. \A v, m : Entry(v, m, "ambiguous") \in journal'
            => Entry(v, m, "ambiguous") \in journal
    BY AppendIntentFacts, EntryFacts DEF Emit
  <1>7. next \in Positions
    BY <1>3, <1>4, <1>5, IntentStateFacts DEF Positions
  <1>8. QED BY <1>1, <1>3, <1>4, <1>5, <1>6, <1>7 DEF Moved, At

LEMMA ObserveMoves ==
    ASSUME CoreInv, NEW u \in Units, UnitObservation(u), NEW next, NEW k \in UnitKinds,
           NEW r, Outstanding(u, k), Observe(u, next, k, r)
    PROVE  /\ Moved(u, IntentStateForEffect[k], next)
           /\ units[u].state \in {IntentStateForEffect[k], "blocked"}
  <1> USE DEF CoreInv
  <1>0. TypeOK'
    BY UnitObservationShape, ShapesKeepCore
  <1>1. IntentStateForEffect[k] \in Positions /\ At(u, IntentStateForEffect[k])
    BY IntentStateFacts DEF Positions, Outstanding, At
  <1>2. PICK l \in UnitKinds, q \in Unit : ObserveWith(u, l, q)
    BY UnitObservationShape DEF ObserveStep
  <1>3. units'[u].state = next /\ \A v \in Units : v # u => units'[v] = units[v]
    BY <1>0, WrittenState DEF Observe, TypeOK
  <1>4. next \in Positions
    BY <1>2, <1>3 DEF ObserveWith, TypeOK, RestStates, Positions
  <1>5. \A v, m : Entry(v, m, "ambiguous") \in journal'
            => Entry(v, m, "ambiguous") \in journal
    BY MarkObservedFacts, EntryFacts DEF Observe
  <1>6. QED BY <1>1, <1>3, <1>4, <1>5 DEF Moved, At, Outstanding

(* What one unit's event leaves of another unit's seat. *)
Beside(v) ==
    /\ v \in qualificationQueue' <=> v \in qualificationQueue
    /\ v \in integrationQueue' <=> v \in integrationQueue
    /\ v \in active' <=> v \in active
    /\ qualificationOwner' = v <=> qualificationOwner = v
    /\ integrationOwner' = v <=> integrationOwner = v
    /\ currentReviewer' = v <=> currentReviewer = v

Apart(u) == \A v \in Units : v # u => Beside(v)

LEMMA MoveKeepsSeats ==
    ASSUME SeatInv, NEW u \in Units, NEW a, NEW b, Moved(u, a, b),
           Apart(u),
           Sits(u, b)'
    PROVE  SeatInv' /\ Apart(u)
  <1> SUFFICES ASSUME NEW v \in Units, NEW s \in Positions, At(v, s)'
               PROVE  Sits(v, s)'
    BY DEF SeatInv
  <1>1. CASE v = u
    <2>1. s = b
      BY <1>1 DEF Moved, At, Positions
    <2>2. QED BY <1>1, <2>1
  <1>2. CASE v # u
    <2>1. Sits(v, s) /\ Beside(v) /\ units'[v].state = units[v].state
      BY <1>2 DEF Moved, SeatInv, Apart
    <2>2. QED BY <2>1 DEF Sits, Beside, Stopping
  <1>3. QED BY <1>1, <1>2

(* Positions that ask the same of queues and owners. *)
Alike(a, b) ==
    /\ a \in QualifyingStates <=> b \in QualifyingStates
    /\ a \in QualificationOwnerStates <=> b \in QualificationOwnerStates
    /\ a \in IntegrationQueueStates <=> b \in IntegrationQueueStates
    /\ a = "integrate_intent" <=> b = "integrate_intent"
    /\ a \in ReviewerStates <=> b \in ReviewerStates
    /\ a \in WorkingStates <=> b \in WorkingStates
    /\ a \notin TerminalIntentStates /\ b \notin TerminalIntentStates

LEMMA AlikeKeepsSeats ==
    ASSUME SeatInv, NEW u \in Units, NEW a, NEW b, Moved(u, a, b), Alike(a, b),
           units[u].state \in {a, "blocked"}, UNCHANGED owners
    PROVE  SeatInv' /\ Apart(u)
  <1>1. Sits(u, a)
    BY DEF SeatInv, Moved
  <1>2. ~ Stopping(u) /\ ~ Stopping(u)' /\ units'[u].state = b
    BY TerminalIntentFacts DEF Alike, Stopping, Moved
  <1>3. currentReviewer = u => a \in ReviewerStates
    BY <1>1, <1>2 DEF Sits, ReviewerStates
  <1>4. Sits(u, b)'
    BY <1>1, <1>2, <1>3 DEF Sits, owners, Alike
  <1>5. Apart(u)
    BY DEF Apart, Beside, owners
  <1>6. QED BY <1>4, <1>5, MoveKeepsSeats

(* Positions that queues and owners do not know. *)
Aloof(s) ==
    s \notin QualifyingStates \cup IntegrationQueueStates \cup ReviewerStates
               \cup WorkingStates \cup TerminalIntentStates

LEMMA ClearedKeepsSeats ==
    ASSUME SeatInv, NEW u \in Units, NEW a, NEW b, Moved(u, a, b), Aloof(b),
           ClearUnitOwners(u)
    PROVE  SeatInv' /\ Apart(u)
  <1>0. u # None /\ \A v \in Units : v # None
    BY NoneAssumption
  <1>1. units'[u].state = b
    BY DEF Moved
  <1>2. Sits(u, b)'
    BY <1>0, <1>1 DEF Sits, Aloof, QualifyingStates, Stopping, ClearUnitOwners, Without,
       IntegrationQueueStates, QualificationOwnerStates
  <1>3. Apart(u)
    BY <1>0 DEF Apart, Beside, ClearUnitOwners, Without
  <1>4. QED BY <1>2, <1>3, MoveKeepsSeats

-----------------------------------------------------------------------------
(* Seats through the events of a unit *)

(* The sets queues, owners and slots are read from, as lists. *)
LEMMA SeatSets ==
    /\ QualifyingStates = QualificationOwnerStates \cup {"candidate_committed"}
    /\ TerminalIntentStates =
           {"failure_intent", "timeout_intent", "park_intent", "cancel_intent"}
    /\ \A s \in TerminalStates : Aloof(s)
    /\ \A s \in {"repair_required", "reservation_release_intent", "closed"} : Aloof(s)
  BY TerminalIntentFacts DEF QualifyingStates, TerminalStates, Aloof, IntegrationQueueStates,
     QualificationOwnerStates, ReviewerStates, WorkingStates

LEMMA AloofAlike == \A a, b : Aloof(a) /\ Aloof(b) => Alike(a, b)
  BY DEF Aloof, Alike, QualifyingStates, IntegrationQueueStates, QualificationOwnerStates

LEMMA PlainIntentKeepsSeats ==
    ASSUME CoreInv, SeatInv, NEW u \in Units,
           \/ ReservationIntent(u) \/ BranchIntent(u) \/ WorktreeIntent(u)
           \/ CollectIntent(u) \/ CandidateIntent(u) \/ ReviewCollectIntent(u)
           \/ PublishIntent(u) \/ ReservationReleaseIntent(u)
    PROVE  SeatInv' /\ Apart(u)
  <1>1. PICK k, next : \E r :
            /\ k \in UnitKinds /\ CanIntend(u) /\ Emit(u, next, k, r) /\ UNCHANGED owners
            /\ Alike(units[u].state, next)
    <2> USE AloofAlike DEF UnitKinds
    <2>1. CASE ReservationIntent(u)
      <3>1. Aloof("planned") /\ Aloof("reservation_intent")
        BY TerminalIntentFacts DEF Aloof, QualifyingStates, IntegrationQueueStates,
           QualificationOwnerStates, ReviewerStates, WorkingStates
      <3>2. QED BY <2>1, <3>1 DEF ReservationIntent
    <2>2. CASE BranchIntent(u)
      <3>1. Aloof("resources_reserved") /\ Aloof("branch_intent")
        BY TerminalIntentFacts DEF Aloof, QualifyingStates, IntegrationQueueStates,
           QualificationOwnerStates, ReviewerStates, WorkingStates
      <3>2. QED BY <2>2, <3>1 DEF BranchIntent
    <2>3. CASE WorktreeIntent(u)
      <3>1. Aloof("branch_observed") /\ Aloof("worktree_intent")
        BY TerminalIntentFacts DEF Aloof, QualifyingStates, IntegrationQueueStates,
           QualificationOwnerStates, ReviewerStates, WorkingStates
      <3>2. QED BY <2>3, <3>1 DEF WorktreeIntent
    <2>4. CASE CollectIntent(u)
      <3>1. Alike("dispatched", "collect_intent")
        BY TerminalIntentFacts DEF Alike, QualifyingStates, IntegrationQueueStates,
           QualificationOwnerStates, ReviewerStates, WorkingStates
      <3>2. QED BY <2>4, <3>1 DEF CollectIntent
    <2>5. CASE CandidateIntent(u)
      <3>1. Aloof("collected") /\ Aloof("candidate_intent")
        BY TerminalIntentFacts DEF Aloof, QualifyingStates, IntegrationQueueStates,
           QualificationOwnerStates, ReviewerStates, WorkingStates
      <3>2. QED BY <2>5, <3>1 DEF CandidateIntent
    <2>6. CASE ReviewCollectIntent(u)
      <3>1. Alike("reviewer_dispatched", "review_collect_intent")
        BY TerminalIntentFacts DEF Alike, QualifyingStates, IntegrationQueueStates,
           QualificationOwnerStates, ReviewerStates, WorkingStates
      <3>2. QED BY <2>6, <3>1 DEF ReviewCollectIntent
    <2>7. CASE PublishIntent(u)
      <3>1. Alike("approved", "publish_intent")
        BY TerminalIntentFacts DEF Alike, QualifyingStates, IntegrationQueueStates,
           QualificationOwnerStates, ReviewerStates, WorkingStates
      <3>2. QED BY <2>7, <3>1 DEF PublishIntent
    <2>8. CASE ReservationReleaseIntent(u)
      BY <2>8, SeatSets DEF ReservationReleaseIntent
    <2>9. QED BY <2>1, <2>2, <2>3, <2>4, <2>5, <2>6, <2>7, <2>8
  <1>2. Moved(u, units[u].state, next)
    BY <1>1, IntentMoves DEF UnitIntent
  <1>3. QED BY <1>1, <1>2, AlikeKeepsSeats

LEMMA PlainObservationKeepsSeats ==
    ASSUME CoreInv, SeatInv, NEW u \in Units,
           \/ ReservationObserved(u) \/ BranchObserved(u) \/ WorktreeObserved(u)
           \/ DispatchObserved(u) \/ RefreshObserved(u) \/ VerificationObserved(u)
           \/ ReviewerObserved(u) \/ PublishRefused(u) \/ ReservationReleased(u)
           \/ RepairObserved(u) \/ (PublishObserved(u) /\ ~ IsPublicationHandoff)
    PROVE  SeatInv' /\ Apart(u)
  <1>1. PICK k, next : \E r :
            /\ k \in UnitKinds /\ Outstanding(u, k) /\ Observe(u, next, k, r) /\ UNCHANGED owners
            /\ Alike(IntentStateForEffect[k], next)
    <2> USE DEF UnitKinds, Observable, Outstanding
    <2>0. /\ Alike("reservation_intent", "resources_reserved")
          /\ Alike("branch_intent", "branch_observed")
          /\ Alike("worktree_intent", "worktree_observed")
          /\ Alike("dispatch_intent", "dispatched")
          /\ Alike("refresh_intent", "worktree_observed")
          /\ Alike("refresh_intent", "collected")
          /\ Alike("verification_intent", "qualified")
          /\ Alike("reviewer_dispatch_intent", "reviewer_dispatched")
          /\ Alike("publish_intent", "approved")
          /\ Alike("publish_intent", "published")
          /\ Alike("reservation_release_intent", "closed")
          /\ Alike("repair_intent", "dispatched")
      BY TerminalIntentFacts DEF Alike, QualifyingStates, IntegrationQueueStates,
         QualificationOwnerStates, ReviewerStates, WorkingStates
    <2>i. /\ IntentStateForEffect["reservation_acquire"] = "reservation_intent"
          /\ IntentStateForEffect["branch_create"] = "branch_intent"
          /\ IntentStateForEffect["worktree_create"] = "worktree_intent"
          /\ IntentStateForEffect["dispatch"] = "dispatch_intent"
          /\ IntentStateForEffect["candidate_refresh"] = "refresh_intent"
          /\ IntentStateForEffect["verify"] = "verification_intent"
          /\ IntentStateForEffect["review_dispatch"] = "reviewer_dispatch_intent"
          /\ IntentStateForEffect["publish"] = "publish_intent"
          /\ IntentStateForEffect["reservation_release"] = "reservation_release_intent"
          /\ IntentStateForEffect["repair"] = "repair_intent"
      BY DEF IntentStateForEffect
    <2>1. CASE ReservationObserved(u)
      BY <2>0, <2>i, <2>1 DEF ReservationObserved
    <2>2. CASE BranchObserved(u)
      BY <2>0, <2>i, <2>2 DEF BranchObserved
    <2>3. CASE WorktreeObserved(u)
      BY <2>0, <2>i, <2>3 DEF WorktreeObserved
    <2>4. CASE DispatchObserved(u)
      BY <2>0, <2>i, <2>4 DEF DispatchObserved
    <2>5. CASE RefreshObserved(u)
      BY <2>0, <2>i, <2>5 DEF RefreshObserved
    <2>6. CASE VerificationObserved(u)
      BY <2>0, <2>i, <2>6 DEF VerificationObserved
    <2>7. CASE ReviewerObserved(u)
      BY <2>0, <2>i, <2>7 DEF ReviewerObserved
    <2>8. CASE PublishRefused(u)
      BY <2>0, <2>i, <2>8 DEF PublishRefused
    <2>9. CASE ReservationReleased(u)
      BY <2>0, <2>i, <2>9 DEF ReservationReleased
    <2>10. CASE RepairObserved(u)
      BY <2>0, <2>i, <2>10 DEF RepairObserved
    <2>11. CASE PublishObserved(u) /\ ~ IsPublicationHandoff
      BY <2>0, <2>i, <2>11 DEF PublishObserved
    <2>12. QED BY <2>1, <2>2, <2>3, <2>4, <2>5, <2>6, <2>7, <2>8, <2>9, <2>10, <2>11
  <1>2. UnitObservation(u)
    BY DEF UnitObservation
  <1>3. /\ Moved(u, IntentStateForEffect[k], next)
        /\ units[u].state \in {IntentStateForEffect[k], "blocked"}
    BY <1>1, <1>2, ObserveMoves
  <1>4. QED BY <1>1, <1>3, AlikeKeepsSeats

(* Every outcome that sends a unit to repair or ends it gives up all it held. *)
LEMMA OutcomeKeepsSeats ==
    ASSUME CoreInv, SeatInv, NEW u \in Units, UnitObservation(u), ClearUnitOwners(u),
           \/ WorkerCollected(u) \/ CandidateRefused(u) \/ RefreshFailed(u)
           \/ VerificationFailed(u) \/ ReviewCollected(u) \/ PublishObserved(u)
           \/ FailureObserved(u) \/ TimeoutObserved(u) \/ ParkObserved(u)
           \/ CancelObserved(u),
           units'[u].state \in {"repair_required"} \cup TerminalStates
    PROVE  SeatInv' /\ Apart(u)
  <1>1. \E a : Moved(u, a, units'[u].state)
    <2> USE DEF UnitKinds, Observable, Outstanding
    <2>1. PICK k, next, r : k \in UnitKinds /\ Outstanding(u, k) /\ Observe(u, next, k, r)
      BY DEF WorkerCollected, CandidateRefused, RefreshFailed, VerificationFailed,
         ReviewCollected, PublishObserved, FailureObserved, TimeoutObserved, ParkObserved,
         CancelObserved, TerminalObserved
    <2>2. Moved(u, IntentStateForEffect[k], next)
      BY <2>1, ObserveMoves
    <2>3. QED BY <2>2 DEF Moved
  <1>2. QED BY <1>1, SeatSets, ClearedKeepsSeats

(* dispatch and repair take a modifying slot; a worker collected gives it up. *)
LEMMA SlotKeepsSeats ==
    ASSUME CoreInv, SeatInv, NEW u \in Units,
           \/ DispatchIntent(u) \/ RepairIntent(u)
           \/ WorkerCollected(u) /\ active' = active \ {u}
              /\ UNCHANGED <<qualificationQueue, integrationQueue, qualificationOwner,
                             integrationOwner, currentReviewer>>
              /\ units'[u].state = "collected"
    PROVE  SeatInv' /\ Apart(u)
  <1>0. (\E next, k, r : ModifyingIntent(u, next, k, r)) => Apart(u)
    BY DEF ModifyingIntent, Apart, Beside
  <1>1. CASE DispatchIntent(u)
    <2>1. PICK r : /\ ModifyingIntent(u, "dispatch_intent", "dispatch", r)
                   /\ units[u].state = "worktree_observed" /\ CanIntend(u)
      BY <1>1 DEF DispatchIntent
    <2>2. Moved(u, "worktree_observed", "dispatch_intent")
      BY <1>1, <2>1, IntentMoves DEF UnitIntent, ModifyingIntent, UnitKinds
    <2>3. Sits(u, "worktree_observed") /\ units'[u].state = "dispatch_intent"
      BY <2>2 DEF SeatInv, Moved
    <2>4. Sits(u, "dispatch_intent")'
      BY <2>1, <2>3, TerminalIntentFacts DEF Sits, Stopping, ModifyingIntent, QualifyingStates,
         QualificationOwnerStates, IntegrationQueueStates, ReviewerStates, WorkingStates
    <2>5. QED BY <1>0, <2>1, <2>2, <2>4, MoveKeepsSeats
  <1>2. CASE RepairIntent(u)
    <2>1. PICK r : /\ ModifyingIntent(u, "repair_intent", "repair", r)
                   /\ units[u].state \in {"repair_required", "failed", "timed_out"}
                   /\ CanIntend(u)
      BY <1>2 DEF RepairIntent
    <2>2. Moved(u, units[u].state, "repair_intent")
      BY <1>2, <2>1, IntentMoves DEF UnitIntent, ModifyingIntent, UnitKinds
    <2>3. Sits(u, units[u].state) /\ units'[u].state = "repair_intent"
      BY <2>2 DEF SeatInv, Moved
    <2>4. Sits(u, "repair_intent")'
      BY <2>1, <2>3, TerminalIntentFacts DEF Sits, Stopping, ModifyingIntent, QualifyingStates,
         QualificationOwnerStates, IntegrationQueueStates, ReviewerStates, WorkingStates
    <2>5. QED BY <1>0, <2>1, <2>2, <2>4, MoveKeepsSeats
  <1>3. CASE /\ WorkerCollected(u) /\ active' = active \ {u}
             /\ UNCHANGED <<qualificationQueue, integrationQueue, qualificationOwner,
                            integrationOwner, currentReviewer>>
             /\ units'[u].state = "collected"
    <2>1. PICK next, r : Outstanding(u, "worker_collect")
                         /\ Observe(u, next, "worker_collect", r)
      BY <1>3 DEF WorkerCollected, Observable, Outstanding
    <2>2. IntentStateForEffect["worker_collect"] = "collect_intent"
      BY DEF IntentStateForEffect
    <2>3. Moved(u, "collect_intent", next) /\ units[u].state \in {"collect_intent", "blocked"}
      BY <1>3, <2>1, <2>2, ObserveMoves DEF UnitObservation, UnitKinds
    <2>4. Sits(u, "collect_intent") /\ next = "collected"
      BY <1>3, <2>3 DEF SeatInv, Moved
    <2>5. Sits(u, "collected")'
      BY <1>3, <2>3, <2>4, TerminalIntentFacts DEF Sits, Stopping, QualifyingStates,
         QualificationOwnerStates, IntegrationQueueStates, ReviewerStates, WorkingStates
    <2>6. Apart(u)
      BY <1>3 DEF Apart, Beside
    <2>7. QED BY <2>3, <2>4, <2>5, <2>6, MoveKeepsSeats
  <1>4. QED BY <1>1, <1>2, <1>3

(* The queue of qualification is joined with a candidate and left by a recheck *)
(* or a refresh; verification takes its ownership, a reviewer its review.     *)
LEMMA QualificationKeepsSeats ==
    ASSUME CoreInv, SeatInv, NEW u \in Units,
           \/ CandidateRecheckIntent(u) \/ RefreshIntent(u) \/ VerificationIntent(u)
           \/ ReviewerDispatchIntent(u) \/ CandidateObserved(u)
    PROVE  SeatInv' /\ Apart(u)
  <1> USE TerminalIntentFacts DEF Sits, Stopping, QualifyingStates,
         QualificationOwnerStates, IntegrationQueueStates, ReviewerStates, WorkingStates
  <1>0. u # None /\ \A v \in Units : v # None
    BY NoneAssumption
  <1>1. CASE CandidateRecheckIntent(u)
    <2>1. Moved(u, "qualified", "candidate_intent")
      BY <1>1, IntentMoves DEF UnitIntent, UnitKinds, CandidateRecheckIntent
    <2>2. Sits(u, "qualified") /\ units'[u].state = "candidate_intent"
      BY <2>1 DEF SeatInv, Moved
    <2>3. Sits(u, "candidate_intent")'
      BY <1>0, <1>1, <2>2 DEF CandidateRecheckIntent
    <2>4. Apart(u)
      BY <1>0, <1>1 DEF Apart, Beside, CandidateRecheckIntent
    <2>5. QED BY <2>1, <2>3, <2>4, MoveKeepsSeats
  <1>2. CASE RefreshIntent(u)
    <2>1. Moved(u, units[u].state, "refresh_intent")
      BY <1>2, IntentMoves DEF UnitIntent, UnitKinds, RefreshIntent
    <2>2. Sits(u, units[u].state) /\ units'[u].state = "refresh_intent"
      BY <2>1 DEF SeatInv, Moved
    <2>3. Sits(u, "refresh_intent")'
      BY <1>0, <1>2, <2>2 DEF RefreshIntent, Without
    <2>4. Apart(u)
      BY <1>0, <1>2 DEF Apart, Beside, RefreshIntent, Without
    <2>5. QED BY <2>1, <2>3, <2>4, MoveKeepsSeats
  <1>3. CASE VerificationIntent(u)
    <2>1. Moved(u, "candidate_committed", "verification_intent")
      BY <1>3, IntentMoves DEF UnitIntent, UnitKinds, VerificationIntent
    <2>2. Sits(u, "candidate_committed") /\ units'[u].state = "verification_intent"
      BY <2>1 DEF SeatInv, Moved
    <2>3. Sits(u, "verification_intent")'
      BY <1>0, <1>3, <2>2 DEF VerificationIntent
    <2>4. Apart(u)
      BY <1>0, <1>3 DEF Apart, Beside, VerificationIntent
    <2>5. QED BY <2>1, <2>3, <2>4, MoveKeepsSeats
  <1>4. CASE ReviewerDispatchIntent(u)
    <2>1. Moved(u, "qualified", "reviewer_dispatch_intent")
      BY <1>4, IntentMoves DEF UnitIntent, UnitKinds, ReviewerDispatchIntent
    <2>2. Sits(u, "qualified") /\ units'[u].state = "reviewer_dispatch_intent"
      BY <2>1 DEF SeatInv, Moved
    <2>3. Sits(u, "reviewer_dispatch_intent")'
      BY <1>0, <1>4, <2>2 DEF ReviewerDispatchIntent
    <2>4. Apart(u)
      BY <1>0, <1>4 DEF Apart, Beside, ReviewerDispatchIntent
    <2>5. QED BY <2>1, <2>3, <2>4, MoveKeepsSeats
  <1>5. CASE CandidateObserved(u)
    <2>1. PICK r : Outstanding(u, "candidate_collect")
                   /\ Observe(u, "candidate_committed", "candidate_collect", r)
      BY <1>5 DEF CandidateObserved, Observable, Outstanding
    <2>2. IntentStateForEffect["candidate_collect"] = "candidate_intent"
      BY DEF IntentStateForEffect
    <2>3. /\ Moved(u, "candidate_intent", "candidate_committed")
          /\ units[u].state \in {"candidate_intent", "blocked"}
      BY <1>5, <2>1, <2>2, ObserveMoves DEF UnitObservation, UnitKinds
    <2>4. Sits(u, "candidate_intent") /\ units'[u].state = "candidate_committed"
      BY <2>3 DEF SeatInv, Moved
    <2>5. Sits(u, "candidate_committed")'
      BY <1>5, <2>3, <2>4 DEF CandidateObserved
    <2>6. Apart(u)
      BY <1>5 DEF Apart, Beside, CandidateObserved
    <2>7. QED BY <2>3, <2>5, <2>6, MoveKeepsSeats
  <1>6. QED BY <1>1, <1>2, <1>3, <1>4, <1>5

(* Approval joins the queue of integration, whose owner integrates; landing   *)
(* leaves both queues, a refused integration keeps its place.                *)
LEMMA IntegrationKeepsSeats ==
    ASSUME CoreInv, SeatInv, NEW u \in Units,
           \/ /\ ReviewCollected(u) /\ currentReviewer' = None
              /\ integrationQueue' = integrationQueue \cup {u}
              /\ UNCHANGED <<active, qualificationQueue, qualificationOwner,
                             integrationOwner>>
              /\ units'[u].state = "approved"
           \/ IntegrateIntent(u) \/ IntegrateRefused(u) \/ IntegrateObserved(u)
    PROVE  SeatInv' /\ Apart(u)
  <1> USE TerminalIntentFacts DEF Sits, Stopping, QualifyingStates,
         QualificationOwnerStates, IntegrationQueueStates, ReviewerStates, WorkingStates
  <1>0. u # None /\ \A v \in Units : v # None
    BY NoneAssumption
  <1>1. CASE /\ ReviewCollected(u) /\ currentReviewer' = None
             /\ integrationQueue' = integrationQueue \cup {u}
             /\ UNCHANGED <<active, qualificationQueue, qualificationOwner,
                            integrationOwner>>
             /\ units'[u].state = "approved"
    <2>1. PICK next, r : Outstanding(u, "review_collect")
                         /\ Observe(u, next, "review_collect", r)
      BY <1>1 DEF ReviewCollected, Observable, Outstanding
    <2>2. IntentStateForEffect["review_collect"] = "review_collect_intent"
      BY DEF IntentStateForEffect
    <2>3. /\ Moved(u, "review_collect_intent", next)
          /\ units[u].state \in {"review_collect_intent", "blocked"}
      BY <1>1, <2>1, <2>2, ObserveMoves DEF UnitObservation, UnitKinds
    <2>4. Sits(u, "review_collect_intent") /\ next = "approved" /\ currentReviewer = u
      BY <1>1, <2>3 DEF SeatInv, Moved, ReviewCollected
    <2>5. Sits(u, "approved")'
      BY <1>0, <1>1, <2>3, <2>4
    <2>6. Apart(u)
      BY <1>0, <1>1, <2>4 DEF Apart, Beside
    <2>7. QED BY <2>3, <2>4, <2>5, <2>6, MoveKeepsSeats
  <1>2. CASE IntegrateIntent(u)
    <2>1. Moved(u, units[u].state, "integrate_intent")
      BY <1>2, IntentMoves DEF UnitIntent, UnitKinds, IntegrateIntent
    <2>2. /\ Sits(u, units[u].state) /\ units'[u].state = "integrate_intent"
          /\ units[u].state \in {"approved", "published"}
      BY <1>2, <2>1 DEF SeatInv, Moved, IntegrateIntent, CanIntegrateFrom
    <2>3. Sits(u, "integrate_intent")'
      BY <1>0, <1>2, <2>2 DEF IntegrateIntent
    <2>4. Apart(u)
      BY <1>0, <1>2 DEF Apart, Beside, IntegrateIntent
    <2>5. QED BY <2>1, <2>3, <2>4, MoveKeepsSeats
  <1>3. CASE IntegrateRefused(u)
    <2>1. /\ Outstanding(u, "integrate")
          /\ Observe(u, "approved", "integrate", units[u])
      BY <1>3 DEF IntegrateRefused, Observable, Outstanding
    <2>2. IntentStateForEffect["integrate"] = "integrate_intent"
      BY DEF IntentStateForEffect
    <2>3. /\ Moved(u, "integrate_intent", "approved")
          /\ units[u].state \in {"integrate_intent", "blocked"}
      BY <1>3, <2>1, <2>2, ObserveMoves DEF UnitObservation, UnitKinds
    <2>4. Sits(u, "integrate_intent") /\ units'[u].state = "approved"
      BY <2>3 DEF SeatInv, Moved
    <2>5. Sits(u, "approved")'
      BY <1>0, <1>3, <2>3, <2>4 DEF IntegrateRefused
    <2>6. Apart(u)
      BY <1>0, <1>3 DEF Apart, Beside, IntegrateRefused
    <2>7. QED BY <2>3, <2>5, <2>6, MoveKeepsSeats
  <1>4. CASE IntegrateObserved(u)
    <2>1. /\ Outstanding(u, "integrate")
          /\ Observe(u, "landed", "integrate", units[u])
      BY <1>4 DEF IntegrateObserved, Observable, Outstanding
    <2>2. IntentStateForEffect["integrate"] = "integrate_intent"
      BY DEF IntentStateForEffect
    <2>3. /\ Moved(u, "integrate_intent", "landed")
          /\ units[u].state \in {"integrate_intent", "blocked"}
      BY <1>4, <2>1, <2>2, ObserveMoves DEF UnitObservation, UnitKinds
    <2>4. Sits(u, "integrate_intent") /\ units'[u].state = "landed"
      BY <2>3 DEF SeatInv, Moved
    <2>5. Sits(u, "landed")'
      BY <1>0, <1>4, <2>3, <2>4 DEF IntegrateObserved
    <2>6. Apart(u)
      BY <1>0, <1>4, <2>4 DEF Apart, Beside, IntegrateObserved
    <2>7. QED BY <2>3, <2>5, <2>6, MoveKeepsSeats
  <1>5. QED BY <1>1, <1>2, <1>3, <1>4

(* A unit being stopped keeps its slot, its reviewer and the ownership of     *)
(* qualification until the terminal observation.                             *)
LEMMA TerminalIntentKeepsSeats ==
    ASSUME CoreInv, SeatInv, NEW u \in Units, NEW kind \in TerminalKinds, UnitIntent(u),
           TerminalIntent(u, kind)
    PROVE  SeatInv' /\ Apart(u)
  <1> USE TerminalIntentFacts DEF Sits, Stopping, QualifyingStates,
         QualificationOwnerStates, IntegrationQueueStates, ReviewerStates, WorkingStates
  <1>0. u # None /\ \A v \in Units : v # None
    BY NoneAssumption
  <1> DEFINE next == IntentStateForEffect[kind]
  <1>1. kind \in UnitKinds /\ next \in TerminalIntentStates
    BY DEF TerminalKinds, UnitKinds, IntentStateForEffect
  <1>2. Moved(u, units[u].state, next)
    BY <1>1, IntentMoves DEF TerminalIntent
  <1>3. Sits(u, units[u].state) /\ units'[u].state = next
    BY <1>2 DEF SeatInv, Moved
  <1>4. ~ Stopping(u) /\ units[u].state # "integrate_intent"
    BY DEF TerminalIntent, CanEnterTerminalIntent
  <1> HIDE DEF next
  <1>5. Sits(u, next)'
    BY <1>0, <1>1, <1>3, <1>4 DEF TerminalIntent
  <1>6. Apart(u)
    BY DEF Apart, Beside, TerminalIntent
  <1>7. QED BY <1>2, <1>5, <1>6, MoveKeepsSeats

LEMMA UnitIntentKeepsSeats ==
    ASSUME CoreInv, SeatInv, NEW u \in Units, UnitIntent(u)
    PROVE  SeatInv' /\ Apart(u)
  <1>1. CASE FailureIntent(u) \/ TimeoutIntent(u) \/ ParkIntent(u) \/ CancelIntent(u)
    <2>1. PICK kind \in TerminalKinds : TerminalIntent(u, kind)
      BY <1>1 DEF FailureIntent, TimeoutIntent, ParkIntent, CancelIntent, TerminalKinds
    <2>2. QED BY <2>1, TerminalIntentKeepsSeats
  <1>2. CASE DispatchIntent(u) \/ RepairIntent(u)
    BY <1>2, SlotKeepsSeats
  <1>3. CASE \/ CandidateRecheckIntent(u) \/ RefreshIntent(u) \/ VerificationIntent(u)
             \/ ReviewerDispatchIntent(u)
    BY <1>3, QualificationKeepsSeats
  <1>4. CASE IntegrateIntent(u)
    BY <1>4, IntegrationKeepsSeats
  <1>5. CASE \/ ReservationIntent(u) \/ BranchIntent(u) \/ WorktreeIntent(u)
             \/ CollectIntent(u) \/ CandidateIntent(u) \/ ReviewCollectIntent(u)
             \/ PublishIntent(u) \/ ReservationReleaseIntent(u)
    BY <1>5, PlainIntentKeepsSeats
  <1>6. QED BY <1>1, <1>2, <1>3, <1>4, <1>5 DEF UnitIntent

LEMMA UnitObservationKeepsSeats ==
    ASSUME CoreInv, SeatInv, NEW u \in Units, UnitObservation(u)
    PROVE  SeatInv' /\ Apart(u)
  <1>0. \A k \in UnitKinds : \A next, r :
            Outstanding(u, k) /\ Observe(u, next, k, r) => units'[u].state = next
    BY ObserveMoves DEF Moved
  <1> USE DEF UnitKinds, Observable, Outstanding, TerminalStates
  <1>1. CASE WorkerCollected(u)
    <2>1. \/ /\ units'[u].state = "collected" /\ active' = active \ {u}
             /\ UNCHANGED <<qualificationQueue, integrationQueue, qualificationOwner,
                            integrationOwner, currentReviewer>>
          \/ units'[u].state \in {"repair_required", "failed"} /\ ClearUnitOwners(u)
      BY <1>0, <1>1 DEF WorkerCollected
    <2>2. QED BY <1>1, <2>1, SlotKeepsSeats, OutcomeKeepsSeats
  <1>2. CASE ReviewCollected(u)
    <2>1. \/ /\ units'[u].state = "approved" /\ currentReviewer' = None
             /\ integrationQueue' = integrationQueue \cup {u}
             /\ UNCHANGED <<active, qualificationQueue, qualificationOwner,
                            integrationOwner>>
          \/ units'[u].state = "repair_required" /\ ClearUnitOwners(u)
      BY <1>0, <1>2 DEF ReviewCollected
    <2>2. QED BY <1>2, <2>1, IntegrationKeepsSeats, OutcomeKeepsSeats
  <1>3. CASE PublishObserved(u) /\ IsPublicationHandoff
    <2>1. units'[u].state = "handoff" /\ ClearUnitOwners(u)
      BY <1>0, <1>3 DEF PublishObserved
    <2>2. QED BY <1>3, <2>1, OutcomeKeepsSeats
  <1>4. CASE CandidateRefused(u) \/ RefreshFailed(u) \/ VerificationFailed(u)
    <2>1. units'[u].state = "repair_required" /\ ClearUnitOwners(u)
      BY <1>0, <1>4 DEF CandidateRefused, RefreshFailed, VerificationFailed
    <2>2. QED BY <1>4, <2>1, OutcomeKeepsSeats
  <1>5. CASE FailureObserved(u) \/ TimeoutObserved(u) \/ ParkObserved(u) \/ CancelObserved(u)
    <2>1. units'[u].state \in TerminalStates /\ ClearUnitOwners(u)
      BY <1>0, <1>5 DEF FailureObserved, TimeoutObserved, ParkObserved, CancelObserved,
         TerminalObserved
    <2>2. QED BY <1>5, <2>1, OutcomeKeepsSeats
  <1>6. CASE CandidateObserved(u)
    BY <1>6, QualificationKeepsSeats
  <1>7. CASE IntegrateRefused(u) \/ IntegrateObserved(u)
    BY <1>7, IntegrationKeepsSeats
  <1>8. CASE \/ ReservationObserved(u) \/ BranchObserved(u) \/ WorktreeObserved(u)
             \/ DispatchObserved(u) \/ RefreshObserved(u) \/ VerificationObserved(u)
             \/ ReviewerObserved(u) \/ PublishRefused(u) \/ ReservationReleased(u)
             \/ RepairObserved(u) \/ (PublishObserved(u) /\ ~ IsPublicationHandoff)
    BY <1>8, PlainObservationKeepsSeats
  <1>9. QED BY <1>1, <1>2, <1>3, <1>4, <1>5, <1>6, <1>7, <1>8 DEF UnitObservation

-----------------------------------------------------------------------------
(* The wave *)

LEMMA WaveFinite ==
    ASSUME TypeOK, NEW w, w \subseteq wave, WaveInv
    PROVE  Cardinality(w) <= ModifyingSlots
  <1>1. IsFiniteSet(wave)
    BY ConstantsAssumption, FS_Subset DEF TypeOK
  <1>2. Cardinality(w) <= Cardinality(wave) /\ Cardinality(w) \in Nat /\ Cardinality(wave) \in Nat
    BY <1>1, FS_Subset, FS_CardinalityType
  <1>3. QED BY <1>2, ConstantsAssumption DEF WaveInv

LEMMA UnitEventKeepsWave ==
    ASSUME CoreInv, SeatInv, WaveInv, NEW u \in Units, UnitIntent(u) \/ UnitObservation(u)
    PROVE  WaveInv'
  <1>0. TypeOK /\ TypeOK' /\ SeatInv' /\ Apart(u) /\ JournalInv
    BY UnitIntentKeepsSeats, UnitObservationKeepsSeats, UnitIntentShape,
       UnitObservationShape, ShapesKeepCore DEF CoreInv
  <1>1. PICK r \in Unit : \/ \E k \in UnitKinds : IntentWith(u, k, r)
                          \/ \E k \in UnitKinds : ObserveWith(u, k, r)
    BY UnitIntentShape, UnitObservationShape DEF IntentStep, ObserveStep
  <1>2. u \in wave
    <2>1. CASE \E k \in UnitKinds : IntentWith(u, k, r)
      BY <2>1 DEF IntentWith, CanIntend
    <2>2. ASSUME NEW k \in UnitKinds, ObserveWith(u, k, r) PROVE u \in wave
      <3>1. PICK e \in journal : Unresolved(e) /\ e.unit = u
        BY <2>2, EntryFacts DEF ObserveWith, Outstanding, Unresolved
      <3>2. QED BY <1>0, <3>1, NoneAssumption DEF JournalInv
    <2>3. QED BY <1>1, <2>1, <2>2
  <1>3. wave' = IF r.state = "closed" THEN wave \ {u} ELSE wave
    BY <1>1, IntentStateFacts DEF IntentWith, ObserveWith
  <1>4. r.state = "closed" => u \notin Queued'
    <2> SUFFICES ASSUME r.state = "closed" PROVE u \notin Queued'
      OBVIOUS
    <2>1. units'[u].state = "closed"
      BY <1>0, <1>1 DEF IntentWith, ObserveWith, TypeOK
    <2>2. At(u, "closed")' /\ "closed" \in Positions
      BY <2>1 DEF At, Positions, UnitStates
    <2>3. Sits(u, "closed")' /\ ~ Stopping(u)'
      BY <1>0, <2>1, <2>2, TerminalIntentFacts DEF SeatInv, Stopping
    <2>4. QED BY <2>3, SeatSets DEF Sits, Aloof, Queued
  <1>5. Queued' \subseteq Queued \cup {u}
    <2> SUFFICES ASSUME NEW v \in Queued', v # u PROVE v \in Queued
      OBVIOUS
    <2>1. v \in Units
      BY <1>0 DEF Queued, TypeOK
    <2>2. QED BY <1>0, <2>1 DEF Apart, Beside, Queued
  <1>6. Queued' \subseteq wave'
    BY <1>2, <1>3, <1>4, <1>5 DEF WaveInv
  <1>7. wave' \subseteq wave
    BY <1>3
  <1>8. QED BY <1>0, <1>6, <1>7, WaveFinite DEF WaveInv

-----------------------------------------------------------------------------
(* The remaining events *)

(* Nothing that moves no unit moves a seat. *)
LEMMA StillSeats ==
    ASSUME TypeOK, SeatInv, UNCHANGED <<units, owners>>,
           \A e \in journal' : e.unit \in Units => e \in journal
    PROVE  SeatInv'
  <1>1. \A v \in Units, s \in Positions : At(v, s)' => At(v, s)
    BY EntryFacts DEF At
  <1>2. QED BY <1>1 DEF SeatInv, Sits, Stopping, owners

(* A wave starts with nothing queued, and is no larger than the slots. *)
LEMMA WavePlannedKeepsWave ==
    ASSUME TypeOK, WaveInv, WavePlanned
    PROVE  WaveInv'
  <1>1. Queued' = {} /\ Cardinality(wave') <= ModifyingSlots
    BY DEF WavePlanned, Queued, owners
  <1>2. QED BY <1>1 DEF WaveInv

(* A unit that blocks stays at its position, with the seat it had there; if a  *)
(* blocked unit cannot have that seat, the sweep refuses the ambiguity.      *)
LEMMA EffectAmbiguousKeepsSeats ==
    ASSUME IndInv, SeatInv, NEW e \in journal, EffectAmbiguous(e)
    PROVE  SeatInv' /\ WaveInv'
  <1> USE DEF IndInv
  <1>0. /\ IndInv' /\ UNCHANGED <<controller, harness, wave, owners>> /\ e \in Entries
        /\ e.status = "intended" /\ Unresolved(e)
        /\ QueuesAgree' /\ OwnersAgree' /\ ActiveAgrees'
        /\ journal' = (journal \ {e}) \cup {[e EXCEPT !.status = "ambiguous"]}
    BY EffectAmbiguousKeeps DEF EffectAmbiguous, RunInvariant, TypeOK, Unresolved
  <1>1. WaveInv'
    BY <1>0 DEF QueuesAgree, QueueMembership, WaveInv, Queued
  <1>2. \A f \in journal' : f \in journal \/ (f.unit = e.unit /\ f.kind = e.kind)
    BY <1>0 DEF Entries
  <1>3. CASE e.unit = None
    <2>1. UNCHANGED <<units, owners>>
      BY <1>0, <1>3 DEF EffectAmbiguous
    <2>2. \A f \in journal' : f.unit \in Units => f \in journal
      BY <1>2, <1>3, NoneAssumption
    <2>3. QED BY <1>1, <2>1, <2>2, StillSeats
  <1>4. CASE e.unit # None
    <2> DEFINE u == e.unit
    <2>1. u \in Units /\ e.kind \in UnitKinds /\ units[u].state = IntentStateForEffect[e.kind]
      BY <1>0, <1>4, OptFacts DEF JournalInv, Entries
    <2>2. units' = [units EXCEPT ![u] = BlockUnit(units[u])]
      BY <1>4 DEF EffectAmbiguous
    <2>3. units'[u].state = "blocked" /\ \A v \in Units : v # u => units'[v] = units[v]
      BY <2>1, <2>2 DEF TypeOK, BlockUnit, Unit
    <2> HIDE DEF u
    <2> SUFFICES ASSUME NEW v \in Units, NEW s \in Positions, At(v, s)'
                 PROVE  Sits(v, s)'
      BY <1>1 DEF SeatInv
    <2>4. CASE v # u
      <3>1. \A k : Entry(v, k, "ambiguous") \in journal' => Entry(v, k, "ambiguous") \in journal
        BY <1>2, <2>4, EntryFacts DEF u
      <3>2. At(v, s)
        BY <2>3, <2>4, <3>1 DEF At
      <3>3. QED BY <1>0, <2>3, <2>4, <3>2 DEF SeatInv, Sits, Stopping, owners
    <2>5. CASE v = u
      <3>1. PICK k \in UnitKinds : /\ IntentStateForEffect[k] = s
                                   /\ Entry(u, k, "ambiguous") \in journal'
        BY <2>3, <2>5 DEF At, Positions
      <3>2. \A l : Entry(u, l, "ambiguous") \in journal' => l = k
        BY <1>0, <3>1, EntryFacts DEF JournalInv, Unresolved
      <3>3. e.kind = k
        <4>1. [e EXCEPT !.status = "ambiguous"] = Entry(u, e.kind, "ambiguous")
          BY <1>0 DEF Entries, Entry, u
        <4>2. QED BY <1>0, <3>2, <4>1
      <3>4. Sits(u, s)
        BY <2>1, <3>1, <3>3 DEF SeatInv, At
      <3>5. ~ Stopping(u)'
        BY <2>3, TerminalIntentFacts DEF Stopping
      <3>6. currentReviewer' # u
        BY <1>0, <2>1, <2>3, TerminalIntentFacts DEF OwnersAgree, ReviewerStates
      <3>7. qualificationOwner' = u => s \in QualificationOwnerStates
        <4> SUFFICES ASSUME qualificationOwner' = u PROVE s \in QualificationOwnerStates
          OBVIOUS
        <4>1. HasBlockedVerification(u)'
          BY <1>0, <2>1, <2>3, TerminalIntentFacts DEF OwnersAgree, QualificationOwnerStates
        <4>2. k \in {"verify", "review_dispatch", "review_collect", "publish", "integrate"}
          BY <3>2, <4>1 DEF HasBlockedVerification, BlockedOn, AmbiguousOn
        <4>3. QED BY <3>1, <4>2 DEF IntentStateForEffect, QualificationOwnerStates
      <3>8. s \notin ReviewerStates
        BY <1>0, <3>4, <3>6 DEF Sits, owners
      <3>9. QED BY <1>0, <2>5, <3>4, <3>5, <3>6, <3>7, <3>8
                 DEF Sits, owners, QualifyingStates
    <2>6. QED BY <2>4, <2>5
  <1>5. QED BY <1>3, <1>4

SeatsInv == SeatInv /\ WaveInv

LEMMA NextKeepsSeats ==
    ASSUME IndInv, SeatsInv, [Next]_vars
    PROVE  SeatsInv'
  <1> USE DEF IndInv, SeatsInv
  <1>0. CoreInv
    BY DEF CoreInv
  <1>1. CASE ControllerAcquireIntent \/ ControllerReleaseIntent
    <2>1. /\ UNCHANGED <<units, owners, wave>>
          /\ \E k : AppendIntent(None, k)
      BY <1>1 DEF ControllerAcquireIntent, ControllerReleaseIntent, ControllerIntent
    <2>2. \A e \in journal' : e.unit \in Units => e \in journal
      BY <2>1, AppendIntentFacts, EntryFacts, NoneAssumption
    <2>3. WaveInv'
      BY <2>1 DEF WaveInv, Queued, owners
    <2>4. QED BY <2>1, <2>2, <2>3, StillSeats
  <1>2. CASE ControllerObservation
    <2>1. /\ UNCHANGED <<units, owners, wave>>
          /\ \E k : MarkObserved(None, k)
      BY <1>2 DEF ControllerObservation, ControllerAcquired, ControllerReleased
    <2>2. \A e \in journal' : e.unit \in Units => e \in journal
      BY <2>1, MarkObservedFacts, EntryFacts, NoneAssumption
    <2>3. WaveInv'
      BY <2>1 DEF WaveInv, Queued, owners
    <2>4. QED BY <2>1, <2>2, <2>3, StillSeats
  <1>3. CASE HarnessConfigured
    <2>1. UNCHANGED <<units, owners, wave, journal>>
      BY <1>3 DEF HarnessConfigured
    <2>2. WaveInv'
      BY <2>1 DEF WaveInv, Queued, owners
    <2>3. QED BY <2>1, <2>2, StillSeats
  <1>4. CASE WavePlanned
    <2>1. UNCHANGED <<units, owners, journal>>
      BY <1>4 DEF WavePlanned
    <2>2. QED BY <1>4, <2>1, WavePlannedKeepsWave, StillSeats
  <1>5. ASSUME NEW u \in Units, UnitIntent(u) \/ UnitObservation(u) PROVE SeatsInv'
    BY <1>0, <1>5, UnitIntentKeepsSeats, UnitObservationKeepsSeats, UnitEventKeepsWave
  <1>6. ASSUME NEW u \in Units, RepairScopeExtended(u) PROVE SeatsInv'
    <2>1. /\ UNCHANGED <<owners, wave, journal>> /\ units[u].state = "repair_required"
          /\ units'[u] = [WithoutReviewBindings(units[u]) EXCEPT
                             !.wpacket = None, !.ver = None, !.scope = @ + 1]
          /\ \A v \in Units : v # u => units'[v] = units[v]
      BY <1>6 DEF RepairScopeExtended, RepairScopeExtensionEligible, TypeOK
    <2>2. units'[u].state = "repair_required"
      BY <2>1 DEF WithoutReviewBindings, TypeOK, Unit
    <2>3. \A v \in Units : units'[v].state = units[v].state
      BY <2>1, <2>2
    <2>4. SeatInv'
      BY <2>1, <2>3 DEF SeatInv, Sits, Stopping, owners, At
    <2>5. WaveInv'
      BY <2>1 DEF WaveInv, Queued, owners
    <2>6. QED BY <2>4, <2>5
  <1>7. ASSUME NEW e \in journal, EffectAmbiguous(e) PROVE SeatsInv'
    BY <1>7, EffectAmbiguousKeepsSeats
  <1>8. CASE UNCHANGED vars
    <2>1. UNCHANGED <<units, owners, wave, journal>>
      BY <1>8 DEF vars
    <2>2. WaveInv'
      BY <2>1 DEF WaveInv, Queued, owners
    <2>3. QED BY <2>1, <2>2, StillSeats
  <1>9. QED BY <1>1, <1>2, <1>3, <1>4, <1>5, <1>6, <1>7, <1>8 DEF Next, Released

LEMMA InitSeats == Init => SeatsInv
  <1> SUFFICES ASSUME Init PROVE SeatsInv
    OBVIOUS
  <1>0. /\ units \in [Units -> {r : r \in {units[v] : v \in Units}}]
        /\ \A u \in Units : units[u].state = "planned"
    BY DEF Init, FreshUnit
  <1>1. Aloof("planned") /\ "planned" \notin TerminalIntentStates
    BY TerminalIntentFacts DEF Aloof, QualifyingStates, IntegrationQueueStates,
       QualificationOwnerStates, ReviewerStates, WorkingStates
  <1>2. \A u \in Units, s \in Positions : At(u, s) => s = "planned"
    BY <1>0 DEF At
  <1>3. SeatInv
    BY <1>0, <1>1, <1>2, NoneAssumption
       DEF Init, SeatInv, Sits, Stopping, Aloof, QualifyingStates
  <1>4. WaveInv
    BY FS_EmptySet, ConstantsAssumption DEF Init, WaveInv, Queued
  <1>5. QED BY <1>3, <1>4 DEF SeatsInv

(* Seats, read back as the sweep states them. *)
LEMMA SeatsAgree ==
    ASSUME IndInv, SeatsInv
    PROVE  QueuesAgree /\ OwnersAgree /\ ActiveAgrees
  <1> USE DEF IndInv
  <1>1. ASSUME NEW u \in Units
        PROVE  \E s \in Positions :
                  /\ Sits(u, s)
                  /\ \/ units[u].state # "blocked" /\ units[u].state = s
                     \/ /\ units[u].state = "blocked"
                        /\ \E k \in UnitKinds : /\ IntentStateForEffect[k] = s
                                                /\ \A K : AmbiguousOn(u, K) <=> k \in K
    <2>1. PICK s \in Positions : At(u, s)
      BY OnePosition
    <2>2. Sits(u, s)
      BY <2>1 DEF SeatsInv, SeatInv
    <2>3. CASE units[u].state = "blocked"
      <3>1. PICK k \in UnitKinds : /\ IntentStateForEffect[k] = s
                                   /\ Entry(u, k, "ambiguous") \in journal
        BY <2>1, <2>3 DEF At, Positions
      <3>2. \A l : Entry(u, l, "ambiguous") \in journal <=> l = k
        BY <3>1, EntryFacts DEF JournalInv, Unresolved
      <3>3. \A K : AmbiguousOn(u, K) <=> k \in K
        BY <3>2 DEF AmbiguousOn
      <3>4. QED BY <2>2, <2>3, <3>1, <3>3
    <2>4. CASE units[u].state # "blocked"
      BY <2>1, <2>2, <2>4 DEF At
    <2>5. QED BY <2>3, <2>4
  <1>2. ASSUME NEW u \in Units
        PROVE  /\ u \in qualificationQueue <=>
                     \/ units[u].state \in QualificationOwnerStates
                     \/ units[u].state = "candidate_committed"
                     \/ HasBlockedVerification(u)
                     \/ qualificationOwner = u /\ units[u].state \in TerminalIntentStates
               /\ u \in integrationQueue <=>
                     \/ units[u].state \in IntegrationQueueStates
                     \/ BlockedOn(u, {"publish", "integrate"})
               /\ units[u].state \in QualificationOwnerStates \/ HasBlockedVerification(u)
                     => qualificationOwner = u
               /\ qualificationOwner = u =>
                     /\ \/ units[u].state \in QualificationOwnerStates \cup TerminalIntentStates
                        \/ HasBlockedVerification(u)
                     /\ u \in qualificationQueue
               /\ units[u].state = "integrate_intent" \/ BlockedOn(u, {"integrate"})
                     <=> integrationOwner = u
               /\ units[u].state \in ReviewerStates => currentReviewer = u
               /\ currentReviewer = u =>
                     /\ units[u].state \in ReviewerStates \cup TerminalIntentStates
                     /\ qualificationOwner = u
               /\ units[u].state \in WorkingStates => u \in active
               /\ u \in active =>
                     \/ units[u].state \in WorkingStates \cup TerminalIntentStates
                     \/ BlockedOn(u, {"dispatch", "repair", "worker_collect"}
                                        \cup TerminalKinds)
    <2>1. PICK s \in Positions :
              /\ Sits(u, s)
              /\ \/ units[u].state # "blocked" /\ units[u].state = s
                 \/ /\ units[u].state = "blocked"
                    /\ \E k \in UnitKinds : /\ IntentStateForEffect[k] = s
                                            /\ \A K : AmbiguousOn(u, K) <=> k \in K
      BY <1>1
    <2>2. CASE units[u].state # "blocked" /\ units[u].state = s
      BY <2>1, <2>2 DEF Sits, Stopping, QualifyingStates, BlockedOn, HasBlockedVerification
    <2>3. CASE units[u].state = "blocked"
      <3>1. PICK k \in UnitKinds : /\ IntentStateForEffect[k] = s
                                   /\ \A K : AmbiguousOn(u, K) <=> k \in K
        BY <2>1, <2>3
      <3>2. /\ ~ Stopping(u) /\ units[u].state \notin QualificationOwnerStates
            /\ units[u].state \notin IntegrationQueueStates \cup ReviewerStates
                                       \cup WorkingStates
        BY <2>3, TerminalIntentFacts DEF Stopping, QualificationOwnerStates,
           IntegrationQueueStates, ReviewerStates, WorkingStates
      <3>3. /\ s \in QualificationOwnerStates <=>
                  k \in {"verify", "review_dispatch", "review_collect", "publish", "integrate"}
            /\ s \in IntegrationQueueStates <=> k \in {"publish", "integrate"}
            /\ s = "integrate_intent" <=> k \in {"integrate"}
            /\ s \in WorkingStates \cup TerminalIntentStates =>
                  k \in {"dispatch", "repair", "worker_collect"} \cup TerminalKinds
            /\ s # "candidate_committed"
        BY <3>1, TerminalIntentFacts
           DEF UnitKinds, TerminalKinds, IntentStateForEffect, QualificationOwnerStates,
               IntegrationQueueStates, WorkingStates
      <3>4. /\ HasBlockedVerification(u) <=> s \in QualificationOwnerStates
            /\ BlockedOn(u, {"publish", "integrate"}) <=> s \in IntegrationQueueStates
            /\ BlockedOn(u, {"integrate"}) <=> s = "integrate_intent"
            /\ s \in WorkingStates \cup TerminalIntentStates =>
                  BlockedOn(u, {"dispatch", "repair", "worker_collect"} \cup TerminalKinds)
        BY <2>3, <3>1, <3>3 DEF BlockedOn, HasBlockedVerification
      <3>5. units[u].state # "candidate_committed" /\ units[u].state # "integrate_intent"
        BY <2>3
      <3>6. QED BY <2>1, <3>2, <3>3, <3>4, <3>5 DEF Sits, Stopping, QualifyingStates
    <2>4. QED BY <2>1, <2>2, <2>3
  <1>3. QueuesAgree
    BY <1>2 DEF QueuesAgree, QueueMembership, SeatsInv, WaveInv, Queued, AggregateInv, TypeOK
  <1>4. OwnersAgree
    <2>1. integrationOwner # None => integrationOwner \in integrationQueue
      <3> SUFFICES ASSUME integrationOwner # None PROVE integrationOwner \in integrationQueue
        OBVIOUS
      <3>1. integrationOwner \in Units
        BY OptFacts DEF TypeOK
      <3>2. BlockedOn(integrationOwner, {"integrate"}) =>
                BlockedOn(integrationOwner, {"publish", "integrate"})
        BY DEF BlockedOn, AmbiguousOn
      <3>3. QED BY <1>2, <3>1, <3>2 DEF IntegrationQueueStates
    <2>2. QED BY <1>2, <2>1 DEF OwnersAgree
  <1>5. ActiveAgrees
    BY <1>2 DEF ActiveAgrees, WorkingStates
  <1>6. QED BY <1>3, <1>4, <1>5

-----------------------------------------------------------------------------
(* Queues, owners and slots *)

(* The bindings of the reducer's events together with the seats they leave    *)
(* are inductive.                                                            *)
THEOREM SeatsHold == Spec => [](IndInv /\ SeatsInv)
  <1>1. Init => IndInv /\ SeatsInv
    BY InitEstablishes, InitSeats
  <1>2. IndInv /\ SeatsInv /\ [Next]_vars => (IndInv /\ SeatsInv)'
    BY NextKeeps, NextKeepsSeats
  <1>3. QED BY <1>1, <1>2, PTL DEF Spec

(* The two queues are at all times exactly the units whose state says they    *)
(* wait in them, whichever unit moved, blocked or resumed before.            *)
THEOREM QueuesAlwaysAgree == Spec => []QueuesAgree
  <1>1. IndInv /\ SeatsInv => QueuesAgree
    BY SeatsAgree
  <1>2. QED BY <1>1, SeatsHold, PTL

(* Qualification, integration and review have one owner each, and it is the    *)
(* unit whose state says so.                                                 *)
THEOREM OwnersAlwaysAgree == Spec => []OwnersAgree
  <1>1. IndInv /\ SeatsInv => OwnersAgree
    BY SeatsAgree
  <1>2. QED BY <1>1, SeatsHold, PTL

(* A modifying slot is neither leaked nor shared.                            *)
THEOREM SlotsAlwaysAgree == Spec => []ActiveAgrees
  <1>1. IndInv /\ SeatsInv => ActiveAgrees
    BY SeatsAgree
  <1>2. QED BY <1>1, SeatsHold, PTL

-----------------------------------------------------------------------------
(***************************************************************************)
(* What runInvariantErrors demands of a single unit, for every number of    *)
(* units, bases, heads and resources: LifecycleBindings, EffectsRehydrate,  *)
(* ReservationsAgree, RepairStaysPossible, ClosureAgrees, and the action    *)
(* properties MovementInvalidatesVerdict and ParamsStable.                  *)
(*                                                                          *)
(* None of them is inductive: the code's sweep looks at a unit's state only, *)
(* and says nothing of a blocked unit, which an observation resumes where   *)
(* its lost act was intended.  PhaseInv strengthens them.  For every unit   *)
(* and every lifecycle position it is at, blocked or not,                   *)
(*   HoldInv      the record holds what the position needs (Holds);          *)
(*   AcquiredInv  a reservation's acquisition is in the journal;             *)
(*   StoppedInv   a unit being stopped has the session to stop;              *)
(*   EvidenceInv  its closure evidence is what the position calls for.       *)
(* The proof goes through the events: each unit event writes a record that   *)
(* Carries the unit from one position to the next and leaves the others as   *)
(* they were (Writes, Records); the rest move no unit (Still) or block one.  *)
(* The bindings and the seats (IndInv, SeatsInv) are those above.            *)
(***************************************************************************)

(* Holdings: what the record of a unit at position s has *)

Untooled == {"planned", "reservation_intent", "resources_reserved"}

Ended == TerminalIntentStates \cup TerminalStates
             \cup {"reservation_release_intent", "closed"}

LaunchedStates ==
    {"dispatched", "collect_intent", "collected", "candidate_intent"} \cup CandidateStates

(* landed and handoff are ended: what they hold is Bound's business. *)
Tooled(r, s) ==
    /\ s \notin Untooled \cup Ended => r.branch # "none"
    /\ s \notin Untooled \cup Ended \cup {"branch_intent", "branch_observed"} => r.worktree

Launched(r, s) ==
    /\ s \in LaunchedStates => r.wsess
    /\ s \in LaunchedStates \cup {"dispatch_intent", "repair_intent"} => r.wpacket # None
    /\ r.wpacket # None => r.wpacket \in WorkerPackets(r)
    /\ r.wpacket = None /\ r.wsess => r.scope # 0
    /\ s = "refresh_intent" =>
          /\ r.refresh # None
          /\ IF r.wpacket = None THEN r.cand = None ELSE r.wsess

UnlaunchedStates ==
    {"planned", "reservation_intent", "resources_reserved", "branch_intent",
     "branch_observed", "worktree_intent", "worktree_observed", "dispatch_intent"}

(* One worker session for the dispatch and one for every repair. *)
Slotted(r, s) ==
    /\ r.workers <= r.repairs + 1
    /\ s \in UnlaunchedStates => r.workers <= r.repairs
    /\ s = "refresh_intent" /\ r.wpacket = None => r.workers <= r.repairs

Reviewing(r, s) ==
    /\ s \in {"reviewer_dispatched", "review_collect_intent"} => r.rsess
    /\ s \in ReviewerStates => r.rpacket # None
    /\ r.rsess => r.rpacket # None
    /\ r.rpacket # None => r.rpacket = ReviewerPacket(r)
    /\ r.wpacket = None => r.rpacket = None /\ r.review = None
    /\ r.recheck => /\ s = "candidate_intent"
                    /\ r.cand # None /\ r.diff = None /\ r.ver = None

Settling(r, s) ==
    /\ s \in {"published", "handoff"} => r.published # None
    /\ s = "repair_required" => ValidRepairJudgment(r)
    /\ s = "repair_intent" => r.repair # None

Reserving(r, s) ==
    r.res # {} => CASE s = "reservation_intent" -> r.resState = "intended"
                    [] s = "reservation_release_intent" -> r.resState = "release_intent"
                    [] OTHER -> r.resState = "reserved"

Holds(r, s) ==
    /\ Tooled(r, s) /\ Launched(r, s) /\ Slotted(r, s)
    /\ Reviewing(r, s) /\ Settling(r, s) /\ Reserving(r, s)

(* The record a unit at position a becomes when it moves to b. *)
Carries(r, q, b) ==
    /\ Holds(q, b)
    /\ q.base # r.base \/ q.cand # r.cand => q.review = None /\ q.rpacket = None
    /\ q.resState = "reserved" => r.resState = "reserved" \/ b = "resources_reserved"

KeptMoves ==
    {<<"branch_intent", "branch_observed">>, <<"worktree_intent", "worktree_observed">>,
     <<"dispatched", "collect_intent">>, <<"collect_intent", "collected">>,
     <<"collected", "candidate_intent">>, <<"candidate_committed", "verification_intent">>,
     <<"reviewer_dispatched", "review_collect_intent">>, <<"approved", "publish_intent">>,
     <<"approved", "integrate_intent">>, <<"published", "integrate_intent">>,
     <<"integrate_intent", "approved">>, <<"integrate_intent", "landed">>}

LEMMA StateSets ==
    /\ TerminalIntentStates =
           {"failure_intent", "timeout_intent", "park_intent", "cancel_intent"}
    /\ Ended = {"failure_intent", "timeout_intent", "park_intent", "cancel_intent",
                "landed", "handoff", "failed", "timed_out", "parked", "cancelled",
                "reservation_release_intent", "closed"}
    /\ CandidateStates = {"candidate_committed", "verification_intent", "qualified",
         "reviewer_dispatch_intent", "reviewer_dispatched", "review_collect_intent",
         "approved", "publish_intent", "published", "integrate_intent", "landed", "handoff"}
  BY TerminalIntentFacts DEF Ended, TerminalStates, CandidateStates, VerifiedStates, ApprovedStates

LEMMA KeptCarries ==
    ASSUME NEW r \in Unit, NEW a, NEW b \in UnitStates, Holds(r, a), 
          \/ <<a, b>> \in KeptMoves
          \/ CanEnterTerminalIntent(a) /\ b \in TerminalIntentStates
          \/ a \in TerminalIntentStates /\ b \in TerminalStates \ {"landed", "handoff"}
    PROVE  Carries(r, [r EXCEPT !.state = b], b)
  <1> DEFINE q == [r EXCEPT !.state = b]
  <1>1. /\ q.branch = r.branch /\ (q.worktree <=> r.worktree) /\ q.wpacket = r.wpacket
        /\ (q.wsess <=> r.wsess) /\ q.base = r.base /\ q.scope = r.scope
        /\ q.launchBase = r.launchBase /\ q.refresh = r.refresh
        /\ q.rpacket = r.rpacket /\ q.review = r.review /\ (q.rsess <=> r.rsess)
        /\ (q.recheck <=> r.recheck) /\ q.cand = r.cand /\ q.diff = r.diff /\ q.ver = r.ver
        /\ q.res = r.res /\ q.resState = r.resState /\ q.published = r.published
        /\ q.repair = r.repair /\ q.workers = r.workers /\ q.repairs = r.repairs
    BY DEF Unit
  <1> HIDE DEF q
  <1>2. /\ a \notin {"candidate_intent", "reservation_intent",
                     "reservation_release_intent"}
        /\ b \notin {"reservation_intent", "reservation_release_intent", "repair_required",
                     "repair_intent", "dispatch_intent", "refresh_intent", "published",
                     "handoff"}
        /\ b \in LaunchedStates => a \in LaunchedStates
        /\ b \in ReviewerStates => /\ b = "review_collect_intent"
                                   /\ a = "reviewer_dispatched"
        /\ b \notin Ended => /\ a \notin Untooled \cup Ended
                             /\ a = "branch_intent" => b = "branch_observed"
                             /\ a # "branch_observed"
    BY StateSets DEF KeptMoves, CanEnterTerminalIntent, LaunchedStates, ReviewerStates, Untooled, TerminalStates
  <1>3. Tooled(q, b)
    BY <1>1, <1>2 DEF Holds, Tooled
  <1>w. WorkerPackets(q) = WorkerPackets(r) /\ ReviewerPacket(q) = ReviewerPacket(r)
    BY <1>1 DEF WorkerPackets, ReviewerPacket
  <1>4. Launched(q, b)
    BY <1>1, <1>2, <1>w DEF Holds, Launched
  <1>s. Slotted(q, b)
    <2>1. b \in UnlaunchedStates => a \in UnlaunchedStates
      BY StateSets DEF KeptMoves, CanEnterTerminalIntent, UnlaunchedStates, TerminalStates
    <2>2. QED BY <1>1, <1>2, <2>1 DEF Holds, Slotted
  <1>5. Reviewing(q, b)
    BY <1>1, <1>2, <1>w DEF Holds, Reviewing, ReviewerStates
  <1>6. Settling(q, b) /\ Reserving(q, b)
    BY <1>1, <1>2 DEF Holds, Settling, Reserving
  <1>7. QED BY <1>1, <1>3, <1>4, <1>s, <1>5, <1>6 DEF Carries, Holds, q


LEMMA PacketBinds ==
    ASSUME NEW r \in Unit, NEW packet \in WorkerPackets(r), NEW a, NEW b,
           b \in {"dispatch_intent", "repair_intent"}, Holds(r, a),
           b = "dispatch_intent" => a = "worktree_observed",
           b = "repair_intent" =>
               /\ a \in {"repair_required", "failed", "timed_out"}
               /\ r.repair # None /\ r.branch # "none" /\ r.worktree
    PROVE  Carries(r, [[r EXCEPT !.wpacket = packet] EXCEPT !.state = b], b)
  <1> DEFINE q == [[r EXCEPT !.wpacket = packet] EXCEPT !.state = b]
  <1>1. /\ q.branch = r.branch /\ (q.worktree <=> r.worktree) /\ q.wpacket = packet
        /\ q.base = r.base /\ q.scope = r.scope /\ q.launchBase = r.launchBase
        /\ q.rpacket = r.rpacket /\ q.review = r.review /\ (q.rsess <=> r.rsess)
        /\ (q.recheck <=> r.recheck) /\ q.cand = r.cand /\ q.diff = r.diff
        /\ q.res = r.res /\ q.resState = r.resState /\ q.repair = r.repair
        /\ q.workers = r.workers /\ q.repairs = r.repairs
    BY DEF Unit
  <1> HIDE DEF q
  <1>2. packet # None
    BY WorkerPacketType, NoneAssumption, OptFacts DEF WorkerPackets, Unit
  <1>3. packet \in WorkerPackets(q) /\ ReviewerPacket(q) = ReviewerPacket(r)
    BY <1>1 DEF WorkerPackets, ReviewerPacket
  <1>4. Tooled(q, b)
    BY <1>1, StateSets DEF Holds, Tooled, Untooled
  <1>5. Launched(q, b)
    BY <1>1, <1>2, <1>3, StateSets DEF Launched, LaunchedStates
  <1>6. Reviewing(q, b)
    BY <1>1, <1>2, <1>3 DEF Holds, Reviewing, ReviewerStates
  <1>7. Settling(q, b) /\ Reserving(q, b)
    BY <1>1 DEF Holds, Settling, Reserving
  <1>s. Slotted(q, b)
    BY <1>1, <1>2 DEF Holds, Slotted, UnlaunchedStates
  <1>8. QED BY <1>1, <1>4, <1>5, <1>s, <1>6, <1>7 DEF Carries, Holds, q

(* A rebase forgets the candidate, and the worker's packet binds the base it    *)
(* was launched on.                                                          *)
LEMMA RebaseCarries ==
    ASSUME NEW r \in Unit, Holds(r, "refresh_intent"), ~ RefreshIsFastForward(r)
    PROVE  Carries(r, [Rebased(r) EXCEPT !.state = "collected"], "collected")
  <1> DEFINE q == [Rebased(r) EXCEPT !.state = "collected"]
  <1>1. /\ q.branch = r.branch /\ (q.worktree <=> r.worktree) /\ q.wpacket = r.wpacket
        /\ (q.wsess <=> r.wsess) /\ q.base = r.refresh /\ q.scope = r.scope
        /\ q.launchBase = IF r.wpacket = None THEN r.base ELSE r.wpacket[1]
        /\ q.rpacket = None /\ q.review = None /\ ~ q.rsess
        /\ (q.recheck <=> r.recheck)
        /\ q.res = r.res /\ q.resState = r.resState
        /\ q.workers = r.workers /\ q.repairs = r.repairs
    BY DEF Unit, Rebased, WithoutReviewBindings
  <1> HIDE DEF q
  <1>2. Tooled(q, "collected")
    BY <1>1, StateSets DEF Holds, Tooled, Untooled
  <1>3. r.wpacket # None /\ r.wsess /\ r.wpacket \in WorkerPackets(r)
    BY DEF Holds, Launched, RefreshIsFastForward
  <1>4. PICK b \in {r.base, r.launchBase} \ {None} : r.wpacket = <<b, r.scope>>
    BY <1>3 DEF WorkerPackets
  <1>5. q.launchBase = b /\ b # None
    BY <1>1, <1>3, <1>4
  <1>6. q.wpacket \in WorkerPackets(q)
    BY <1>1, <1>4, <1>5 DEF WorkerPackets
  <1>7. Launched(q, "collected")
    BY <1>1, <1>3, <1>6 DEF Launched
  <1>8. Reviewing(q, "collected")
    BY <1>1 DEF Holds, Reviewing, ReviewerStates
  <1>9. Settling(q, "collected") /\ Reserving(q, "collected")
    BY <1>1 DEF Holds, Settling, Reserving
  <1>s. Slotted(q, "collected")
    BY <1>1 DEF Holds, Slotted, UnlaunchedStates
  <1>10. QED BY <1>1, <1>2, <1>7, <1>s, <1>8, <1>9 DEF Carries, Holds, q

LEMMA StateIgnored ==
    ASSUME NEW r \in Unit, NEW s, NEW b
    PROVE  Holds([r EXCEPT !.state = b], s) <=> Holds(r, s)
  BY DEF Holds, Tooled, Launched, Slotted, Reviewing, Settling, Reserving, WorkerPackets,
         ReviewerPacket, ValidRepairJudgment, Unit


-----------------------------------------------------------------------------
(* Holdings through the events of a unit *)

HoldInv == \A u \in Units : \A s \in Positions : At(u, s) => Holds(units[u], s)

Acquired(u) == Entry(u, "reservation_acquire", "observed")

AcquiredInv == \A u \in Units : units[u].resState = "reserved" => Acquired(u) \in journal

(* A unit event writes a record the unit's next position can live with, and    *)
(* compaction keeps the acquisitions that reservations point to.             *)
Writes(u) ==
    /\ \E a, b : /\ Moved(u, a, b) /\ Carries(units[u], units'[u], b)
                 /\ b = "resources_reserved" => Acquired(u) \in journal'
    /\ \A v \in Units : v # u => units'[v] = units[v]
    /\ \A v \in Units : units[v].resState = "reserved" /\ Acquired(v) \in journal
                            => Acquired(v) \in journal'

LEMMA IntentWrites ==
    ASSUME CoreInv, HoldInv, NEW u \in Units, UnitIntent(u), NEW next, NEW k \in UnitKinds,
           NEW r, CanIntend(u), Emit(u, next, k, r),
           Holds(units[u], units[u].state) => Carries(units[u], [r EXCEPT !.state = next], next),
           next # "resources_reserved"
    PROVE  Writes(u)
  <1>1. Moved(u, units[u].state, next)
    BY IntentMoves
  <1>2. Holds(units[u], units[u].state)
    BY <1>1 DEF Moved, HoldInv
  <1>3. /\ units'[u] = [r EXCEPT !.state = next]
        /\ \A v \in Units : v # u => units'[v] = units[v]
    BY DEF Emit, CoreInv, TypeOK
  <1>4. \A v \in Units : units[v].resState = "reserved" /\ Acquired(v) \in journal
                            => Acquired(v) \in journal'
    BY EntryFacts DEF Emit, AppendIntent, Anchored, Acquired
  <1>5. QED BY <1>1, <1>2, <1>3, <1>4 DEF Writes

LEMMA ObservationWrites ==
    ASSUME CoreInv, HoldInv, NEW u \in Units, UnitObservation(u), NEW next,
           NEW k \in UnitKinds, NEW r, Outstanding(u, k), Observe(u, next, k, r),
           Holds(units[u], IntentStateForEffect[k])
               => Carries(units[u], [r EXCEPT !.state = next], next),
           next # "resources_reserved" \/ k = "reservation_acquire"
    PROVE  Writes(u)
  <1>1. Moved(u, IntentStateForEffect[k], next)
    BY ObserveMoves
  <1>2. Holds(units[u], IntentStateForEffect[k])
    BY <1>1 DEF Moved, HoldInv
  <1>3. /\ units'[u] = [r EXCEPT !.state = next]
        /\ \A v \in Units : v # u => units'[v] = units[v]
    BY DEF Observe, CoreInv, TypeOK
  <1>4. next = "resources_reserved" => Acquired(u) \in journal'
    BY MarkObservedFacts DEF Observe, Acquired
  <1>5. \A v \in Units : Acquired(v) \in journal => Acquired(v) \in journal'
    BY MarkObservedFacts, EntryFacts DEF Observe, Acquired
  <1>6. QED BY <1>1, <1>2, <1>3, <1>4, <1>5 DEF Writes

LEMMA UnitIntentWrites ==
    ASSUME CoreInv, HoldInv, NEW u \in Units, UnitIntent(u)
    PROVE  Writes(u)
  <1> DEFINE r == units[u]
  <1>0. r \in Unit
    BY DEF CoreInv, TypeOK
  <1> USE DEF UnitKinds
  <1>1. CASE ReservationIntent(u)
    <2>1. PICK s \in SUBSET Resources :
              Emit(u, "reservation_intent", "reservation_acquire",
                   [r EXCEPT !.res = s, !.resState = "intended"])
      BY <1>1 DEF ReservationIntent
    <2>2. CanIntend(u) /\ units[u].state = "planned"
      BY <1>1 DEF ReservationIntent
    <2> HIDE DEF r
    <2>3. Holds(r, "planned") =>
              Carries(r, [[r EXCEPT !.res = s, !.resState = "intended"]
                            EXCEPT !.state = "reservation_intent"], "reservation_intent")
      BY <1>0, StateSets DEF Carries, Holds, Tooled, Launched, Slotted, Reviewing, Settling, Reserving,
         Untooled, UnlaunchedStates, LaunchedStates, ReviewerStates, Unit, WorkerPackets, ReviewerPacket
    <2>4. QED BY <2>1, <2>2, <2>3, IntentWrites DEF r
  <1>2. CASE BranchIntent(u)
    <2> DEFINE b == IF u \in LegacyUnits THEN "full" ELSE "short"
    <2>1. /\ Emit(u, "branch_intent", "branch_create", [r EXCEPT !.branch = b])
          /\ CanIntend(u) /\ units[u].state = "resources_reserved" /\ b \in {"full", "short"}
      BY <1>2 DEF BranchIntent
    <2> HIDE DEF r, b
    <2>2. Holds(r, "resources_reserved") =>
              Carries(r, [[r EXCEPT !.branch = b] EXCEPT !.state = "branch_intent"],
                      "branch_intent")
      BY <1>0, <2>1, StateSets DEF Carries, Holds, Tooled, Launched, Slotted, Reviewing, Settling,
         Reserving, Untooled, UnlaunchedStates, LaunchedStates, ReviewerStates, Unit, WorkerPackets, ReviewerPacket
    <2>3. QED BY <2>1, <2>2, IntentWrites DEF r
  <1>3. CASE WorktreeIntent(u)
    <2>1. /\ Emit(u, "worktree_intent", "worktree_create", [r EXCEPT !.worktree = TRUE])
          /\ CanIntend(u) /\ units[u].state = "branch_observed"
      BY <1>3 DEF WorktreeIntent
    <2> HIDE DEF r
    <2>2. Holds(r, "branch_observed") =>
              Carries(r, [[r EXCEPT !.worktree = TRUE] EXCEPT !.state = "worktree_intent"],
                      "worktree_intent")
      BY <1>0, StateSets DEF Carries, Holds, Tooled, Launched, Slotted, Reviewing, Settling,
         Reserving, Untooled, UnlaunchedStates, LaunchedStates, ReviewerStates, Unit, WorkerPackets, ReviewerPacket
    <2>3. QED BY <2>1, <2>2, IntentWrites DEF r
  <1>4. CASE DispatchIntent(u)
    <2>1. PICK packet \in WorkerPackets(r) :
              Emit(u, "dispatch_intent", "dispatch", [r EXCEPT !.wpacket = packet])
      BY <1>4 DEF DispatchIntent, ModifyingIntent
    <2>2. CanIntend(u) /\ units[u].state = "worktree_observed"
      BY <1>4 DEF DispatchIntent
    <2> HIDE DEF r
    <2>3. Holds(r, "worktree_observed") =>
              Carries(r, [[r EXCEPT !.wpacket = packet] EXCEPT !.state = "dispatch_intent"],
                      "dispatch_intent")
      BY <1>0, PacketBinds
    <2>4. QED BY <2>1, <2>2, <2>3, IntentWrites DEF r
  <1>5. CASE RepairIntent(u)
    <2>1. PICK packet \in WorkerPackets(r) :
              Emit(u, "repair_intent", "repair", [r EXCEPT !.wpacket = packet])
      BY <1>5 DEF RepairIntent, ModifyingIntent
    <2>2. /\ CanIntend(u) /\ units[u].state \in {"repair_required", "failed", "timed_out"}
          /\ r.repair # None /\ r.branch # "none" /\ r.worktree
      BY <1>5 DEF RepairIntent, ValidRepairJudgment
    <2> HIDE DEF r
    <2>3. Holds(r, units[u].state) =>
              Carries(r, [[r EXCEPT !.wpacket = packet] EXCEPT !.state = "repair_intent"],
                      "repair_intent")
      BY <1>0, <2>2, PacketBinds
    <2>4. QED BY <2>1, <2>2, <2>3, IntentWrites DEF r
  <1>6. CASE CandidateRecheckIntent(u)
    <2> DEFINE q == [WithoutReviewBindings(r) EXCEPT
                       !.diff = None, !.ver = None, !.recheck = TRUE]
    <2>1. /\ Emit(u, "candidate_intent", "candidate_collect", q)
          /\ CanIntend(u) /\ units[u].state = "qualified"
      BY <1>6 DEF CandidateRecheckIntent
    <2>2. r.cand # None
      BY <2>1, RestingBound, RestStateFacts, NoneAssumption
         DEF CoreInv, Bound, CandidateStates, VerifiedStates
    <2> HIDE DEF r
    <2>3. Holds(r, "qualified") =>
              Carries(r, [q EXCEPT !.state = "candidate_intent"], "candidate_intent")
      BY <1>0, <2>2, StateSets DEF Carries, Holds, Tooled, Launched, Slotted, Reviewing, Settling,
         Reserving, Untooled, UnlaunchedStates, LaunchedStates, ReviewerStates, Unit, WorkerPackets,
         WithoutReviewBindings
    <2>4. QED BY <2>1, <2>3, IntentWrites DEF r
  <1>7. CASE RefreshIntent(u)
    <2>1. PICK target \in Bases :
              Emit(u, "refresh_intent", "candidate_refresh", [r EXCEPT !.refresh = target])
      BY <1>7 DEF RefreshIntent
    <2>2. /\ CanIntend(u)
          /\ \/ units[u].state \in {"collected", "candidate_committed", "qualified", "approved"}
             \/ units[u].state = "worktree_observed" /\ RefreshIsFastForward(r)
          /\ target # None
      BY <1>7, NoneAssumption DEF RefreshIntent
    <2> HIDE DEF r
    <2>3. Holds(r, units[u].state) =>
              Carries(r, [[r EXCEPT !.refresh = target] EXCEPT !.state = "refresh_intent"],
                      "refresh_intent")
      BY <1>0, <2>2, StateSets DEF Carries, Holds, Tooled, Launched, Slotted, Reviewing, Settling,
         Reserving, Untooled, UnlaunchedStates, LaunchedStates, ReviewerStates, Unit, WorkerPackets,
         ReviewerPacket, RefreshIsFastForward
    <2>4. QED BY <2>1, <2>2, <2>3, IntentWrites DEF r
  <1>8. CASE ReviewerDispatchIntent(u)
    <2> DEFINE packet == ReviewerPacket(r)
    <2>1. /\ Emit(u, "reviewer_dispatch_intent", "review_dispatch", [r EXCEPT !.rpacket = packet])
          /\ CanIntend(u) /\ units[u].state = "qualified"
          /\ r.cand # None /\ r.diff # None
      BY <1>8 DEF ReviewerDispatchIntent
    <2>2. packet # None
      BY <1>0, <2>1, OptFacts, NoneAssumption DEF ReviewerPacket, Unit
    <2> HIDE DEF r, packet
    <2>3. Holds(r, "qualified") =>
              Carries(r, [[r EXCEPT !.rpacket = packet] EXCEPT
                            !.state = "reviewer_dispatch_intent"], "reviewer_dispatch_intent")
      <3>1. packet = <<r.base, r.cand, r.diff, r.scope>>
        BY DEF packet, ReviewerPacket
      <3>2. QED
        BY <1>0, <2>2, <3>1, StateSets DEF Carries, Holds, Tooled, Launched, Slotted, Reviewing, Settling,
           Reserving, Untooled, UnlaunchedStates, LaunchedStates, ReviewerStates, Unit, WorkerPackets,
           ReviewerPacket
    <2>4. QED BY <2>1, <2>3, IntentWrites DEF r, packet
  <1>9. CASE ReservationReleaseIntent(u)
    <2> DEFINE q == [r EXCEPT !.resState = IF r.res = {} THEN @ ELSE "release_intent"]
    <2>1. /\ Emit(u, "reservation_release_intent", "reservation_release", q)
          /\ CanIntend(u) /\ units[u].state \in TerminalStates
      BY <1>9 DEF ReservationReleaseIntent
    <2> HIDE DEF r
    <2>2. Holds(r, units[u].state) =>
              Carries(r, [q EXCEPT !.state = "reservation_release_intent"],
                      "reservation_release_intent")
      BY <1>0, <2>1, StateSets DEF Carries, Holds, Tooled, Launched, Slotted, Reviewing, Settling,
         Reserving, Untooled, UnlaunchedStates, LaunchedStates, ReviewerStates, Unit, WorkerPackets,
         ReviewerPacket, TerminalStates
    <2>3. QED BY <2>1, <2>2, IntentWrites DEF r
  <1>10. ASSUME NEW k \in UnitKinds, NEW next \in UnitStates, CanIntend(u), Emit(u, next, k, r),
               \/ <<units[u].state, next>> \in KeptMoves
               \/ CanEnterTerminalIntent(units[u].state) /\ next \in TerminalIntentStates,
               next # "resources_reserved"
         PROVE Writes(u)
    BY <1>0, <1>10, KeptCarries, IntentWrites
  <1>11. CASE \/ CollectIntent(u) \/ CandidateIntent(u) \/ VerificationIntent(u)
              \/ ReviewCollectIntent(u) \/ PublishIntent(u) \/ IntegrateIntent(u)
    <2>1. {"collect_intent", "candidate_intent", "verification_intent", "review_collect_intent",
           "publish_intent", "integrate_intent"} \subseteq UnitStates
      BY DEF UnitStates, IntentStates, IntentStateForEffect
    <2>2. QED BY <1>10, <1>11, <2>1
              DEF CollectIntent, CandidateIntent, VerificationIntent, ReviewCollectIntent,
                  PublishIntent, IntegrateIntent, CanIntegrateFrom, KeptMoves
  <1>12. CASE FailureIntent(u) \/ TimeoutIntent(u) \/ ParkIntent(u) \/ CancelIntent(u)
    <2>1. PICK k \in TerminalKinds : TerminalIntent(u, k)
      BY <1>12 DEF FailureIntent, TimeoutIntent, ParkIntent, CancelIntent, TerminalKinds
    <2>2. /\ k \in UnitKinds /\ IntentStateForEffect[k] \in TerminalIntentStates
          /\ IntentStateForEffect[k] \in UnitStates
          /\ IntentStateForEffect[k] # "resources_reserved"
      BY IntentStateFacts, TerminalIntentFacts DEF TerminalKinds, TerminalIntentStates
    <2>3. QED BY <1>10, <2>1, <2>2 DEF TerminalIntent
  <1>13. QED BY <1>1, <1>2, <1>3, <1>4, <1>5, <1>6, <1>7, <1>8, <1>9, <1>11, <1>12 DEF UnitIntent


LEMMA IntentStateNames ==
    /\ IntentStateForEffect["reservation_acquire"] = "reservation_intent"
    /\ IntentStateForEffect["branch_create"] = "branch_intent"
    /\ IntentStateForEffect["worktree_create"] = "worktree_intent"
    /\ IntentStateForEffect["dispatch"] = "dispatch_intent"
    /\ IntentStateForEffect["worker_collect"] = "collect_intent"
    /\ IntentStateForEffect["candidate_collect"] = "candidate_intent"
    /\ IntentStateForEffect["candidate_refresh"] = "refresh_intent"
    /\ IntentStateForEffect["verify"] = "verification_intent"
    /\ IntentStateForEffect["review_dispatch"] = "reviewer_dispatch_intent"
    /\ IntentStateForEffect["review_collect"] = "review_collect_intent"
    /\ IntentStateForEffect["publish"] = "publish_intent"
    /\ IntentStateForEffect["integrate"] = "integrate_intent"
    /\ IntentStateForEffect["reservation_release"] = "reservation_release_intent"
    /\ IntentStateForEffect["repair"] = "repair_intent"
  BY DEF IntentStateForEffect

LEMMA PlainObservationWrites ==
    ASSUME CoreInv, HoldInv, NEW u \in Units,
           \/ ReservationObserved(u) \/ BranchObserved(u) \/ WorktreeObserved(u)
           \/ DispatchObserved(u) \/ RepairObserved(u) \/ VerificationObserved(u)
           \/ ReviewerObserved(u) \/ PublishObserved(u) \/ PublishRefused(u)
           \/ IntegrateRefused(u) \/ IntegrateObserved(u) \/ ReservationReleased(u)
    PROVE  Writes(u)
  <1> DEFINE r == units[u]
  <1>0. r \in Unit /\ UnitObservation(u)
    BY DEF CoreInv, TypeOK, UnitObservation
  <1> USE DEF UnitKinds
  <1>1. CASE ReservationObserved(u)
    <2> DEFINE q == [r EXCEPT !.resState = "reserved"]
    <2>1. Observe(u, "resources_reserved", "reservation_acquire", q) /\ Outstanding(u, "reservation_acquire")
      BY <1>1 DEF ReservationObserved, Observable, Outstanding
    <2> HIDE DEF r
    <2>2. Holds(r, "reservation_intent") => Carries(r, [q EXCEPT !.state = "resources_reserved"], "resources_reserved")
      BY <1>0, StateSets DEF q, Carries, Holds, Tooled, Launched, Slotted, Reviewing, Settling,
         Reserving, Untooled, UnlaunchedStates, LaunchedStates, ReviewerStates, Unit, WorkerPackets,
         ReviewerPacket
    <2> HIDE DEF q
    <2>3. QED BY <1>0, <2>1, <2>2, IntentStateNames, ObservationWrites DEF r
  <1>2. CASE DispatchObserved(u)
    <2> DEFINE q == [r EXCEPT !.wsess = TRUE, !.workers = @ + 1]
    <2>1. Observe(u, "dispatched", "dispatch", q) /\ Outstanding(u, "dispatch")
      BY <1>2 DEF DispatchObserved, Observable, Outstanding
    <2> HIDE DEF r
    <2>2. Holds(r, "dispatch_intent") => Carries(r, [q EXCEPT !.state = "dispatched"], "dispatched")
      BY <1>0, StateSets DEF q, Carries, Holds, Tooled, Launched, Slotted, Reviewing, Settling,
         Reserving, Untooled, UnlaunchedStates, LaunchedStates, ReviewerStates, Unit, WorkerPackets,
         ReviewerPacket
    <2> HIDE DEF q
    <2>3. QED BY <1>0, <2>1, <2>2, IntentStateNames, ObservationWrites DEF r
  <1>3. CASE RepairObserved(u)
    <2> DEFINE q == [r EXCEPT !.wsess = TRUE, !.repairs = @ + 1, !.workers = @ + 1]
    <2>1. Observe(u, "dispatched", "repair", q) /\ Outstanding(u, "repair")
      BY <1>3 DEF RepairObserved, Observable, Outstanding
    <2> HIDE DEF r
    <2>2. Holds(r, "repair_intent") => Carries(r, [q EXCEPT !.state = "dispatched"], "dispatched")
      BY <1>0, StateSets DEF q, Carries, Holds, Tooled, Launched, Slotted, Reviewing, Settling,
         Reserving, Untooled, UnlaunchedStates, LaunchedStates, ReviewerStates, Unit, WorkerPackets,
         ReviewerPacket
    <2> HIDE DEF q
    <2>3. QED BY <1>0, <2>1, <2>2, IntentStateNames, ObservationWrites DEF r
  <1>4. CASE VerificationObserved(u)
    <2> DEFINE q == [r EXCEPT !.ver = <<r.base, r.cand>>]
    <2>1. Observe(u, "qualified", "verify", q) /\ Outstanding(u, "verify")
      BY <1>4 DEF VerificationObserved, Observable, Outstanding
    <2> HIDE DEF r
    <2>2. Holds(r, "verification_intent") => Carries(r, [q EXCEPT !.state = "qualified"], "qualified")
      BY <1>0, StateSets DEF q, Carries, Holds, Tooled, Launched, Slotted, Reviewing, Settling,
         Reserving, Untooled, UnlaunchedStates, LaunchedStates, ReviewerStates, Unit, WorkerPackets,
         ReviewerPacket
    <2> HIDE DEF q
    <2>3. QED BY <1>0, <2>1, <2>2, IntentStateNames, ObservationWrites DEF r
  <1>5. CASE ReviewerObserved(u)
    <2> DEFINE q == [r EXCEPT !.rsess = TRUE, !.reviewers = @ + 1]
    <2>1. Observe(u, "reviewer_dispatched", "review_dispatch", q) /\ Outstanding(u, "review_dispatch")
      BY <1>5 DEF ReviewerObserved, Observable, Outstanding
    <2> HIDE DEF r
    <2>2. Holds(r, "reviewer_dispatch_intent") => Carries(r, [q EXCEPT !.state = "reviewer_dispatched"], "reviewer_dispatched")
      BY <1>0, StateSets DEF q, Carries, Holds, Tooled, Launched, Slotted, Reviewing, Settling,
         Reserving, Untooled, UnlaunchedStates, LaunchedStates, ReviewerStates, Unit, WorkerPackets,
         ReviewerPacket
    <2> HIDE DEF q
    <2>3. QED BY <1>0, <2>1, <2>2, IntentStateNames, ObservationWrites DEF r
  <1>6. CASE PublishObserved(u)
    <2>1. PICK next \in {"handoff", "published"} :
              Observe(u, next, "publish", [r EXCEPT !.published = r.cand])
      BY <1>6 DEF PublishObserved
    <2>2. r.cand # None /\ Outstanding(u, "publish")
      BY <1>6 DEF PublishObserved, Observable, Outstanding
    <2> HIDE DEF r
    <2>3. Holds(r, "publish_intent") =>
              Carries(r, [[r EXCEPT !.published = r.cand] EXCEPT !.state = next], next)
      BY <1>0, <2>2, StateSets DEF Carries, Holds, Tooled, Launched, Slotted, Reviewing, Settling,
         Reserving, Untooled, UnlaunchedStates, LaunchedStates, ReviewerStates, Unit, WorkerPackets, ReviewerPacket
    <2>4. QED BY <1>0, <2>1, <2>2, <2>3, IntentStateNames, ObservationWrites DEF r
  <1>7. CASE PublishRefused(u)
    <2> DEFINE q == [r EXCEPT !.pubRef = TRUE]
    <2>1. Observe(u, "approved", "publish", q) /\ Outstanding(u, "publish")
      BY <1>7 DEF PublishRefused, Outstanding
    <2> HIDE DEF r
    <2>2. Holds(r, "publish_intent") => Carries(r, [q EXCEPT !.state = "approved"], "approved")
      BY <1>0, StateSets DEF q, Carries, Holds, Tooled, Launched, Slotted, Reviewing, Settling,
         Reserving, Untooled, UnlaunchedStates, LaunchedStates, ReviewerStates, Unit, WorkerPackets,
         ReviewerPacket
    <2> HIDE DEF q
    <2>3. QED BY <1>0, <2>1, <2>2, IntentStateNames, ObservationWrites DEF r
  <1>8. CASE ReservationReleased(u)
    <2> DEFINE q == FreshUnit(r.base)
    <2>1. Observe(u, "closed", "reservation_release", q) /\ Outstanding(u, "reservation_release")
      BY <1>8 DEF ReservationReleased, Observable, Outstanding
    <2> HIDE DEF r
    <2>2. Holds(r, "reservation_release_intent") => Carries(r, [q EXCEPT !.state = "closed"], "closed")
      BY <1>0, StateSets DEF q, Carries, Holds, Tooled, Launched, Slotted, Reviewing, Settling,
         Reserving, FreshUnit, Untooled, UnlaunchedStates, LaunchedStates, ReviewerStates, Unit, WorkerPackets,
         ReviewerPacket
    <2> HIDE DEF q
    <2>3. QED BY <1>0, <2>1, <2>2, IntentStateNames, ObservationWrites DEF r
  <1>9. ASSUME NEW k \in UnitKinds, NEW next \in UnitStates, Outstanding(u, k),
               Observe(u, next, k, r), <<IntentStateForEffect[k], next>> \in KeptMoves,
               next # "resources_reserved"
        PROVE  Writes(u)
    BY <1>0, <1>9, KeptCarries, ObservationWrites
  <1>10. CASE \/ BranchObserved(u) \/ WorktreeObserved(u) \/ IntegrateRefused(u)
              \/ IntegrateObserved(u)
    <2>1. {"branch_observed", "worktree_observed", "approved", "landed"} \subseteq UnitStates
      BY DEF UnitStates, TerminalStates
    <2>2. QED BY <1>9, <1>10, <2>1, IntentStateNames
              DEF BranchObserved, WorktreeObserved, IntegrateRefused, IntegrateObserved,
                  Observable, Outstanding, KeptMoves
  <1>11. QED BY <1>1, <1>2, <1>3, <1>4, <1>5, <1>6, <1>7, <1>8, <1>10


LEMMA OutcomeWrites ==
    ASSUME CoreInv, HoldInv, NEW u \in Units,
           \/ WorkerCollected(u) \/ CandidateObserved(u) \/ CandidateRefused(u)
           \/ RefreshObserved(u) \/ RefreshFailed(u) \/ VerificationFailed(u)
           \/ ReviewCollected(u) \/ FailureObserved(u) \/ TimeoutObserved(u)
           \/ ParkObserved(u) \/ CancelObserved(u)
    PROVE  Writes(u)
  <1> DEFINE r == units[u]
  <1>0. r \in Unit /\ UnitObservation(u)
    BY DEF CoreInv, TypeOK, UnitObservation
  <1>1. \A b \in Bases, h \in Opt(Heads) :
            /\ <<b, h>> # None /\ <<b, h>>[2] = h /\ (h # None => h \in Heads)
    BY NoneAssumption, OptFacts
  <1>2. r.base \in Bases /\ r.cand \in Opt(Heads) /\ None \in Opt(Heads)
    BY <1>0, OptFacts DEF Unit
  <1> USE DEF UnitKinds
  <1>3. ASSUME NEW k \in UnitKinds, NEW next \in UnitStates, Outstanding(u, k),
               Observe(u, next, k, r),
               \/ <<IntentStateForEffect[k], next>> \in KeptMoves
               \/ /\ IntentStateForEffect[k] \in TerminalIntentStates
                  /\ next \in TerminalStates \ {"landed", "handoff"},
               next # "resources_reserved"
        PROVE  Writes(u)
    BY <1>0, <1>3, KeptCarries, ObservationWrites
  <1>4. CASE WorkerCollected(u)
    <2> DEFINE context == <<r.base, None>>
               q == [r EXCEPT !.repair = context]
    <2>1. /\ Outstanding(u, "worker_collect")
          /\ \/ Observe(u, "collected", "worker_collect", r)
             \/ \E next \in {"repair_required", "failed"} :
                    Observe(u, next, "worker_collect", q)
      BY <1>4 DEF WorkerCollected, Observable, Outstanding
    <2>2. CASE Observe(u, "collected", "worker_collect", r)
      BY <1>3, <2>1, <2>2, IntentStateNames DEF KeptMoves, UnitStates
    <2>3. ASSUME NEW next \in {"repair_required", "failed"},
                 Observe(u, next, "worker_collect", q)
          PROVE  Writes(u)
      <3>1. context # None /\ context[2] = None
        BY <1>1, <1>2
      <3> HIDE DEF r, context
      <3>2. Holds(r, "collect_intent") => Carries(r, [q EXCEPT !.state = next], next)
        BY <1>0, <3>1, StateSets DEF q, Carries, Holds, Tooled, Launched, Slotted, Reviewing, Settling,
         Reserving, Untooled, UnlaunchedStates, LaunchedStates, ReviewerStates, Unit, WorkerPackets,
         ReviewerPacket, WithoutReviewBindings, ValidRepairJudgment
      <3> HIDE DEF q
      <3>3. QED BY <1>0, <2>1, <2>3, <3>2, IntentStateNames, ObservationWrites DEF r
    <2>4. QED BY <2>1, <2>2, <2>3
  <1>5. CASE CandidateObserved(u)
    <2>1. PICK head \in Heads :
              Observe(u, "candidate_committed", "candidate_collect",
                      [WithoutReviewBindings(r) EXCEPT
                          !.recheck = FALSE, !.cand = head, !.diff = head])
      BY <1>5 DEF CandidateObserved
    <2>2. Outstanding(u, "candidate_collect")
      BY <1>5 DEF CandidateObserved, Observable, Outstanding
    <2> DEFINE q == [WithoutReviewBindings(r) EXCEPT
                       !.recheck = FALSE, !.cand = head, !.diff = head]
    <2> HIDE DEF r
    <2>3. Holds(r, "candidate_intent") =>
              Carries(r, [q EXCEPT !.state = "candidate_committed"], "candidate_committed")
      BY <1>0, StateSets DEF q, Carries, Holds, Tooled, Launched, Slotted, Reviewing, Settling,
         Reserving, Untooled, UnlaunchedStates, LaunchedStates, ReviewerStates, Unit, WorkerPackets,
         ReviewerPacket, WithoutReviewBindings, ValidRepairJudgment
    <2>4. Observe(u, "candidate_committed", "candidate_collect", q)
      BY <2>1 DEF r
    <2> HIDE DEF q
    <2>5. QED BY <1>0, <2>2, <2>3, <2>4, IntentStateNames, ObservationWrites DEF r
  <1>6. CASE CandidateRefused(u)
    <2>1. PICK head \in Heads :
              Observe(u, "repair_required", "candidate_collect",
                      [WithoutReviewBindings(r) EXCEPT
                          !.recheck = FALSE, !.diff = None, !.cand = head,
                          !.repair = <<r.base, head>>])
      BY <1>6 DEF CandidateRefused
    <2>2. Outstanding(u, "candidate_collect")
      BY <1>6 DEF CandidateRefused, Observable, Outstanding
    <2> DEFINE context == <<r.base, head>>
               q == [WithoutReviewBindings(r) EXCEPT
                       !.recheck = FALSE, !.diff = None, !.cand = head, !.repair = context]
    <2>3. context # None /\ context[2] = head
      BY <1>1, <1>2, OptFacts
    <2> HIDE DEF r, context
    <2>4. Holds(r, "candidate_intent") =>
              Carries(r, [q EXCEPT !.state = "repair_required"], "repair_required")
      BY <1>0, <2>3, StateSets DEF q, Carries, Holds, Tooled, Launched, Slotted, Reviewing, Settling,
         Reserving, Untooled, UnlaunchedStates, LaunchedStates, ReviewerStates, Unit, WorkerPackets,
         ReviewerPacket, WithoutReviewBindings, ValidRepairJudgment
    <2>5. Observe(u, "repair_required", "candidate_collect", q)
      BY <2>1 DEF r, context
    <2> HIDE DEF q
    <2>6. QED BY <1>0, <2>2, <2>4, <2>5, IntentStateNames, ObservationWrites DEF r
  <1>7. CASE RefreshObserved(u)
    <2> DEFINE q == [r EXCEPT !.refresh = None, !.base = r.refresh]
    <2>1. /\ Outstanding(u, "candidate_refresh")
          /\ \/ /\ RefreshIsFastForward(r)
                /\ Observe(u, "worktree_observed", "candidate_refresh", q)
             \/ /\ ~ RefreshIsFastForward(r)
                /\ Observe(u, "collected", "candidate_refresh", Rebased(r))
      BY <1>7 DEF RefreshObserved, Observable, Outstanding
    <2> HIDE DEF r
    <2>2. RefreshIsFastForward(r) /\ Holds(r, "refresh_intent") =>
              Carries(r, [q EXCEPT !.state = "worktree_observed"], "worktree_observed")
      BY <1>0, StateSets DEF q, Carries, Holds, Tooled, Launched, Slotted, Reviewing, Settling,
         Reserving, Untooled, UnlaunchedStates, LaunchedStates, ReviewerStates, Unit, WorkerPackets,
         ReviewerPacket, WithoutReviewBindings, ValidRepairJudgment, RefreshIsFastForward
    <2>3. ~ RefreshIsFastForward(r) /\ Holds(r, "refresh_intent") =>
              Carries(r, [Rebased(r) EXCEPT !.state = "collected"], "collected")
      BY <1>0, RebaseCarries
    <2> HIDE DEF q
    <2>4. QED BY <1>0, <2>1, <2>2, <2>3, IntentStateNames, ObservationWrites DEF r
  <1>8. CASE RefreshFailed(u)
    <2>1. PICK head \in Heads :
              Observe(u, "repair_required", "candidate_refresh",
                      [WithoutReviewBindings(r) EXCEPT
                          !.cand = head, !.repair = <<r.base, head>>])
      BY <1>8 DEF RefreshFailed
    <2>2. Outstanding(u, "candidate_refresh")
      BY <1>8 DEF RefreshFailed, Observable, Outstanding
    <2> DEFINE context == <<r.base, head>>
               q == [WithoutReviewBindings(r) EXCEPT !.cand = head, !.repair = context]
    <2>3. context # None /\ context[2] = head
      BY <1>1, <1>2, OptFacts
    <2> HIDE DEF r, context
    <2>4. Holds(r, "refresh_intent") =>
              Carries(r, [q EXCEPT !.state = "repair_required"], "repair_required")
      BY <1>0, <2>3, StateSets DEF q, Carries, Holds, Tooled, Launched, Slotted, Reviewing, Settling,
         Reserving, Untooled, UnlaunchedStates, LaunchedStates, ReviewerStates, Unit, WorkerPackets,
         ReviewerPacket, WithoutReviewBindings, ValidRepairJudgment
    <2>5. Observe(u, "repair_required", "candidate_refresh", q)
      BY <2>1 DEF r, context
    <2> HIDE DEF q
    <2>6. QED BY <1>0, <2>2, <2>4, <2>5, IntentStateNames, ObservationWrites DEF r
  <1>9. CASE VerificationFailed(u)
    <2> DEFINE context == <<r.base, r.cand>>
               q == [r EXCEPT !.repair = context]
    <2>1. Outstanding(u, "verify") /\ Observe(u, "repair_required", "verify", q)
      BY <1>9 DEF VerificationFailed, Observable, Outstanding
    <2>2. context # None /\ context[2] = r.cand
      BY <1>1, <1>2
    <2> HIDE DEF r, context
    <2>3. Holds(r, "verification_intent") =>
              Carries(r, [q EXCEPT !.state = "repair_required"], "repair_required")
      BY <1>0, <2>2, StateSets DEF q, Carries, Holds, Tooled, Launched, Slotted, Reviewing, Settling,
         Reserving, Untooled, UnlaunchedStates, LaunchedStates, ReviewerStates, Unit, WorkerPackets,
         ReviewerPacket, WithoutReviewBindings, ValidRepairJudgment
    <2> HIDE DEF q
    <2>4. QED BY <1>0, <2>1, <2>3, IntentStateNames, ObservationWrites DEF r
  <1>10. CASE ReviewCollected(u)
    <2> DEFINE judged == JudgedPair(r)
               approved == [r EXCEPT !.review = judged]
               q == [WithoutReviewBindings(r) EXCEPT !.repair = judged]
    <2>1. /\ Outstanding(u, "review_collect") /\ judged \in Pair
          /\ \/ Observe(u, "approved", "review_collect", approved)
             \/ Observe(u, "repair_required", "review_collect", q)
      BY <1>10 DEF ReviewCollected, Observable, Outstanding
    <2>2. judged # None /\ judged[2] = r.cand
      BY <2>1, NoneAssumption DEF JudgedPair
    <2> HIDE DEF r, judged
    <2>3. Holds(r, "review_collect_intent") =>
              Carries(r, [approved EXCEPT !.state = "approved"], "approved")
      BY <1>0, StateSets DEF Carries, Holds, Tooled, Launched, Slotted, Reviewing, Settling,
         Reserving, Untooled, UnlaunchedStates, LaunchedStates, ReviewerStates, Unit, WorkerPackets,
         ReviewerPacket, WithoutReviewBindings, ValidRepairJudgment
    <2>4. Holds(r, "review_collect_intent") =>
              Carries(r, [q EXCEPT !.state = "repair_required"], "repair_required")
      BY <1>0, <2>2, StateSets DEF q, Carries, Holds, Tooled, Launched, Slotted, Reviewing, Settling,
         Reserving, Untooled, UnlaunchedStates, LaunchedStates, ReviewerStates, Unit, WorkerPackets,
         ReviewerPacket, WithoutReviewBindings, ValidRepairJudgment
    <2> HIDE DEF q, approved
    <2>5. QED BY <1>0, <2>1, <2>3, <2>4, IntentStateNames, ObservationWrites DEF r
  <1>11. ASSUME NEW k \in TerminalKinds, NEW event,
                NEW next \in TerminalStates \ {"landed", "handoff"},
                TerminalObserved(u, k, event, next)
         PROVE  Writes(u)
    <2> DEFINE context == <<IF r.ver = None THEN r.base ELSE r.ver[1], r.cand>>
               q == [r EXCEPT !.repair = context]
    <2>1. /\ Outstanding(u, k)
          /\ Observe(u, next, k, r) \/ Observe(u, next, k, q)
      BY <1>11 DEF TerminalObserved, FailureRepairContext, Observable, Outstanding
    <2>2. /\ k \in UnitKinds /\ IntentStateForEffect[k] \in TerminalIntentStates
          /\ next \in UnitStates /\ next # "resources_reserved"
      BY <1>11, TerminalIntentFacts
         DEF TerminalKinds, TerminalIntentStates, TerminalStates, UnitStates
    <2> HIDE DEF r, context
    <2>3. Holds(r, IntentStateForEffect[k]) => Carries(r, [q EXCEPT !.state = next], next)
      <3>1. next \in {"failed", "timed_out", "parked", "cancelled"}
        BY DEF TerminalStates
      <3>2. QED BY <1>0, <2>2, <3>1, StateSets DEF q, Carries, Holds, Tooled, Launched, Slotted, Reviewing, Settling,
         Reserving, Untooled, UnlaunchedStates, LaunchedStates, ReviewerStates, Unit, WorkerPackets,
         ReviewerPacket, WithoutReviewBindings, ValidRepairJudgment
    <2> HIDE DEF q
    <2>4. CASE Observe(u, next, k, q)
      BY <1>0, <2>1, <2>2, <2>3, <2>4, ObservationWrites DEF r
    <2>5. QED BY <1>3, <2>1, <2>2, <2>4 DEF r
  <1>12. CASE FailureObserved(u) \/ TimeoutObserved(u) \/ ParkObserved(u) \/ CancelObserved(u)
    BY <1>11, <1>12 DEF FailureObserved, TimeoutObserved, ParkObserved, CancelObserved,
                        TerminalStates, TerminalKinds
  <1>13. QED BY <1>4, <1>5, <1>6, <1>7, <1>8, <1>9, <1>10, <1>12

LEMMA UnitObservationWrites ==
    ASSUME CoreInv, HoldInv, NEW u \in Units, UnitObservation(u)
    PROVE  Writes(u)
  BY PlainObservationWrites, OutcomeWrites DEF UnitObservation


-----------------------------------------------------------------------------
(* Holdings through every event *)

(* What a step may do to a unit's verdict: see MovementInvalidatesVerdict.    *)
Verdicts ==
    \A u \in Units : units'[u].base # units[u].base \/ units'[u].cand # units[u].cand
                         => units'[u].review = None /\ units'[u].rpacket = None

HoldingInv == HoldInv /\ AcquiredInv

LEMMA WritesKeepHoldings ==
    ASSUME HoldingInv, NEW u \in Units, Writes(u)
    PROVE  HoldingInv' /\ Verdicts
  <1> USE DEF HoldingInv
  <1>1. PICK a, b : /\ Moved(u, a, b) /\ Carries(units[u], units'[u], b)
                    /\ b = "resources_reserved" => Acquired(u) \in journal'
    BY DEF Writes
  <1>2. HoldInv'
    <2> SUFFICES ASSUME NEW v \in Units, NEW s \in Positions, At(v, s)'
                 PROVE  Holds(units'[v], s)
      BY DEF HoldInv
    <2>1. CASE v = u
      <3>1. s = b
        BY <1>1, <2>1 DEF Moved, At, Positions
      <3>2. QED BY <1>1, <2>1, <3>1 DEF Carries
    <2>2. CASE v # u
      BY <1>1, <2>2 DEF Moved, Writes, HoldInv
    <2>3. QED BY <2>1, <2>2
  <1>3. AcquiredInv'
    <2> SUFFICES ASSUME NEW v \in Units, units'[v].resState = "reserved"
                 PROVE  Acquired(v) \in journal'
      BY DEF AcquiredInv, Acquired
    <2>1. CASE v = u
      BY <1>1, <2>1 DEF Carries, Writes, AcquiredInv
    <2>2. CASE v # u
      BY <2>2 DEF Writes, AcquiredInv
    <2>3. QED BY <2>1, <2>2
  <1>4. Verdicts
    BY <1>1 DEF Carries, Writes, Verdicts
  <1>5. QED BY <1>2, <1>3, <1>4

(* An event that moves no unit. *)
Still ==
    /\ UNCHANGED units
    /\ \A e \in journal' : e.unit \in Units => e \in journal
    /\ \A v \in Units : units[v].resState = "reserved" /\ Acquired(v) \in journal
                            => Acquired(v) \in journal'

LEMMA StillKeepsHoldings ==
    ASSUME HoldingInv, Still
    PROVE  HoldingInv' /\ Verdicts
  <1>1. \A v \in Units : \A s \in Positions : At(v, s)' => At(v, s)
    BY EntryFacts DEF At, Still
  <1>2. QED BY <1>1 DEF HoldingInv, HoldInv, AcquiredInv, Acquired, Verdicts, Still

LEMMA NoUnitStill ==
    ASSUME \/ ControllerAcquireIntent \/ ControllerReleaseIntent \/ ControllerObservation
           \/ HarnessConfigured \/ WavePlanned \/ UNCHANGED vars
    PROVE  Still
  <1>1. CASE ControllerAcquireIntent \/ ControllerReleaseIntent
    <2>1. PICK k : UNCHANGED units /\ AppendIntent(None, k)
      BY <1>1 DEF ControllerAcquireIntent, ControllerReleaseIntent, ControllerIntent
    <2>2. \A e \in journal' : e.unit \in Units => e \in journal
      BY <2>1, AppendIntentFacts, EntryFacts, NoneAssumption
    <2>3. \A v \in Units : units[v].resState = "reserved" /\ Acquired(v) \in journal
                              => Acquired(v) \in journal'
      BY <2>1, EntryFacts DEF AppendIntent, Anchored, Acquired
    <2>4. QED BY <2>1, <2>2, <2>3 DEF Still
  <1>2. CASE ControllerObservation
    <2>1. PICK k : UNCHANGED units /\ MarkObserved(None, k)
      BY <1>2 DEF ControllerObservation, ControllerAcquired, ControllerReleased
    <2>2. \A e \in journal' : e.unit \in Units => e \in journal
      BY <2>1, MarkObservedFacts, EntryFacts, NoneAssumption
    <2>3. \A v \in Units : Acquired(v) \in journal => Acquired(v) \in journal'
      BY <2>1, MarkObservedFacts, EntryFacts DEF Acquired
    <2>4. QED BY <2>1, <2>2, <2>3 DEF Still
  <1>3. CASE HarnessConfigured \/ WavePlanned \/ UNCHANGED vars
    BY <1>3 DEF HarnessConfigured, WavePlanned, vars, Still
  <1>4. QED BY <1>1, <1>2, <1>3

(* A unit that blocks keeps its position and everything else of its record.  *)
LEMMA AmbiguityKeepsPositions ==
    ASSUME IndInv, NEW e \in journal, EffectAmbiguous(e)
    PROVE  /\ \A v \in Units : \A s \in Positions : At(v, s)' => At(v, s)
           /\ \A v \in Units : \/ units'[v] = units[v]
                               \/ /\ units'[v] = [units[v] EXCEPT !.state = "blocked"]
                                  /\ v = e.unit
           /\ e.unit # None => /\ e.unit \in Units /\ e.kind \in UnitKinds
                               /\ units[e.unit].state = IntentStateForEffect[e.kind]
                               /\ units'[e.unit] =
                                      [units[e.unit] EXCEPT !.state = "blocked"]
           /\ \A v \in Units : Acquired(v) \in journal => Acquired(v) \in journal'
           /\ UNCHANGED owners
  <1> USE DEF IndInv
  <1>0. /\ IndInv' /\ UNCHANGED owners /\ e \in Entries
        /\ e.status = "intended" /\ Unresolved(e)
        /\ journal' = (journal \ {e}) \cup {[e EXCEPT !.status = "ambiguous"]}
    BY EffectAmbiguousKeeps DEF EffectAmbiguous, TypeOK, Unresolved
  <1>1. /\ \A f \in journal' : f \in journal \/ (f.unit = e.unit /\ f.kind = e.kind)
        /\ \A f \in journal : f # e => f \in journal'
    BY <1>0 DEF Entries
  <1>2. \A v \in Units : Acquired(v) \in journal => Acquired(v) \in journal'
    BY <1>0, <1>1, EntryFacts DEF Acquired
  <1>3. CASE e.unit = None
    <2>1. UNCHANGED units
      BY <1>0, <1>3 DEF EffectAmbiguous
    <2>2. \A v \in Units : \A k : Entry(v, k, "ambiguous") \in journal'
              => Entry(v, k, "ambiguous") \in journal
      BY <1>1, <1>3, EntryFacts, NoneAssumption
    <2>3. QED BY <1>0, <1>2, <1>3, <2>1, <2>2 DEF At
  <1>4. CASE e.unit # None
    <2> DEFINE u == e.unit
    <2>1. u \in Units /\ e.kind \in UnitKinds /\ units[u].state = IntentStateForEffect[e.kind]
      BY <1>0, <1>4, OptFacts DEF JournalInv, Entries
    <2>2. /\ units'[u] = [units[u] EXCEPT !.state = "blocked"]
          /\ \A v \in Units : v # u => units'[v] = units[v]
      BY <1>4, <2>1 DEF EffectAmbiguous, TypeOK, BlockUnit
    <2>3. units'[u].state = "blocked"
      BY <2>1, <2>2 DEF TypeOK, Unit
    <2>4. ASSUME NEW v \in Units, NEW s \in Positions, At(v, s)' PROVE At(v, s)
      <3>1. CASE v # u
        <4>1. \A k : Entry(v, k, "ambiguous") \in journal' => Entry(v, k, "ambiguous") \in journal
          BY <1>1, <3>1, EntryFacts
        <4>2. QED BY <2>2, <2>4, <3>1, <4>1 DEF At
      <3>2. CASE v = u
        <4>1. PICK k \in UnitKinds : /\ IntentStateForEffect[k] = s
                                     /\ Entry(v, k, "ambiguous") \in journal'
          BY <2>3, <2>4, <3>2 DEF At, Positions
        <4>2. [e EXCEPT !.status = "ambiguous"] = Entry(v, e.kind, "ambiguous")
          BY <1>0, <3>2 DEF Entries, Entry
        <4>3. e.kind = k
          BY <1>0, <4>1, <4>2, EntryFacts DEF JournalInv, Unresolved
        <4>4. QED BY <2>1, <3>2, <4>1, <4>3 DEF At
      <3>3. QED BY <3>1, <3>2
    <2>5. QED BY <1>0, <1>2, <2>1, <2>2, <2>4
  <1>5. QED BY <1>3, <1>4

LEMMA AmbiguityKeepsHoldings ==
    ASSUME IndInv, HoldingInv, NEW e \in journal, EffectAmbiguous(e)
    PROVE  HoldingInv' /\ Verdicts
  <1> USE DEF HoldingInv
  <1>1. HoldInv'
    <2> SUFFICES ASSUME NEW v \in Units, NEW s \in Positions, At(v, s)'
                 PROVE  Holds(units'[v], s)
      BY DEF HoldInv
    <2>1. At(v, s) /\ Holds(units[v], s) /\ units[v] \in Unit
      BY AmbiguityKeepsPositions DEF HoldInv, IndInv, TypeOK
    <2>2. units'[v] = units[v] \/ units'[v] = [units[v] EXCEPT !.state = "blocked"]
      BY AmbiguityKeepsPositions
    <2>3. QED BY <2>1, <2>2, StateIgnored
  <1>2. \A v \in Units : /\ units'[v].resState = units[v].resState
                         /\ units'[v].base = units[v].base /\ units'[v].cand = units[v].cand
    <2> TAKE v \in Units
    <2>1. units[v] \in Unit
      BY DEF IndInv, TypeOK
    <2>2. units'[v] = units[v] \/ units'[v] = [units[v] EXCEPT !.state = "blocked"]
      BY AmbiguityKeepsPositions
    <2>3. QED BY <2>1, <2>2 DEF Unit
  <1>3. AcquiredInv'
    BY <1>2, AmbiguityKeepsPositions DEF AcquiredInv, Acquired
  <1>4. QED BY <1>1, <1>2, <1>3 DEF Verdicts

LEMMA ScopeKeepsHoldings ==
    ASSUME TypeOK, HoldingInv, NEW u \in Units, RepairScopeExtended(u)
    PROVE  HoldingInv' /\ Verdicts
  <1> USE DEF HoldingInv
  <1> DEFINE r == units[u]
             q == [WithoutReviewBindings(r) EXCEPT
                     !.wpacket = None, !.ver = None, !.scope = @ + 1]
  <1>1. /\ UNCHANGED journal /\ r.state = "repair_required" /\ units'[u] = q
        /\ \A v \in Units : v # u => units'[v] = units[v]
    BY DEF RepairScopeExtended, RepairScopeExtensionEligible, TypeOK
  <1>2. r \in Unit
    BY DEF TypeOK
  <1>3. Holds(r, "repair_required")
    BY <1>1 DEF HoldInv, At, Positions, UnitStates
  <1> HIDE DEF r
  <1>4. /\ q.state = r.state /\ Holds(q, "repair_required")
        /\ q.base = r.base /\ q.cand = r.cand /\ q.resState = r.resState
    BY <1>2, <1>3, StateSets DEF Holds, Tooled, Launched, Slotted, Reviewing, Settling, Reserving,
       Untooled, UnlaunchedStates, LaunchedStates, ReviewerStates, Unit, WithoutReviewBindings,
       ValidRepairJudgment
  <1> HIDE DEF q
  <1>5. HoldInv'
    <2> SUFFICES ASSUME NEW v \in Units, NEW s \in Positions, At(v, s)'
                 PROVE  Holds(units'[v], s)
      BY DEF HoldInv
    <2>1. CASE v = u
      <3>1. s = "repair_required"
        BY <1>1, <1>4, <2>1 DEF At
      <3>2. QED BY <1>1, <1>4, <2>1, <3>1
    <2>2. CASE v # u
      BY <1>1, <2>2 DEF At, HoldInv
    <2>3. QED BY <2>1, <2>2
  <1>6. AcquiredInv'
    BY <1>1, <1>4 DEF AcquiredInv, Acquired, r
  <1>7. Verdicts
    BY <1>1, <1>4 DEF Verdicts, r
  <1>8. QED BY <1>5, <1>6, <1>7

LEMMA NextKeepsHoldings ==
    ASSUME IndInv, HoldingInv, [Next]_vars
    PROVE  HoldingInv' /\ Verdicts
  <1>0. CoreInv /\ TypeOK
    BY DEF CoreInv, IndInv
  <1>1. CASE \/ ControllerAcquireIntent \/ ControllerReleaseIntent
             \/ ControllerObservation \/ HarnessConfigured \/ WavePlanned \/ UNCHANGED vars
    BY <1>1, NoUnitStill, StillKeepsHoldings
  <1>2. ASSUME NEW u \in Units, UnitIntent(u) \/ UnitObservation(u)
        PROVE  HoldingInv' /\ Verdicts
    BY <1>0, <1>2, UnitIntentWrites, UnitObservationWrites, WritesKeepHoldings DEF HoldingInv
  <1>3. ASSUME NEW u \in Units, RepairScopeExtended(u) PROVE HoldingInv' /\ Verdicts
    BY <1>0, <1>3, ScopeKeepsHoldings
  <1>4. ASSUME NEW e \in journal, EffectAmbiguous(e) PROVE HoldingInv' /\ Verdicts
    BY <1>4, AmbiguityKeepsHoldings
  <1>5. QED BY <1>1, <1>2, <1>3, <1>4 DEF Next, Released

LEMMA InitHolds == Init => HoldingInv
  <1> SUFFICES ASSUME Init PROVE HoldingInv
    OBVIOUS
  <1>1. PICK b \in Bases : \A u \in Units : units[u] = FreshUnit(b)
    BY DEF Init
  <1>2. Holds(FreshUnit(b), "planned") /\ FreshUnit(b).state = "planned"
        /\ FreshUnit(b).resState = "none"
    BY StateSets DEF Holds, Tooled, Launched, Slotted, Reviewing, Settling, Reserving, Untooled,
       LaunchedStates, ReviewerStates, FreshUnit
  <1>3. QED BY <1>1, <1>2 DEF HoldingInv, HoldInv, AcquiredInv, At

-----------------------------------------------------------------------------
(* Stopped sessions: a unit being stopped by a terminal act still has the      *)
(* session the act has to stop                                               *)

Stopped(u, s) ==
    s \in TerminalIntentStates => MatchesTerminalSession(u)

StoppedInv == \A u \in Units : \A s \in Positions : At(u, s) => Stopped(u, s)

LEMMA OtherIntentsStopNothing ==
    ASSUME CoreInv, NEW u \in Units, UnitIntent(u),
           \A k \in TerminalKinds : ~ TerminalIntent(u, k)
    PROVE  units'[u].state \notin TerminalIntentStates
  <1>0. \A k \in UnitKinds : \A next, r :
            CanIntend(u) /\ Emit(u, next, k, r) => units'[u].state = next
    BY IntentMoves DEF Moved
  <1> USE DEF UnitKinds
  <1>1. CASE \/ ReservationIntent(u) \/ BranchIntent(u) \/ WorktreeIntent(u)
             \/ DispatchIntent(u) \/ CollectIntent(u) \/ CandidateIntent(u)
    <2>1. units'[u].state \in {"reservation_intent", "branch_intent", "worktree_intent",
                               "dispatch_intent", "collect_intent", "candidate_intent"}
      BY <1>0, <1>1 DEF ReservationIntent, BranchIntent, WorktreeIntent, DispatchIntent,
         ModifyingIntent, CollectIntent, CandidateIntent
    <2>2. QED BY <2>1, TerminalIntentFacts
  <1>2. CASE \/ CandidateRecheckIntent(u) \/ RefreshIntent(u) \/ VerificationIntent(u)
             \/ ReviewerDispatchIntent(u) \/ ReviewCollectIntent(u)
    <2>1. units'[u].state \in {"candidate_intent", "refresh_intent", "verification_intent",
                               "reviewer_dispatch_intent", "review_collect_intent"}
      BY <1>0, <1>2 DEF CandidateRecheckIntent, RefreshIntent, VerificationIntent,
         ReviewerDispatchIntent, ReviewCollectIntent
    <2>2. QED BY <2>1, TerminalIntentFacts
  <1>3. CASE \/ PublishIntent(u) \/ IntegrateIntent(u) \/ ReservationReleaseIntent(u)
             \/ RepairIntent(u)
    <2>1. units'[u].state \in {"publish_intent", "integrate_intent",
                               "reservation_release_intent", "repair_intent"}
      BY <1>0, <1>3 DEF PublishIntent, IntegrateIntent, ReservationReleaseIntent,
         RepairIntent, ModifyingIntent
    <2>2. QED BY <2>1, TerminalIntentFacts
  <1>4. QED BY <1>1, <1>2, <1>3 DEF UnitIntent, FailureIntent, TimeoutIntent, ParkIntent,
               CancelIntent, TerminalKinds

(* A terminal intent takes a unit whose session, if it occupies a slot, was    *)
(* observed: dispatched for a worker, reviewer_dispatched for a reviewer.     *)
LEMMA TerminalIntentStops ==
    ASSUME CoreInv, SeatInv, HoldInv, NEW u \in Units, NEW kind \in TerminalKinds,
           TerminalIntent(u, kind)
    PROVE  IF currentReviewer' = u THEN units'[u].rsess ELSE u \in active' => units'[u].wsess
  <1> DEFINE a == units[u].state
  <1>1. CanEnterTerminalIntent(a)
    BY DEF TerminalIntent
  <1>2. a \in Positions /\ At(u, a)
    BY <1>1 DEF CanEnterTerminalIntent, Positions, CoreInv, TypeOK, Unit, At
  <1>3. Sits(u, a) /\ Holds(units[u], a)
    BY <1>2 DEF SeatInv, HoldInv
  <1>4. a \notin TerminalIntentStates
    BY <1>1, TerminalIntentFacts DEF CanEnterTerminalIntent
  <1>5. UNCHANGED <<currentReviewer, active>>
    BY DEF TerminalIntent
  <1>6. units'[u].rsess = units[u].rsess /\ units'[u].wsess = units[u].wsess
    <2>1. units[u] \in Unit
      BY DEF CoreInv, TypeOK
    <2>2. units'[u] = [units[u] EXCEPT !.state = IntentStateForEffect[kind]]
      BY DEF TerminalIntent, Emit, CoreInv, TypeOK
    <2>3. QED BY <2>1, <2>2 DEF Unit
  <1>7. CASE currentReviewer = u
    <2>1. a = "reviewer_dispatched"
      BY <1>1, <1>3, <1>4, <1>7 DEF Sits, Stopping, ReviewerStates, CanEnterTerminalIntent
    <2>2. QED BY <1>3, <1>5, <1>6, <1>7, <2>1 DEF Holds, Reviewing
  <1>8. CASE currentReviewer # u /\ u \in active
    <2>1. a = "dispatched"
      BY <1>1, <1>3, <1>4, <1>8 DEF Sits, WorkingStates, CanEnterTerminalIntent
    <2>2. QED BY <1>3, <1>5, <1>6, <1>8, <2>1 DEF Holds, Launched, LaunchedStates
  <1>9. QED BY <1>5, <1>7, <1>8

LEMMA UnitEventStops ==
    ASSUME CoreInv, SeatInv, HoldInv, StoppedInv, NEW u \in Units,
           UnitIntent(u) \/ UnitObservation(u)
    PROVE  StoppedInv'
  <1>1. PICK a, b : Moved(u, a, b)
    BY UnitIntentWrites, UnitObservationWrites DEF Writes
  <1>2. Apart(u) /\ \A v \in Units : v # u => units'[v] = units[v]
    BY UnitIntentKeepsSeats, UnitObservationKeepsSeats, UnitIntentWrites,
       UnitObservationWrites DEF Writes
  <1>3. Stopped(u, b)'
    <2>1. CASE UnitIntent(u) /\ \A k \in TerminalKinds : ~ TerminalIntent(u, k)
      BY <1>1, <2>1, OtherIntentsStopNothing DEF Stopped, Moved
    <2>2. ASSUME NEW k \in TerminalKinds, TerminalIntent(u, k) PROVE Stopped(u, b)'
      BY <2>2, TerminalIntentStops DEF Stopped, MatchesTerminalSession
    <2>3. CASE UnitObservation(u)
      <3>1. PICK k \in UnitKinds, r \in Unit : ObserveWith(u, k, r)
        BY <2>3, UnitObservationShape DEF ObserveStep
      <3>2. units'[u].state \in RestStates
        BY <3>1 DEF ObserveWith, CoreInv, TypeOK
      <3>3. b \notin TerminalIntentStates
        BY <1>1, <3>2, TerminalIntentFacts
           DEF Moved, RestStates, IntentStates, IntentStateForEffect, UnitKinds
      <3>4. QED BY <3>3 DEF Stopped, MatchesTerminalSession
    <2>4. QED BY <2>1, <2>2, <2>3
  <1>4. QED
    <2> SUFFICES ASSUME NEW v \in Units, NEW s \in Positions, At(v, s)'
                 PROVE  Stopped(v, s)'
      BY DEF StoppedInv
    <2>1. CASE v = u
      <3>1. s = b
        BY <1>1, <2>1 DEF Moved, At, Positions
      <3>2. QED BY <1>3, <2>1, <3>1
    <2>2. CASE v # u
      <3>1. Stopped(v, s) /\ units'[v] = units[v] /\ Beside(v)
        BY <1>1, <1>2, <2>2 DEF Moved, StoppedInv, Apart
      <3>2. QED BY <3>1 DEF Stopped, MatchesTerminalSession, Beside
    <2>3. QED BY <2>1, <2>2

(* An event that leaves the owners, the sessions and the positions alone. *)
LEMMA SameSeatsStop ==
    ASSUME StoppedInv, UNCHANGED owners,
           \A v \in Units : /\ units'[v].rsess = units[v].rsess
                            /\ units'[v].wsess = units[v].wsess
                            /\ \A s \in Positions : At(v, s)' => At(v, s)
    PROVE  StoppedInv'
  BY DEF StoppedInv, Stopped, MatchesTerminalSession, owners

LEMMA NextKeepsStopped ==
    ASSUME IndInv, SeatsInv, HoldingInv, StoppedInv, [Next]_vars
    PROVE  StoppedInv'
  <1>0. CoreInv /\ TypeOK /\ SeatInv /\ HoldInv
    BY DEF CoreInv, IndInv, SeatsInv, HoldingInv
  <1>1. CASE \/ ControllerAcquireIntent \/ ControllerReleaseIntent
             \/ ControllerObservation \/ HarnessConfigured \/ WavePlanned \/ UNCHANGED vars
    <2>1. Still
      BY <1>1, NoUnitStill
    <2>2. UNCHANGED owners
      BY <1>1 DEF ControllerAcquireIntent, ControllerReleaseIntent, ControllerIntent,
         ControllerObservation, ControllerAcquired, ControllerReleased, HarnessConfigured,
         WavePlanned, vars
    <2>3. \A v \in Units : \A s \in Positions : At(v, s)' => At(v, s)
      BY <2>1, EntryFacts DEF At, Still
    <2>4. QED BY <2>1, <2>2, <2>3, SameSeatsStop DEF Still
  <1>2. ASSUME NEW u \in Units, UnitIntent(u) \/ UnitObservation(u) PROVE StoppedInv'
    BY <1>0, <1>2, UnitEventStops
  <1>3. ASSUME NEW u \in Units, RepairScopeExtended(u) PROVE StoppedInv'
    <2>1. /\ UNCHANGED <<owners, journal>> /\ units[u].state = "repair_required"
          /\ units'[u] = [WithoutReviewBindings(units[u]) EXCEPT
                             !.wpacket = None, !.ver = None, !.scope = @ + 1]
          /\ \A v \in Units : v # u => units'[v] = units[v]
      BY <1>3, <1>0 DEF RepairScopeExtended, RepairScopeExtensionEligible, TypeOK
    <2>2. units[u] \in Unit
      BY <1>0 DEF TypeOK
    <2>3. units'[u].state = "repair_required"
      BY <2>1, <2>2 DEF WithoutReviewBindings, Unit
    <2> SUFFICES ASSUME NEW v \in Units, NEW s \in Positions, At(v, s)'
                 PROVE  Stopped(v, s)'
      BY DEF StoppedInv
    <2>4. CASE v = u
      <3>1. s = "repair_required"
        BY <2>3, <2>4 DEF At
      <3>2. QED BY <3>1, TerminalIntentFacts DEF Stopped, MatchesTerminalSession
    <2>5. CASE v # u
      BY <2>1, <2>5 DEF StoppedInv, Stopped, MatchesTerminalSession, At, owners
    <2>6. QED BY <2>4, <2>5
  <1>4. ASSUME NEW e \in journal, EffectAmbiguous(e) PROVE StoppedInv'
    <2>1. \A v \in Units : /\ units'[v].rsess = units[v].rsess
                           /\ units'[v].wsess = units[v].wsess
      <3> TAKE v \in Units
      <3>1. units[v] \in Unit
        BY <1>0 DEF TypeOK
      <3>2. units'[v] = units[v] \/ units'[v] = [units[v] EXCEPT !.state = "blocked"]
        BY <1>4, AmbiguityKeepsPositions
      <3>3. QED BY <3>1, <3>2 DEF Unit
    <2>2. UNCHANGED owners /\ \A v \in Units : \A s \in Positions : At(v, s)' => At(v, s)
      BY <1>4, AmbiguityKeepsPositions
    <2>3. QED BY <2>1, <2>2, SameSeatsStop
  <1>5. QED BY <1>1, <1>2, <1>3, <1>4 DEF Next, Released

LEMMA InitStopped == Init => StoppedInv
  <1> SUFFICES ASSUME Init PROVE StoppedInv
    OBVIOUS
  <1>1. \A u \in Units : units[u].state = "planned"
    BY DEF Init, FreshUnit
  <1>2. QED BY <1>1, TerminalIntentFacts DEF StoppedInv, Stopped, MatchesTerminalSession, At

-----------------------------------------------------------------------------
(* Closure evidence: exactly the units that ended have it, and it says what    *)
(* they ended with                                                           *)

EvidenceStates == TerminalStates \cup {"reservation_release_intent", "closed"}

Evidenced(c, r, s) ==
    /\ c # None <=> s \in EvidenceStates
    /\ c # None =>
        /\ c.base = r.base
        /\ c.final <=> s = "closed"
        /\ Successful(c.outcome) =>
              /\ c.ver = <<c.base, c.cand>>
              /\ c.review = <<c.base, c.cand>>
        /\ s \in TerminalStates => c.release = "none"
        /\ s = "reservation_release_intent" =>
              c.release = IF r.res = {} THEN "none"
                          ELSE IF r.state = "blocked" THEN "ambiguous" ELSE "intended"
        /\ s = "closed" => c.release \in {"none", "observed"}

EvidenceInv ==
    \A u \in Units : \A s \in Positions : At(u, s) => Evidenced(closed[u], units[u], s)

(* A unit event leaves evidence the unit's next position calls for. *)
Records(u) ==
    /\ \E a, b : /\ Moved(u, a, b)
                 /\ Evidenced(closed[u], units[u], a) => Evidenced(closed'[u], units'[u], b)
    /\ \A v \in Units : v # u => units'[v] = units[v] /\ closed'[v] = closed[v]

LEMMA RecordsKeepEvidence ==
    ASSUME EvidenceInv, NEW u \in Units, Records(u)
    PROVE  EvidenceInv'
  <1>1. PICK a, b : /\ Moved(u, a, b)
                    /\ Evidenced(closed[u], units[u], a)
                           => Evidenced(closed'[u], units'[u], b)
    BY DEF Records
  <1> SUFFICES ASSUME NEW v \in Units, NEW s \in Positions, At(v, s)'
               PROVE  Evidenced(closed'[v], units'[v], s)
    BY DEF EvidenceInv
  <1>2. CASE v = u
    <2>1. s = b
      BY <1>1, <1>2 DEF Moved, At, Positions
    <2>2. Evidenced(closed[u], units[u], a)
      BY <1>1 DEF Moved, EvidenceInv
    <2>3. QED BY <1>1, <1>2, <2>1, <2>2
  <1>3. CASE v # u
    <2>1. At(v, s) /\ units'[v] = units[v] /\ closed'[v] = closed[v]
      BY <1>1, <1>3 DEF Moved, Records
    <2>2. QED BY <2>1 DEF EvidenceInv
  <1>4. QED BY <1>2, <1>3

LEMMA PersistedEvidence ==
    ASSUME TypeOK, NEW u \in Units, NEW outcome \in TerminalStates,
           PersistTerminalClosureEvidence(u, outcome), units'[u].base = units[u].base,
           Successful(outcome) => /\ units[u].ver = <<units[u].base, units[u].cand>>
                                  /\ units[u].review = <<units[u].base, units[u].cand>>
    PROVE  Evidenced(closed'[u], units'[u], outcome)
  <1> DEFINE r == units[u]
             c == [outcome |-> outcome, base |-> r.base, cand |-> r.cand,
                   ver    |-> IF Successful(outcome) THEN r.ver ELSE None,
                   review |-> IF Successful(outcome) THEN r.review ELSE None,
                   release |-> "none", final |-> FALSE]
  <1>1. r \in Unit
    BY DEF TypeOK
  <1>2. closed'[u] = c
    BY DEF PersistTerminalClosureEvidence, ClosureEvidenceFor, TypeOK
  <1>3. c \in Closures /\ c # None
    <2>1. /\ r.base \in Bases /\ r.cand \in Opt(Heads) /\ r.ver \in Opt(Pair)
          /\ r.review \in Opt(Pair) /\ None \in Opt(Pair)
      BY <1>1, OptFacts DEF Unit
    <2> HIDE DEF r
    <2>2. c \in Closures
      BY <2>1 DEF Closures
    <2>3. QED BY <2>2, NoneAssumption
  <1>4. outcome \in EvidenceStates /\ outcome # "closed"
        /\ outcome # "reservation_release_intent"
    BY DEF EvidenceStates, TerminalStates
  <1>5. QED BY <1>2, <1>3, <1>4 DEF Evidenced

LEMMA WrittenBase ==
    ASSUME TypeOK, NEW u \in Units, NEW s, NEW r \in Unit,
           units' = [units EXCEPT ![u] = [r EXCEPT !.state = s]]
    PROVE  /\ units'[u].base = r.base /\ units'[u].res = r.res /\ units'[u].state = s
           /\ \A v \in Units : v # u => units'[v] = units[v]
  <1>1. units'[u] = [r EXCEPT !.state = s]
    BY DEF TypeOK
  <1>2. QED BY <1>1 DEF TypeOK, Unit

(* Of the intents, only the release and the repair of an ended unit touch its  *)
(* evidence; the others take a unit that has none and end nothing.            *)
LEMMA UnitIntentRecords ==
    ASSUME CoreInv, HoldInv, NEW u \in Units, UnitIntent(u)
    PROVE  Records(u)
  <1> DEFINE r == units[u]
             a == units[u].state
  <1> USE DEF UnitKinds
  <1>0. /\ r \in Unit /\ TypeOK
        /\ \A v \in Units : v # u => units'[v] = units[v] /\ closed'[v] = closed[v]
    BY UnitIntentWrites, UnitIntentShape DEF CoreInv, TypeOK, Writes, IntentStep, ClosedElsewhere
  <1>1. \A k \in UnitKinds : \A next, q :
            CanIntend(u) /\ Emit(u, next, k, q) => Moved(u, a, next)
    BY IntentMoves
  <1>2. ASSUME NEW b, Moved(u, a, b), UNCHANGED closed,
               a \notin EvidenceStates, b \notin EvidenceStates
        PROVE  Records(u)
    BY <1>0, <1>2 DEF Records, Evidenced
  <1>3. CASE ReservationReleaseIntent(u)
    <2> DEFINE q == [r EXCEPT !.resState = IF r.res = {} THEN @ ELSE "release_intent"]
               b == "reservation_release_intent"
    <2>1. /\ Emit(u, b, "reservation_release", q) /\ CanIntend(u) /\ a \in TerminalStates
          /\ closed[u] # None /\ closed'[u] = UpdateClosureReleaseEvidence(u, "intended")
      BY <1>0, <1>3 DEF ReservationReleaseIntent, TypeOK
    <2>2. Moved(u, a, b)
      BY <1>1, <2>1
    <2>3. q \in Unit /\ q.base = r.base /\ q.res = r.res
      BY <1>0 DEF Unit
    <2>4. /\ units'[u].base = r.base /\ units'[u].res = r.res /\ units'[u].state = b
      <3>1. units' = [units EXCEPT ![u] = [q EXCEPT !.state = b]]
        BY <2>1 DEF Emit
      <3>2. PICK t : t = q
        OBVIOUS
      <3>3. t \in Unit /\ t.base = r.base /\ t.res = r.res /\ TypeOK
        BY <1>0, <2>3, <3>2
      <3>4. units' = [units EXCEPT ![u] = [t EXCEPT !.state = b]]
        BY <3>1, <3>2
      <3> HIDE DEF q, r, b
      <3>5. units'[u].base = t.base /\ units'[u].res = t.res /\ units'[u].state = b
        BY ZenonT(60), <3>3, <3>4, WrittenBase
      <3>6. QED BY <3>3, <3>5
    <2>5. /\ UpdateClosureReleaseEvidence(u, "intended") \in Closures
          /\ closed[u] \in Closures
      BY <1>0, <2>1, UpdatedEvidence, OptFacts DEF TypeOK
    <2> DEFINE c == closed[u]
               d == closed'[u]
    <2>6. /\ d # None /\ d.base = c.base /\ d.outcome = c.outcome /\ d.cand = c.cand
          /\ d.ver = c.ver /\ d.review = c.review /\ (d.final <=> c.final)
          /\ d.release = IF r.res = {} THEN c.release ELSE "intended"
      BY <2>1, <2>5, NoneAssumption DEF UpdateClosureReleaseEvidence, Closures
    <2>7. a \in EvidenceStates /\ a # "closed" /\ b \in EvidenceStates /\ b \notin TerminalStates
      BY <2>1 DEF EvidenceStates, TerminalStates
    <2> HIDE DEF c, d
    <2>8. Evidenced(c, r, a) => Evidenced(d, units'[u], b)
      BY <2>1, <2>4, <2>6, <2>7 DEF Evidenced, c
    <2>9. QED BY <1>0, <2>2, <2>8 DEF Records, c, d
  <1>4. CASE RepairIntent(u)
    <2>1. \E packet : CanIntend(u) /\ Emit(u, "repair_intent", "repair",
                                           [r EXCEPT !.wpacket = packet])
      BY <1>4 DEF RepairIntent, ModifyingIntent
    <2>2. Moved(u, a, "repair_intent")
      BY <1>1, <2>1
    <2>3. closed'[u] = None
      BY <1>0, <1>4 DEF RepairIntent, TypeOK
    <2>4. Evidenced(None, units'[u], "repair_intent")
      BY DEF Evidenced, EvidenceStates, TerminalStates
    <2>5. QED BY <1>0, <2>2, <2>3, <2>4 DEF Records
  <1> USE DEF EvidenceStates, TerminalStates
  <1>5. CASE ReservationIntent(u) \/ BranchIntent(u) \/ WorktreeIntent(u)
    <2>1. /\ UNCHANGED closed /\ a \notin EvidenceStates
          /\ \E b \in {"reservation_intent", "branch_intent", "worktree_intent"} : Moved(u, a, b)
      BY <1>1, <1>5 DEF ReservationIntent, BranchIntent, WorktreeIntent
    <2>2. QED BY <1>2, <2>1
  <1>6. CASE DispatchIntent(u) \/ CollectIntent(u) \/ CandidateIntent(u)
    <2>1. /\ UNCHANGED closed /\ a \notin EvidenceStates
          /\ \E b \in {"dispatch_intent", "collect_intent", "candidate_intent"} : Moved(u, a, b)
      BY <1>1, <1>6 DEF DispatchIntent, ModifyingIntent, CollectIntent, CandidateIntent
    <2>2. QED BY <1>2, <2>1
  <1>7. CASE CandidateRecheckIntent(u) \/ RefreshIntent(u) \/ VerificationIntent(u)
    <2>1. /\ UNCHANGED closed /\ a \notin EvidenceStates
          /\ \E b \in {"candidate_intent", "refresh_intent", "verification_intent"} :
                 Moved(u, a, b)
      BY <1>1, <1>7 DEF CandidateRecheckIntent, RefreshIntent, VerificationIntent
    <2>2. QED BY <1>2, <2>1
  <1>8. CASE ReviewerDispatchIntent(u) \/ ReviewCollectIntent(u) \/ PublishIntent(u)
             \/ IntegrateIntent(u)
    <2>1. /\ UNCHANGED closed /\ a \notin EvidenceStates
          /\ \E b \in {"reviewer_dispatch_intent", "review_collect_intent", "publish_intent",
                       "integrate_intent"} : Moved(u, a, b)
      BY <1>1, <1>8 DEF ReviewerDispatchIntent, ReviewCollectIntent, PublishIntent,
         IntegrateIntent, CanIntegrateFrom
    <2>2. QED BY <1>2, <2>1
  <1>9. CASE FailureIntent(u) \/ TimeoutIntent(u) \/ ParkIntent(u) \/ CancelIntent(u)
    <2>1. PICK k \in TerminalKinds : TerminalIntent(u, k)
      BY <1>9 DEF FailureIntent, TimeoutIntent, ParkIntent, CancelIntent, TerminalKinds
    <2>2. k \in UnitKinds /\ IntentStateForEffect[k] \in TerminalIntentStates
      BY DEF TerminalKinds, TerminalIntentStates
    <2>3. UNCHANGED closed /\ a \notin EvidenceStates /\ Moved(u, a, IntentStateForEffect[k])
      BY <1>1, <2>1, <2>2 DEF TerminalIntent, CanEnterTerminalIntent
    <2>4. IntentStateForEffect[k] \notin EvidenceStates
      BY <2>2, TerminalIntentFacts
    <2>5. QED BY <1>2, <2>3, <2>4
  <1>10. QED BY <1>3, <1>4, <1>5, <1>6, <1>7, <1>8, <1>9 DEF UnitIntent

(* Every outcome records its evidence in the same step, a success with the     *)
(* pair that was verified and reviewed.                                      *)
LEMMA UnitObservationRecords ==
    ASSUME CoreInv, HoldInv, NEW u \in Units, UnitObservation(u)
    PROVE  Records(u)
  <1> DEFINE r == units[u]
  <1> USE DEF UnitKinds
  <1>0. /\ r \in Unit /\ TypeOK /\ BindingInv
        /\ \A v \in Units : v # u => units'[v] = units[v] /\ closed'[v] = closed[v]
    BY UnitObservationWrites, UnitObservationShape
       DEF CoreInv, TypeOK, Writes, ObserveStep, ClosedElsewhere
  <1>1. \A k \in UnitKinds : \A next, q :
            Outstanding(u, k) /\ Observe(u, next, k, q) => Moved(u, IntentStateForEffect[k], next)
    BY ObserveMoves
  <1>2. ASSUME NEW a, NEW b, Moved(u, a, b), UNCHANGED closed,
               a \notin EvidenceStates, b \notin EvidenceStates
        PROVE  Records(u)
    BY <1>0, <1>2 DEF Records, Evidenced
  <1>3. ASSUME NEW outcome \in TerminalStates, NEW k \in UnitKinds, NEW q \in Unit,
               q.base = r.base, Outstanding(u, k), Observe(u, outcome, k, q),
               PersistTerminalClosureEvidence(u, outcome),
               Successful(outcome) => r.ver = <<r.base, r.cand>> /\ r.review = <<r.base, r.cand>>
        PROVE  Records(u)
    <2>1. units' = [units EXCEPT ![u] = [q EXCEPT !.state = outcome]]
      BY <1>3 DEF Observe
    <2> HIDE DEF r
    <2>2. units'[u].base = units[u].base
      BY <1>0, <1>3, <2>1, WrittenBase DEF r
    <2>3. Evidenced(closed'[u], units'[u], outcome)
      BY <1>0, <1>3, <2>2, PersistedEvidence DEF r
    <2>4. QED BY <1>0, <1>1, <1>3, <2>3 DEF Records
  <1>4. ASSUME NEW k \in UnitKinds, NEW b, Moved(u, IntentStateForEffect[k], b),
               UNCHANGED closed, k # "reservation_release", b \notin EvidenceStates
        PROVE  Records(u)
    <2>1. IntentStateForEffect[k] \notin EvidenceStates
      BY <1>4 DEF EvidenceStates, TerminalStates, IntentStateForEffect
    <2>2. QED BY <1>2, <1>4, <2>1
  <1>5. r.base \in Bases /\ r.cand \in Opt(Heads) /\ None \in Opt(Heads)
    BY <1>0, OptFacts DEF Unit
  <1>6. CASE ReservationReleased(u)
    <2> DEFINE a == "reservation_release_intent"
               c == closed[u]
               d == closed'[u]
    <2>1. /\ Outstanding(u, "reservation_release") /\ closed[u] # None
          /\ Observe(u, "closed", "reservation_release", FreshUnit(r.base))
          /\ d = [UpdateClosureReleaseEvidence(u, "observed") EXCEPT !.final = TRUE]
      BY <1>0, <1>6 DEF ReservationReleased, Observable, Outstanding, TypeOK
    <2>2. Moved(u, a, "closed")
      BY <1>1, <2>1, IntentStateNames
    <2>3. units'[u] = [FreshUnit(r.base) EXCEPT !.state = "closed"]
      BY <1>0, <2>1 DEF Observe, TypeOK
    <2>4. units'[u].base = r.base
      BY <2>3 DEF FreshUnit
    <2>5. /\ UpdateClosureReleaseEvidence(u, "observed") \in Closures
          /\ closed[u] \in Closures
      BY <1>0, <2>1, UpdatedEvidence, OptFacts DEF TypeOK
    <2>6. d \in Closures /\ d # None
      <3>1. \A x \in Closures : [x EXCEPT !.final = TRUE] \in Closures
        BY DEF Closures
      <3>2. QED BY <2>1, <2>5, <3>1, NoneAssumption
    <2>7. /\ d.base = c.base /\ d.outcome = c.outcome /\ d.cand = c.cand
          /\ d.ver = c.ver /\ d.review = c.review /\ d.final
          /\ d.release = IF r.res = {} THEN c.release ELSE "observed"
      BY <2>1, <2>5 DEF UpdateClosureReleaseEvidence, Closures
    <2>8. a \in EvidenceStates /\ a # "closed"
          /\ "closed" \in EvidenceStates \ TerminalStates
      BY DEF EvidenceStates, TerminalStates
    <2> HIDE DEF c, d
    <2>9. Evidenced(c, r, a) => Evidenced(d, units'[u], "closed")
      BY <2>4, <2>6, <2>7, <2>8 DEF Evidenced
    <2>10. QED BY <1>0, <2>2, <2>9 DEF Records, c, d
  <1>7. CASE WorkerCollected(u)
    <2> DEFINE q == [r EXCEPT !.repair = <<r.base, None>>]
    <2>1. /\ Outstanding(u, "worker_collect")
          /\ \/ UNCHANGED closed /\ \E b \in {"collected", "repair_required"} : \E s :
                    Observe(u, b, "worker_collect", s)
             \/ /\ Observe(u, "failed", "worker_collect", q)
                /\ PersistTerminalClosureEvidence(u, "failed")
      BY <1>7 DEF WorkerCollected, Observable, Outstanding
    <2>2. CASE UNCHANGED closed /\ \E b \in {"collected", "repair_required"} : \E s :
                   Observe(u, b, "worker_collect", s)
      BY <1>1, <1>4, <2>1, <2>2 DEF EvidenceStates, TerminalStates
    <2>3. CASE Observe(u, "failed", "worker_collect", q)
               /\ PersistTerminalClosureEvidence(u, "failed")
      <3>1. q \in Unit /\ q.base = r.base
        BY ZenonT(60), <1>0, <1>5, RepairSet DEF Unit
      <3> HIDE DEF q, r
      <3>2. QED BY <1>3, <2>1, <2>3, <3>1 DEF Successful, TerminalStates
    <2>4. QED BY <2>1, <2>2, <2>3
  <1>8. CASE PublishObserved(u)
    <2> DEFINE q == [r EXCEPT !.published = r.cand]
    <2>1. /\ Outstanding(u, "publish")
          /\ \/ UNCHANGED closed /\ Observe(u, "published", "publish", q)
             \/ /\ Observe(u, "handoff", "publish", q)
                /\ PersistTerminalClosureEvidence(u, "handoff")
      BY <1>8 DEF PublishObserved, Observable, Outstanding
    <2>2. CASE UNCHANGED closed /\ Observe(u, "published", "publish", q)
      BY <1>1, <1>4, <2>1, <2>2 DEF EvidenceStates, TerminalStates
    <2>3. CASE Observe(u, "handoff", "publish", q)
               /\ PersistTerminalClosureEvidence(u, "handoff")
      <3>1. q \in Unit /\ q.base = r.base
        BY <1>0 DEF Unit
      <3>2. r.ver = <<r.base, r.cand>> /\ r.review = <<r.base, r.cand>>
        <4>1. Bound(r, "publish_intent")
          BY <1>0, <1>8, ObservableFacts, IntentStateNames DEF PublishObserved
        <4>2. QED BY <4>1 DEF Bound, VerifiedStates, ApprovedStates
      <3> HIDE DEF q, r
      <3>3. QED BY <1>3, <2>1, <2>3, <3>1, <3>2 DEF TerminalStates
    <2>4. QED BY <2>1, <2>2, <2>3
  <1>9. CASE IntegrateObserved(u)
    <2>1. /\ Outstanding(u, "integrate") /\ Observe(u, "landed", "integrate", r)
          /\ PersistTerminalClosureEvidence(u, "landed")
      BY <1>9 DEF IntegrateObserved, Observable, Outstanding
    <2>2. r.ver = <<r.base, r.cand>> /\ r.review = <<r.base, r.cand>>
      <3>1. Bound(r, "integrate_intent")
        BY <1>0, <1>9, ObservableFacts, IntentStateNames DEF IntegrateObserved
      <3>2. QED BY <3>1 DEF Bound, VerifiedStates, ApprovedStates
    <2> HIDE DEF r
    <2>3. QED BY <1>0, <1>3, <2>1, <2>2 DEF TerminalStates
  <1>10. ASSUME NEW k \in TerminalKinds, NEW event,
                NEW outcome \in TerminalStates \ {"landed", "handoff"},
                TerminalObserved(u, k, event, outcome)
         PROVE  Records(u)
    <2> DEFINE q == IF k \in {"failure", "timeout"} THEN FailureRepairContext(r) ELSE r
    <2>1. /\ Outstanding(u, k) /\ Observe(u, outcome, k, q)
          /\ PersistTerminalClosureEvidence(u, outcome) /\ k \in UnitKinds
      BY <1>10 DEF TerminalObserved, Observable, Outstanding, TerminalKinds
    <2>2. q \in Unit /\ q.base = r.base
      <3> DEFINE b == IF r.ver = None THEN r.base ELSE r.ver[1]
      <3>1. b \in Bases
        BY <1>0, <1>5, OptFacts DEF Unit, Pair
      <3>2. q = r \/ q = [r EXCEPT !.repair = <<b, r.cand>>]
        BY DEF FailureRepairContext
      <3>3. [r EXCEPT !.repair = <<b, r.cand>>].base = r.base
        BY <1>0 DEF Unit
      <3> HIDE DEF b, q, r
      <3>4. QED BY ZenonT(60), <1>0, <1>5, <3>1, <3>2, <3>3, RepairSet
    <2> HIDE DEF q, r
    <2>3. QED BY <1>3, <1>10, <2>1, <2>2 DEF Successful
  <1>11. CASE FailureObserved(u) \/ TimeoutObserved(u) \/ ParkObserved(u) \/ CancelObserved(u)
    BY <1>10, <1>11 DEF FailureObserved, TimeoutObserved, ParkObserved, CancelObserved,
                        TerminalStates, TerminalKinds
  <1> USE DEF EvidenceStates, TerminalStates, Observable, Outstanding
  <1>12. CASE ReservationObserved(u) \/ BranchObserved(u) \/ WorktreeObserved(u)
              \/ DispatchObserved(u) \/ RepairObserved(u)
    BY <1>1, <1>4, <1>12 DEF ReservationObserved, BranchObserved, WorktreeObserved,
       DispatchObserved, RepairObserved
  <1>13. CASE CandidateObserved(u) \/ CandidateRefused(u) \/ RefreshObserved(u)
              \/ RefreshFailed(u)
    <2>1. /\ UNCHANGED closed
          /\ \E k \in {"candidate_collect", "candidate_refresh"} :
             \E next \in {"candidate_committed", "repair_required", "collected",
                          "worktree_observed"} :
                 Outstanding(u, k) /\ \E q : Observe(u, next, k, q)
      BY <1>13 DEF CandidateObserved, CandidateRefused, RefreshObserved, RefreshFailed
    <2>2. QED BY <1>1, <1>4, <2>1
  <1>14. CASE VerificationObserved(u) \/ VerificationFailed(u) \/ ReviewerObserved(u)
              \/ ReviewCollected(u)
    <2>1. /\ UNCHANGED closed
          /\ \E k \in {"verify", "review_dispatch", "review_collect"} :
             \E next \in {"qualified", "repair_required", "reviewer_dispatched", "approved"} :
                 Outstanding(u, k) /\ \E q : Observe(u, next, k, q)
      BY <1>14 DEF VerificationObserved, VerificationFailed, ReviewerObserved, ReviewCollected
    <2>2. QED BY <1>1, <1>4, <2>1
  <1>15. CASE PublishRefused(u) \/ IntegrateRefused(u)
    BY <1>1, <1>4, <1>15 DEF PublishRefused, IntegrateRefused
  <1>16. QED BY <1>6, <1>7, <1>8, <1>9, <1>11, <1>12, <1>13, <1>14, <1>15 DEF UnitObservation

(* A release whose outcome is lost says so in the evidence.                   *)
LEMMA AmbiguityKeepsEvidence ==
    ASSUME IndInv, EvidenceInv, NEW e \in journal, EffectAmbiguous(e)
    PROVE  EvidenceInv'
  <1>0. /\ \A v \in Units : \A s \in Positions : At(v, s)' => At(v, s)
        /\ \A v \in Units : \/ units'[v] = units[v]
                            \/ /\ units'[v] = [units[v] EXCEPT !.state = "blocked"]
                               /\ v = e.unit
        /\ e.unit # None => /\ e.unit \in Units /\ e.kind \in UnitKinds
                            /\ units[e.unit].state = IntentStateForEffect[e.kind]
                            /\ units'[e.unit] = [units[e.unit] EXCEPT !.state = "blocked"]
    BY AmbiguityKeepsPositions
  <1>1. TypeOK /\ JournalInv
    BY DEF IndInv
  <1> SUFFICES ASSUME NEW v \in Units, NEW s \in Positions, At(v, s)'
               PROVE  Evidenced(closed'[v], units'[v], s)
    BY DEF EvidenceInv
  <1>2. At(v, s) /\ Evidenced(closed[v], units[v], s)
    BY <1>0 DEF EvidenceInv
  <1>3. CASE v # e.unit
    <2>1. units'[v] = units[v]
      BY <1>0, <1>3
    <2>2. closed'[v] = closed[v]
      BY <1>1, <1>3 DEF EffectAmbiguous, TypeOK
    <2>3. QED BY <1>2, <2>1, <2>2
  <1>4. CASE v = e.unit
    <2>1. /\ v # None /\ e.kind \in UnitKinds /\ units[v].state = IntentStateForEffect[e.kind]
          /\ units'[v] = [units[v] EXCEPT !.state = "blocked"] /\ units[v] \in Unit
      BY <1>0, <1>1, <1>4, NoneAssumption DEF TypeOK
    <2>2. /\ units'[v].base = units[v].base /\ units'[v].res = units[v].res
          /\ units'[v].state = "blocked"
      BY <2>1 DEF Unit
    <2>3. s = IntentStateForEffect[e.kind]
      BY <1>2, <2>1, IntentStateFacts DEF At
    <2>4. CASE e.kind # "reservation_release"
      <3>1. closed'[v] = closed[v]
        BY <1>4, <2>1, <2>4 DEF EffectAmbiguous
      <3>2. s \notin EvidenceStates
        BY <2>1, <2>3, <2>4 DEF EvidenceStates, TerminalStates, IntentStateForEffect, UnitKinds
      <3>3. QED BY <1>2, <3>1, <3>2 DEF Evidenced
    <2>5. CASE e.kind = "reservation_release"
      <3> DEFINE c == closed[v]
                 d == closed'[v]
      <3>1. d = UpdateClosureReleaseEvidence(v, "ambiguous")
        BY <1>1, <1>4, <2>1, <2>5 DEF EffectAmbiguous, TypeOK
      <3>2. s = "reservation_release_intent"
        BY <2>3, <2>5, IntentStateNames
      <3>3. s \in EvidenceStates /\ s # "closed" /\ s \notin TerminalStates
        BY <3>2 DEF EvidenceStates, TerminalStates
      <3>4. c # None
        BY <1>2, <3>3 DEF Evidenced
      <3>5. d \in Closures /\ c \in Closures
        BY <1>1, <3>1, <3>4, UpdatedEvidence, OptFacts DEF TypeOK
      <3>6. /\ d # None /\ d.base = c.base /\ d.outcome = c.outcome /\ d.cand = c.cand
            /\ d.ver = c.ver /\ d.review = c.review /\ (d.final <=> c.final)
            /\ d.release = IF units[v].res = {} THEN c.release ELSE "ambiguous"
        BY <3>1, <3>5, NoneAssumption DEF UpdateClosureReleaseEvidence, Closures
      <3> HIDE DEF c, d
      <3>7. Evidenced(c, units[v], s) => Evidenced(d, units'[v], s)
        BY <2>2, <3>2, <3>3, <3>6 DEF Evidenced
      <3>8. QED BY <1>2, <3>7 DEF c, d
    <2>6. QED BY <2>4, <2>5
  <1>5. QED BY <1>3, <1>4

LEMMA NextKeepsEvidence ==
    ASSUME IndInv, HoldingInv, EvidenceInv, [Next]_vars
    PROVE  EvidenceInv'
  <1>0. CoreInv /\ TypeOK /\ HoldInv
    BY DEF CoreInv, IndInv, HoldingInv
  <1>1. CASE \/ ControllerAcquireIntent \/ ControllerReleaseIntent
             \/ ControllerObservation \/ HarnessConfigured \/ WavePlanned \/ UNCHANGED vars
    <2>1. Still
      BY <1>1, NoUnitStill
    <2>2. UNCHANGED closed
      BY <1>1 DEF ControllerAcquireIntent, ControllerReleaseIntent, ControllerIntent,
         ControllerObservation, ControllerAcquired, ControllerReleased, HarnessConfigured,
         WavePlanned, vars
    <2>3. \A v \in Units : \A s \in Positions : At(v, s)' => At(v, s)
      BY <2>1, EntryFacts DEF At, Still
    <2>4. QED BY <2>1, <2>2, <2>3 DEF Still, EvidenceInv
  <1>2. ASSUME NEW u \in Units, UnitIntent(u) \/ UnitObservation(u) PROVE EvidenceInv'
    BY <1>0, <1>2, UnitIntentRecords, UnitObservationRecords, RecordsKeepEvidence
  <1>3. ASSUME NEW u \in Units, RepairScopeExtended(u) PROVE EvidenceInv'
    <2> DEFINE q == [WithoutReviewBindings(units[u]) EXCEPT
                       !.wpacket = None, !.ver = None, !.scope = @ + 1]
    <2>1. /\ UNCHANGED <<closed, journal>> /\ units[u].state = "repair_required"
          /\ units'[u] = q
          /\ \A v \in Units : v # u => units'[v] = units[v]
      BY <1>3, <1>0 DEF RepairScopeExtended, RepairScopeExtensionEligible, TypeOK
    <2>2. units[u] \in Unit
      BY <1>0 DEF TypeOK
    <2>3. q.state = "repair_required"
      BY <2>1, <2>2 DEF WithoutReviewBindings, Unit
    <2> HIDE DEF q
    <2> SUFFICES ASSUME NEW v \in Units, NEW s \in Positions, At(v, s)'
                 PROVE  Evidenced(closed'[v], units'[v], s)
      BY DEF EvidenceInv
    <2>4. CASE v = u
      <3>1. s = "repair_required" /\ At(u, s)
        BY <2>1, <2>3, <2>4 DEF At
      <3>2. s \notin EvidenceStates
        BY <3>1 DEF EvidenceStates, TerminalStates
      <3>3. QED BY <2>1, <2>4, <3>1, <3>2 DEF EvidenceInv, Evidenced
    <2>5. CASE v # u
      BY <2>1, <2>5 DEF EvidenceInv, At
    <2>6. QED BY <2>4, <2>5
  <1>4. ASSUME NEW e \in journal, EffectAmbiguous(e) PROVE EvidenceInv'
    BY <1>4, AmbiguityKeepsEvidence
  <1>5. QED BY <1>1, <1>2, <1>3, <1>4 DEF Next, Released

LEMMA InitEvidence == Init => EvidenceInv
  <1> SUFFICES ASSUME Init PROVE EvidenceInv
    OBVIOUS
  <1>1. \A u \in Units : units[u].state = "planned" /\ closed[u] = None
    BY DEF Init, FreshUnit
  <1>2. QED BY <1>1 DEF EvidenceInv, Evidenced, EvidenceStates, TerminalStates, At

-----------------------------------------------------------------------------
(* What the sweep demands of a unit *)

PhaseInv == HoldingInv /\ StoppedInv /\ EvidenceInv

LEMMA NextKeepsPhases ==
    ASSUME IndInv, SeatsInv, PhaseInv, [Next]_vars
    PROVE  PhaseInv'
  BY NextKeepsHoldings, NextKeepsStopped, NextKeepsEvidence DEF PhaseInv

(* What every unit of the aggregate has bound, holds and has left behind, at   *)
(* each of its positions and while it is blocked, is inductive together with  *)
(* the seats it occupies.                                                    *)
THEOREM PhasesHold == Spec => [](IndInv /\ SeatsInv /\ PhaseInv)
  <1>1. Init => IndInv /\ SeatsInv /\ PhaseInv
    BY InitEstablishes, InitSeats, InitHolds, InitStopped, InitEvidence DEF PhaseInv
  <1>2. IndInv /\ SeatsInv /\ PhaseInv /\ [Next]_vars => (IndInv /\ SeatsInv /\ PhaseInv)'
    BY NextKeeps, NextKeepsSeats, NextKeepsPhases
  <1>3. QED BY <1>1, <1>2, PTL DEF Spec

(* A unit that is not blocked is where its state says. *)
LEMMA PositionFacts ==
    ASSUME IndInv, PhaseInv, NEW u \in Units
    PROVE  \E s \in Positions :
               /\ At(u, s) /\ units[u].state \in {s, "blocked"}
               /\ Holds(units[u], s) /\ Bound(units[u], s)
               /\ Evidenced(closed[u], units[u], s) /\ Stopped(u, s)
  <1>1. PICK s \in Positions : At(u, s)
    BY OnePosition DEF IndInv
  <1>2. Bound(units[u], s)
    BY <1>1 DEF IndInv, BindingInv, Positions
  <1>3. QED BY <1>1, <1>2 DEF PhaseInv, HoldingInv, HoldInv, EvidenceInv, StoppedInv, At

LEMMA ReservationsHeld ==
    ASSUME IndInv, PhaseInv
    PROVE  ReservationsAgree
  <1> SUFFICES ASSUME NEW u \in Units
               PROVE  /\ units[u].res # {}
                         /\ units[u].state \notin {"reservation_intent", "blocked",
                                                   "reservation_release_intent"}
                             => units[u].resState = "reserved"
                      /\ units[u].res # {} /\ units[u].state = "reservation_release_intent"
                             => units[u].resState = "release_intent"
                      /\ units[u].resState = "reserved" =>
                             Entry(u, "reservation_acquire", "observed") \in journal
    BY DEF ReservationsAgree
  <1>1. PICK s \in Positions : units[u].state \in {s, "blocked"} /\ Holds(units[u], s)
    BY PositionFacts
  <1>2. QED BY <1>1 DEF Holds, Reserving, PhaseInv, HoldingInv, AcquiredInv, Acquired

(* Reservations stay held, with their observed acquisition in the journal,     *)
(* until the unit's release is observed: compaction, which every intent of    *)
(* every other unit runs, never drops one.                                   *)
THEOREM ReservationsAlwaysAgree == Spec => []ReservationsAgree
  <1>1. IndInv /\ SeatsInv /\ PhaseInv => ReservationsAgree
    BY ReservationsHeld
  <1>2. QED BY <1>1, PhasesHold, PTL

LEMMA RepairPossible ==
    ASSUME IndInv, PhaseInv
    PROVE  RepairStaysPossible
  <1> SUFFICES ASSUME NEW u \in Units, units[u].state = "repair_required"
               PROVE  /\ ValidRepairJudgment(units[u])
                      /\ units[u].branch # "none" /\ units[u].worktree
    BY DEF RepairStaysPossible
  <1>1. Holds(units[u], "repair_required")
    BY PositionFacts
  <1>2. QED BY <1>1, StateSets DEF Holds, Settling, Tooled, Untooled

(* A unit sent to repair can be repaired, whatever refused it: its repair      *)
(* context binds the candidate it has, and branch and worktree exist.         *)
THEOREM RepairAlwaysPossible == Spec => []RepairStaysPossible
  <1>1. IndInv /\ SeatsInv /\ PhaseInv => RepairStaysPossible
    BY RepairPossible
  <1>2. QED BY <1>1, PhasesHold, PTL

(* Whatever moves a base or a head discards the verdict on the old pair.      *)
THEOREM VerdictsInvalidated == Spec => MovementInvalidatesVerdict
  <1>1. IndInv /\ SeatsInv /\ PhaseInv /\ [Next]_vars => Verdicts
    BY NextKeepsHoldings DEF PhaseInv
  <1>2. [Verdicts]_vars <=>
            [\A u \in Units :
                 \/ units'[u].base # units[u].base
                 \/ units'[u].cand # units[u].cand
                 => units'[u].review = None /\ units'[u].rpacket = None]_vars
    BY DEF Verdicts
  <1>3. QED BY <1>1, <1>2, PhasesHold, PTL DEF Spec, MovementInvalidatesVerdict

LEMMA ClosuresBound ==
    ASSUME IndInv, PhaseInv
    PROVE  ClosureAgrees
  <1> SUFFICES ASSUME NEW u \in Units
               PROVE  LET st == units[u].state
                          c  == closed[u]
                          releasing == BlockedOn(u, {"reservation_release"})
                      IN  /\ st \in EvidenceStates => c # None
                          /\ c # None =>
                              /\ st \in EvidenceStates \/ releasing
                              /\ c.base = units[u].base
                              /\ c.final <=> st = "closed"
                              /\ Successful(c.outcome) =>
                                     /\ c.ver = <<c.base, c.cand>>
                                     /\ c.review = <<c.base, c.cand>>
                              /\ st = "reservation_release_intent" /\ units[u].res # {} =>
                                     c.release = "intended"
                              /\ releasing /\ units[u].res # {} => c.release = "ambiguous"
                              /\ st = "closed" => c.release \in {"none", "observed"}
    BY DEF ClosureAgrees, EvidenceStates
  <1>1. PICK s \in Positions : /\ At(u, s) /\ units[u].state \in {s, "blocked"}
                               /\ Evidenced(closed[u], units[u], s)
    BY PositionFacts
  <1>2. CASE units[u].state # "blocked"
    BY <1>1, <1>2 DEF Evidenced, EvidenceStates, TerminalStates, BlockedOn
  <1>3. CASE units[u].state = "blocked"
    <2>1. PICK k \in UnitKinds : /\ IntentStateForEffect[k] = s
                                 /\ Entry(u, k, "ambiguous") \in journal
      BY <1>1, <1>3 DEF At, Positions
    <2>2. \A l : Entry(u, l, "ambiguous") \in journal => l = k
      BY <2>1, EntryFacts DEF IndInv, JournalInv, Unresolved
    <2>3. BlockedOn(u, {"reservation_release"}) <=> k = "reservation_release"
      BY <1>3, <2>1, <2>2 DEF BlockedOn, AmbiguousOn
    <2>4. s \in EvidenceStates <=> k = "reservation_release"
      BY <2>1 DEF EvidenceStates, TerminalStates, IntentStateForEffect, UnitKinds
    <2>5. k = "reservation_release" => s = "reservation_release_intent"
      BY <2>1, IntentStateNames
    <2>6. "blocked" \notin EvidenceStates
      BY DEF EvidenceStates, TerminalStates
    <2>7. s # "closed"
      BY <2>1, IntentStateFacts
    <2>8. QED BY <1>1, <1>3, <2>3, <2>4, <2>5, <2>6, <2>7 DEF Evidenced
  <1>4. QED BY <1>2, <1>3

(* Exactly the units that ended have closure evidence; it binds their base     *)
(* and, for a success, the one pair that was verified and reviewed; and its   *)
(* copy of the release follows the release through loss and recovery.         *)
THEOREM ClosuresAlwaysAgree == Spec => []ClosureAgrees
  <1>1. IndInv /\ SeatsInv /\ PhaseInv => ClosureAgrees
    BY ClosuresBound
  <1>2. QED BY <1>1, PhasesHold, PTL

LEMMA PairsAreBound ==
    ASSUME NEW r \in Unit, NEW s \in CandidateStates, Bound(r, s)
    PROVE  /\ r.cand # None /\ r.diff # None
           /\ s \in VerifiedStates => r.ver # None
           /\ s \in ApprovedStates => r.review # None
  <1>1. r.base \in Bases /\ r.cand \in Heads /\ r.diff = r.cand
    BY DEF Bound, Unit
  <1>2. <<r.base, r.cand>> # None
    BY <1>1, NoneAssumption DEF Pair
  <1>3. QED BY <1>1, <1>2, NoneAssumption DEF Bound

LEMMA PhasesBound ==
    ASSUME IndInv, PhaseInv
    PROVE  LifecycleBindings
  <1> SUFFICES ASSUME NEW u \in Units
               PROVE  LET r == units[u] IN
        /\ r.state \in {"branch_intent", "branch_observed", "worktree_intent",
                        "worktree_observed"} => r.branch # "none"
        /\ r.state \in {"worktree_intent", "worktree_observed"} => r.worktree
        /\ r.state \in {"dispatch_intent", "dispatched", "collect_intent",
                        "collected", "candidate_intent", "repair_intent"} =>
               r.wpacket # None
        /\ r.wpacket # None => r.wpacket \in WorkerPackets(r)
        /\ r.state \in {"dispatched", "collect_intent", "collected",
                        "candidate_intent"} => r.wsess
        /\ r.state \in QualificationOwnerStates \cup SuccessStates
                         \cup {"candidate_committed"} =>
               None \notin {r.cand, r.diff}
        /\ r.state \in (QualificationOwnerStates \ {"verification_intent"})
                         \cup SuccessStates => r.ver # None
        /\ r.state \in ReviewerStates => r.rpacket # None
        /\ r.rpacket # None => r.rpacket = ReviewerPacket(r)
        /\ r.state \in {"reviewer_dispatched", "review_collect_intent"} => r.rsess
        /\ r.state \in IntegrationQueueStates \cup SuccessStates => r.review # None
        /\ r.state \in {"published", "handoff"} => r.published # None
        /\ r.state = "repair_required" => r.repair # None
        /\ r.recheck => /\ \/ r.state = "candidate_intent"
                           \/ BlockedOn(u, {"candidate_collect"})
                        /\ r.cand # None /\ r.diff = None /\ r.ver = None
    BY DEF LifecycleBindings
  <1> DEFINE r == units[u]
  <1>1. PICK s \in Positions : /\ At(u, s) /\ r.state \in {s, "blocked"}
                               /\ Holds(r, s) /\ Bound(r, s)
    BY PositionFacts
  <1>2. r \in Unit
    BY DEF IndInv, TypeOK
  <1>3. r.recheck => /\ \/ r.state = "candidate_intent"
                        \/ BlockedOn(u, {"candidate_collect"})
                     /\ r.cand # None /\ r.diff = None /\ r.ver = None
    <2> SUFFICES ASSUME r.recheck
                 PROVE  \/ r.state = "candidate_intent"
                        \/ BlockedOn(u, {"candidate_collect"})
      BY <1>1 DEF Holds, Reviewing
    <2>1. s = "candidate_intent"
      BY <1>1 DEF Holds, Reviewing
    <2>2. CASE r.state = "blocked"
      <3>1. PICK k \in UnitKinds : /\ IntentStateForEffect[k] = s
                                   /\ Entry(u, k, "ambiguous") \in journal
        BY <1>1, <2>2 DEF At, Positions
      <3>2. k = "candidate_collect"
        BY <2>1, <3>1, IntentStateNames, IntentStateFacts DEF UnitKinds
      <3>3. QED BY <2>2, <3>1, <3>2 DEF BlockedOn, AmbiguousOn
    <2>3. QED BY <1>1, <2>1, <2>2
  <1> HIDE DEF r
  <1>4. /\ r.wpacket # None => r.wpacket \in WorkerPackets(r)
        /\ r.rpacket # None => r.rpacket = ReviewerPacket(r)
    BY <1>1 DEF Holds, Launched, Slotted, Reviewing
  <1>5. r.state # "blocked" => Holds(r, r.state) /\ Bound(r, r.state)
    BY <1>1
  <1>6. /\ r.state \in {"branch_intent", "branch_observed", "worktree_intent",
                        "worktree_observed"} => r.branch # "none"
        /\ r.state \in {"worktree_intent", "worktree_observed"} => r.worktree
    BY <1>5, StateSets DEF Holds, Tooled, Untooled
  <1>7. /\ r.state \in {"dispatch_intent", "dispatched", "collect_intent",
                        "collected", "candidate_intent", "repair_intent"} =>
               r.wpacket # None
        /\ r.state \in {"dispatched", "collect_intent", "collected",
                        "candidate_intent"} => r.wsess
    BY <1>5 DEF Holds, Launched, LaunchedStates
  <1>8. /\ r.state \in ReviewerStates => r.rpacket # None
        /\ r.state \in {"reviewer_dispatched", "review_collect_intent"} => r.rsess
        /\ r.state \in {"published", "handoff"} => r.published # None
        /\ r.state = "repair_required" => r.repair # None
    BY <1>5 DEF Holds, Reviewing, Settling, ReviewerStates, ValidRepairJudgment
  <1>9. /\ r.state \in QualificationOwnerStates \cup SuccessStates \cup {"candidate_committed"}
               => r.state \in CandidateStates /\ r.state # "blocked"
        /\ r.state \in (QualificationOwnerStates \ {"verification_intent"}) \cup SuccessStates
               => r.state \in VerifiedStates /\ r.state # "blocked"
        /\ r.state \in IntegrationQueueStates \cup SuccessStates
               => r.state \in ApprovedStates /\ r.state # "blocked"
        /\ ApprovedStates \subseteq VerifiedStates /\ VerifiedStates \subseteq CandidateStates
    BY DEF QualificationOwnerStates, SuccessStates, IntegrationQueueStates, CandidateStates,
           VerifiedStates, ApprovedStates
  <1>10. /\ r.state \in QualificationOwnerStates \cup SuccessStates \cup {"candidate_committed"}
               => None \notin {r.cand, r.diff}
         /\ r.state \in (QualificationOwnerStates \ {"verification_intent"}) \cup SuccessStates
               => r.ver # None
         /\ r.state \in IntegrationQueueStates \cup SuccessStates => r.review # None
    BY <1>2, <1>5, <1>9, PairsAreBound
  <1>11. QED BY <1>3, <1>4, <1>6, <1>7, <1>8, <1>10 DEF r

(* A unit holds the packets, sessions, candidate, verification, review and     *)
(* repair context its phase needs, and its packets bind its current base,     *)
(* candidate and scope: the controller never has to refuse its own aggregate. *)
THEOREM PhasesAlwaysBound == Spec => []LifecycleBindings
  <1>1. IndInv /\ SeatsInv /\ PhaseInv => LifecycleBindings
    BY PhasesBound
  <1>2. QED BY <1>1, PhasesHold, PTL

LEMMA UnresolvedPosition ==
    ASSUME IndInv, NEW u \in Units, NEW e \in UnresolvedEntries(u)
    PROVE  /\ e \in journal /\ Unresolved(e) /\ e.unit = u /\ e.kind \in UnitKinds
           /\ IntentStateForEffect[e.kind] \in Positions
           /\ At(u, IntentStateForEffect[e.kind])
  <1>1. e \in journal /\ e \in Entries /\ e.unit = u /\ e.status \in {"intended", "ambiguous"}
    BY DEF UnresolvedEntries, IndInv, TypeOK
  <1>2. Unresolved(e) /\ u # None
    BY <1>1, NoneAssumption DEF Unresolved
  <1>3. e.kind \in UnitKinds /\ units[u].state = IF e.status = "ambiguous" THEN "blocked"
                                                  ELSE IntentStateForEffect[e.kind]
    BY <1>1, <1>2 DEF IndInv, JournalInv
  <1>4. e = Entry(u, e.kind, e.status)
    BY <1>1, EntryFacts
  <1>5. QED BY <1>1, <1>2, <1>3, <1>4, IntentStateFacts DEF At, Positions

LEMMA EffectsHeld ==
    ASSUME IndInv, PhaseInv
    PROVE  EffectsRehydrate
  <1> SUFFICES ASSUME NEW u \in Units, NEW e \in UnresolvedEntries(u)
               PROVE  ParamsPresent(u, e.kind)
    BY DEF EffectsRehydrate
  <1> DEFINE r == units[u]
             k == e.kind
             s == IntentStateForEffect[k]
  <1>1. k \in UnitKinds /\ s \in Positions /\ At(u, s)
    BY UnresolvedPosition
  <1>2. /\ r \in Unit /\ Holds(r, s) /\ Bound(r, s) /\ Stopped(u, s)
    BY <1>1 DEF IndInv, TypeOK, PhaseInv, HoldingInv, HoldInv, StoppedInv, BindingInv,
       Positions
  <1>3. k \in TerminalKinds => s \in TerminalIntentStates
    BY DEF TerminalIntentStates
  <1>4. k \in TerminalKinds => MatchesTerminalSession(u)
    BY <1>2, <1>3 DEF Stopped
  <1>5. /\ k = "branch_create" => s = "branch_intent"
        /\ k = "worktree_create" => s = "worktree_intent"
        /\ k = "dispatch" => s = "dispatch_intent"
        /\ k = "worker_collect" => s = "collect_intent"
        /\ k = "candidate_collect" => s = "candidate_intent"
        /\ k = "candidate_refresh" => s = "refresh_intent"
        /\ k = "verify" => s = "verification_intent"
        /\ k = "review_dispatch" => s = "reviewer_dispatch_intent"
        /\ k = "review_collect" => s = "review_collect_intent"
        /\ k = "publish" => s = "publish_intent"
        /\ k = "integrate" => s = "integrate_intent"
        /\ k = "repair" => s = "repair_intent"
    BY IntentStateNames
  <1> HIDE DEF k, s
  <1>6. /\ k \in {"branch_create", "worktree_create", "dispatch", "repair",
                  "candidate_collect", "candidate_refresh", "publish"} => r.branch # "none"
        /\ k \in {"worktree_create", "dispatch", "repair", "candidate_collect",
                  "candidate_refresh", "verify"} => r.worktree
    BY <1>2, <1>5, StateSets DEF Holds, Tooled, Untooled
  <1>7. /\ k \in {"dispatch", "repair"} => r.wpacket # None
        /\ k = "worker_collect" => r.wsess
        /\ k = "candidate_refresh" => r.refresh # None
    BY <1>2, <1>5 DEF Holds, Launched, LaunchedStates
  <1>8. /\ k = "review_dispatch" => r.rpacket # None
        /\ k = "review_collect" => r.rsess
        /\ k = "candidate_collect" /\ r.recheck => r.cand # None
        /\ k = "repair" => r.repair # None
    BY <1>2, <1>5 DEF Holds, Reviewing, ReviewerStates, Settling
  <1>9. k \in {"verify", "review_dispatch", "review_collect", "publish", "integrate"}
            => r.cand # None
    BY <1>2, <1>5, StateSets, PairsAreBound
  <1>10. QED BY <1>4, <1>6, <1>7, <1>8, <1>9 DEF ParamsPresent, k

(* Every act that is journalled and not yet observed can be rebuilt from the   *)
(* durable unit, at whatever moment the controller crashes and however many   *)
(* units have moved in between.                                              *)
THEOREM EffectsAlwaysRehydrate == Spec => []EffectsRehydrate
  <1>1. IndInv /\ SeatsInv /\ PhaseInv => EffectsRehydrate
    BY EffectsHeld
  <1>2. QED BY <1>1, PhasesHold, PTL

-----------------------------------------------------------------------------
(* The success of an outstanding act can be recorded.  ENABLED is beyond the    *)
(* prover: Recordable states the guards instead, and Success the step that     *)
(* only assigns.                                                              *)

(* The step that records the success of act k and nothing else. *)
Reached(u, k) ==
    CASE k = "reservation_acquire" -> "resources_reserved"
      [] k = "branch_create"       -> "branch_observed"
      [] k = "worktree_create"     -> "worktree_observed"
      [] k \in {"dispatch", "repair"} -> "dispatched"
      [] k = "worker_collect"      -> "collected"
      [] k = "candidate_collect"   -> "candidate_committed"
      [] k = "candidate_refresh"   ->
             IF RefreshIsFastForward(units[u]) THEN "worktree_observed" ELSE "collected"
      [] k = "verify"              -> "qualified"
      [] k = "review_dispatch"     -> "reviewer_dispatched"
      [] k = "review_collect"      -> "approved"
      [] k = "publish"             -> IF IsPublicationHandoff THEN "handoff" ELSE "published"
      [] k = "integrate"           -> "landed"
      [] k = "reservation_release" -> "closed"
      [] k = "failure"             -> "failed"
      [] k = "timeout"             -> "timed_out"
      [] k = "park"                -> "parked"
      [] k = "cancel"              -> "cancelled"

Collected(u) == CHOOSE head \in Heads : CollectedHead(u, head)

Learnt(u, k) ==
    LET r == units[u] IN
    CASE k = "reservation_acquire" -> [r EXCEPT !.resState = "reserved"]
      [] k = "dispatch" -> [r EXCEPT !.wsess = TRUE, !.workers = @ + 1]
      [] k = "repair" -> [r EXCEPT !.wsess = TRUE, !.repairs = @ + 1, !.workers = @ + 1]
      [] k = "candidate_collect" ->
             [WithoutReviewBindings(r) EXCEPT
                 !.recheck = FALSE, !.cand = Collected(u), !.diff = Collected(u)]
      [] k = "candidate_refresh" ->
             IF RefreshIsFastForward(r) THEN [r EXCEPT !.refresh = None, !.base = r.refresh]
             ELSE Rebased(r)
      [] k = "verify" -> [r EXCEPT !.ver = <<r.base, r.cand>>]
      [] k = "review_dispatch" -> [r EXCEPT !.rsess = TRUE, !.reviewers = @ + 1]
      [] k = "review_collect" -> [r EXCEPT !.review = JudgedPair(r)]
      [] k = "publish" -> [r EXCEPT !.published = r.cand]
      [] k = "reservation_release" -> FreshUnit(r.base)
      [] k \in {"failure", "timeout"} -> FailureRepairContext(r)
      [] OTHER -> r

(* The acts whose success ends the unit. *)
Ends(k) ==
    \/ k \in TerminalKinds \cup {"integrate"}
    \/ k = "publish" /\ IsPublicationHandoff

Success(u, k) ==
    /\ Observe(u, Reached(u, k), k, Learnt(u, k))
    /\ wave' = IF k = "reservation_release" THEN wave \ {u} ELSE wave
    /\ closed' =
           IF Ends(k) THEN [closed EXCEPT ![u] = ClosureEvidenceFor(u, Reached(u, k))]
           ELSE IF k = "reservation_release"
           THEN [closed EXCEPT ![u] =
                    [UpdateClosureReleaseEvidence(u, "observed") EXCEPT !.final = TRUE]]
           ELSE closed
    /\ IF Ends(k) /\ k # "integrate" THEN ClearUnitOwners(u)
       ELSE /\ active' = IF k = "worker_collect" THEN active \ {u} ELSE active
            /\ qualificationQueue' =
                   CASE k = "candidate_collect" -> qualificationQueue \cup {u}
                     [] k = "integrate" -> qualificationQueue \ {u}
                     [] OTHER -> qualificationQueue
            /\ integrationQueue' =
                   CASE k = "review_collect" -> integrationQueue \cup {u}
                     [] k = "integrate" -> integrationQueue \ {u}
                     [] OTHER -> integrationQueue
            /\ qualificationOwner' = IF k = "integrate" THEN None ELSE qualificationOwner
            /\ integrationOwner' = IF k = "integrate" THEN None ELSE integrationOwner
            /\ currentReviewer' = IF k = "review_collect" THEN None ELSE currentReviewer

LEMMA RecordableObservable ==
    ASSUME NEW u \in Units, NEW k \in UnitKinds, Recordable(u, k)
    PROVE  /\ k = "candidate_refresh" => Observable(u, k, "refresh_observed")
           /\ \A event \in EffectMatchesObservation[k] : Observable(u, k, event)
  <1>1. PICK event \in EffectMatchesObservation[k] \cup {"refresh_observed"} :
            Observable(u, k, event)
    BY DEF Recordable
  <1>2. EffectMatchesObservation["candidate_refresh"] = {}
    BY DEF EffectMatchesObservation
  <1>3. QED BY <1>1, <1>2 DEF Observable

(* Recordable leaves no guard out: a step that only assigns, and so is          *)
(* possible in every state, is then an observation of the model.              *)
LEMMA RecordableSuffices ==
    ASSUME NEW u \in Units, NEW k \in UnitKinds, Recordable(u, k), Success(u, k)
    PROVE  UnitObservation(u)
  <1> DEFINE r == units[u]
  <1>0. /\ \A event \in EffectMatchesObservation[k] : Observable(u, k, event)
        /\ k = "candidate_refresh" => Observable(u, k, "refresh_observed")
    BY RecordableObservable
  <1>1. /\ Observe(u, Reached(u, k), k, Learnt(u, k))
        /\ k # "reservation_release" => wave' = wave
    BY DEF Success
  <1>e. /\ k \in TerminalKinds \cup {"integrate"} => Ends(k)
        /\ k = "publish" => (Ends(k) <=> IsPublicationHandoff)
        /\ k \notin TerminalKinds \cup {"integrate", "publish"} => ~ Ends(k)
    <2>1. k = "publish" => k \notin TerminalKinds \cup {"integrate"}
      BY DEF TerminalKinds
    <2>2. QED BY <2>1 DEF Ends
  <1>t. k \in TerminalKinds <=> k \in {"failure", "timeout", "park", "cancel"}
    BY DEF TerminalKinds
  <1>2. CASE k \in {"reservation_acquire", "branch_create", "worktree_create", "dispatch",
                    "repair", "verify", "review_dispatch"}
    <2>1. UNCHANGED <<wave, owners, closed>>
      BY <1>2, <1>e, <1>t DEF Success, owners
    <2>2. k = "reservation_acquire" => ReservationObserved(u)
      BY <1>0, <1>1, <2>1 DEF ReservationObserved, Reached, Learnt, EffectMatchesObservation
    <2>3. k = "branch_create" => BranchObserved(u)
      BY <1>0, <1>1, <2>1 DEF BranchObserved, Reached, Learnt, EffectMatchesObservation
    <2>4. k = "worktree_create" => WorktreeObserved(u)
      BY <1>0, <1>1, <2>1 DEF WorktreeObserved, Reached, Learnt, EffectMatchesObservation
    <2>5. k = "dispatch" => DispatchObserved(u)
      BY <1>0, <1>1, <2>1
         DEF DispatchObserved, Reached, Learnt, EffectMatchesObservation, Recordable
    <2>6. k = "repair" => RepairObserved(u)
      BY <1>0, <1>1, <2>1
         DEF RepairObserved, Reached, Learnt, EffectMatchesObservation, Recordable
    <2>7. k = "verify" => VerificationObserved(u)
      BY <1>0, <1>1, <2>1
         DEF VerificationObserved, Reached, Learnt, EffectMatchesObservation, Recordable
    <2>8. k = "review_dispatch" => ReviewerObserved(u)
      BY <1>0, <1>1, <2>1
         DEF ReviewerObserved, Reached, Learnt, EffectMatchesObservation, Recordable
    <2>9. QED BY <1>2, <2>2, <2>3, <2>4, <2>5, <2>6, <2>7, <2>8 DEF UnitObservation
  <1>3. CASE k = "worker_collect"
    <2>1. WorkerCollected(u)
      BY <1>0, <1>1, <1>3, <1>e, <1>t
         DEF WorkerCollected, Reached, Learnt, EffectMatchesObservation, Success
    <2>2. QED BY <2>1 DEF UnitObservation
  <1>4. CASE k = "candidate_collect"
    <2>1. Collected(u) \in Heads /\ CollectedHead(u, Collected(u))
      BY <1>4 DEF Recordable, Collected
    <2>2. CandidateObserved(u)
      BY <1>0, <1>1, <1>4, <2>1, <1>e, <1>t
         DEF CandidateObserved, Reached, Learnt, EffectMatchesObservation, Success
    <2>3. QED BY <2>2 DEF UnitObservation
  <1>5. CASE k = "candidate_refresh"
    <2>1. UNCHANGED <<wave, owners, closed>> /\ r.refresh # None
      BY <1>5, <1>e, <1>t DEF Success, owners, Recordable
    <2>2. RefreshObserved(u)
      BY <1>0, <1>1, <1>5, <2>1 DEF RefreshObserved, Reached, Learnt
    <2>3. QED BY <2>2 DEF UnitObservation
  <1>6. CASE k = "review_collect"
    <2>1. ReviewCollected(u)
      BY <1>0, <1>1, <1>6, <1>e, <1>t
         DEF ReviewCollected, Reached, Learnt, EffectMatchesObservation, Success, Recordable
    <2>2. QED BY <2>1 DEF UnitObservation
  <1>7. CASE k = "publish"
    <2>1. PublishObserved(u)
      BY <1>0, <1>1, <1>7, <1>e, <1>t
         DEF PublishObserved, Reached, Learnt, EffectMatchesObservation, Success, Recordable,
             PersistTerminalClosureEvidence, owners
    <2>2. QED BY <2>1 DEF UnitObservation
  <1>8. CASE k = "integrate"
    <2>1. integrationOwner = u /\ ClosureEvidenceBuilds(u, "landed")
      BY <1>8 DEF Recordable
    <2>2. Reached(u, k) = "landed" /\ Learnt(u, k) = r
      BY <1>8 DEF Reached, Learnt
    <2>3. /\ closed' = [closed EXCEPT ![u] = ClosureEvidenceFor(u, "landed")]
          /\ qualificationOwner' = None /\ integrationOwner' = None
          /\ qualificationQueue' = qualificationQueue \ {u}
          /\ integrationQueue' = integrationQueue \ {u}
          /\ UNCHANGED <<wave, active, currentReviewer>>
      BY <1>8, <2>2, <1>e, <1>t DEF Success
    <2>4. Observable(u, "integrate", "integrate_observed")
      BY <1>0, <1>8 DEF EffectMatchesObservation
    <2>5. IntegrateObserved(u)
      BY <1>1, <1>8, <2>1, <2>2, <2>3, <2>4
         DEF IntegrateObserved, PersistTerminalClosureEvidence
    <2>6. QED BY <2>5 DEF UnitObservation
  <1>9. CASE k = "reservation_release"
    <2>1. ReservationReleased(u)
      BY <1>0, <1>1, <1>9, <1>e, <1>t
         DEF ReservationReleased, Reached, Learnt, EffectMatchesObservation, Success,
             Recordable, owners
    <2>2. QED BY <2>1 DEF UnitObservation
  <1>10. CASE k \in TerminalKinds
    <2>0. /\ ClosureEvidenceBuilds(u, "failed")
          /\ k = "cancel" => MatchesTerminalSession(u)
      BY <1>10 DEF Recordable
    <2>1. /\ closed' = [closed EXCEPT ![u] = ClosureEvidenceFor(u, Reached(u, k))]
          /\ ClearUnitOwners(u) /\ UNCHANGED wave
      BY <1>10, <1>e, <1>t DEF Success
    <2>2. Reached(u, k) \in {"failed", "timed_out", "parked", "cancelled"}
      BY <1>10, <1>t DEF Reached
    <2>3. PersistTerminalClosureEvidence(u, Reached(u, k))
      BY <2>0, <2>1, <2>2 DEF PersistTerminalClosureEvidence, ClosureEvidenceBuilds, Successful
    <2>4. \A event \in EffectMatchesObservation[k] :
              TerminalObserved(u, k, event, Reached(u, k))
      BY <1>0, <1>1, <1>10, <1>t, <2>0, <2>1, <2>3 DEF TerminalObserved, Learnt
    <2>5. FailureObserved(u) \/ TimeoutObserved(u) \/ ParkObserved(u) \/ CancelObserved(u)
      BY <1>10, <1>t, <2>4 DEF FailureObserved, TimeoutObserved, ParkObserved, CancelObserved,
                         Reached, EffectMatchesObservation
    <2>6. QED BY <2>5 DEF UnitObservation
  <1>11. QED
    BY <1>2, <1>3, <1>4, <1>5, <1>6, <1>7, <1>8, <1>9, <1>10, <1>t DEF UnitKinds

LEMMA EvidenceBuilds ==
    ASSUME IndInv, PhaseInv, NEW u \in Units, NEW s \in Positions, At(u, s),
           s \notin {"reservation_intent", "reservation_release_intent"},
           units[u].wpacket # None \/ units[u].scope = 0,
           NEW outcome, Successful(outcome) => s \in ApprovedStates
    PROVE  ClosureEvidenceBuilds(u, outcome)
  <1> DEFINE r == units[u]
  <1>1. r \in Unit /\ Holds(r, s) /\ Bound(r, s)
    BY DEF IndInv, TypeOK, PhaseInv, HoldingInv, HoldInv, BindingInv, Positions
  <1>2. (r.wsess => r.wpacket # None) /\ (r.rsess => r.rpacket # None)
    BY <1>1 DEF Holds, Launched, Slotted, Reviewing
  <1>3. r.res # {} => r.resState = "reserved"
    BY <1>1 DEF Holds, Reserving
  <1>4. r.res # {} => Entry(u, "reservation_acquire", "observed") \in journal
    BY <1>3 DEF PhaseInv, HoldingInv, AcquiredInv, Acquired
  <1>5. s \in ApprovedStates => None \notin {r.cand, r.ver, r.review}
    BY <1>1, PairsAreBound DEF CandidateStates, VerifiedStates
  <1>6. QED BY <1>2, <1>4, <1>5 DEF ClosureEvidenceBuilds

LEMMA OutstandingObservable ==
    ASSUME IndInv, NEW u \in Units, NEW e \in UnresolvedEntries(u),
           e.kind # "candidate_refresh" \/ runState # "blocked"
    PROVE  \E event \in EffectMatchesObservation[e.kind] \cup {"refresh_observed"} :
               Observable(u, e.kind, event)
  <1>1. /\ e \in journal /\ Unresolved(e) /\ e.unit = u /\ e.kind \in UnitKinds
        /\ e.status \in {"intended", "ambiguous"} /\ e \in Entries /\ u # None
    BY UnresolvedPosition, NoneAssumption DEF UnresolvedEntries, IndInv, TypeOK
  <1>2. /\ controller = "acquired" /\ u \in wave
        /\ units[u].state = IF e.status = "ambiguous" THEN "blocked"
                            ELSE IntentStateForEffect[e.kind]
    BY <1>1 DEF IndInv, JournalInv
  <1>3. e.status = "ambiguous" => runState = "blocked"
    BY <1>1 DEF IndInv, AggregateInv
  <1>4. e = Entry(u, e.kind, e.status)
    BY <1>1, EntryFacts
  <1>5. \A k \in UnitKinds : k # "candidate_refresh" => EffectMatchesObservation[k] # {}
    BY DEF UnitKinds, EffectMatchesObservation
  <1>6. PICK event \in EffectMatchesObservation[e.kind] \cup {"refresh_observed"} :
            runState = "blocked" => event \in EffectMatchesObservation[e.kind]
    BY <1>1, <1>5
  <1>7. Observable(u, e.kind, event)
    BY <1>1, <1>2, <1>3, <1>4, <1>6 DEF Observable
  <1>8. QED BY <1>6, <1>7

LEMMA SuccessesRecordable ==
    ASSUME IndInv, SeatsInv, PhaseInv, Heads # {}
    PROVE  SuccessRecordable
  <1> SUFFICES ASSUME NEW u \in Units, NEW e \in UnresolvedEntries(u),
                      e.kind # "candidate_refresh" \/ runState # "blocked",
                      e.kind \notin TerminalKinds \/ units[u].wpacket # None
                          \/ ~ (units[u].scope > 0),
                      e.kind = "review_dispatch" => SessionSlotFree(units[u].reviewers)
               PROVE  Recordable(u, e.kind)
    BY DEF SuccessRecordable
  <1> DEFINE r == units[u]
             k == e.kind
             s == IntentStateForEffect[k]
  <1>0. \E event \in EffectMatchesObservation[k] \cup {"refresh_observed"} :
            Observable(u, k, event)
    BY OutstandingObservable
  <1>1. k \in UnitKinds /\ s \in Positions /\ At(u, s)
    BY UnresolvedPosition
  <1>2. /\ r \in Unit /\ Holds(r, s) /\ Bound(r, s) /\ Sits(u, s)
        /\ s = "reservation_release_intent" => closed[u] # None
    BY <1>1 DEF IndInv, TypeOK, PhaseInv, HoldingInv, HoldInv, BindingInv, SeatsInv, SeatInv,
       Positions
  <1>3. k \in TerminalKinds => s \in TerminalIntentStates
    BY DEF TerminalIntentStates
  <1>4. /\ k = "candidate_collect" => s = "candidate_intent"
        /\ k = "candidate_refresh" => s = "refresh_intent"
        /\ k = "dispatch" => s = "dispatch_intent"
        /\ k = "repair" => s = "repair_intent"
        /\ k = "verify" => s = "verification_intent"
        /\ k = "review_dispatch" => s = "reviewer_dispatch_intent"
        /\ k = "review_collect" => s = "review_collect_intent"
        /\ k = "publish" => s = "publish_intent"
        /\ k = "integrate" => s = "integrate_intent"
        /\ k = "reservation_release" => s = "reservation_release_intent"
    BY IntentStateNames
  <1>5. k \in TerminalKinds => r.wpacket # None \/ r.scope = 0
    <2>1. r.scope \in Nat
      BY <1>2, ConstantsAssumption DEF Unit
    <2>2. QED BY <2>1
  <1> HIDE DEF k, s
  <1>6. k = "candidate_collect" => \E head \in Heads : CollectedHead(u, head)
    <2>1. CASE k = "candidate_collect" /\ r.recheck
      <3>1. r.cand # None
        BY <1>2, <1>4, <2>1 DEF Holds, Reviewing
      <3>2. r.cand \in Heads
        BY <1>2, <3>1, OptFacts DEF Unit
      <3>3. QED BY <3>2 DEF CollectedHead
    <2>2. CASE ~ r.recheck
      BY <2>2 DEF CollectedHead
    <2>3. QED BY <2>1, <2>2
  <1>7. k = "candidate_refresh" => r.refresh # None
    BY <1>2, <1>4 DEF Holds, Launched
  <1>8. /\ k = "verify" => qualificationOwner = u
        /\ k \in {"review_dispatch", "review_collect"} => currentReviewer = u
        /\ k = "integrate" => integrationOwner = u
    BY <1>2, <1>4 DEF Sits, QualificationOwnerStates, ReviewerStates
  <1>9. k = "review_collect" => JudgedPair(r) \in Pair
    <2> SUFFICES ASSUME k = "review_collect" PROVE JudgedPair(r) \in Pair
      OBVIOUS
    <2>1. /\ r.cand \in Heads /\ r.base \in Bases /\ r.ver = <<r.base, r.cand>>
      BY <1>2, <1>4, StateSets DEF Bound, VerifiedStates, Unit
    <2>2. r.ver # None /\ r.ver[1] = r.base
      BY <2>1, NoneAssumption DEF Pair
    <2>3. QED BY <2>1, <2>2 DEF JudgedPair, Pair
  <1>10. k = "publish" => r.cand # None
    BY <1>2, <1>4, StateSets, PairsAreBound
  <1>11. /\ k = "publish" => ClosureEvidenceBuilds(u, "handoff")
         /\ k = "integrate" => ClosureEvidenceBuilds(u, "landed")
    <2> SUFFICES ASSUME k \in {"publish", "integrate"}, NEW outcome
                 PROVE  ClosureEvidenceBuilds(u, outcome)
      OBVIOUS
    <2>1. s \in {"publish_intent", "integrate_intent"} /\ s \in ApprovedStates
      BY <1>4 DEF ApprovedStates
    <2>2. r.wpacket # None
      BY <1>2, <2>1, StateSets DEF Holds, Launched, LaunchedStates
    <2>3. QED BY <1>1, <2>1, <2>2, EvidenceBuilds
  <1>12. k \in TerminalKinds => ClosureEvidenceBuilds(u, "failed")
    <2> SUFFICES ASSUME k \in TerminalKinds PROVE ClosureEvidenceBuilds(u, "failed")
      OBVIOUS
    <2>1. s \notin {"reservation_intent", "reservation_release_intent"}
      BY <1>3, StateSets
    <2>2. QED BY <1>1, <1>5, <2>1, EvidenceBuilds DEF Successful
  <1>13. k \in {"dispatch", "repair"} => SessionSlotFree(r.workers)
    <2>1. r.workers \in 0..SessionsPerRole /\ r.repairs \in 0..MaxRepairs
      BY <1>2 DEF Unit
    <2>2. k = "dispatch" => r.workers <= r.repairs
      BY <1>2, <1>4 DEF Holds, Slotted, UnlaunchedStates
    <2>3. k = "repair" => r.workers <= r.repairs + 1 /\ r.repairs < MaxRepairs
      BY <1>2, <1>4 DEF Holds, Slotted, Bound
    <2>4. QED BY <2>1, <2>2, <2>3, ConstantsAssumption DEF SessionSlotFree, SessionsPerRole
  <1>14. k = "cancel" => MatchesTerminalSession(u)
    <2>1. Stopped(u, s)
      BY <1>1 DEF PhaseInv, StoppedInv
    <2>2. k = "cancel" => s \in TerminalIntentStates
      BY <1>3 DEF TerminalKinds
    <2>3. QED BY <2>1, <2>2 DEF Stopped
  <1>15. QED
    BY <1>0, <1>2, <1>4, <1>6, <1>7, <1>8, <1>9, <1>10, <1>11, <1>12, <1>13, <1>14
       DEF Recordable, k

(* Whatever the other units did and wherever the controller crashed, an act     *)
(* that succeeded can be written down when it is read back, but for the three  *)
(* exceptions SuccessRecordable names; nothing is assumed but that some head   *)
(* exists.                                                                   *)
THEOREM SuccessesAlwaysRecordable == Heads # {} => (Spec => []SuccessRecordable)
  <1> SUFFICES ASSUME Heads # {} PROVE Spec => []SuccessRecordable
    OBVIOUS
  <1>1. IndInv /\ SeatsInv /\ PhaseInv => SuccessRecordable
    BY SuccessesRecordable
  <1>2. QED BY <1>1, PhasesHold, PTL

-----------------------------------------------------------------------------
(* The parameters of an outstanding act *)

(* An event after which a unit still has an act outstanding changes at most    *)
(* its state.                                                                *)
Rests(u) ==
    /\ \/ units'[u] = units[u]
       \/ units'[u] = [units[u] EXCEPT !.state = "blocked"]
    /\ currentReviewer' = u <=> currentReviewer = u
    /\ u \in active' <=> u \in active

LEMMA RestingParams ==
    ASSUME TypeOK, NEW u \in Units, NEW k, Rests(u)
    PROVE  RuntimeEffectParams(u, k)' = RuntimeEffectParams(u, k)
  <1> DEFINE r == units[u]
             q == units'[u]
  <1>1. /\ q.res = r.res /\ q.base = r.base /\ q.branch = r.branch
        /\ q.worktree = r.worktree /\ q.wpacket = r.wpacket /\ q.repair = r.repair
        /\ q.wsess = r.wsess /\ q.recheck = r.recheck /\ q.cand = r.cand
        /\ q.refresh = r.refresh /\ q.ver = r.ver /\ q.rpacket = r.rpacket
        /\ q.rsess = r.rsess /\ q.pubRef = r.pubRef
    <2>1. r \in Unit
      BY DEF TypeOK
    <2>2. q = r \/ q = [r EXCEPT !.state = "blocked"]
      BY DEF Rests
    <2> HIDE DEF q, r
    <2>3. QED BY <2>1, <2>2 DEF Unit
  <1>2. TerminalParams(u)' = TerminalParams(u)
    BY DEF Rests, TerminalParams
  <1>3. CandidateParams(q) = CandidateParams(r)
    BY <1>1 DEF CandidateParams
  <1> HIDE DEF q, r
  <1>4. QED BY <1>1, <1>2, <1>3 DEF RuntimeEffectParams, q, r

Outlasts(u) == UnresolvedEntries(u) # {} /\ UnresolvedEntries(u)' # {}

LEMMA OutstandingRests ==
    ASSUME IndInv, SeatsInv, PhaseInv, [Next]_vars, NEW u \in Units, Outlasts(u)
    PROVE  Rests(u)
  <1>0. CoreInv /\ TypeOK /\ JournalInv /\ SeatInv /\ HoldInv
    BY DEF CoreInv, IndInv, SeatsInv, PhaseInv, HoldingInv
  <1>1. CASE \/ ControllerAcquireIntent \/ ControllerReleaseIntent
             \/ ControllerObservation \/ HarnessConfigured \/ WavePlanned \/ UNCHANGED vars
    <2>1. UNCHANGED owners /\ units'[u] = units[u]
      BY <1>1, NoUnitStill
         DEF Still, ControllerAcquireIntent, ControllerReleaseIntent, ControllerIntent,
         ControllerObservation, ControllerAcquired, ControllerReleased, HarnessConfigured,
         WavePlanned, vars
    <2>2. QED BY <2>1 DEF Rests, owners
  <1>2. ASSUME NEW v \in Units, UnitIntent(v) \/ UnitObservation(v) PROVE Rests(u)
    <2>1. CASE v # u
      <3>1. units'[u] = units[u] /\ Beside(u)
        BY <1>0, <1>2, <2>1, UnitIntentWrites, UnitObservationWrites,
           UnitIntentKeepsSeats, UnitObservationKeepsSeats DEF Writes, Apart
      <3>2. QED BY <3>1 DEF Rests, Beside
    <2>2. CASE v = u /\ UnitIntent(u)
      <3>1. CanIntend(u)
        BY <1>0, <2>2, UnitIntentShape DEF IntentStep, IntentWith
      <3>2. QED BY <3>1 DEF CanIntend, HasUnresolvedUnitEffect, Outlasts
    <2>3. CASE v = u /\ UnitObservation(u)
      <3>1. PICK k \in UnitKinds : Outstanding(u, k) /\ MarkObserved(u, k)
        BY <1>0, <2>3, UnitObservationShape DEF ObserveStep, ObserveWith
      <3>2. \A e \in journal' : Unresolved(e) => e.unit # u
        BY <1>0, <3>1, ObserveSettles
      <3>3. UnresolvedEntries(u)' = {}
        BY <3>2 DEF UnresolvedEntries, Unresolved
      <3>4. QED BY <3>3 DEF Outlasts
    <2>4. QED BY <1>2, <2>1, <2>2, <2>3
  <1>3. ASSUME NEW v \in Units, RepairScopeExtended(v) PROVE Rests(u)
    <2>1. \A e \in journal : e.status = "observed"
      BY <1>3 DEF RepairScopeExtended, RepairScopeExtensionEligible
    <2>2. UnresolvedEntries(u) = {}
      BY <2>1 DEF UnresolvedEntries
    <2>3. QED BY <2>2 DEF Outlasts
  <1>4. ASSUME NEW e \in journal, EffectAmbiguous(e) PROVE Rests(u)
    BY <1>4, AmbiguityKeepsPositions DEF Rests, owners
  <1>5. QED BY <1>1, <1>2, <1>3, <1>4 DEF Next, Released

(* The parameters an act was journalled with, whose hash is stored, can be     *)
(* read back from the aggregate unchanged until the act is observed, across   *)
(* the steps of every other unit and across the loss of its own outcome.      *)
THEOREM ParamsAlwaysStable == Spec => ParamsStable
  <1> DEFINE Stable == \A u \in Units : \A e \in UnresolvedEntries(u) :
                (\E f \in UnresolvedEntries(u)' : f.kind = e.kind) =>
                    RuntimeEffectParams(u, e.kind)' = RuntimeEffectParams(u, e.kind)
  <1>1. IndInv /\ SeatsInv /\ PhaseInv /\ [Next]_vars => Stable
    BY OutstandingRests, RestingParams DEF IndInv, Outlasts
  <1>2. [Stable]_vars <=>
            [\A u \in Units : \A e \in UnresolvedEntries(u) :
                (\E f \in UnresolvedEntries(u)' : f.kind = e.kind) =>
                    RuntimeEffectParams(u, e.kind)' = RuntimeEffectParams(u, e.kind)]_vars
    OBVIOUS
  <1> HIDE DEF Stable
  <1>3. QED BY <1>1, <1>2, PhasesHold, PTL DEF Spec, ParamsStable

=============================================================================

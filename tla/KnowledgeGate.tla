--------------------------- MODULE KnowledgeGate ---------------------------
(***************************************************************************)
(* The knowledge gate of the repository-run reducer: what happens to a     *)
(* wave's materialisation targets between the landing of its units and     *)
(* the next wave (reducer.ts: newGate, reduceGate, deferGateEntry,         *)
(* gateIsGreen, gateInvariantErrors; actions.ts: actionsForGate).          *)
(*                                                                         *)
(* The unit stage resolves the sources of every landed unit's targets,     *)
(* probes their destinations, names and publishes the outputs; then the    *)
(* provenance of the landed units is committed and the aggregate verified; *)
(* then the gate stage does the same for the gate's own targets.  Every    *)
(* entry ends observed or voided; a refused one is retried or deferred.    *)
(*                                                                         *)
(* Abstractions: an artifact's name is its source's stem and the clock     *)
(* second it was given (the sidecar's is a function of it); the size       *)
(* budgets are never exhausted; a destination's device and inode do not    *)
(* change during the run; the clocks of two waves differ, so a carried     *)
(* output never meets a new one; follow-up Beads are not told apart.  No   *)
(* carry is claimed from another run, so every wave has units.             *)
(***************************************************************************)
EXTENDS Integers, Sequences, FiniteSets, FiniteSetsExt, Functions

CONSTANTS
  WaveUnits,    \* the units of each wave, a sequence of disjoint sets
  Targets,      \* target definitions
  Items,        \* outputs the targets' patterns match: numbers, in the order of their entry ids
  Destinations, \* alias and subpath pairs
  Origin,       \* Targets -> unit, or NoUnit for a gate target
  Destination,  \* Targets -> Destinations
  TargetOf,     \* Items -> Targets
  Stem,         \* Items -> the part of the name taken from the source
  Physical,     \* Destinations -> device and inode
  Optional,     \* the destinations whose alias may be unmounted
  Clocks,       \* the UTC seconds a clock may read
  NoUnit

Units == UNION {WaveUnits[w] : w \in DOMAIN WaveUnits}

ASSUME GateAssumption ==
  /\ WaveUnits \in Seq(SUBSET Units) \ {<<>>} /\ {} \notin Range(WaveUnits)
  /\ Targets \subseteq Nat /\ Items \subseteq Nat \ {0} /\ Clocks \subseteq Nat \ {0}
  /\ Origin \in [Targets -> Units \cup {NoUnit}] /\ NoUnit \notin Units
  /\ Destination \in [Targets -> Destinations] /\ TargetOf \in [Items -> Targets]
  /\ Optional \subseteq Destinations
  /\ \A v, w \in DOMAIN WaveUnits : v # w => WaveUnits[v] \cap WaveUnits[w] = {}
  /\ \A t \in Targets : \E i \in Items : TargetOf[i] = t

VARIABLES
  gate,      \* the aggregate's gate record
  wave,      \* index of the current wave
  handoff,   \* the completion boundary is a handoff: nothing lands
  outcome,   \* closure evidence of each unit
  effect,    \* the gate entry whose effect is intended and not observed, or None
  projected  \* ghost: how many provenance commits record each unit

vars == <<gate, wave, handoff, outcome, effect, projected>>

None == <<>>
NoName == 0
NoEntry == 0
Stages == {"unit", "gate"}
Dispositions == {"none", "unit_not_landed", "handoff_boundary", "no_landed_units",
                 "optional_alias_unmounted", "deferred_by_controller", "deferral_cascade"}
Refusals == {"none", "refused", "optional_alias_unmounted", "output_name_collision",
             "provenance_base_advanced", "verification_failed"}

-----------------------------------------------------------------------------
(* Settlement records: promises, targets, resolutions, probes, outputs.    *)

Fresh == [status |-> "pending", disposition |-> "none", followUp |-> FALSE, refusal |-> "none"]
FreshItem == [status |-> "pending", disposition |-> "none", followUp |-> FALSE,
              refusal |-> "none", name |-> NoName, witness |-> NoEntry]

Pending(r) == r.status = "pending"
Refused(r) == r.status = "pending" /\ r.refusal # "none"
Voided(r, why) == [r EXCEPT !.status = "voided", !.disposition = why]
Deferred(r) == [Voided(r, "deferred_by_controller") EXCEPT !.followUp = TRUE]
CascadeVoid(r) == [Voided(r, "deferral_cascade") EXCEPT !.followUp = TRUE]
Attempted(r) == [r EXCEPT !.refusal = "none"]
Observed(r) == [r EXCEPT !.status = "observed", !.refusal = "none"]
RefusedWith(r, code) == [r EXCEPT !.refusal = code]

Stage(t) == IF Origin[t] = NoUnit THEN "gate" ELSE "unit"
ProbeOf(t) == <<Stage(t), Destination[t]>>
StageTargets(g, s) == {t \in DOMAIN g.targets : Stage(t) = s}
StageItems(g, s) == {i \in DOMAIN g.items : Stage(TargetOf[i]) = s}
ItemsOf(g, t) == {i \in DOMAIN g.items : TargetOf[i] = t}
StageProbes(g, s) == {p \in DOMAIN g.probes : p[1] = s}

Update(f, S, Op(_)) == [x \in DOMAIN f |-> IF x \in S THEN Op(f[x]) ELSE f[x]]

-----------------------------------------------------------------------------
(* Where a stage stands.                                                   *)

TargetIsSettled(g, t) ==
  /\ \A i \in ItemsOf(g, t) : ~Pending(g.items[i])
  /\ IF g.targets[t].status = "voided"
     THEN ~Pending(g.resolutions[t])
     ELSE g.resolutions[t].status = "observed" /\ ItemsOf(g, t) # {}

StageResolutionsSettled(g, s) ==
  \A t \in StageTargets(g, s) :
    g.targets[t].status = "voided" \/ g.resolutions[t].status = "observed"

StageNamesReady(g, s) ==
  /\ StageResolutionsSettled(g, s)
  /\ \A p \in StageProbes(g, s) : ~Pending(g.probes[p])
  /\ \A i \in StageItems(g, s) :
       /\ g.targets[TargetOf[i]].status # "voided" =>
            g.probes[ProbeOf(TargetOf[i])].status = "observed"
       /\ Pending(g.items[i]) => g.items[i].name # NoName

StageMaterialisationsSettled(g, s) ==
  StageNamesReady(g, s) /\ \A i \in StageItems(g, s) : ~Pending(g.items[i])

UnitProjectionStageSettled(g) ==
  /\ g.unitIds = {}
  /\ \A t \in DOMAIN g.promises : Stage(t) = "unit" => ~Pending(g.promises[t])
  /\ \A t \in StageTargets(g, "unit") : TargetIsSettled(g, t)
  /\ \A p \in StageProbes(g, "unit") : ~Pending(g.probes[p])

(* The stage's targets may be worked on. *)
StageOpen(g, s) ==
  IF s = "unit" THEN g.unitIds = {} ELSE g.verify.entry /\ g.verify.status = "observed"

-----------------------------------------------------------------------------
(* Names.  Outputs meet when their probes saw one directory and their      *)
(* names are equal.                                                        *)

Identity(g, s, i) ==
  LET p == <<s, Destination[TargetOf[i]]>>
  IN  IF p \in DOMAIN g.probes /\ g.probes[p].status = "observed"
      THEN {Physical[p[2]]} ELSE {}

FinalName(g, i) == <<Stem[i], g.items[i].name>>

(* Mutant: directories are told apart by their alias. *)
CandidateAlias(g, s, open, i) ==
  IF Identity(g, IF i \in open THEN s ELSE "unit", i) = {} THEN {} ELSE {Destination[TargetOf[i]]}

(* An observed output is looked up among the unit probes, whatever its stage. *)
CandidatePlace(g, s, open, i) == Identity(g, IF i \in open THEN s ELSE "unit", i)

(* The first other entry each candidate collides with. *)
NameCollisionWitness(g, s, includeVoided, i) ==
  LET open == {j \in StageItems(g, s) :
                 \/ Pending(g.items[j])
                 \/ /\ includeVoided
                    /\ g.items[j].status = "voided"
                    /\ g.items[j].refusal = "output_name_collision"}
      done == {j \in StageItems(g, s) \cup (IF s = "gate" THEN StageItems(g, "unit") ELSE {}) :
                 g.items[j].status = "observed"}
      place(j) == CandidatePlace(g, s, open, j)
      rivals == {j \in (open \cup done) \ {i} :
                   /\ g.items[j].name # NoName
                   /\ FinalName(g, j) = FinalName(g, i)
                   /\ place(j) # {} /\ place(j) = place(i)}
  IN  IF i \in open /\ g.items[i].name # NoName /\ rivals # {} THEN Min(rivals) ELSE NoEntry

RecordNameCollisions(g, s) ==
  IF ~StageNamesReady(g, s) THEN g
  ELSE [g EXCEPT !.items =
         [i \in DOMAIN g.items |->
            IF i \in StageItems(g, s) /\ NameCollisionWitness(g, s, FALSE, i) # NoEntry
            THEN [g.items[i] EXCEPT !.refusal = "output_name_collision",
                                    !.witness = NameCollisionWitness(g, s, FALSE, i)]
            ELSE g.items[i]]]

ResetStageNames(g, s) ==
  [g EXCEPT !.items = Update(g.items, {i \in StageItems(g, s) : Pending(g.items[i])},
                             LAMBDA r : FreshItem)]

(* No two published outputs of one directory have one name. *)
ObservedFinalNamesAreUnique(g) ==
  LET done == {i \in DOMAIN g.items : g.items[i].status = "observed"}
      place(i) == Identity(g, Stage(TargetOf[i]), i)
  IN  \A i, j \in done :
        i # j /\ place(i) = place(j) => FinalName(g, i) # FinalName(g, j)

-----------------------------------------------------------------------------
(* Provenance.                                                             *)

(* The frozen evidence names every collision, and only collisions. *)
ProjectionInputFits(g) ==
  LET named == {i \in StageItems(g, "unit") :
                  g.items[i].name # NoName /\ Identity(g, "unit", i) # {}}
      rivals(i) == {j \in named \ {i} : /\ FinalName(g, j) = FinalName(g, i)
                                        /\ Identity(g, "unit", j) = Identity(g, "unit", i)}
  IN  \A i \in StageItems(g, "unit") :
        IF i \in named /\ rivals(i) # {}
        THEN g.items[i].refusal = "output_name_collision" /\ g.items[i].witness = Min(rivals(i))
        ELSE g.items[i].refusal # "output_name_collision"

ProvenanceUnits(g) == g.carried \cup g.uncommitted

MaybeCreateProvenance(g) ==
  CASE \/ g.provenance.entry
       \/ g.provenance.disposition = "handoff_boundary"
       \/ ~UnitProjectionStageSettled(g) -> g
    [] OTHER ->
       IF ProvenanceUnits(g) = {}
       THEN [g EXCEPT !.provenance = Voided(@, "no_landed_units"),
                      !.verify = Voided(@, "no_landed_units"),
                      !.promises = Update(@, {t \in DOMAIN @ : Stage(t) = "gate"},
                                          LAMBDA r : Voided(r, "no_landed_units"))]
       ELSE [g EXCEPT !.provenance.entry = TRUE, !.provenance.units = ProvenanceUnits(g),
                      !.carried = {}]

-----------------------------------------------------------------------------
(* The gate's part of the aggregate invariant, which commit applies to     *)
(* every reduction.                                                        *)

SettlementMetadataIsCoherent(r) ==
  IF r.status # "voided"
  THEN r.disposition = "none" /\ ~r.followUp /\ (r.status = "observed" => r.refusal = "none")
  ELSE /\ r.disposition # "none"
       /\ r.followUp = (r.disposition \in {"deferred_by_controller", "deferral_cascade"})
       /\ r.disposition = "deferred_by_controller" => r.refusal # "none"
       /\ r.disposition = "deferral_cascade" => r.refusal = "none"

TargetVoidOrigin(g, t) ==
  LET p == ProbeOf(t)
      probeVoided(why) == p \in DOMAIN g.probes /\ g.probes[p].disposition = why
  IN  IF g.targets[t].disposition = "optional_alias_unmounted"
      THEN /\ probeVoided("optional_alias_unmounted") /\ Destination[t] \in Optional
           /\ g.resolutions[t].status = "observed"
           /\ \A i \in ItemsOf(g, t) : g.items[i].disposition = "optional_alias_unmounted"
      ELSE /\ g.targets[t].disposition = "deferral_cascade"
           /\ \/ g.resolutions[t].disposition = "deferred_by_controller"
              \/ probeVoided("deferred_by_controller")
              \/ \E i \in ItemsOf(g, t) : g.items[i].disposition = "deferred_by_controller"

TargetRecordIsCoherent(g, t) ==
  /\ g.targets[t].status = "observed" =>
       /\ g.resolutions[t].status = "observed" /\ ItemsOf(g, t) # {}
       /\ \A i \in ItemsOf(g, t) : g.items[i].status = "observed"
  /\ g.targets[t].status = "voided" => TargetIsSettled(g, t) /\ TargetVoidOrigin(g, t)
  /\ g.resolutions[t].status = "voided" =>
       g.resolutions[t].disposition = "deferred_by_controller"

CollisionWitnessIsCoherent(g, i) ==
  LET s == Stage(TargetOf[i]) IN
    IF g.items[i].refusal = "output_name_collision"
    THEN g.items[i].witness = NameCollisionWitness(g, s, TRUE, i)
    ELSE Pending(g.items[i]) /\ StageNamesReady(g, s) =>
           NameCollisionWitness(g, s, TRUE, i) = NoEntry

ProvenanceIsCoherent(g) ==
  /\ g.provenance.entry => UnitProjectionStageSettled(g) /\ ProjectionInputFits(g)
  /\ g.provenance.disposition = "no_landed_units" => g.uncommitted = {} /\ g.carried = {}

AccountingIsCoherent(g) ==
  g.provenance.entry => g.uncommitted = IF g.provenance.status = "observed"
                                        THEN {} ELSE g.provenance.units

StagesAreOrdered(g) ==
  /\ g.provenance.entry /\ g.provenance.status # "voided" =>
       StageMaterialisationsSettled(g, "unit")
  /\ g.verify.entry => g.provenance.status = "observed"
  /\ StageTargets(g, "gate") # {} => StageOpen(g, "gate")

SettlementRecords(g) ==
  Range(g.promises) \cup Range(g.targets) \cup Range(g.resolutions) \cup Range(g.items)
    \cup Range(g.probes) \cup {g.provenance, g.verify}

GateInvariantHolds(g) ==
  /\ \A r \in SettlementRecords(g) : SettlementMetadataIsCoherent(r)
  /\ \A t \in DOMAIN g.targets : TargetRecordIsCoherent(g, t)
  /\ \A i \in DOMAIN g.items :
       /\ g.items[i].refusal # "none" => g.items[i].name # NoName
       /\ CollisionWitnessIsCoherent(g, i)
  /\ ObservedFinalNamesAreUnique(g)
  /\ ProvenanceIsCoherent(g) /\ AccountingIsCoherent(g) /\ StagesAreOrdered(g)

Commit(g) == GateInvariantHolds(g) /\ gate' = g

GateIsGreen(g) ==
  /\ \A t \in DOMAIN g.promises : g.promises[t].status = "voided"
  /\ \A t \in DOMAIN g.targets : TargetIsSettled(g, t)
  /\ \A p \in DOMAIN g.probes : ~Pending(g.probes[p])
  /\ g.provenance.status = "voided" \/ (g.provenance.entry /\ g.provenance.status = "observed")
  /\ g.verify.status = "voided" \/ (g.verify.entry /\ g.verify.status = "observed")

-----------------------------------------------------------------------------
(* The wave's lifecycle as the gate sees it.                               *)

NewGate(w, carried) ==
  LET placeholder(r) == IF handoff THEN Voided(r, "handoff_boundary") ELSE r
      promised == {t \in Targets : Origin[t] \in WaveUnits[w] \cup {NoUnit}}
  IN  [unitIds     |-> WaveUnits[w],
       promises    |-> [t \in promised |-> IF Stage(t) = "gate" THEN placeholder(Fresh) ELSE Fresh],
       targets     |-> <<>>,
       resolutions |-> <<>>,
       items       |-> <<>>,
       probes      |-> <<>>,
       provenance  |-> placeholder([status |-> "pending", disposition |-> "none",
                                    followUp |-> FALSE, refusal |-> "none",
                                    entry |-> FALSE, units |-> {}, clocked |-> FALSE]),
       verify      |-> placeholder([status |-> "pending", disposition |-> "none",
                                    followUp |-> FALSE, refusal |-> "none", entry |-> FALSE]),
       carried     |-> carried,
       uncommitted |-> carried]

Init ==
  /\ handoff \in BOOLEAN
  /\ wave = 1
  /\ gate = NewGate(1, {})
  /\ outcome = [u \in Units |-> "none"]
  /\ effect = None
  /\ projected = [u \in Units |-> 0]

(* Mutant: the next wave starts with nothing carried. *)
CarriedUnitsDropped(g) == {}

(* A deferred provenance is carried into the next wave. *)
CarriedUnits(g) ==
  IF g.provenance.disposition = "deferred_by_controller" THEN g.provenance.units ELSE {}

WavePlanned ==
  /\ wave < Len(WaveUnits) /\ gate.unitIds = {} /\ effect = None /\ GateIsGreen(gate)
  /\ Commit(NewGate(wave + 1, CarriedUnits(gate)))
  /\ wave' = wave + 1
  /\ UNCHANGED <<handoff, outcome, effect, projected>>

(* Mutant: the promise is kept beside the source-bound target. *)
AttachSourceKeepsPromises(g, S) ==
  LET due == {t \in S \cap DOMAIN g.promises : Pending(g.promises[t])}
      attached == DOMAIN g.targets \cup due
  IN  [g EXCEPT !.targets = [t \in attached |-> IF t \in due THEN Fresh ELSE @[t]],
                !.resolutions = [t \in attached |-> IF t \in due THEN Fresh ELSE @[t]]]

(* The promises of the targets in S become source-bound targets. *)
AttachSource(g, S) ==
  LET due == {t \in S \cap DOMAIN g.promises : Pending(g.promises[t])}
      attached == DOMAIN g.targets \cup due
  IN  [g EXCEPT !.promises = [t \in DOMAIN @ \ due |-> @[t]],
                !.targets = [t \in attached |-> IF t \in due THEN Fresh ELSE @[t]],
                !.resolutions = [t \in attached |-> IF t \in due THEN Fresh ELSE @[t]]]

IntegrateObserved(u) ==
  /\ u \in gate.unitIds /\ outcome[u] = "none" /\ ~handoff
  /\ Commit(AttachSource(gate, {t \in Targets : Origin[t] = u}))
  /\ outcome' = [outcome EXCEPT ![u] = "landed"]
  /\ UNCHANGED <<wave, handoff, effect, projected>>

VoidUnitTargets(g, u, why) ==
  [g EXCEPT !.promises = Update(@, {t \in DOMAIN @ : Origin[t] = u}, LAMBDA r : Voided(r, why))]

(* A handoff, or a park, cancel, failure or timeout. *)
TerminalWithoutLanding(u) ==
  /\ u \in gate.unitIds /\ outcome[u] = "none"
  /\ \E why \in {"unit_not_landed"} \cup (IF handoff THEN {"handoff_boundary"} ELSE {}) :
       Commit(VoidUnitTargets(gate, u, why))
  /\ outcome' = [outcome EXCEPT ![u] = "not_landed"]
  /\ UNCHANGED <<wave, handoff, effect, projected>>

CloseUnitAfterRelease(g, u) ==
  [g EXCEPT !.unitIds = @ \ {u},
            !.uncommitted = IF outcome[u] = "landed" THEN @ \cup {u} ELSE @]

ReservationReleased(u) ==
  /\ u \in gate.unitIds /\ outcome[u] # "none"
  /\ Commit(MaybeCreateProvenance(CloseUnitAfterRelease(gate, u)))
  /\ UNCHANGED <<wave, handoff, outcome, effect, projected>>

-----------------------------------------------------------------------------
(* Entries are worked on in the order of their ids, one effect at a time.  *)

FirstPending(f, S) == LET open == {x \in S : Pending(f[x])} IN IF open = {} THEN {} ELSE {Min(open)}

(* Probes are ordered by the first target that needs them. *)
ProbeRank(p) == Min({t \in Targets : ProbeOf(t) = p})
FirstProbe(g, s) ==
  {p \in StageProbes(g, s) :
     /\ Pending(g.probes[p])
     /\ \A q \in StageProbes(g, s) : Pending(g.probes[q]) => ProbeRank(p) <= ProbeRank(q)}

Intend(entry, g) ==
  /\ effect = None
  /\ Commit(g)
  /\ effect' = entry
  /\ UNCHANGED <<wave, handoff, outcome, projected>>

Record(entry, g) ==
  /\ effect = entry
  /\ Commit(g)
  /\ effect' = None
  /\ UNCHANGED <<wave, handoff, outcome>>

EnsureDestinationProbes(g, s) ==
  IF ~StageResolutionsSettled(g, s) THEN g
  ELSE LET needed == {ProbeOf(t) : t \in {u \in StageTargets(g, s) :
                                            g.targets[u].status # "voided" /\ ItemsOf(g, u) # {}}}
       IN  [g EXCEPT !.probes = [p \in DOMAIN @ \cup needed |->
                                   IF p \in DOMAIN @ THEN @[p] ELSE Fresh]]

ResolveIntent(t) ==
  /\ t \in DOMAIN gate.targets /\ StageOpen(gate, Stage(t))
  /\ t \in FirstPending(gate.resolutions, StageTargets(gate, Stage(t)))
  /\ Intend(<<"resolution", t>>, [gate EXCEPT !.resolutions[t] = Attempted(@)])

Resolved(g, t) ==
  LET found == {i \in Items : TargetOf[i] = t}
  IN  EnsureDestinationProbes(
        [g EXCEPT !.resolutions[t] = Observed(@),
                  !.items = [i \in DOMAIN @ \cup found |->
                               IF i \in found THEN FreshItem ELSE @[i]]], Stage(t))

ResolveRefused(g, t) == [g EXCEPT !.resolutions[t] = RefusedWith(@, "refused")]

SourcesObserved(t) ==
  /\ t \in DOMAIN gate.targets
  /\ \E g \in {Resolved(gate, t), ResolveRefused(gate, t)} : Record(<<"resolution", t>>, g)
  /\ UNCHANGED projected

ProbeIntent(p) ==
  /\ p \in DOMAIN gate.probes /\ StageOpen(gate, p[1]) /\ StageResolutionsSettled(gate, p[1])
  /\ p \in FirstProbe(gate, p[1])
  /\ Intend(<<"probe", p>>, [gate EXCEPT !.probes[p] = Attempted(@)])

(* The targets, and their outputs, that depend on a probe. *)
Dependents(g, p) == {t \in DOMAIN g.targets : ProbeOf(t) = p}
DependentItems(g, p) == {i \in DOMAIN g.items : ProbeOf(TargetOf[i]) = p}

Probed(g, p) == MaybeCreateProvenance([g EXCEPT !.probes[p] = Observed(@)])
ProbeRefused(g, p) == MaybeCreateProvenance([g EXCEPT !.probes[p] = RefusedWith(@, "refused")])
ProbeUnmounted(g, p) ==
  LET void(r) == Voided(r, "optional_alias_unmounted")
  IN  MaybeCreateProvenance(
        [g EXCEPT !.probes[p] = void(RefusedWith(@, "optional_alias_unmounted")),
                  !.targets = Update(@, Dependents(g, p), void),
                  !.items = Update(@, DependentItems(g, p), void)])

DestinationProbeObserved(p) ==
  /\ p \in DOMAIN gate.probes
  /\ \/ Record(<<"probe", p>>, Probed(gate, p))
     \/ Record(<<"probe", p>>, ProbeRefused(gate, p))
     \/ p[2] \in Optional /\ Record(<<"probe", p>>, ProbeUnmounted(gate, p))
  /\ UNCHANGED projected

-----------------------------------------------------------------------------
(* Clocks give the outputs their names; publication follows.               *)

Collided(g, i) == Pending(g.items[i]) /\ g.items[i].refusal = "output_name_collision"

(* The entry whose clock is due: the first unnamed, else the first collided. *)
NextClock(g, s) ==
  LET open == {i \in StageItems(g, s) : Pending(g.items[i])}
      unnamed == {i \in open : g.items[i].name = NoName}
      collided == {i \in open : Collided(g, i)}
  IN  CASE unnamed # {}  -> {Min(unnamed)}
        [] collided # {} -> {Min(collided)}
        [] OTHER         -> {}

Named(g, i, c) ==
  LET s == Stage(TargetOf[i])
      base == IF Collided(g, i) THEN ResetStageNames(g, s) ELSE g
  IN  RecordNameCollisions([base EXCEPT !.items[i].name = c], s)

ClockDue(g, i) ==
  LET s == Stage(TargetOf[i]) IN
    /\ i \in NextClock(g, s)
    /\ StageResolutionsSettled(g, s)
    /\ \A p \in StageProbes(g, s) : ~Pending(g.probes[p])
    /\ g.probes[ProbeOf(TargetOf[i])].status = "observed"
    /\ Collided(g, i) \/ (g.items[i].name = NoName /\ g.items[i].refusal = "none")

(* The clock does not run backwards, and a retry reads a later second. *)
ClockReads(g, i, c) ==
  \A j \in StageItems(g, Stage(TargetOf[i])) :
    g.items[j].name <= c /\ (Collided(g, i) => g.items[j].name # c)

ClockObserved(i) ==
  /\ effect = None /\ i \in DOMAIN gate.items /\ ClockDue(gate, i)
  /\ \E c \in Clocks : ClockReads(gate, i, c) /\ Commit(Named(gate, i, c))
  /\ UNCHANGED <<wave, handoff, outcome, effect, projected>>

MaterialiseIntent(i) ==
  /\ i \in DOMAIN gate.items
  /\ LET s == Stage(TargetOf[i]) IN
       /\ StageNamesReady(gate, s)
       /\ \A j \in StageItems(gate, s) : ~Collided(gate, j)
       /\ i \in FirstPending(gate.items, StageItems(gate, s))
  /\ Intend(<<"item", i>>, [gate EXCEPT !.items[i] = Attempted(@)])

(* A target is settled by its last output: observed, or voided by the      *)
(* deferral of one of them.                                                *)
SettleTargetPromise(g, t) ==
  LET mine == ItemsOf(g, t)
  IN  IF \/ ~Pending(g.targets[t]) \/ g.resolutions[t].status # "observed" \/ mine = {}
         \/ \E i \in mine : Pending(g.items[i])
      THEN g
      ELSE [g EXCEPT !.targets[t] =
              IF \E i \in mine : g.items[i].status = "voided" THEN CascadeVoid(@) ELSE Observed(@)]

Materialised(g, i) ==
  MaybeCreateProvenance(SettleTargetPromise([g EXCEPT !.items[i] = Observed(@)], TargetOf[i]))
MaterialiseRefused(g, i) ==
  MaybeCreateProvenance(
    SettleTargetPromise([g EXCEPT !.items[i] = RefusedWith(@, "refused")], TargetOf[i]))

MaterialiseObserved(i) ==
  /\ i \in DOMAIN gate.items
  /\ \E g \in {Materialised(gate, i), MaterialiseRefused(gate, i)} : Record(<<"item", i>>, g)
  /\ UNCHANGED projected

-----------------------------------------------------------------------------
(* Provenance, aggregate verification, deferral.                           *)

ProvenanceClockObserved ==
  /\ effect = None
  /\ gate.provenance.entry /\ Pending(gate.provenance) /\ ~gate.provenance.clocked
  /\ StageMaterialisationsSettled(gate, "unit")
  /\ Commit([gate EXCEPT !.provenance.clocked = TRUE])
  /\ UNCHANGED <<wave, handoff, outcome, effect, projected>>

ProvenanceCommitIntent ==
  /\ gate.provenance.entry /\ Pending(gate.provenance) /\ gate.provenance.clocked
  /\ gate.provenance.refusal \in {"none", "provenance_base_advanced"}
  /\ StageMaterialisationsSettled(gate, "unit")
  /\ Intend(<<"provenance">>, [gate EXCEPT !.provenance = Attempted(@)])

ProvenanceCommitted(g) ==
  [g EXCEPT !.provenance = Observed(@), !.verify.entry = TRUE, !.uncommitted = {}]

ProvenanceCommitObserved ==
  \/ /\ Record(<<"provenance">>, ProvenanceCommitted(gate))
     /\ projected' = [u \in Units |-> projected[u] +
                        IF u \in gate.provenance.units THEN 1 ELSE 0]
  \/ /\ \E code \in {"provenance_base_advanced", "refused"} :
          Record(<<"provenance">>, [gate EXCEPT !.provenance = RefusedWith(@, code)])
     /\ UNCHANGED projected

VerificationIntent ==
  /\ gate.verify.entry /\ Pending(gate.verify) /\ gate.verify.refusal = "none"
  /\ gate.provenance.status = "observed"
  /\ Intend(<<"verify">>, gate)

Verified(g) ==
  AttachSource([g EXCEPT !.verify = Observed(@)], {t \in Targets : Stage(t) = "gate"})

VerificationObserved ==
  /\ \/ Record(<<"verify">>, Verified(gate))
     \/ Record(<<"verify">>, [gate EXCEPT !.verify = RefusedWith(@, "verification_failed")])
  /\ UNCHANGED projected

DeferResolution(g, t) ==
  MaybeCreateProvenance(EnsureDestinationProbes(
    [g EXCEPT !.resolutions[t] = Deferred(@),
              !.targets[t] = CascadeVoid(@),
              !.items = Update(@, ItemsOf(g, t), CascadeVoid)], Stage(t)))

DeferProbe(g, p) ==
  MaybeCreateProvenance(
    [g EXCEPT !.probes[p] = Deferred(@),
              !.targets = Update(@, Dependents(g, p), CascadeVoid),
              !.items = Update(@, DependentItems(g, p), CascadeVoid)])

DeferItem(g, i) ==
  MaybeCreateProvenance(SettleTargetPromise([g EXCEPT !.items[i] = Deferred(@)], TargetOf[i]))

(* Mutant: the deferral does not reach the gate's own targets. *)
CascadeStops(g) == g

CascadeGatePromises(g) ==
  [g EXCEPT !.promises = Update(@, {t \in DOMAIN @ : Stage(t) = "gate"}, CascadeVoid)]

DeferProvenance(g) ==
  CascadeGatePromises([g EXCEPT !.provenance = Deferred(@), !.verify = CascadeVoid(@)])

DeferVerify(g) == CascadeGatePromises([g EXCEPT !.verify = Deferred(@)])

GateEntryDeferred ==
  /\ \/ \E t \in DOMAIN gate.targets :
          Refused(gate.resolutions[t]) /\ Commit(DeferResolution(gate, t))
     \/ \E p \in DOMAIN gate.probes : Refused(gate.probes[p]) /\ Commit(DeferProbe(gate, p))
     \/ \E i \in DOMAIN gate.items : Refused(gate.items[i]) /\ Commit(DeferItem(gate, i))
     \/ gate.provenance.entry /\ Refused(gate.provenance) /\ Commit(DeferProvenance(gate))
     \/ gate.verify.entry /\ Refused(gate.verify) /\ Commit(DeferVerify(gate))
  /\ UNCHANGED <<wave, handoff, outcome, effect, projected>>

-----------------------------------------------------------------------------

(* The last wave's gate is green: the run may finish. *)
Finished ==
  /\ wave = Len(WaveUnits) /\ gate.unitIds = {} /\ GateIsGreen(gate) /\ effect = None
  /\ UNCHANGED vars

Next ==
  \/ WavePlanned
  \/ \E u \in Units : IntegrateObserved(u) \/ TerminalWithoutLanding(u) \/ ReservationReleased(u)
  \/ \E t \in Targets : ResolveIntent(t) \/ SourcesObserved(t)
  \/ \E p \in Stages \X Destinations : ProbeIntent(p) \/ DestinationProbeObserved(p)
  \/ \E i \in Items : ClockObserved(i) \/ MaterialiseIntent(i) \/ MaterialiseObserved(i)
  \/ ProvenanceClockObserved \/ ProvenanceCommitIntent \/ ProvenanceCommitObserved
  \/ VerificationIntent \/ VerificationObserved
  \/ GateEntryDeferred
  \/ Finished

Spec == Init /\ [][Next]_vars

-----------------------------------------------------------------------------
(* What the controller is offered (actions.ts).  With an effect in flight  *)
(* it is offered only that effect's observation.                           *)

Advertised(g) ==
  LET retry(kind, x, r) == {<<"intent", kind, x>>} \cup
                           (IF r.refusal # "none" THEN {<<"defer", kind, x>>} ELSE {})
      resolutions == {t \in DOMAIN g.targets : Pending(g.resolutions[t]) /\ StageOpen(g, Stage(t))}
      probes == {p \in DOMAIN g.probes : Pending(g.probes[p]) /\ StageOpen(g, p[1])}
      open == {i \in DOMAIN g.items : Pending(g.items[i])}
      unnamed == {i \in open : g.items[i].name = NoName}
      refused == {i \in open : g.items[i].refusal # "none"}
      provenance == g.provenance
      verify == g.verify
  IN  CASE resolutions # {} ->
             retry("resolution", Min(resolutions), g.resolutions[Min(resolutions)])
        [] resolutions = {} /\ probes # {} ->
             LET p == CHOOSE q \in probes : \A r \in probes : ProbeRank(q) <= ProbeRank(r)
             IN  retry("probe", p, g.probes[p])
        [] resolutions \cup probes = {} /\ unnamed # {} -> {<<"clock", "item", Min(unnamed)>>}
        [] resolutions \cup probes \cup unnamed = {} /\ refused # {} ->
             {<<IF Collided(g, Min(refused)) THEN "clock" ELSE "intent", "item", Min(refused)>>,
              <<"defer", "item", Min(refused)>>}
        [] resolutions \cup probes \cup refused \cup unnamed = {} /\ open # {} ->
             {<<"intent", "item", Min(open)>>}
        [] resolutions \cup probes \cup open = {} /\ provenance.entry /\ Pending(provenance) ->
             IF provenance.refusal # "none"
             THEN {<<"defer", "provenance">>} \cup
                  (IF provenance.refusal = "provenance_base_advanced"
                   THEN {<<"intent", "provenance">>} ELSE {})
             ELSE {<<IF provenance.clocked THEN "intent" ELSE "clock", "provenance">>}
        [] resolutions \cup probes \cup open = {} /\ ~(provenance.entry /\ Pending(provenance))
             /\ verify.entry /\ Pending(verify) ->
             {<<IF verify.refusal = "none" THEN "intent" ELSE "defer", "verify">>}
        [] OTHER -> {}

-----------------------------------------------------------------------------
(* Properties.                                                             *)

RecordType == [status : {"pending", "observed", "voided"}, disposition : Dispositions,
               followUp : BOOLEAN, refusal : Refusals]

TypeOK ==
  /\ gate.unitIds \subseteq Units /\ gate.carried \subseteq Units
  /\ gate.uncommitted \subseteq Units
  /\ DOMAIN gate.promises \cap DOMAIN gate.targets = {}
  /\ \A t \in DOMAIN gate.promises : gate.promises[t] \in RecordType
  /\ DOMAIN gate.resolutions = DOMAIN gate.targets
  /\ \A t \in DOMAIN gate.targets :
       gate.targets[t] \in RecordType /\ gate.resolutions[t] \in RecordType
  /\ \A p \in DOMAIN gate.probes : p \in Stages \X Destinations /\ gate.probes[p] \in RecordType
  /\ DOMAIN gate.items \subseteq Items
  /\ outcome \in [Units -> {"none", "landed", "not_landed"}]

(* An act that has happened can be recorded.  Whatever effect is in        *)
(* flight, its positive answer gives a gate the aggregate invariant        *)
(* accepts: a published file, a provenance commit or a resolution is never *)
(* refused by the reducer because an earlier naming, deferral or cascade   *)
(* left the gate unable to hold it (commit, reducer.ts:9805).              *)
ActsAreRecordable ==
  effect # None =>
    GateInvariantHolds(
      CASE effect[1] = "resolution" -> Resolved(gate, effect[2])
        [] effect[1] = "probe"      -> Probed(gate, effect[2])
        [] effect[1] = "item"       -> Materialised(gate, effect[2])
        [] effect[1] = "provenance" -> ProvenanceCommitted(gate)
        [] effect[1] = "verify"     -> Verified(gate))

(* Provenance accounts for every landing exactly once.  A closed unit that *)
(* landed is in exactly one provenance commit, or still owed: across       *)
(* deferrals of the provenance entry and the waves it is carried through,  *)
(* none is dropped and none is committed twice (newGate, provenanceInput,  *)
(* closeUnitAfterRelease).                                                 *)
LandingsAccountedOnce ==
  \A u \in Units :
    outcome[u] = "landed" /\ u \notin gate.unitIds =>
      projected[u] = IF u \in gate.uncommitted THEN 0 ELSE 1

(* The gate is never silently stuck.  When the wave has drained and the    *)
(* projection offers the controller nothing to do for the gate             *)
(* (actionsForGate), the gate is green, so the next wave or the finish is  *)
(* open: no refusal, void or cascade leaves a pending entry behind that    *)
(* nothing can advance.                                                    *)
QuietMeansGreen ==
  gate.unitIds = {} /\ effect = None /\ Advertised(gate) = {} => GateIsGreen(gate)

=============================================================================

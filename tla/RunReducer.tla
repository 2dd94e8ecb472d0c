----------------------------- MODULE RunReducer -----------------------------
(***************************************************************************)
(* The repository-run reducer of src/src/protocol/reducer.ts for a software *)
(* run: one controller drives a wave of at most ModifyingSlots units from   *)
(* plan to closure.  Every external act is journalled as an intent before   *)
(* it is attempted and settled by an observation bound to that intent; an   *)
(* act whose outcome is unknown is recorded as ambiguous and blocks the     *)
(* aggregate.                                                               *)
(*                                                                          *)
(* One action per event type of the reducer.  The actions carry the guards  *)
(* of the event's own case only; the sweep `runInvariantErrors` that commit *)
(* runs afterwards is the predicate RunInvariant, checked as an invariant,  *)
(* so that a passing run says the sweep never has to refuse a transition    *)
(* its case admitted.  The one exception is effect_ambiguous, whose         *)
(* admission the code leaves to the sweep: there it is a guard.             *)
(*                                                                          *)
(* Data abstraction: a head/tree pair is one value of Heads, a diff hash is *)
(* the head whose diff was hashed, a session is present or absent (that its *)
(* id is new is the caller's choice; the lineage slots it takes are         *)
(* counted), prompts live and die with their packet, and the queues are     *)
(* sets, because commit sorts them with the owner first on every transition *)
(* (ownerFirst).                                                            *)
(***************************************************************************)
EXTENDS Naturals, FiniteSets

CONSTANTS
    Units,           \* unit ids; their order is the queues' sort order
    Bases,           \* commit ids a unit can be based on
    Heads,           \* candidate head/tree pairs
    Resources,       \* namespace/resource pairs a unit can reserve
    LegacyUnits,     \* units whose full-ref branch an older engine admitted
    Boundary,        \* the run's completion boundary
    ModifyingSlots,  \* 3 in the code: wave size and concurrent sessions
    MaxRepairs,      \* 16 in the code
    MaxScope,        \* bound: owned-path extensions of one unit
    AmbiguousKinds,  \* bound: effect kinds whose outcome can be lost
    None             \* absence of an optional value

Boundaries == {"local-integration", "branch-handoff", "pr-handoff",
               "remote-integration"}

UnitKinds == {"reservation_acquire", "branch_create", "worktree_create",
    "dispatch", "worker_collect", "candidate_collect", "candidate_refresh",
    "verify", "review_dispatch", "review_collect", "publish", "integrate",
    "reservation_release", "repair", "failure", "timeout", "park", "cancel"}

ControllerKinds == {"controller_acquire", "controller_release"}

TerminalKinds == {"failure", "timeout", "park", "cancel"}

ASSUME ConstantsAssumption ==
    /\ Units \subseteq Nat /\ IsFiniteSet(Units)
    /\ LegacyUnits \subseteq Units
    /\ Boundary \in Boundaries
    /\ ModifyingSlots \in Nat \ {0}
    /\ MaxRepairs \in Nat /\ MaxScope \in Nat
    /\ AmbiguousKinds \subseteq UnitKinds \cup ControllerKinds

VARIABLES
    runState,            \* aggregate state
    controller,          \* controller.state
    harness,             \* is state.harness recorded?
    wave,                \* wave.unitIds
    units,               \* the live units; a removed one is "closed" here
    active,              \* activeModifyingUnitIds
    qualificationQueue, integrationQueue,
    qualificationOwner, integrationOwner, currentReviewer,
    journal,             \* effectJournal
    closed               \* closedUnitEvidence

owners == <<active, qualificationQueue, integrationQueue,
            qualificationOwner, integrationOwner, currentReviewer>>

vars == <<runState, controller, harness, wave, units, owners, journal, closed>>

-----------------------------------------------------------------------------
(* State *)

IntentStateForEffect ==
    [reservation_acquire |-> "reservation_intent",
     branch_create       |-> "branch_intent",
     worktree_create     |-> "worktree_intent",
     dispatch            |-> "dispatch_intent",
     worker_collect      |-> "collect_intent",
     candidate_collect   |-> "candidate_intent",
     candidate_refresh   |-> "refresh_intent",
     verify              |-> "verification_intent",
     review_dispatch     |-> "reviewer_dispatch_intent",
     review_collect      |-> "review_collect_intent",
     publish             |-> "publish_intent",
     integrate           |-> "integrate_intent",
     reservation_release |-> "reservation_release_intent",
     repair              |-> "repair_intent",
     failure             |-> "failure_intent",
     timeout             |-> "timeout_intent",
     park                |-> "park_intent",
     cancel              |-> "cancel_intent"]

IntentStates == {IntentStateForEffect[k] : k \in UnitKinds}

TerminalIntentStates == {IntentStateForEffect[k] : k \in TerminalKinds}

TerminalStates ==
    {"landed", "handoff", "failed", "timed_out", "parked", "cancelled"}

(* guards.ts: the stable, observed states a terminal intent may start from. *)
CanEnterTerminalIntent(s) ==
    s \in {"planned", "resources_reserved", "branch_observed",
           "worktree_observed", "dispatched", "collected",
           "candidate_committed", "qualified", "reviewer_dispatched",
           "approved", "published", "repair_required"}

UnitStates ==
    {"planned", "resources_reserved", "branch_observed", "worktree_observed",
     "dispatched", "collected", "candidate_committed", "qualified",
     "reviewer_dispatched", "approved", "published", "repair_required",
     "blocked", "closed"} \cup IntentStates \cup TerminalStates

(* "One initial worker/reviewer assignment plus each bounded repair." *)
SessionsPerRole == MaxRepairs + 1

Opt(S) == S \cup {None}

Pair == Bases \X Heads

Unit == [
    state      : UnitStates,
    base       : Bases,                          \* baseOid
    launchBase : Opt(Bases),                     \* launchBaseOid
    wpacket    : Opt(Bases \X (0..MaxScope)),    \* workerPacket, workerPromptHash
    wsess      : BOOLEAN,                        \* workerSessionId recorded
    cand       : Opt(Heads),                     \* candidateHead, candidateTree
    diff       : Opt(Heads),                     \* candidateDiffHash
    ver        : Opt(Pair),                      \* verificationBaseOid/HeadOid/Tree
    rpacket    : Opt(Bases \X Heads \X Heads \X (0..MaxScope)),
                                                 \* reviewerPacket, reviewPromptHash
    rsess      : BOOLEAN,                        \* reviewerSessionId recorded
    review     : Opt(Pair),                      \* reviewBaseOid/HeadOid/Tree
    recheck    : BOOLEAN,                        \* candidateRecheck
    refresh    : Opt(Bases),                     \* refreshBaseOid
    repair     : Opt(Bases \X Opt(Heads)),       \* repairContext
    repairs    : 0..MaxRepairs,                  \* repairCount
    workers    : 0..SessionsPerRole,             \* its worker slots in sessionLineage
    reviewers  : 0..SessionsPerRole,             \* its reviewer slots
    published  : Opt(Heads),                     \* publishedHeadOid
    pubRef     : BOOLEAN,                        \* publicationBranchRef recorded
    branch     : {"none", "short", "full"},      \* branchRef
    worktree   : BOOLEAN,                        \* worktreePath recorded
    res        : SUBSET Resources,               \* reservationIds
    resState   : {"none", "intended", "reserved", "release_intent"},
    scope      : 0..MaxScope]                    \* ownedPaths, grown by repair scope

FreshUnit(b) ==
    [state |-> "planned", base |-> b, launchBase |-> None, wpacket |-> None,
     wsess |-> FALSE, cand |-> None, diff |-> None, ver |-> None,
     rpacket |-> None, rsess |-> FALSE, review |-> None, recheck |-> FALSE,
     refresh |-> None, repair |-> None, repairs |-> 0, workers |-> 0,
     reviewers |-> 0, published |-> None, pubRef |-> FALSE, branch |-> "none",
     worktree |-> FALSE, res |-> {}, resState |-> "none", scope |-> 0]

Entry(u, k, s) == [unit |-> u, kind |-> k, status |-> s]

Entries == [unit : Opt(Units), kind : UnitKinds \cup ControllerKinds,
            status : {"intended", "ambiguous", "observed"}]

(* Closure evidence: the outcome, the base and pairs it binds, the release  *)
(* lineage, and whether the authoritative repair count is in it.            *)
Closures == [outcome : TerminalStates, base : Bases, ver : Opt(Pair),
             review : Opt(Pair), cand : Opt(Heads),
             release : {"none", "intended", "ambiguous", "observed"},
             final : BOOLEAN]

(* Every optional value can be told from None. *)
ASSUME NoneAssumption ==
    /\ None \notin Units \cup Bases \cup Heads
    /\ None \notin Pair \cup (Bases \X Opt(Heads)) \cup (Bases \X (0..MaxScope))
    /\ None \notin Bases \X Heads \X Heads \X (0..MaxScope)
    /\ None \notin Closures

TypeOK ==
    /\ runState \in {"initializing", "active", "blocked", "release_intent",
                     "released"}
    /\ controller \in {"unacquired", "acquire_intent", "acquired",
                       "release_intent", "released"}
    /\ harness \in BOOLEAN
    /\ wave \subseteq Units
    /\ units \in [Units -> Unit]
    /\ active \subseteq Units
    /\ qualificationQueue \subseteq Units /\ integrationQueue \subseteq Units
    /\ qualificationOwner \in Opt(Units) /\ integrationOwner \in Opt(Units)
    /\ currentReviewer \in Opt(Units)
    /\ journal \subseteq Entries
    /\ closed \in [Units -> Opt(Closures)]

Init ==
    /\ runState = "initializing" /\ controller = "unacquired"
    /\ harness \in BOOLEAN      \* compose records it; an older ledger may not
    /\ wave = {}
    /\ \E b \in Bases : units = [u \in Units |-> FreshUnit(b)]
    /\ active = {} /\ qualificationQueue = {} /\ integrationQueue = {}
    /\ qualificationOwner = None /\ integrationOwner = None
    /\ currentReviewer = None
    /\ journal = {}
    /\ closed = [u \in Units |-> None]

Live == {u \in Units : units[u].state # "closed"}

-----------------------------------------------------------------------------
(* Journal *)

UnresolvedEntries(u) ==
    {e \in journal : e.unit = u /\ e.status \in {"intended", "ambiguous"}}

HasUnresolvedUnitEffect(u) == UnresolvedEntries(u) # {}

AmbiguousOn(u, kinds) ==
    \E k \in kinds : Entry(u, k, "ambiguous") \in journal

(* Mutant of Anchored: compaction forgets the reservations' acquisitions. *)
AnchoredNever(e) == FALSE

(* The observed acquisition a live, not yet released reservation points to. *)
Anchored(e) ==
    /\ e.kind = "reservation_acquire"
    /\ units[e.unit].resState \in {"reserved", "release_intent"}

(* Mutant of AppendIntent: compaction keeps the anchored entries only. *)
AppendIntentDropsIntents(u, kind) ==
    journal' = {e \in journal : Anchored(e)} \cup {Entry(u, kind, "intended")}

(* compactJournal then append: every intent drops the observed entries that *)
(* no reservation anchors.                                                  *)
AppendIntent(u, kind) ==
    journal' = {e \in journal : e.status # "observed" \/ Anchored(e)}
                 \cup {Entry(u, kind, "intended")}

MarkObserved(u, kind) ==
    journal' = (journal \ {Entry(u, kind, "intended"), Entry(u, kind, "ambiguous")})
                 \cup {Entry(u, kind, "observed")}

(* Mutant of SettleAmbiguityState: nothing resumes the aggregate. *)
StayBlocked == runState' = runState

(* The aggregate resumes only when no ambiguous entry is left. *)
SettleAmbiguityState ==
    runState' = IF \E e \in journal' : e.status = "ambiguous" THEN "blocked"
                ELSE IF runState = "blocked" THEN "active" ELSE runState

(* The observations a blocked aggregate still admits, by effect kind. *)
EffectMatchesObservation ==
    [reservation_acquire |-> {"reservation_observed"},
     branch_create       |-> {"branch_observed"},
     worktree_create     |-> {"worktree_observed"},
     dispatch            |-> {"dispatch_observed"},
     worker_collect      |-> {"worker_collected"},
     candidate_collect   |-> {"candidate_observed", "candidate_refused"},
     candidate_refresh   |-> {},
     verify              |-> {"verification_observed", "verification_failed"},
     review_dispatch     |-> {"reviewer_observed"},
     review_collect      |-> {"review_collected"},
     publish             |-> {"publish_observed"},
     integrate           |-> {"integrate_observed"},
     reservation_release |-> {"reservation_released"},
     repair              |-> {"repair_observed"},
     failure             |-> {"failure_observed"},
     timeout             |-> {"timeout_observed"},
     park                |-> {"park_observed"},
     cancel              |-> {"cancel_observed"}]

(* Admission of an observation: the ordinary path wants the unit in its      *)
(* intent state and the entry intended; in a blocked aggregate              *)
(* prepareBlockedObservation also restores an ambiguous entry, for the       *)
(* event types of the table above only.                                      *)
Observable(u, kind, event) ==
    /\ controller = "acquired"
    /\ u \in wave
    /\ runState = "blocked" => event \in EffectMatchesObservation[kind]
    /\ \/ /\ units[u].state = IntentStateForEffect[kind]
          /\ Entry(u, kind, "intended") \in journal
       \/ /\ runState = "blocked"
          /\ units[u].state = "blocked"
          /\ Entry(u, kind, "ambiguous") \in journal

(* Mutant of CanIntend: new work is admitted while blocked. *)
CanIntendWhileBlocked(u) ==
    /\ runState # "released"
    /\ controller = "acquired"
    /\ u \in wave
    /\ ~ HasUnresolvedUnitEffect(u)

(* Admission common to every unit intent. *)
CanIntend(u) ==
    /\ runState \notin {"released", "blocked"}
    /\ controller = "acquired"
    /\ u \in wave
    /\ ~ HasUnresolvedUnitEffect(u)

(* intent(): the unit moves to `next` with its changes, the effect is        *)
(* journalled.                                                               *)
Emit(u, next, kind, changed) ==
    /\ units' = [units EXCEPT ![u] = [changed EXCEPT !.state = next]]
    /\ AppendIntent(u, kind)
    /\ UNCHANGED <<runState, controller, harness, wave>>

(* observe(): the unit moves to `next` with its changes, the effect settles. *)
Observe(u, next, kind, changed) ==
    /\ units' = [units EXCEPT ![u] = [changed EXCEPT !.state = next]]
    /\ MarkObserved(u, kind)
    /\ SettleAmbiguityState
    /\ UNCHANGED <<controller, harness>>

-----------------------------------------------------------------------------
(* Queues and owners *)

(* First of a queue that is sorted with its owner in front (ownerFirst). *)
IsQueueHead(u, queue, owner) ==
    /\ u \in queue
    /\ IF owner \in queue THEN u = owner ELSE \A v \in queue : u <= v

Without(owner, u) == IF owner = u THEN None ELSE owner

(* Mutants of ClearUnitOwners: one owner, queue or slot is left behind. *)
ClearUnitOwnersKeepsSlot(u) ==
    /\ qualificationQueue' = qualificationQueue \ {u}
    /\ integrationQueue' = integrationQueue \ {u}
    /\ qualificationOwner' = Without(qualificationOwner, u)
    /\ integrationOwner' = Without(integrationOwner, u)
    /\ currentReviewer' = Without(currentReviewer, u)
    /\ UNCHANGED active

ClearUnitOwnersKeepsQueue(u) ==
    /\ active' = active \ {u}
    /\ integrationQueue' = integrationQueue \ {u}
    /\ qualificationOwner' = Without(qualificationOwner, u)
    /\ integrationOwner' = Without(integrationOwner, u)
    /\ currentReviewer' = Without(currentReviewer, u)
    /\ UNCHANGED qualificationQueue

ClearUnitOwnersKeepsReviewer(u) ==
    /\ active' = active \ {u}
    /\ qualificationQueue' = qualificationQueue \ {u}
    /\ integrationQueue' = integrationQueue \ {u}
    /\ qualificationOwner' = Without(qualificationOwner, u)
    /\ integrationOwner' = Without(integrationOwner, u)
    /\ UNCHANGED currentReviewer

ClearUnitOwners(u) ==
    /\ active' = active \ {u}
    /\ qualificationQueue' = qualificationQueue \ {u}
    /\ integrationQueue' = integrationQueue \ {u}
    /\ qualificationOwner' = Without(qualificationOwner, u)
    /\ integrationOwner' = Without(integrationOwner, u)
    /\ currentReviewer' = Without(currentReviewer, u)

(* dispatch and repair occupy a modifying slot. *)
ModifyingIntent(u, next, kind, changed) ==
    /\ Emit(u, next, kind, changed)
    /\ active' = active \cup {u}
    /\ UNCHANGED <<qualificationQueue, integrationQueue, qualificationOwner,
                   integrationOwner, currentReviewer>>

-----------------------------------------------------------------------------
(* Controller ownership, harness and wave *)

ControllerIntent(kind, aggregate, next) ==
    /\ runState' = aggregate /\ controller' = next
    /\ AppendIntent(None, kind)
    /\ UNCHANGED <<harness, wave, units, owners, closed>>

MatchesRecoverableEffect(kind) ==
    {Entry(None, kind, "intended"), Entry(None, kind, "ambiguous")}
        \cap journal # {}

ControllerAcquireIntent ==
    /\ runState = "initializing" /\ controller = "unacquired"
    /\ ControllerIntent("controller_acquire", "initializing", "acquire_intent")

ControllerAcquired ==
    /\ runState \in {"initializing", "blocked"}
    /\ controller = "acquire_intent"
    /\ MatchesRecoverableEffect("controller_acquire")
    /\ MarkObserved(None, "controller_acquire")
    /\ runState' = "active" /\ controller' = "acquired"
    /\ UNCHANGED <<harness, wave, units, owners, closed>>

CanReleaseController ==
    /\ controller = "acquired"
    /\ active = {}
    /\ qualificationOwner = None /\ integrationOwner = None
    /\ currentReviewer = None
    /\ Live = {}

ControllerReleaseIntent ==
    /\ CanReleaseController
    /\ ControllerIntent("controller_release", "release_intent", "release_intent")

ControllerReleased ==
    /\ runState \in {"release_intent", "blocked"}
    /\ controller = "release_intent"
    /\ MatchesRecoverableEffect("controller_release")
    /\ MarkObserved(None, "controller_release")
    /\ runState' = "released" /\ controller' = "released"
    /\ UNCHANGED <<harness, wave, units, owners, closed>>

(* The harness is recorded once, before any session work begins. *)
HarnessConfigured ==
    /\ runState = "active" /\ controller = "acquired"
    /\ ~ harness
    /\ active = {} /\ currentReviewer = None
    /\ \A e \in journal : e.status # "observed" =>
           e.kind \notin {"dispatch", "repair", "review_dispatch"}
    /\ harness' = TRUE
    /\ UNCHANGED <<runState, controller, wave, units, owners, journal, closed>>

(* A new wave starts when the previous one has drained.  Which planned units *)
(* the deterministic selection takes is left open here.                      *)
WavePlanned ==
    /\ runState = "active" /\ controller = "acquired"
    /\ wave = {} /\ active = {}
    /\ qualificationOwner = None /\ integrationOwner = None
    /\ currentReviewer = None
    /\ qualificationQueue = {} /\ integrationQueue = {}
    /\ \A e \in journal : e.status = "observed"
    /\ \A u \in Live : units[u].state = "planned"
    /\ \E selected \in SUBSET Live \ {{}} :
           /\ Cardinality(selected) <= ModifyingSlots
           /\ wave' = selected
    /\ UNCHANGED <<runState, controller, harness, units, owners, journal, closed>>

-----------------------------------------------------------------------------
(* Reservation, branch and worktree *)

(* Mutant of Occupied: a reservation still being acquired does not count. *)
OccupiedWhenReserved ==
    UNION {units[u].res : u \in {v \in Units : units[v].resState = "reserved"}}

Occupied == UNION {units[u].res : u \in Units}

ReservationIntent(u) ==
    /\ CanIntend(u)
    /\ units[u].state = "planned"
    /\ \E r \in SUBSET Resources \ {{}} :
           /\ r \cap Occupied = {}
           /\ Emit(u, "reservation_intent", "reservation_acquire",
                   [units[u] EXCEPT !.res = r, !.resState = "intended"])
    /\ UNCHANGED <<owners, closed>>

ReservationObserved(u) ==
    /\ Observable(u, "reservation_acquire", "reservation_observed")
    /\ Observe(u, "resources_reserved", "reservation_acquire",
               [units[u] EXCEPT !.resState = "reserved"])
    /\ UNCHANGED <<wave, owners, closed>>

(* branch_intent admits short names only; a full ref can only come from a    *)
(* run an older engine persisted.                                            *)
BranchIntent(u) ==
    /\ CanIntend(u)
    /\ units[u].state = "resources_reserved"
    /\ Emit(u, "branch_intent", "branch_create",
            [units[u] EXCEPT
                !.branch = IF u \in LegacyUnits THEN "full" ELSE "short"])
    /\ UNCHANGED <<owners, closed>>

BranchObserved(u) ==
    /\ Observable(u, "branch_create", "branch_observed")
    /\ Observe(u, "branch_observed", "branch_create", units[u])
    /\ UNCHANGED <<wave, owners, closed>>

(* Mutant of WorktreeIntent: the path is not recorded with the intent. *)
WorktreeIntentUnrecorded(u) ==
    /\ CanIntend(u)
    /\ units[u].state = "branch_observed"
    /\ Emit(u, "worktree_intent", "worktree_create", units[u])
    /\ UNCHANGED <<owners, closed>>

WorktreeIntent(u) ==
    /\ CanIntend(u)
    /\ units[u].state = "branch_observed"
    /\ Emit(u, "worktree_intent", "worktree_create",
            [units[u] EXCEPT !.worktree = TRUE])
    /\ UNCHANGED <<owners, closed>>

WorktreeObserved(u) ==
    /\ Observable(u, "worktree_create", "worktree_observed")
    /\ Observe(u, "worktree_observed", "worktree_create", units[u])
    /\ UNCHANGED <<wave, owners, closed>>

-----------------------------------------------------------------------------
(* Worker sessions *)

(* launchPacketError, worker role: the packet binds the unit's base or the   *)
(* base it was last launched on, and the committed owned paths.              *)
WorkerPackets(unit) ==
    {<<b, unit.scope>> : b \in {unit.base, unit.launchBase} \ {None}}

(* Mutants of WithoutReviewBindings: one field is kept behind. *)
WithoutReviewBindingsKeepsPacket(unit) ==
    [unit EXCEPT !.rsess = FALSE, !.review = None]

WithoutReviewBindingsKeepsSession(unit) ==
    [unit EXCEPT !.rpacket = None, !.review = None]

WithoutReviewBindings(unit) ==
    [unit EXCEPT !.rpacket = None, !.rsess = FALSE, !.review = None]

DispatchIntent(u) ==
    /\ CanIntend(u)
    /\ units[u].state = "worktree_observed"
    /\ harness
    /\ Cardinality(active) < ModifyingSlots
    /\ \E packet \in WorkerPackets(units[u]) :
           ModifyingIntent(u, "dispatch_intent", "dispatch",
                           [units[u] EXCEPT !.wpacket = packet])
    /\ UNCHANGED closed

(* freshSessionUpdate: every session takes a slot of its unit and role for    *)
(* good, and is refused when none is left.  (The run's own limit is the sum  *)
(* of all slots.)                                                            *)
SessionSlotFree(used) == used < SessionsPerRole

DispatchObserved(u) ==
    /\ Observable(u, "dispatch", "dispatch_observed")
    /\ SessionSlotFree(units[u].workers)
    /\ Observe(u, "dispatched", "dispatch",
               [units[u] EXCEPT !.wsess = TRUE, !.workers = @ + 1])
    /\ UNCHANGED <<wave, owners, closed>>

CollectIntent(u) ==
    /\ CanIntend(u)
    /\ units[u].state = "dispatched"
    /\ harness
    /\ Emit(u, "collect_intent", "worker_collect", units[u])
    /\ UNCHANGED <<owners, closed>>

Successful(outcome) == outcome \in {"landed", "handoff"}

(* closureEvidenceFor throws when a recorded session lost its prompt, a       *)
(* reservation its observed acquisition, or a success its exact pairs; a     *)
(* throw applies no event.                                                   *)
ClosureEvidenceBuilds(u, outcome) ==
    /\ units[u].wsess => units[u].wpacket # None
    /\ units[u].rsess => units[u].rpacket # None
    /\ units[u].res # {} =>
           Entry(u, "reservation_acquire", "observed") \in journal
    /\ Successful(outcome) =>
           None \notin {units[u].cand, units[u].ver, units[u].review}

ClosureEvidenceFor(u, outcome) ==
    [outcome |-> outcome, base |-> units[u].base, cand |-> units[u].cand,
     ver    |-> IF Successful(outcome) THEN units[u].ver ELSE None,
     review |-> IF Successful(outcome) THEN units[u].review ELSE None,
     release |-> "none", final |-> FALSE]

PersistTerminalClosureEvidence(u, outcome) ==
    /\ ClosureEvidenceBuilds(u, outcome)
    /\ closed' = [closed EXCEPT ![u] = ClosureEvidenceFor(u, outcome)]

WorkerCollected(u) ==
    /\ Observable(u, "worker_collect", "worker_collected")
    /\ \/ /\ Observe(u, "collected", "worker_collect", units[u])
          /\ active' = active \ {u}
          /\ UNCHANGED <<qualificationQueue, integrationQueue, closed,
                 qualificationOwner, integrationOwner, currentReviewer>>
       \/ /\ Observe(u, "repair_required", "worker_collect",
                     [units[u] EXCEPT !.repair = <<units[u].base, None>>])
          /\ ClearUnitOwners(u)
          /\ UNCHANGED closed
       \/ /\ Observe(u, "failed", "worker_collect",
                     [units[u] EXCEPT !.repair = <<units[u].base, None>>])
          /\ ClearUnitOwners(u)
          /\ PersistTerminalClosureEvidence(u, "failed")
    /\ UNCHANGED wave

-----------------------------------------------------------------------------
(* Candidate collection, recheck and base refresh *)

CandidateIntent(u) ==
    /\ CanIntend(u)
    /\ units[u].state = "collected"
    /\ Emit(u, "candidate_intent", "candidate_collect", units[u])
    /\ UNCHANGED <<owners, closed>>

(* A qualified unit re-reads its own pair; diff, verification and review     *)
(* bindings are discarded and it leaves the qualification queue.             *)
CandidateRecheckIntent(u) ==
    /\ CanIntend(u)
    /\ units[u].state = "qualified"
    /\ qualificationOwner = u
    /\ currentReviewer = None
    /\ Emit(u, "candidate_intent", "candidate_collect",
            [WithoutReviewBindings(units[u]) EXCEPT
                !.diff = None, !.ver = None, !.recheck = TRUE])
    /\ qualificationOwner' = None
    /\ qualificationQueue' = qualificationQueue \ {u}
    /\ UNCHANGED <<active, integrationQueue, integrationOwner, currentReviewer,
                   closed>>

(* A recheck must read the pair it started from. *)
CollectedHead(u, head) == units[u].recheck => head = units[u].cand

CandidateObserved(u) ==
    /\ Observable(u, "candidate_collect", "candidate_observed")
    /\ \E head \in Heads :
           /\ CollectedHead(u, head)
           /\ Observe(u, "candidate_committed", "candidate_collect",
                      [WithoutReviewBindings(units[u]) EXCEPT
                          !.recheck = FALSE, !.cand = head, !.diff = head])
    /\ qualificationQueue' = qualificationQueue \cup {u}
    /\ UNCHANGED <<wave, active, integrationQueue, qualificationOwner,
                   integrationOwner, currentReviewer, closed>>

(* Mutant of CandidateRefused: the pair of the previous round is retained. *)
CandidateRefusedKeepsPair(u) ==
    /\ Observable(u, "candidate_collect", "candidate_refused")
    /\ \E head \in Heads :
           /\ CollectedHead(u, head)
           /\ Observe(u, "repair_required", "candidate_collect",
                      [WithoutReviewBindings(units[u]) EXCEPT
                          !.recheck = FALSE, !.diff = None,
                          !.repair = <<units[u].base, head>>])
    /\ ClearUnitOwners(u)
    /\ UNCHANGED <<wave, closed>>

(* The diff is too large to review: the unit repairs from the head measured. *)
CandidateRefused(u) ==
    /\ Observable(u, "candidate_collect", "candidate_refused")
    /\ \E head \in Heads :
           /\ CollectedHead(u, head)
           /\ Observe(u, "repair_required", "candidate_collect",
                      [WithoutReviewBindings(units[u]) EXCEPT
                          !.recheck = FALSE, !.diff = None, !.cand = head,
                          !.repair = <<units[u].base, head>>])
    /\ ClearUnitOwners(u)
    /\ UNCHANGED <<wave, closed>>

(* Never launched, no candidate: the refresh fast-forwards an empty branch. *)
RefreshIsFastForward(unit) == unit.cand = None /\ unit.wpacket = None

RefreshIntent(u) ==
    /\ CanIntend(u)
    /\ \/ units[u].state \in {"collected", "candidate_committed", "qualified",
                              "approved"}
       \/ units[u].state = "worktree_observed" /\ RefreshIsFastForward(units[u])
    /\ \E target \in Bases \ {units[u].base} :
           Emit(u, "refresh_intent", "candidate_refresh",
                [units[u] EXCEPT !.refresh = target])
    /\ integrationQueue' = integrationQueue \ {u}
    /\ qualificationQueue' = qualificationQueue \ {u}
    /\ qualificationOwner' = Without(qualificationOwner, u)
    /\ UNCHANGED <<active, integrationOwner, currentReviewer, closed>>

(* Every binding to the old base is discarded with it. *)
Rebased(unit) ==
    [WithoutReviewBindings(unit) EXCEPT
        !.diff = None, !.cand = None, !.refresh = None, !.ver = None,
        !.base = unit.refresh,
        !.launchBase = IF unit.wpacket = None THEN unit.base
                       ELSE unit.wpacket[1]]

RefreshObserved(u) ==
    /\ Observable(u, "candidate_refresh", "refresh_observed")
    /\ units[u].refresh # None
    /\ \/ /\ RefreshIsFastForward(units[u])
          /\ Observe(u, "worktree_observed", "candidate_refresh",
                     [units[u] EXCEPT !.refresh = None,
                                      !.base = units[u].refresh])
       \/ /\ ~ RefreshIsFastForward(units[u])
          /\ Observe(u, "collected", "candidate_refresh", Rebased(units[u]))
    /\ UNCHANGED <<wave, owners, closed>>

(* The rebase conflicted at `head`; the base stays. *)
RefreshFailed(u) ==
    /\ Observable(u, "candidate_refresh", "refresh_failed")
    /\ \E head \in Heads :
           Observe(u, "repair_required", "candidate_refresh",
                   [WithoutReviewBindings(units[u]) EXCEPT
                       !.cand = head, !.repair = <<units[u].base, head>>])
    /\ ClearUnitOwners(u)
    /\ UNCHANGED <<wave, closed>>

-----------------------------------------------------------------------------
(* Verification and review: one unit at a time owns qualification *)

VerificationIntent(u) ==
    /\ CanIntend(u)
    /\ units[u].state = "candidate_committed"
    /\ qualificationOwner \in {None, u}
    /\ IsQueueHead(u, qualificationQueue, qualificationOwner)
    /\ Emit(u, "verification_intent", "verify", units[u])
    /\ qualificationOwner' = u
    /\ UNCHANGED <<active, qualificationQueue, integrationQueue,
                   integrationOwner, currentReviewer, closed>>

(* Mutant of VerificationObserved: an earlier verification is not replaced. *)
VerificationObservedOnce(u) ==
    /\ Observable(u, "verify", "verification_observed")
    /\ qualificationOwner = u
    /\ Observe(u, "qualified", "verify",
               IF units[u].ver # None THEN units[u]
               ELSE [units[u] EXCEPT !.ver = <<units[u].base, units[u].cand>>])
    /\ UNCHANGED <<wave, owners, closed>>

VerificationObserved(u) ==
    /\ Observable(u, "verify", "verification_observed")
    /\ qualificationOwner = u
    /\ Observe(u, "qualified", "verify",
               [units[u] EXCEPT !.ver = <<units[u].base, units[u].cand>>])
    /\ UNCHANGED <<wave, owners, closed>>

VerificationFailed(u) ==
    /\ Observable(u, "verify", "verification_failed")
    /\ qualificationOwner = u
    /\ Observe(u, "repair_required", "verify",
               [units[u] EXCEPT !.repair = <<units[u].base, units[u].cand>>])
    /\ ClearUnitOwners(u)
    /\ UNCHANGED <<wave, closed>>

(* launchPacketError, reviewer role: the packet binds the exact candidate. *)
ReviewerPacket(unit) == <<unit.base, unit.cand, unit.diff, unit.scope>>

ReviewerDispatchIntent(u) ==
    /\ CanIntend(u)
    /\ units[u].state = "qualified"
    /\ qualificationOwner = u
    /\ currentReviewer = None
    /\ harness
    /\ None \notin {units[u].cand, units[u].diff}
    /\ Emit(u, "reviewer_dispatch_intent", "review_dispatch",
            [units[u] EXCEPT !.rpacket = ReviewerPacket(units[u])])
    /\ currentReviewer' = u
    /\ UNCHANGED <<active, qualificationQueue, integrationQueue,
                   qualificationOwner, integrationOwner, closed>>

ReviewerObserved(u) ==
    /\ Observable(u, "review_dispatch", "reviewer_observed")
    /\ currentReviewer = u
    /\ SessionSlotFree(units[u].reviewers)
    /\ Observe(u, "reviewer_dispatched", "review_dispatch",
               [units[u] EXCEPT !.rsess = TRUE, !.reviewers = @ + 1])
    /\ UNCHANGED <<wave, owners, closed>>

ReviewCollectIntent(u) ==
    /\ CanIntend(u)
    /\ units[u].state = "reviewer_dispatched"
    /\ currentReviewer = u
    /\ harness
    /\ Emit(u, "review_collect_intent", "review_collect", units[u])
    /\ UNCHANGED <<owners, closed>>

(* reviewJudgmentError: the verdict names the verified base and the current   *)
(* candidate.                                                                *)
JudgedPair(unit) ==
    <<IF unit.ver = None THEN None ELSE unit.ver[1], unit.cand>>

ReviewCollected(u) ==
    /\ Observable(u, "review_collect", "review_collected")
    /\ currentReviewer = u
    /\ JudgedPair(units[u]) \in Pair
    /\ \/ /\ Observe(u, "approved", "review_collect",
                     [units[u] EXCEPT !.review = JudgedPair(units[u])])
          /\ currentReviewer' = None
          /\ integrationQueue' = integrationQueue \cup {u}
          /\ UNCHANGED <<active, qualificationQueue, qualificationOwner,
                         integrationOwner>>
       \/ /\ Observe(u, "repair_required", "review_collect",
                     [WithoutReviewBindings(units[u]) EXCEPT
                         !.repair = JudgedPair(units[u])])
          /\ ClearUnitOwners(u)
    /\ UNCHANGED <<wave, closed>>

-----------------------------------------------------------------------------
(* Publication and integration *)

HasCurrentApproval(unit) ==
    unit.review # None /\ unit.review = <<unit.base, unit.cand>>

IsPublicationHandoff == Boundary \in {"branch-handoff", "pr-handoff"}

(* effectAllowed under a configuration completionConfigurationError accepts. *)
EffectAllowed(kind) ==
    /\ kind = "publish" => Boundary # "local-integration"
    /\ kind = "integrate" =>
           Boundary \in {"local-integration", "remote-integration"}

PublishIntent(u) ==
    /\ CanIntend(u)
    /\ EffectAllowed("publish")
    /\ units[u].state = "approved" /\ HasCurrentApproval(units[u])
    /\ qualificationOwner = u
    /\ Emit(u, "publish_intent", "publish", units[u])
    /\ UNCHANGED <<owners, closed>>

(* The remote head read back is the candidate.  A handoff ends the unit. *)
PublishObserved(u) ==
    /\ Observable(u, "publish", "publish_observed")
    /\ units[u].cand # None
    /\ \/ /\ IsPublicationHandoff
          /\ Observe(u, "handoff", "publish",
                     [units[u] EXCEPT !.published = units[u].cand])
          /\ ClearUnitOwners(u)
          /\ PersistTerminalClosureEvidence(u, "handoff")
       \/ /\ ~ IsPublicationHandoff
          /\ Observe(u, "published", "publish",
                     [units[u] EXCEPT !.published = units[u].cand])
          /\ UNCHANGED <<owners, closed>>
    /\ UNCHANGED wave

(* The attested repair of an ambiguous publish from a full ref: the unit     *)
(* returns to approved with a short publication ref.                         *)
PublishRefused(u) ==
    /\ runState = "blocked" /\ controller = "acquired"
    /\ units[u].state = "blocked"
    /\ Entry(u, "publish", "ambiguous") \in journal
    /\ units[u].branch = "full"
    /\ ~ units[u].pubRef
    /\ HasCurrentApproval(units[u])
    /\ Observe(u, "approved", "publish", [units[u] EXCEPT !.pubRef = TRUE])
    /\ UNCHANGED <<wave, owners, closed>>

CanIntegrateFrom(unit) ==
    unit.state = IF Boundary = "local-integration" THEN "approved" ELSE "published"

IntegrateIntent(u) ==
    /\ CanIntend(u)
    /\ EffectAllowed("integrate")
    /\ CanIntegrateFrom(units[u]) /\ HasCurrentApproval(units[u])
    /\ qualificationOwner = u
    /\ integrationOwner \in {None, u}
    /\ IsQueueHead(u, integrationQueue, integrationOwner)
    /\ Emit(u, "integrate_intent", "integrate", units[u])
    /\ integrationOwner' = u
    /\ UNCHANGED <<active, qualificationQueue, integrationQueue,
                   qualificationOwner, currentReviewer, closed>>

(* Nothing landed: the approval and its exact pair survive. *)
IntegrateRefused(u) ==
    /\ Observable(u, "integrate", "integrate_refused")
    /\ integrationOwner = u
    /\ Observe(u, "approved", "integrate", units[u])
    /\ integrationOwner' = None
    /\ UNCHANGED <<wave, active, qualificationQueue, integrationQueue,
                   qualificationOwner, currentReviewer, closed>>

(* The landed pair is the reviewed pair. *)
IntegrateObserved(u) ==
    /\ Observable(u, "integrate", "integrate_observed")
    /\ integrationOwner = u
    /\ Observe(u, "landed", "integrate", units[u])
    /\ qualificationOwner' = None /\ integrationOwner' = None
    /\ qualificationQueue' = qualificationQueue \ {u}
    /\ integrationQueue' = integrationQueue \ {u}
    /\ PersistTerminalClosureEvidence(u, "landed")
    /\ UNCHANGED <<wave, active, currentReviewer>>

-----------------------------------------------------------------------------
(* Release, repair and the terminal acts *)

(* Mutant of UpdateClosureReleaseEvidence: the copy is forgotten. *)
UpdateClosureReleaseEvidenceSkipped(u, status) == closed[u]

(* The release entry is copied onto each reservation of the evidence. *)
UpdateClosureReleaseEvidence(u, status) ==
    [closed[u] EXCEPT !.release = IF units[u].res = {} THEN @ ELSE status]

ReservationReleaseIntent(u) ==
    /\ CanIntend(u)
    /\ units[u].state \in TerminalStates
    /\ Emit(u, "reservation_release_intent", "reservation_release",
            [units[u] EXCEPT
                !.resState = IF units[u].res = {} THEN @ ELSE "release_intent"])
    /\ closed[u] # None
    /\ closed' = [closed EXCEPT ![u] = UpdateClosureReleaseEvidence(u, "intended")]
    /\ UNCHANGED owners

(* The unit and its reservations leave the aggregate; the evidence stays. *)
ReservationReleased(u) ==
    /\ Observable(u, "reservation_release", "reservation_released")
    /\ closed[u] # None
    /\ Observe(u, "closed", "reservation_release", FreshUnit(units[u].base))
    /\ wave' = wave \ {u}
    /\ closed' = [closed EXCEPT ![u] =
           [UpdateClosureReleaseEvidence(u, "observed") EXCEPT !.final = TRUE]]
    /\ UNCHANGED owners

(* validRepairJudgment: the disposition binds the retained repair context,   *)
(* whose head, if any, is still the candidate.                               *)
ValidRepairJudgment(unit) ==
    /\ unit.repair # None
    /\ \/ unit.repair[2] = None
       \/ unit.cand = None
       \/ unit.repair[2] = unit.cand

(* Mutant of RepairIntent: the repair budget is not checked. *)
RepairIntentUnbounded(u) ==
    /\ CanIntend(u)
    /\ units[u].state \in {"repair_required", "failed", "timed_out"}
    /\ ValidRepairJudgment(units[u])
    /\ harness
    /\ units[u].branch # "none" /\ units[u].worktree
    /\ Cardinality(active) < ModifyingSlots
    /\ \E packet \in WorkerPackets(units[u]) :
           ModifyingIntent(u, "repair_intent", "repair",
                           [units[u] EXCEPT !.wpacket = packet])
    /\ closed' = [closed EXCEPT ![u] = None]

RepairIntent(u) ==
    /\ CanIntend(u)
    /\ units[u].state \in {"repair_required", "failed", "timed_out"}
    /\ ValidRepairJudgment(units[u])
    /\ harness
    /\ units[u].branch # "none" /\ units[u].worktree
    /\ units[u].repairs < MaxRepairs
    /\ Cardinality(active) < ModifyingSlots
    /\ \E packet \in WorkerPackets(units[u]) :
           ModifyingIntent(u, "repair_intent", "repair",
                           [units[u] EXCEPT !.wpacket = packet])
    /\ closed' = [closed EXCEPT ![u] = None]

RepairObserved(u) ==
    /\ Observable(u, "repair", "repair_observed")
    /\ SessionSlotFree(units[u].workers)
    /\ Observe(u, "dispatched", "repair",
               [units[u] EXCEPT !.wsess = TRUE, !.repairs = @ + 1,
                                !.workers = @ + 1])
    /\ UNCHANGED <<wave, owners, closed>>

(* An active worker or reviewer stays owned until the terminal observation;   *)
(* an owner of qualification keeps its place in that queue.                  *)
TerminalIntent(u, kind) ==
    /\ CanIntend(u)
    /\ CanEnterTerminalIntent(units[u].state)
    /\ kind = "cancel" /\ (u \in active \/ currentReviewer = u) => harness
    /\ Emit(u, IntentStateForEffect[kind], kind, units[u])
    /\ qualificationQueue' = IF u \in {qualificationOwner, currentReviewer}
                             THEN qualificationQueue
                             ELSE qualificationQueue \ {u}
    /\ integrationQueue' = integrationQueue \ {u}
    /\ UNCHANGED <<active, qualificationOwner, integrationOwner,
                   currentReviewer, closed>>

FailureRepairContext(unit) ==
    IF unit.cand = None THEN unit
    ELSE [unit EXCEPT !.repair =
             <<IF unit.ver = None THEN unit.base ELSE unit.ver[1], unit.cand>>]

(* The session a cancellation closes is the one the unit recorded. *)
MatchesTerminalSession(u) ==
    IF currentReviewer = u THEN units[u].rsess ELSE u \in active => units[u].wsess

TerminalObserved(u, kind, event, outcome) ==
    /\ Observable(u, kind, event)
    /\ kind = "cancel" => MatchesTerminalSession(u)
    /\ Observe(u, outcome, kind,
               IF kind \in {"failure", "timeout"}
               THEN FailureRepairContext(units[u]) ELSE units[u])
    /\ ClearUnitOwners(u)
    /\ PersistTerminalClosureEvidence(u, outcome)
    /\ UNCHANGED wave

FailureIntent(u) == TerminalIntent(u, "failure")
FailureObserved(u) == TerminalObserved(u, "failure", "failure_observed", "failed")
TimeoutIntent(u) == TerminalIntent(u, "timeout")
TimeoutObserved(u) ==
    TerminalObserved(u, "timeout", "timeout_observed", "timed_out")
ParkIntent(u) == TerminalIntent(u, "park")
ParkObserved(u) == TerminalObserved(u, "park", "park_observed", "parked")
CancelIntent(u) == TerminalIntent(u, "cancel")
CancelObserved(u) == TerminalObserved(u, "cancel", "cancel_observed", "cancelled")

(* repairScopeExtensionEligible: one drained unit waiting for repair, whose   *)
(* repair context still binds its candidate.                                 *)
RepairScopeExtensionEligible(u) ==
    /\ runState = "active" /\ controller = "acquired"
    /\ wave = {u}
    /\ units[u].state = "repair_required"
    /\ units[u].cand # None
    /\ units[u].repair = <<units[u].base, units[u].cand>>
    /\ units[u].branch # "none" /\ units[u].worktree
    /\ active = {} /\ currentReviewer = None
    /\ qualificationOwner = None /\ integrationOwner = None
    /\ qualificationQueue = {} /\ integrationQueue = {}
    /\ \A e \in journal : e.status = "observed"

(* The owned paths grow; the worker packet, verification and review bound to  *)
(* the old paths are dropped.                                                *)
RepairScopeExtended(u) ==
    /\ RepairScopeExtensionEligible(u)
    /\ units[u].scope < MaxScope
    /\ units' = [units EXCEPT ![u] =
           [WithoutReviewBindings(units[u]) EXCEPT
               !.wpacket = None, !.ver = None, !.scope = @ + 1]]
    /\ UNCHANGED <<runState, controller, harness, wave, owners, journal, closed>>

-----------------------------------------------------------------------------
(* runInvariantErrors: what the sweep demands of every committed aggregate *)

QualificationOwnerStates ==
    {"verification_intent", "qualified", "reviewer_dispatch_intent",
     "reviewer_dispatched", "review_collect_intent", "approved",
     "publish_intent", "published", "integrate_intent"}

IntegrationQueueStates ==
    {"approved", "publish_intent", "published", "integrate_intent"}

ReviewerStates ==
    {"reviewer_dispatch_intent", "reviewer_dispatched", "review_collect_intent"}

BlockedOn(u, kinds) == units[u].state = "blocked" /\ AmbiguousOn(u, kinds)

HasBlockedVerification(u) ==
    BlockedOn(u, {"verify", "review_dispatch", "review_collect", "publish",
                  "integrate"})

(* Queues and the active set name units of the current wave only. *)
QueueMembership ==
    /\ wave \subseteq Live
    /\ Cardinality(wave) <= ModifyingSlots
    /\ qualificationQueue \cup integrationQueue \cup active \subseteq wave

(* The queues are exactly the units whose state says they wait in them, all  *)
(* of them live units of the wave: the controller derives whose turn it is   *)
(* from the queue, recovery from states (runInvariantErrors).                *)
QueuesAgree ==
    /\ QueueMembership
    /\ qualificationQueue =
           {u \in Units : \/ units[u].state \in QualificationOwnerStates
                          \/ units[u].state = "candidate_committed"
                          \/ HasBlockedVerification(u)
                          \/ /\ qualificationOwner = u
                             /\ units[u].state \in TerminalIntentStates}
    /\ integrationQueue =
           {u \in Units : \/ units[u].state \in IntegrationQueueStates
                          \/ BlockedOn(u, {"publish", "integrate"})}

(* Ownership and lifecycle state agree in both directions, so at most one    *)
(* unit is past verification, at most one integrates and at most one review  *)
(* is out.                                                                   *)
OwnersAgree ==
    /\ \A u \in Units :
        /\ units[u].state \in QualificationOwnerStates \/ HasBlockedVerification(u)
               => qualificationOwner = u
        /\ qualificationOwner = u =>
               /\ \/ units[u].state \in QualificationOwnerStates \cup TerminalIntentStates
                  \/ HasBlockedVerification(u)
               /\ u \in qualificationQueue
        /\ units[u].state = "integrate_intent" \/ BlockedOn(u, {"integrate"})
               <=> integrationOwner = u
        /\ units[u].state \in ReviewerStates => currentReviewer = u
        /\ currentReviewer = u =>
               /\ units[u].state \in ReviewerStates \cup TerminalIntentStates
               /\ qualificationOwner = u
    /\ integrationOwner # None => integrationOwner \in integrationQueue

(* A modifying slot is held exactly while a worker session can be running. *)
ActiveAgrees ==
    \A u \in Units :
        /\ units[u].state \in {"dispatch_intent", "dispatched", "collect_intent",
                               "repair_intent"} => u \in active
        /\ u \in active =>
               \/ units[u].state \in {"dispatch_intent", "dispatched",
                      "collect_intent", "repair_intent"} \cup TerminalIntentStates
               \/ BlockedOn(u, {"dispatch", "repair", "worker_collect"}
                                   \cup TerminalKinds)

(* A unit's durable phase determines exactly one unresolved external act. *)
EffectsAgree ==
    /\ runState = "blocked" <=> \E e \in journal : e.status = "ambiguous"
    /\ \A u \in Live :
        /\ units[u].state = "blocked" =>
               \E k \in UnitKinds :
                   UnresolvedEntries(u) = {Entry(u, k, "ambiguous")}
        /\ units[u].state \in IntentStates =>
               \E k \in UnitKinds :
                   /\ IntentStateForEffect[k] = units[u].state
                   /\ UnresolvedEntries(u) = {Entry(u, k, "intended")}
        /\ units[u].state \notin IntentStates \cup {"blocked"} =>
               UnresolvedEntries(u) = {}
    /\ \A e \in journal :
           e.status # "observed" /\ e.unit # None => e.unit \in wave
    /\ ~ harness => \A e \in journal : e.status # "observed" =>
           e.kind \notin {"dispatch", "worker_collect", "review_dispatch",
                          "review_collect", "repair"}
    /\ \/ /\ controller = "acquire_intent"
          /\ \E st \in {"intended", "ambiguous"} :
               UnresolvedEntries(None) = {Entry(None, "controller_acquire", st)}
       \/ /\ controller = "release_intent"
          /\ \E st \in {"intended", "ambiguous"} :
               UnresolvedEntries(None) = {Entry(None, "controller_release", st)}
       \/ /\ controller \notin {"acquire_intent", "release_intent"}
          /\ UnresolvedEntries(None) = {}
    /\ runState = "active" => controller = "acquired"
    /\ runState = "released" <=> controller = "released"

(* rehydrateEffect can rebuild the parameters of every unresolved effect     *)
(* from the durable unit: a crash after the intent loses nothing.            *)
ParamsPresent(u, k) ==
    LET r == units[u] IN
    /\ k \in {"branch_create", "worktree_create", "dispatch", "repair",
              "candidate_collect", "candidate_refresh", "publish"} =>
           r.branch # "none"
    /\ k \in {"worktree_create", "dispatch", "repair", "candidate_collect",
              "candidate_refresh", "verify"} => r.worktree
    /\ k \in {"dispatch", "repair"} => r.wpacket # None
    /\ k = "worker_collect" => r.wsess
    /\ k = "review_dispatch" => r.rpacket # None
    /\ k = "review_collect" => r.rsess
    /\ k \in {"verify", "review_dispatch", "review_collect", "publish",
              "integrate"} => r.cand # None
    /\ k = "candidate_collect" /\ r.recheck => r.cand # None
    /\ k = "candidate_refresh" => r.refresh # None
    /\ k = "repair" => r.repair # None
    /\ k \in TerminalKinds => MatchesTerminalSession(u)

EffectsRehydrate ==
    \A u \in Units : \A e \in UnresolvedEntries(u) : ParamsPresent(u, e.kind)

(* Reservations are held, with their acquisition journalled, for as long as  *)
(* the unit lives.                                                           *)
ReservationsAgree ==
    \A u \in Units :
        /\ units[u].res # {}
           /\ units[u].state \notin {"reservation_intent", "blocked",
                                     "reservation_release_intent"}
               => units[u].resState = "reserved"
        /\ units[u].res # {} /\ units[u].state = "reservation_release_intent"
               => units[u].resState = "release_intent"
        /\ units[u].resState = "reserved" =>
               Entry(u, "reservation_acquire", "observed") \in journal

SuccessStates == {"landed", "handoff"}

(* A unit holds the packets, sessions, candidate, verification, review and   *)
(* repair context its phase needs, and a packet it holds binds its current   *)
(* base, candidate and scope.                                                *)
LifecycleBindings ==
    \A u \in Units : LET r == units[u] IN
        /\ r.state \in {"branch_intent", "branch_observed", "worktree_intent",
                        "worktree_observed"} => r.branch # "none"
        /\ r.state \in {"worktree_intent", "worktree_observed"} => r.worktree
        /\ r.state \in {"dispatch_intent", "dispatched", "collect_intent",
                        "collected", "candidate_intent", "repair_intent"} =>
               r.wpacket # None
        /\ r.wpacket # None => r.wpacket \in WorkerPackets(r)
        /\ r.state \in {"dispatched", "collect_intent", "collected",
                        "candidate_intent"} => r.wsess
        /\ r.state \in QualificationOwnerStates \cup SuccessStates
                         \cup {"candidate_committed"} =>
               None \notin {r.cand, r.diff}
        /\ r.state \in (QualificationOwnerStates \ {"verification_intent"})
                         \cup SuccessStates => r.ver # None
        /\ r.state \in ReviewerStates => r.rpacket # None
        /\ r.rpacket # None => r.rpacket = ReviewerPacket(r)
        /\ r.state \in {"reviewer_dispatched", "review_collect_intent"} => r.rsess
        /\ r.state \in IntegrationQueueStates \cup SuccessStates => r.review # None
        /\ r.state \in {"published", "handoff"} => r.published # None
        /\ r.state = "repair_required" => r.repair # None
        /\ r.recheck => /\ \/ r.state = "candidate_intent"
                           \/ BlockedOn(u, {"candidate_collect"})
                        /\ r.cand # None /\ r.diff = None /\ r.ver = None

(* The ledger holds evidence of exactly the units that ended, bound to the    *)
(* unit's base and, for a success, to one reviewed and verified pair.        *)
ClosureAgrees ==
    \A u \in Units :
        LET st == units[u].state
            c  == closed[u]
            releasing == BlockedOn(u, {"reservation_release"})
        IN
        /\ st \in TerminalStates \cup {"reservation_release_intent", "closed"}
               => c # None
        /\ c # None =>
            /\ \/ st \in TerminalStates \cup {"reservation_release_intent", "closed"}
               \/ releasing
            /\ c.base = units[u].base
            /\ c.final <=> st = "closed"
            /\ Successful(c.outcome) =>
                   c.ver = <<c.base, c.cand>> /\ c.review = <<c.base, c.cand>>
            /\ st = "reservation_release_intent" /\ units[u].res # {} =>
                   c.release = "intended"
            /\ releasing /\ units[u].res # {} => c.release = "ambiguous"
            /\ st = "closed" => c.release \in {"none", "observed"}

RunInvariant ==
    /\ QueuesAgree /\ OwnersAgree /\ ActiveAgrees
    /\ EffectsAgree /\ EffectsRehydrate /\ ReservationsAgree
    /\ LifecycleBindings /\ ClosureAgrees

-----------------------------------------------------------------------------
(* Ambiguity *)

(* Mutant of BlockUnit: a blocked recheck forgets that it is one. *)
BlockUnitDropsRecheck(unit) ==
    [unit EXCEPT !.state = "blocked", !.recheck = FALSE]

BlockUnit(unit) == [unit EXCEPT !.state = "blocked"]

(* The outcome of an intended act is unknown: the entry becomes ambiguous and *)
(* the aggregate blocks.  The case itself asks nothing of queues and owners;  *)
(* commit's sweep decides.                                                   *)
EffectAmbiguous(e) ==
    /\ e.status = "intended"
    /\ e.kind \in AmbiguousKinds
    /\ runState # "released"
    /\ IF e.unit = None
       THEN /\ controller = IF e.kind = "controller_acquire"
                            THEN "acquire_intent" ELSE "release_intent"
            /\ UNCHANGED <<units, closed>>
       ELSE /\ units[e.unit].state = IntentStateForEffect[e.kind]
            /\ units' = [units EXCEPT ![e.unit] = BlockUnit(units[e.unit])]
            /\ closed' = IF e.kind # "reservation_release" THEN closed
                         ELSE [closed EXCEPT ![e.unit] =
                                 UpdateClosureReleaseEvidence(e.unit, "ambiguous")]
    /\ runState' = "blocked"
    /\ journal' = (journal \ {e}) \cup {[e EXCEPT !.status = "ambiguous"]}
    /\ UNCHANGED <<controller, harness, wave, owners>>
    /\ RunInvariant'

-----------------------------------------------------------------------------

ControllerObservation == ControllerAcquired \/ ControllerReleased

UnitObservation(u) ==
    \/ ReservationObserved(u) \/ BranchObserved(u) \/ WorktreeObserved(u)
    \/ DispatchObserved(u) \/ WorkerCollected(u)
    \/ CandidateObserved(u) \/ CandidateRefused(u)
    \/ RefreshObserved(u) \/ RefreshFailed(u)
    \/ VerificationObserved(u) \/ VerificationFailed(u)
    \/ ReviewerObserved(u) \/ ReviewCollected(u)
    \/ PublishObserved(u) \/ PublishRefused(u)
    \/ IntegrateRefused(u) \/ IntegrateObserved(u)
    \/ ReservationReleased(u) \/ RepairObserved(u)
    \/ FailureObserved(u) \/ TimeoutObserved(u)
    \/ ParkObserved(u) \/ CancelObserved(u)

UnitIntent(u) ==
    \/ ReservationIntent(u) \/ BranchIntent(u) \/ WorktreeIntent(u)
    \/ DispatchIntent(u) \/ CollectIntent(u)
    \/ CandidateIntent(u) \/ CandidateRecheckIntent(u) \/ RefreshIntent(u)
    \/ VerificationIntent(u) \/ ReviewerDispatchIntent(u)
    \/ ReviewCollectIntent(u)
    \/ PublishIntent(u) \/ IntegrateIntent(u)
    \/ ReservationReleaseIntent(u) \/ RepairIntent(u)
    \/ FailureIntent(u) \/ TimeoutIntent(u) \/ ParkIntent(u) \/ CancelIntent(u)

(* A released run admits no further event. *)
Released == runState = "released" /\ UNCHANGED vars

Next ==
    \/ Released
    \/ ControllerAcquireIntent \/ ControllerReleaseIntent
    \/ ControllerObservation
    \/ HarnessConfigured \/ WavePlanned
    \/ \E u \in Units : \/ UnitIntent(u) \/ UnitObservation(u)
                        \/ RepairScopeExtended(u)
    \/ \E e \in journal : EffectAmbiguous(e)

Spec == Init /\ [][Next]_vars

-----------------------------------------------------------------------------
(* Properties *)

(* From approval to landing or handoff a unit's candidate, diff,             *)
(* verification and review all name one and the same base/head pair.  The    *)
(* sweep only asks that the live bindings exist; that they agree rests on     *)
(* every transition that moves a base or a head discarding the rest.         *)
ExactBinding ==
    \A u \in Units : LET r == units[u] IN
        \/ r.state \in IntegrationQueueStates \cup SuccessStates
        \/ BlockedOn(u, {"publish", "integrate"})
        => /\ r.ver = <<r.base, r.cand>>
           /\ r.review = <<r.base, r.cand>>
           /\ r.diff = r.cand

(* No resource is reserved for two units, from the intent to reserve it to    *)
(* the observed release.                                                     *)
ResourceExclusive ==
    \A u, v \in Units : u # v => units[u].res \cap units[v].res = {}

(* A unit sent to repair can always be repaired: its context binds the        *)
(* candidate it now has (candidate_refused and refresh_failed rebind it),     *)
(* and it still has its branch and worktree.                                 *)
RepairStaysPossible ==
    \A u \in Units : units[u].state = "repair_required" =>
        /\ ValidRepairJudgment(units[u])
        /\ units[u].branch # "none" /\ units[u].worktree

(* Whatever moves a unit's base or its candidate head also discards the       *)
(* verdict and the review packet: "any movement of either object invalidates *)
(* the verdict".                                                             *)
MovementInvalidatesVerdict ==
    [][\A u \in Units :
          \/ units'[u].base # units[u].base
          \/ units'[u].cand # units[u].cand
          => units'[u].review = None /\ units'[u].rpacket = None]_vars

(* A journalled intent is never lost: it stays unresolved until it is         *)
(* observed, and compaction only drops what was observed.                    *)
IntentNeverLost ==
    [][\A e \in journal : e.status # "observed" =>
          \E st \in {"intended", "ambiguous", "observed"} :
              [e EXCEPT !.status = st] \in journal']_vars

(* A blocked aggregate emits no new effect, for any unit. *)
BlockedEmitsNothing ==
    [][runState = "blocked" =>
          \A e \in journal' : e.status = "intended" => e \in journal]_vars

(* The parameters an effect was journalled with (their hash is stored) can be *)
(* read back from the unit unchanged until the effect is observed.           *)
CandidateParams(r) == <<IF r.ver = None THEN r.base ELSE r.ver[1], r.cand>>

TerminalParams(u) ==
    IF currentReviewer = u THEN "reviewer"
    ELSE IF u \in active THEN "worker" ELSE "none"

RuntimeEffectParams(u, k) ==
    LET r == units[u] IN
    CASE k \in {"reservation_acquire", "reservation_release"} -> r.res
      [] k = "branch_create" -> <<r.base, r.branch>>
      [] k = "worktree_create" -> <<r.branch, r.worktree>>
      [] k = "dispatch" -> <<r.branch, r.wpacket, r.worktree>>
      [] k = "repair" -> <<r.branch, r.wpacket, r.worktree, r.repair>>
      [] k = "worker_collect" -> r.wsess
      [] k = "candidate_collect" ->
             <<r.branch, r.worktree, IF r.recheck THEN r.cand ELSE None>>
      [] k = "candidate_refresh" -> <<r.refresh, r.branch, r.base, r.worktree>>
      [] k = "verify" -> <<r.base, r.cand, r.worktree>>
      [] k = "review_dispatch" -> <<CandidateParams(r), r.rpacket>>
      [] k = "review_collect" -> <<r.rsess, CandidateParams(r)>>
      [] k = "publish" -> <<r.branch, r.pubRef, CandidateParams(r)>>
      [] k = "integrate" -> CandidateParams(r)
      [] OTHER -> TerminalParams(u)

ParamsStable ==
    [][\A u \in Units : \A e \in UnresolvedEntries(u) :
          (\E f \in UnresolvedEntries(u)' : f.kind = e.kind) =>
              RuntimeEffectParams(u, e.kind)' = RuntimeEffectParams(u, e.kind)]_vars

(* The success of act k can be recorded now: the observation is admitted, its *)
(* case finds the ownership, the session slot and the bindings it reads, and  *)
(* the evidence of a closure builds.                                         *)
Recordable(u, k) ==
    LET r == units[u] IN
    /\ \E event \in EffectMatchesObservation[k] \cup {"refresh_observed"} :
           Observable(u, k, event)
    /\ k = "candidate_collect" => \E head \in Heads : CollectedHead(u, head)
    /\ k = "candidate_refresh" => r.refresh # None
    /\ k \in {"dispatch", "repair"} => SessionSlotFree(r.workers)
    /\ k = "review_dispatch" => SessionSlotFree(r.reviewers)
    /\ k = "verify" => qualificationOwner = u
    /\ k \in {"review_dispatch", "review_collect"} => currentReviewer = u
    /\ k = "review_collect" => JudgedPair(r) \in Pair
    /\ k = "publish" => r.cand # None
    /\ k = "publish" /\ IsPublicationHandoff => ClosureEvidenceBuilds(u, "handoff")
    /\ k = "integrate" => /\ integrationOwner = u
                          /\ ClosureEvidenceBuilds(u, "landed")
    /\ k = "reservation_release" => closed[u] # None
    /\ k = "cancel" => MatchesTerminalSession(u)
    /\ k \in TerminalKinds => ClosureEvidenceBuilds(u, "failed")

(* Whatever happened since an act was intended, and whether its outcome was   *)
(* lost in between, its success can be recorded the moment it is read back.   *)
(* Three things escape: a blocked aggregate admits no observation of a        *)
(* refresh (prepareBlockedObservation); a scope extension takes the prompt    *)
(* that a terminal observation needs (closureEvidenceFor); and reviews are    *)
(* as many as refreshes, not repairs, so that the unit may have used up its   *)
(* reviewer slots when a review is dispatched (freshSessionUpdate).  Whether *)
(* the envelope has room for the fact is a size, which is not modelled.      *)
SuccessRecordable ==
    \A u \in Units : \A e \in UnresolvedEntries(u) :
        \/ Recordable(u, e.kind)
        \/ e.kind = "candidate_refresh" /\ runState = "blocked"
        \/ e.kind \in TerminalKinds /\ units[u].wpacket = None /\ units[u].scope > 0
        \/ e.kind = "review_dispatch" /\ ~ SessionSlotFree(units[u].reviewers)

(* Outstanding acts are eventually read back: the command surface reconciles  *)
(* every unresolved entry on each invocation.                                *)
Fairness ==
    /\ WF_vars(ControllerObservation)
    /\ \A u \in Units : WF_vars(UnitObservation(u))

FairSpec == Spec /\ Fairness

(* An ambiguity blocks new effects, not the facts already bound to a durable  *)
(* intent: once those facts arrive, the aggregate resumes.                   *)
BlockedResumes == runState = "blocked" ~> runState # "blocked"

-----------------------------------------------------------------------------
(* The inductive invariant *)

Unresolved(e) == e.status # "observed"

HarnessKinds ==
    {"dispatch", "worker_collect", "review_dispatch", "review_collect", "repair"}

(* Entry by entry: a unit has at most one unresolved act, its state names it, *)
(* and so does the controller's state for the two controller acts.           *)
JournalInv ==
    /\ \A e \in journal : Unresolved(e) /\ e.unit # None =>
           /\ controller = "acquired"
           /\ e.unit \in wave /\ e.kind \in UnitKinds
           /\ units[e.unit].state = IF e.status = "ambiguous" THEN "blocked"
                                    ELSE IntentStateForEffect[e.kind]
    /\ \A e \in journal : Unresolved(e) /\ e.unit = None =>
           \/ e.kind = "controller_acquire" /\ controller = "acquire_intent"
           \/ e.kind = "controller_release" /\ controller = "release_intent"
    /\ \A e, f \in journal :
           Unresolved(e) /\ Unresolved(f) /\ e.unit = f.unit => e = f
    /\ \A u \in Units : units[u].state \in IntentStates \cup {"blocked"} =>
           \E e \in journal : Unresolved(e) /\ e.unit = u
    /\ controller \in {"acquire_intent", "release_intent"} =>
           \E e \in journal : Unresolved(e) /\ e.unit = None
    /\ ~ harness => \A e \in journal : Unresolved(e) => e.kind \notin HarnessKinds

(* The aggregate's, the controller's and the wave's states fit together. *)
AggregateInv ==
    /\ runState = "blocked" <=> \E e \in journal : e.status = "ambiguous"
    /\ runState = "initializing" => controller \in {"unacquired", "acquire_intent"}
    /\ runState = "active" => controller = "acquired"
    /\ runState = "release_intent" => controller = "release_intent"
    /\ runState = "released" <=> controller = "released"
    /\ wave \subseteq Live

(* The lifecycle position of a unit: a blocked unit is still where its        *)
(* ambiguous act was intended.                                               *)
At(u, s) ==
    \/ units[u].state = s
    \/ /\ units[u].state = "blocked"
       /\ \E k \in UnitKinds : /\ IntentStateForEffect[k] = s
                               /\ Entry(u, k, "ambiguous") \in journal

ApprovedStates == {"approved", "publish_intent", "published", "integrate_intent",
                   "landed", "handoff"}

VerifiedStates == {"qualified", "reviewer_dispatch_intent", "reviewer_dispatched",
                   "review_collect_intent"} \cup ApprovedStates

CandidateStates == {"candidate_committed", "verification_intent"} \cup VerifiedStates

(* What a unit at position s has bound. *)
Bound(r, s) ==
    /\ s = "repair_intent" => r.repairs < MaxRepairs
    /\ s \in CandidateStates => r.cand \in Heads /\ r.diff = r.cand
    /\ s \in VerifiedStates => r.ver = <<r.base, r.cand>>
    /\ s \in ApprovedStates => r.review = <<r.base, r.cand>>

BindingInv ==
    \A u \in Units : \A s \in UnitStates \ {"blocked"} :
        At(u, s) => /\ Bound(units[u], s)
                    /\ s = "reservation_release_intent" => closed[u] # None

IndInv == TypeOK /\ JournalInv /\ AggregateInv /\ BindingInv /\ ResourceExclusive

=============================================================================

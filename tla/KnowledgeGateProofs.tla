------------------------- MODULE KnowledgeGateProofs -------------------------
(***************************************************************************)
(* Proofs about KnowledgeGate, for any waves, targets, outputs, aliases and *)
(* clocks.                                                                  *)
(*                                                                          *)
(* The sweep (GateInvariantHolds) is not inductive.  Inv adds what relates   *)
(* the entries of a gate while they are worked on:                          *)
(*   StageInv       a stage's outputs have a resolved source, its probes    *)
(*                  come after its resolutions, a deferral reaches what     *)
(*                  depends on it, and the names of a naming round (Names-  *)
(*                  Inv) are told apart by the clock;                       *)
(*   StageClosed    a stage that is not open has not been worked on;        *)
(*   ProvenanceInv, PromisesInv                                             *)
(*                  how provenance, verification and the promises follow    *)
(*                  the unit stage and one another;                         *)
(*   InFlight       the effect in flight is of an entry that still waits    *)
(*                  for it;                                                 *)
(*   Accounted      what each unit's landing still owes.                    *)
(* An operation is described field by field first; the lemmas ...StepKeeps   *)
(* then say what a change of one table of one stage leaves alone, and one    *)
(* lemma per event (...Keeps) puts them together.                           *)
(*                                                                          *)
(* That the sweep admits every positive answer (ActsAreRecordable) needs    *)
(* Unowed besides: nothing is owed before the provenance entry exists.  The  *)
(* sweep is taken apart by table (RecordsHold, TargetsHold, OutputsHold,     *)
(* StagesHold), and one lemma per act (ResolvedHolds, ProbedHolds,           *)
(* MaterialisedHolds, ProvenanceCommittedHolds, VerifiedHolds) says that the *)
(* gate the answer leads to passes each part.                                *)
(***************************************************************************)
EXTENDS KnowledgeGate, TLAPS, NaturalsInduction, WellFoundedInduction

-----------------------------------------------------------------------------
(* Types *)

Statuses == {"pending", "observed", "voided"}

(* The functions from a part of D to S. *)
Partial(D, S) == UNION {[E -> S] : E \in SUBSET D}

ItemType == [status : Statuses, disposition : Dispositions, followUp : BOOLEAN,
             refusal : Refusals, name : Clocks \cup {NoName}, witness : Items \cup {NoEntry}]
ProvenanceType == [status : Statuses, disposition : Dispositions, followUp : BOOLEAN,
                   refusal : Refusals, entry : BOOLEAN, units : SUBSET Units, clocked : BOOLEAN]
VerifyType == [status : Statuses, disposition : Dispositions, followUp : BOOLEAN,
               refusal : Refusals, entry : BOOLEAN]

GateType ==
  [unitIds : SUBSET Units,
   promises : Partial(Targets, RecordType),
   targets : Partial(Targets, RecordType),
   resolutions : Partial(Targets, RecordType),
   items : Partial(Items, ItemType),
   probes : Partial(Stages \X Destinations, RecordType),
   provenance : ProvenanceType,
   verify : VerifyType,
   carried : SUBSET Units,
   uncommitted : SUBSET Units]

(* A gate whose tables agree on what is attached. *)
Typed(g) ==
  /\ g \in GateType
  /\ DOMAIN g.promises \cap DOMAIN g.targets = {}
  /\ DOMAIN g.resolutions = DOMAIN g.targets

LEMMA PartialFacts ==
  ASSUME NEW D, NEW S, NEW f \in Partial(D, S)
  PROVE  /\ f = [x \in DOMAIN f |-> f[x]]
         /\ DOMAIN f \subseteq D
         /\ \A x \in DOMAIN f : f[x] \in S
  BY DEF Partial

LEMMA PartialIntro ==
  ASSUME NEW D, NEW S, NEW E \in SUBSET D, NEW f \in [E -> S]
  PROVE  f \in Partial(D, S)
  BY DEF Partial

(* What a settlement does to a record. *)
LEMMA RecordOps ==
  ASSUME NEW r \in RecordType, NEW why \in Dispositions, NEW code \in Refusals
  PROVE  /\ Voided(r, why) \in RecordType
         /\ Voided(r, why).status = "voided" /\ Voided(r, why).disposition = why
         /\ Voided(r, why).followUp = r.followUp /\ Voided(r, why).refusal = r.refusal
         /\ Deferred(r) \in RecordType
         /\ Deferred(r).status = "voided" /\ Deferred(r).disposition = "deferred_by_controller"
         /\ Deferred(r).followUp = TRUE /\ Deferred(r).refusal = r.refusal
         /\ CascadeVoid(r) \in RecordType
         /\ CascadeVoid(r).status = "voided" /\ CascadeVoid(r).disposition = "deferral_cascade"
         /\ CascadeVoid(r).followUp = TRUE /\ CascadeVoid(r).refusal = r.refusal
         /\ Attempted(r) \in RecordType
         /\ Attempted(r).status = r.status /\ Attempted(r).disposition = r.disposition
         /\ Attempted(r).followUp = r.followUp /\ Attempted(r).refusal = "none"
         /\ Observed(r) \in RecordType
         /\ Observed(r).status = "observed" /\ Observed(r).disposition = r.disposition
         /\ Observed(r).followUp = r.followUp /\ Observed(r).refusal = "none"
         /\ RefusedWith(r, code) \in RecordType
         /\ RefusedWith(r, code).status = r.status /\ RefusedWith(r, code).disposition = r.disposition
         /\ RefusedWith(r, code).followUp = r.followUp /\ RefusedWith(r, code).refusal = code
  <1>a. \A w \in Dispositions : \E v \in RecordType :
          /\ v = Voided(r, w)
          /\ v.status = "voided" /\ v.disposition = w /\ v.followUp = r.followUp
          /\ v.refusal = r.refusal
    <2> TAKE w \in Dispositions
    <2>1. Voided(r, w) \in RecordType
      BY DEF Voided, RecordType, Statuses, Dispositions, Refusals
    <2>2. WITNESS Voided(r, w) \in RecordType
    <2>3. QED
      BY DEF Voided, RecordType, Statuses
  <1>b. ASSUME NEW v \in RecordType
        PROVE  \E w \in RecordType : /\ w = [v EXCEPT !.followUp = TRUE] /\ w.followUp = TRUE
                 /\ w.status = v.status /\ w.disposition = v.disposition /\ w.refusal = v.refusal
                
    <2>1. [v EXCEPT !.followUp = TRUE] \in RecordType
      BY DEF RecordType
    <2>2. WITNESS [v EXCEPT !.followUp = TRUE] \in RecordType
    <2>3. QED
      BY DEF RecordType
  <1>1. /\ Voided(r, why) \in RecordType
        /\ Voided(r, why).status = "voided" /\ Voided(r, why).disposition = why
        /\ Voided(r, why).followUp = r.followUp /\ Voided(r, why).refusal = r.refusal
    BY DEF Voided, RecordType, Dispositions, Refusals
  <1>2. /\ Deferred(r) \in RecordType
        /\ Deferred(r).status = "voided" /\ Deferred(r).disposition = "deferred_by_controller"
        /\ Deferred(r).followUp = TRUE /\ Deferred(r).refusal = r.refusal
    <2>1. "deferred_by_controller" \in Dispositions
      BY DEF Dispositions
    <2>2. PICK v \in RecordType :
             /\ v = Voided(r, "deferred_by_controller")
             /\ v.status = "voided" /\ v.disposition = "deferred_by_controller"
             /\ v.followUp = r.followUp /\ v.refusal = r.refusal
      BY <1>a, <2>1
    <2>3. PICK w \in RecordType :
             /\ w = [v EXCEPT !.followUp = TRUE] /\ w.followUp = TRUE
             /\ w.status = v.status /\ w.disposition = v.disposition /\ w.refusal = v.refusal
      BY <1>b
    <2>4. w = Deferred(r)
      BY <2>2, <2>3 DEF Deferred
    <2>5. QED
      BY <2>2, <2>3, <2>4
  <1>3. /\ CascadeVoid(r) \in RecordType
        /\ CascadeVoid(r).status = "voided" /\ CascadeVoid(r).disposition = "deferral_cascade"
        /\ CascadeVoid(r).followUp = TRUE /\ CascadeVoid(r).refusal = r.refusal
    <2>1. "deferral_cascade" \in Dispositions
      BY DEF Dispositions
    <2>2. PICK v \in RecordType :
             /\ v = Voided(r, "deferral_cascade")
             /\ v.status = "voided" /\ v.disposition = "deferral_cascade"
             /\ v.followUp = r.followUp /\ v.refusal = r.refusal
      BY <1>a, <2>1
    <2>3. PICK w \in RecordType :
             /\ w = [v EXCEPT !.followUp = TRUE] /\ w.followUp = TRUE
             /\ w.status = v.status /\ w.disposition = v.disposition /\ w.refusal = v.refusal
      BY <1>b
    <2>4. w = CascadeVoid(r)
      BY <2>2, <2>3 DEF CascadeVoid
    <2>5. QED
      BY <2>2, <2>3, <2>4
  <1>4. /\ Attempted(r) \in RecordType
        /\ Attempted(r).status = r.status /\ Attempted(r).disposition = r.disposition
        /\ Attempted(r).followUp = r.followUp /\ Attempted(r).refusal = "none"
    BY DEF Attempted, RecordType, Dispositions, Refusals
  <1>5. /\ Observed(r) \in RecordType
        /\ Observed(r).status = "observed" /\ Observed(r).disposition = r.disposition
        /\ Observed(r).followUp = r.followUp /\ Observed(r).refusal = "none"
    BY DEF Observed, RecordType, Dispositions, Refusals
  <1>6. /\ RefusedWith(r, code) \in RecordType
        /\ RefusedWith(r, code).status = r.status /\ RefusedWith(r, code).disposition = r.disposition
        /\ RefusedWith(r, code).followUp = r.followUp /\ RefusedWith(r, code).refusal = code
    BY DEF RefusedWith, RecordType, Dispositions, Refusals
  <1>7. QED
    BY <1>1, <1>2, <1>3, <1>4, <1>5, <1>6

(* A name is a number, taken or not. *)
LEMMA NamesAreNumbers == \A r \in ItemType : r.name \in Nat
  <1>1. Clocks \cup {NoName} \subseteq Nat
    BY GateAssumption DEF NoName
  <1>2. QED
    BY <1>1 DEF ItemType

LEMMA ItemOps ==
  ASSUME NEW r \in ItemType, NEW why \in Dispositions, NEW code \in Refusals
  PROVE  /\ Voided(r, why) \in ItemType
         /\ Voided(r, why).status = "voided" /\ Voided(r, why).disposition = why
         /\ Voided(r, why).followUp = r.followUp /\ Voided(r, why).refusal = r.refusal
         /\ Voided(r, why).name = r.name /\ Voided(r, why).witness = r.witness
         /\ Deferred(r) \in ItemType
         /\ Deferred(r).status = "voided" /\ Deferred(r).disposition = "deferred_by_controller"
         /\ Deferred(r).followUp = TRUE /\ Deferred(r).refusal = r.refusal
         /\ Deferred(r).name = r.name /\ Deferred(r).witness = r.witness
         /\ CascadeVoid(r) \in ItemType
         /\ CascadeVoid(r).status = "voided" /\ CascadeVoid(r).disposition = "deferral_cascade"
         /\ CascadeVoid(r).followUp = TRUE /\ CascadeVoid(r).refusal = r.refusal
         /\ CascadeVoid(r).name = r.name /\ CascadeVoid(r).witness = r.witness
         /\ Attempted(r) \in ItemType
         /\ Attempted(r).status = r.status /\ Attempted(r).disposition = r.disposition
         /\ Attempted(r).followUp = r.followUp /\ Attempted(r).refusal = "none"
         /\ Attempted(r).name = r.name /\ Attempted(r).witness = r.witness
         /\ Observed(r) \in ItemType
         /\ Observed(r).status = "observed" /\ Observed(r).disposition = r.disposition
         /\ Observed(r).followUp = r.followUp /\ Observed(r).refusal = "none"
         /\ Observed(r).name = r.name /\ Observed(r).witness = r.witness
         /\ RefusedWith(r, code) \in ItemType
         /\ RefusedWith(r, code).status = r.status /\ RefusedWith(r, code).disposition = r.disposition
         /\ RefusedWith(r, code).followUp = r.followUp /\ RefusedWith(r, code).refusal = code
         /\ RefusedWith(r, code).name = r.name /\ RefusedWith(r, code).witness = r.witness
  <1>a. \A w \in Dispositions : \E v \in ItemType :
          /\ v = Voided(r, w)
          /\ v.status = "voided" /\ v.disposition = w /\ v.followUp = r.followUp
          /\ v.refusal = r.refusal /\ v.name = r.name /\ v.witness = r.witness
    <2> TAKE w \in Dispositions
    <2>1. Voided(r, w) \in ItemType
      BY DEF Voided, ItemType, Statuses, Dispositions, Refusals
    <2>2. WITNESS Voided(r, w) \in ItemType
    <2>3. QED
      BY DEF Voided, ItemType, Statuses
  <1>b. ASSUME NEW v \in ItemType
        PROVE  \E w \in ItemType : /\ w = [v EXCEPT !.followUp = TRUE] /\ w.followUp = TRUE
                 /\ w.status = v.status /\ w.disposition = v.disposition /\ w.refusal = v.refusal
                 /\ w.name = v.name /\ w.witness = v.witness
    <2>1. [v EXCEPT !.followUp = TRUE] \in ItemType
      BY DEF ItemType
    <2>2. WITNESS [v EXCEPT !.followUp = TRUE] \in ItemType
    <2>3. QED
      BY DEF ItemType
  <1>1. /\ Voided(r, why) \in ItemType
        /\ Voided(r, why).status = "voided" /\ Voided(r, why).disposition = why
        /\ Voided(r, why).followUp = r.followUp /\ Voided(r, why).refusal = r.refusal
        /\ Voided(r, why).name = r.name /\ Voided(r, why).witness = r.witness
    BY DEF Voided, ItemType, Statuses, Dispositions, Refusals
  <1>2. /\ Deferred(r) \in ItemType
        /\ Deferred(r).status = "voided" /\ Deferred(r).disposition = "deferred_by_controller"
        /\ Deferred(r).followUp = TRUE /\ Deferred(r).refusal = r.refusal
        /\ Deferred(r).name = r.name /\ Deferred(r).witness = r.witness
    <2>1. "deferred_by_controller" \in Dispositions
      BY DEF Dispositions
    <2>2. PICK v \in ItemType :
             /\ v = Voided(r, "deferred_by_controller")
             /\ v.status = "voided" /\ v.disposition = "deferred_by_controller"
             /\ v.followUp = r.followUp /\ v.refusal = r.refusal /\ v.name = r.name /\ v.witness = r.witness
      BY <1>a, <2>1
    <2>3. PICK w \in ItemType :
             /\ w = [v EXCEPT !.followUp = TRUE] /\ w.followUp = TRUE
             /\ w.status = v.status /\ w.disposition = v.disposition /\ w.refusal = v.refusal /\ w.name = v.name /\ w.witness = v.witness
      BY <1>b
    <2>4. w = Deferred(r)
      BY <2>2, <2>3 DEF Deferred
    <2>5. QED
      BY <2>2, <2>3, <2>4
  <1>3. /\ CascadeVoid(r) \in ItemType
        /\ CascadeVoid(r).status = "voided" /\ CascadeVoid(r).disposition = "deferral_cascade"
        /\ CascadeVoid(r).followUp = TRUE /\ CascadeVoid(r).refusal = r.refusal
        /\ CascadeVoid(r).name = r.name /\ CascadeVoid(r).witness = r.witness
    <2>1. "deferral_cascade" \in Dispositions
      BY DEF Dispositions
    <2>2. PICK v \in ItemType :
             /\ v = Voided(r, "deferral_cascade")
             /\ v.status = "voided" /\ v.disposition = "deferral_cascade"
             /\ v.followUp = r.followUp /\ v.refusal = r.refusal /\ v.name = r.name /\ v.witness = r.witness
      BY <1>a, <2>1
    <2>3. PICK w \in ItemType :
             /\ w = [v EXCEPT !.followUp = TRUE] /\ w.followUp = TRUE
             /\ w.status = v.status /\ w.disposition = v.disposition /\ w.refusal = v.refusal /\ w.name = v.name /\ w.witness = v.witness
      BY <1>b
    <2>4. w = CascadeVoid(r)
      BY <2>2, <2>3 DEF CascadeVoid
    <2>5. QED
      BY <2>2, <2>3, <2>4
  <1>4. /\ Attempted(r) \in ItemType
        /\ Attempted(r).status = r.status /\ Attempted(r).disposition = r.disposition
        /\ Attempted(r).followUp = r.followUp /\ Attempted(r).refusal = "none"
        /\ Attempted(r).name = r.name /\ Attempted(r).witness = r.witness
    BY DEF Attempted, ItemType, Statuses, Dispositions, Refusals
  <1>5. /\ Observed(r) \in ItemType
        /\ Observed(r).status = "observed" /\ Observed(r).disposition = r.disposition
        /\ Observed(r).followUp = r.followUp /\ Observed(r).refusal = "none"
        /\ Observed(r).name = r.name /\ Observed(r).witness = r.witness
    BY DEF Observed, ItemType, Statuses, Dispositions, Refusals
  <1>6. /\ RefusedWith(r, code) \in ItemType
        /\ RefusedWith(r, code).status = r.status /\ RefusedWith(r, code).disposition = r.disposition
        /\ RefusedWith(r, code).followUp = r.followUp /\ RefusedWith(r, code).refusal = code
        /\ RefusedWith(r, code).name = r.name /\ RefusedWith(r, code).witness = r.witness
    BY DEF RefusedWith, ItemType, Statuses, Dispositions, Refusals
  <1>7. QED
    BY <1>1, <1>2, <1>3, <1>4, <1>5, <1>6

LEMMA ProvenanceOps ==
  ASSUME NEW r \in ProvenanceType, NEW why \in Dispositions, NEW code \in Refusals
  PROVE  /\ Voided(r, why) \in ProvenanceType
         /\ Voided(r, why).status = "voided" /\ Voided(r, why).disposition = why
         /\ Voided(r, why).followUp = r.followUp /\ Voided(r, why).refusal = r.refusal
         /\ Voided(r, why).entry = r.entry /\ Voided(r, why).units = r.units
         /\ Voided(r, why).clocked = r.clocked
         /\ Deferred(r) \in ProvenanceType
         /\ Deferred(r).status = "voided" /\ Deferred(r).disposition = "deferred_by_controller"
         /\ Deferred(r).followUp = TRUE /\ Deferred(r).refusal = r.refusal
         /\ Deferred(r).entry = r.entry /\ Deferred(r).units = r.units
         /\ Deferred(r).clocked = r.clocked
         /\ CascadeVoid(r) \in ProvenanceType
         /\ CascadeVoid(r).status = "voided" /\ CascadeVoid(r).disposition = "deferral_cascade"
         /\ CascadeVoid(r).followUp = TRUE /\ CascadeVoid(r).refusal = r.refusal
         /\ CascadeVoid(r).entry = r.entry /\ CascadeVoid(r).units = r.units
         /\ CascadeVoid(r).clocked = r.clocked
         /\ Attempted(r) \in ProvenanceType
         /\ Attempted(r).status = r.status /\ Attempted(r).disposition = r.disposition
         /\ Attempted(r).followUp = r.followUp /\ Attempted(r).refusal = "none"
         /\ Attempted(r).entry = r.entry /\ Attempted(r).units = r.units
         /\ Attempted(r).clocked = r.clocked
         /\ Observed(r) \in ProvenanceType
         /\ Observed(r).status = "observed" /\ Observed(r).disposition = r.disposition
         /\ Observed(r).followUp = r.followUp /\ Observed(r).refusal = "none"
         /\ Observed(r).entry = r.entry /\ Observed(r).units = r.units
         /\ Observed(r).clocked = r.clocked
         /\ RefusedWith(r, code) \in ProvenanceType
         /\ RefusedWith(r, code).status = r.status /\ RefusedWith(r, code).disposition = r.disposition
         /\ RefusedWith(r, code).followUp = r.followUp /\ RefusedWith(r, code).refusal = code
         /\ RefusedWith(r, code).entry = r.entry /\ RefusedWith(r, code).units = r.units
         /\ RefusedWith(r, code).clocked = r.clocked
  <1>a. \A w \in Dispositions : \E v \in ProvenanceType :
          /\ v = Voided(r, w)
          /\ v.status = "voided" /\ v.disposition = w /\ v.followUp = r.followUp
          /\ v.refusal = r.refusal /\ v.entry = r.entry /\ v.units = r.units /\ v.clocked = r.clocked
    <2> TAKE w \in Dispositions
    <2>1. Voided(r, w) \in ProvenanceType
      BY DEF Voided, ProvenanceType, Statuses, Dispositions, Refusals
    <2>2. WITNESS Voided(r, w) \in ProvenanceType
    <2>3. QED
      BY DEF Voided, ProvenanceType, Statuses
  <1>b. ASSUME NEW v \in ProvenanceType
        PROVE  \E w \in ProvenanceType : /\ w = [v EXCEPT !.followUp = TRUE] /\ w.followUp = TRUE
                 /\ w.status = v.status /\ w.disposition = v.disposition /\ w.refusal = v.refusal
                 /\ w.entry = v.entry /\ w.units = v.units /\ w.clocked = v.clocked
    <2>1. [v EXCEPT !.followUp = TRUE] \in ProvenanceType
      BY DEF ProvenanceType
    <2>2. WITNESS [v EXCEPT !.followUp = TRUE] \in ProvenanceType
    <2>3. QED
      BY DEF ProvenanceType
  <1>1. /\ Voided(r, why) \in ProvenanceType
        /\ Voided(r, why).status = "voided" /\ Voided(r, why).disposition = why
        /\ Voided(r, why).followUp = r.followUp /\ Voided(r, why).refusal = r.refusal
        /\ Voided(r, why).entry = r.entry /\ Voided(r, why).units = r.units
        /\ Voided(r, why).clocked = r.clocked
    BY DEF Voided, ProvenanceType, Statuses, Dispositions, Refusals
  <1>2. /\ Deferred(r) \in ProvenanceType
        /\ Deferred(r).status = "voided" /\ Deferred(r).disposition = "deferred_by_controller"
        /\ Deferred(r).followUp = TRUE /\ Deferred(r).refusal = r.refusal
        /\ Deferred(r).entry = r.entry /\ Deferred(r).units = r.units
        /\ Deferred(r).clocked = r.clocked
    <2>1. "deferred_by_controller" \in Dispositions
      BY DEF Dispositions
    <2>2. PICK v \in ProvenanceType :
             /\ v = Voided(r, "deferred_by_controller")
             /\ v.status = "voided" /\ v.disposition = "deferred_by_controller"
             /\ v.followUp = r.followUp /\ v.refusal = r.refusal /\ v.entry = r.entry /\ v.units = r.units /\ v.clocked = r.clocked
      BY <1>a, <2>1
    <2>3. PICK w \in ProvenanceType :
             /\ w = [v EXCEPT !.followUp = TRUE] /\ w.followUp = TRUE
             /\ w.status = v.status /\ w.disposition = v.disposition /\ w.refusal = v.refusal /\ w.entry = v.entry /\ w.units = v.units /\ w.clocked = v.clocked
      BY <1>b
    <2>4. w = Deferred(r)
      BY <2>2, <2>3 DEF Deferred
    <2>5. QED
      BY <2>2, <2>3, <2>4
  <1>3. /\ CascadeVoid(r) \in ProvenanceType
        /\ CascadeVoid(r).status = "voided" /\ CascadeVoid(r).disposition = "deferral_cascade"
        /\ CascadeVoid(r).followUp = TRUE /\ CascadeVoid(r).refusal = r.refusal
        /\ CascadeVoid(r).entry = r.entry /\ CascadeVoid(r).units = r.units
        /\ CascadeVoid(r).clocked = r.clocked
    <2>1. "deferral_cascade" \in Dispositions
      BY DEF Dispositions
    <2>2. PICK v \in ProvenanceType :
             /\ v = Voided(r, "deferral_cascade")
             /\ v.status = "voided" /\ v.disposition = "deferral_cascade"
             /\ v.followUp = r.followUp /\ v.refusal = r.refusal /\ v.entry = r.entry /\ v.units = r.units /\ v.clocked = r.clocked
      BY <1>a, <2>1
    <2>3. PICK w \in ProvenanceType :
             /\ w = [v EXCEPT !.followUp = TRUE] /\ w.followUp = TRUE
             /\ w.status = v.status /\ w.disposition = v.disposition /\ w.refusal = v.refusal /\ w.entry = v.entry /\ w.units = v.units /\ w.clocked = v.clocked
      BY <1>b
    <2>4. w = CascadeVoid(r)
      BY <2>2, <2>3 DEF CascadeVoid
    <2>5. QED
      BY <2>2, <2>3, <2>4
  <1>4. /\ Attempted(r) \in ProvenanceType
        /\ Attempted(r).status = r.status /\ Attempted(r).disposition = r.disposition
        /\ Attempted(r).followUp = r.followUp /\ Attempted(r).refusal = "none"
        /\ Attempted(r).entry = r.entry /\ Attempted(r).units = r.units
        /\ Attempted(r).clocked = r.clocked
    BY DEF Attempted, ProvenanceType, Statuses, Dispositions, Refusals
  <1>5. /\ Observed(r) \in ProvenanceType
        /\ Observed(r).status = "observed" /\ Observed(r).disposition = r.disposition
        /\ Observed(r).followUp = r.followUp /\ Observed(r).refusal = "none"
        /\ Observed(r).entry = r.entry /\ Observed(r).units = r.units
        /\ Observed(r).clocked = r.clocked
    BY DEF Observed, ProvenanceType, Statuses, Dispositions, Refusals
  <1>6. /\ RefusedWith(r, code) \in ProvenanceType
        /\ RefusedWith(r, code).status = r.status /\ RefusedWith(r, code).disposition = r.disposition
        /\ RefusedWith(r, code).followUp = r.followUp /\ RefusedWith(r, code).refusal = code
        /\ RefusedWith(r, code).entry = r.entry /\ RefusedWith(r, code).units = r.units
        /\ RefusedWith(r, code).clocked = r.clocked
    BY DEF RefusedWith, ProvenanceType, Statuses, Dispositions, Refusals
  <1>7. QED
    BY <1>1, <1>2, <1>3, <1>4, <1>5, <1>6

LEMMA FreshTyped == /\ Fresh \in RecordType /\ FreshItem \in ItemType
                    /\ Fresh.status = "pending" /\ Fresh.disposition = "none"
                    /\ Fresh.followUp = FALSE /\ Fresh.refusal = "none"
                    /\ FreshItem.status = "pending" /\ FreshItem.disposition = "none"
                    /\ FreshItem.followUp = FALSE /\ FreshItem.refusal = "none"
                    /\ FreshItem.name = NoName /\ FreshItem.witness = NoEntry
  BY DEF Fresh, FreshItem, RecordType, ItemType, Statuses, Dispositions, Refusals, NoName, NoEntry

LEMMA GateFields ==
  ASSUME NEW g, Typed(g)
  PROVE  /\ g.unitIds \subseteq Units /\ g.carried \subseteq Units /\ g.uncommitted \subseteq Units
         /\ DOMAIN g.promises \subseteq Targets /\ DOMAIN g.targets \subseteq Targets
         /\ DOMAIN g.resolutions = DOMAIN g.targets
         /\ DOMAIN g.promises \cap DOMAIN g.targets = {}
         /\ DOMAIN g.items \subseteq Items /\ DOMAIN g.probes \subseteq Stages \X Destinations
         /\ \A t \in DOMAIN g.promises : g.promises[t] \in RecordType
         /\ \A t \in DOMAIN g.targets : g.targets[t] \in RecordType /\ g.resolutions[t] \in RecordType
         /\ \A i \in DOMAIN g.items : g.items[i] \in ItemType
         /\ \A p \in DOMAIN g.probes : g.probes[p] \in RecordType
         /\ g.provenance \in ProvenanceType /\ g.verify \in VerifyType
  <1>1. /\ g.promises \in Partial(Targets, RecordType) /\ g.targets \in Partial(Targets, RecordType)
        /\ g.resolutions \in Partial(Targets, RecordType) /\ g.items \in Partial(Items, ItemType)
        /\ g.probes \in Partial(Stages \X Destinations, RecordType)
        /\ g.provenance \in ProvenanceType /\ g.verify \in VerifyType
        /\ g.unitIds \subseteq Units /\ g.carried \subseteq Units /\ g.uncommitted \subseteq Units
    BY DEF Typed, GateType
  <1>2. QED
    BY <1>1, PartialFacts DEF Typed

-----------------------------------------------------------------------------
(* The operations, field by field *)

(* h is g but for the tables of targets, resolutions, items and probes. *)
Frame(g, h) ==
  /\ h.unitIds = g.unitIds /\ h.carried = g.carried /\ h.uncommitted = g.uncommitted
  /\ h.promises = g.promises /\ h.provenance = g.provenance /\ h.verify = g.verify

(* Those tables are the same. *)
SameTables(g, h) ==
  /\ h.targets = g.targets /\ h.resolutions = g.resolutions
  /\ h.items = g.items /\ h.probes = g.probes

(* f with r at x. *)
LEMMA PartialSet ==
  ASSUME NEW D, NEW S, NEW f \in Partial(D, S), NEW x \in DOMAIN f, NEW r \in S
  PROVE  /\ [f EXCEPT ![x] = r] \in Partial(D, S)
         /\ DOMAIN [f EXCEPT ![x] = r] = DOMAIN f
         /\ [f EXCEPT ![x] = r][x] = r
         /\ \A y \in DOMAIN f : y # x => [f EXCEPT ![x] = r][y] = f[y]
  BY DEF Partial

(* One entry is replaced. *)
LEMMA ResolutionSet ==
  ASSUME NEW g, Typed(g), NEW t \in DOMAIN g.targets, NEW r \in RecordType,
         NEW h, h = [g EXCEPT !.resolutions[t] = r]
  PROVE  /\ Typed(h) /\ Frame(g, h)
         /\ h.targets = g.targets /\ h.items = g.items /\ h.probes = g.probes
         /\ DOMAIN h.resolutions = DOMAIN g.targets /\ h.resolutions[t] = r
         /\ \A u \in DOMAIN g.targets : u # t => h.resolutions[u] = g.resolutions[u]
  <1>1. PICK f : f = [g.resolutions EXCEPT ![t] = r]
    OBVIOUS
  <1>2. g.resolutions \in Partial(Targets, RecordType) /\ DOMAIN g.resolutions = DOMAIN g.targets
    BY DEF Typed, GateType
  <1>3. /\ f \in Partial(Targets, RecordType) /\ DOMAIN f = DOMAIN g.targets /\ f[t] = r
        /\ \A u \in DOMAIN g.targets : u # t => f[u] = g.resolutions[u]
    BY <1>1, <1>2, PartialSet
  <1>4. h = [g EXCEPT !.resolutions = f]
    BY <1>1
  <1>5. QED
    BY <1>3, <1>4 DEF Typed, GateType, Frame

LEMMA ProbeSet ==
  ASSUME NEW g, Typed(g), NEW p \in DOMAIN g.probes, NEW r \in RecordType,
         NEW h, h = [g EXCEPT !.probes[p] = r]
  PROVE  /\ Typed(h) /\ Frame(g, h)
         /\ h.targets = g.targets /\ h.resolutions = g.resolutions /\ h.items = g.items
         /\ DOMAIN h.probes = DOMAIN g.probes /\ h.probes[p] = r
         /\ \A q \in DOMAIN g.probes : q # p => h.probes[q] = g.probes[q]
  <1>1. PICK f : f = [g.probes EXCEPT ![p] = r]
    OBVIOUS
  <1>2. g.probes \in Partial(Stages \X Destinations, RecordType)
    BY DEF Typed, GateType
  <1>3. /\ f \in Partial(Stages \X Destinations, RecordType)
        /\ DOMAIN f = DOMAIN g.probes /\ f[p] = r
        /\ \A q \in DOMAIN g.probes : q # p => f[q] = g.probes[q]
    BY <1>1, <1>2, PartialSet
  <1>4. h = [g EXCEPT !.probes = f]
    BY <1>1
  <1>5. QED
    BY <1>3, <1>4 DEF Typed, GateType, Frame

LEMMA ItemSet ==
  ASSUME NEW g, Typed(g), NEW i \in DOMAIN g.items, NEW r \in ItemType,
         NEW h, h = [g EXCEPT !.items[i] = r]
  PROVE  /\ Typed(h) /\ Frame(g, h)
         /\ h.targets = g.targets /\ h.resolutions = g.resolutions /\ h.probes = g.probes
         /\ DOMAIN h.items = DOMAIN g.items /\ h.items[i] = r
         /\ \A j \in DOMAIN g.items : j # i => h.items[j] = g.items[j]
  <1>1. PICK f : f = [g.items EXCEPT ![i] = r]
    OBVIOUS
  <1>2. g.items \in Partial(Items, ItemType)
    BY DEF Typed, GateType
  <1>3. /\ f \in Partial(Items, ItemType) /\ DOMAIN f = DOMAIN g.items /\ f[i] = r
        /\ \A j \in DOMAIN g.items : j # i => f[j] = g.items[j]
    BY <1>1, <1>2, PartialSet
  <1>4. h = [g EXCEPT !.items = f]
    BY <1>1
  <1>5. QED
    BY <1>3, <1>4 DEF Typed, GateType, Frame

(* The last output settles its target's promise. *)
LEMMA SettleFields ==
  ASSUME NEW g, Typed(g), NEW t \in DOMAIN g.targets, NEW h, h = SettleTargetPromise(g, t)
  PROVE  /\ Typed(h) /\ Frame(g, h)
         /\ h.resolutions = g.resolutions /\ h.items = g.items /\ h.probes = g.probes
         /\ DOMAIN h.targets = DOMAIN g.targets
         /\ \A u \in DOMAIN g.targets : u # t => h.targets[u] = g.targets[u]
         /\ IF /\ Pending(g.targets[t]) /\ g.resolutions[t].status = "observed"
               /\ ItemsOf(g, t) # {} /\ \A i \in ItemsOf(g, t) : ~Pending(g.items[i])
            THEN h.targets[t] = IF \E i \in ItemsOf(g, t) : g.items[i].status = "voided"
                                THEN CascadeVoid(g.targets[t]) ELSE Observed(g.targets[t])
            ELSE h.targets[t] = g.targets[t]
  <1> DEFINE settled == /\ Pending(g.targets[t]) /\ g.resolutions[t].status = "observed"
                        /\ ItemsOf(g, t) # {} /\ \A i \in ItemsOf(g, t) : ~Pending(g.items[i])
             r == IF \E i \in ItemsOf(g, t) : g.items[i].status = "voided"
                  THEN CascadeVoid(g.targets[t]) ELSE Observed(g.targets[t])
  <1>1. CASE ~settled
    BY <1>1 DEF SettleTargetPromise, Frame
  <1>2. CASE settled
    <2>1. h = [g EXCEPT !.targets[t] = r]
      BY <1>2 DEF SettleTargetPromise
    <2>2. r \in RecordType
      <3>1. g.targets[t] \in RecordType /\ "none" \in Dispositions /\ "none" \in Refusals
        BY GateFields DEF Dispositions, Refusals
      <3>2. QED
        BY <3>1, RecordOps
    <2>3. PICK f : f = [g.targets EXCEPT ![t] = r]
      OBVIOUS
    <2>4. g.targets \in Partial(Targets, RecordType)
      BY DEF Typed, GateType
    <2> HIDE DEF r
    <2>5. /\ f \in Partial(Targets, RecordType) /\ DOMAIN f = DOMAIN g.targets /\ f[t] = r
          /\ \A u \in DOMAIN g.targets : u # t => f[u] = g.targets[u]
      BY <2>2, <2>3, <2>4, PartialSet
    <2>6. h = [g EXCEPT !.targets = f]
      BY <2>1, <2>3
    <2>7. /\ Typed(h) /\ Frame(g, h) /\ h.targets = f
          /\ h.resolutions = g.resolutions /\ h.items = g.items /\ h.probes = g.probes
      BY <2>5, <2>6 DEF Typed, GateType, Frame
    <2>8. h.targets[t] = r
      BY <2>5, <2>7
    <2>9. QED
      BY <1>2, <2>5, <2>7, <2>8 DEF r
  <1>3. QED
    BY <1>1, <1>2

(* The promises of the due targets in S become targets. *)
LEMMA AttachFields ==
  ASSUME NEW g, Typed(g), NEW S, NEW h, h = AttachSource(g, S)
  PROVE  LET due == {t \in S \cap DOMAIN g.promises : Pending(g.promises[t])} IN
         /\ Typed(h)
         /\ h.unitIds = g.unitIds /\ h.carried = g.carried /\ h.uncommitted = g.uncommitted
         /\ h.provenance = g.provenance /\ h.verify = g.verify
         /\ h.items = g.items /\ h.probes = g.probes
         /\ due \cap DOMAIN g.targets = {}
         /\ DOMAIN h.promises = DOMAIN g.promises \ due
         /\ \A t \in DOMAIN h.promises : h.promises[t] = g.promises[t]
         /\ DOMAIN h.targets = DOMAIN g.targets \cup due
         /\ \A t \in DOMAIN g.targets :
              h.targets[t] = g.targets[t] /\ h.resolutions[t] = g.resolutions[t]
         /\ \A t \in due : h.targets[t] = Fresh /\ h.resolutions[t] = Fresh
  <1> DEFINE due == {t \in S \cap DOMAIN g.promises : Pending(g.promises[t])}
  <1>1. PICK ps : ps = [t \in DOMAIN g.promises \ due |-> g.promises[t]]
    OBVIOUS
  <1>2. PICK ts : ts = [t \in DOMAIN g.targets \cup due |-> IF t \in due THEN Fresh ELSE g.targets[t]]
    OBVIOUS
  <1>3. PICK rs : rs = [t \in DOMAIN g.targets \cup due |-> IF t \in due THEN Fresh ELSE g.resolutions[t]]
    OBVIOUS
  <1>4. h = [g EXCEPT !.promises = ps, !.targets = ts, !.resolutions = rs]
    BY <1>1, <1>2, <1>3 DEF AttachSource
  <1>5. due \subseteq DOMAIN g.promises
    OBVIOUS
  <1> HIDE DEF due
  <1>6. due \cap DOMAIN g.targets = {} /\ due \subseteq Targets /\ DOMAIN g.targets \subseteq Targets
        /\ DOMAIN g.promises \subseteq Targets
    BY <1>5, GateFields
  <1>7. ps \in Partial(Targets, RecordType)
    <2>1. ps \in [DOMAIN g.promises \ due -> RecordType]
      BY <1>1, GateFields
    <2>2. QED
      BY <1>6, <2>1, PartialIntro
  <1>8. ts \in Partial(Targets, RecordType)
    <2>1. ts \in [DOMAIN g.targets \cup due -> RecordType]
      BY <1>2, GateFields, FreshTyped
    <2>2. QED
      BY <1>6, <2>1, PartialIntro
  <1>9. rs \in Partial(Targets, RecordType)
    <2>1. rs \in [DOMAIN g.targets \cup due -> RecordType]
      BY <1>3, GateFields, FreshTyped
    <2>2. QED
      BY <1>6, <2>1, PartialIntro
  <1>10. /\ DOMAIN ps = DOMAIN g.promises \ due /\ DOMAIN ts = DOMAIN g.targets \cup due
         /\ DOMAIN rs = DOMAIN ts
    BY <1>1, <1>2, <1>3
  <1>11. /\ h \in GateType /\ h.promises = ps /\ h.targets = ts /\ h.resolutions = rs
         /\ h.unitIds = g.unitIds /\ h.carried = g.carried /\ h.uncommitted = g.uncommitted
         /\ h.provenance = g.provenance /\ h.verify = g.verify
         /\ h.items = g.items /\ h.probes = g.probes
    BY <1>4, <1>7, <1>8, <1>9 DEF Typed, GateType
  <1>12. Typed(h)
    BY <1>6, <1>10, <1>11, GateFields DEF Typed
  <1>13. /\ \A t \in DOMAIN ps : ps[t] = g.promises[t]
         /\ \A t \in DOMAIN g.targets : ts[t] = g.targets[t] /\ rs[t] = g.resolutions[t]
         /\ \A t \in due : ts[t] = Fresh /\ rs[t] = Fresh
    BY <1>1, <1>2, <1>3, <1>6
  <1>14. QED
    BY <1>6, <1>10, <1>11, <1>12, <1>13 DEF due

(* Once a stage is resolved, its live targets get their probes. *)
LEMMA EnsureFields ==
  ASSUME NEW g, Typed(g), NEW s \in Stages, NEW h, h = EnsureDestinationProbes(g, s)
  PROVE  /\ Typed(h) /\ Frame(g, h)
         /\ h.targets = g.targets /\ h.resolutions = g.resolutions /\ h.items = g.items
         /\ DOMAIN g.probes \subseteq DOMAIN h.probes
         /\ \A p \in DOMAIN g.probes : h.probes[p] = g.probes[p]
         /\ \A p \in DOMAIN h.probes \ DOMAIN g.probes :
              /\ StageResolutionsSettled(g, s) /\ h.probes[p] = Fresh /\ p[1] = s
              /\ \E t \in StageTargets(g, s) :
                   p = ProbeOf(t) /\ g.targets[t].status # "voided" /\ ItemsOf(g, t) # {}
         /\ StageResolutionsSettled(g, s) =>
              \A t \in StageTargets(g, s) :
                g.targets[t].status # "voided" /\ ItemsOf(g, t) # {} => ProbeOf(t) \in DOMAIN h.probes
  <1>1. CASE ~StageResolutionsSettled(g, s)
    BY <1>1 DEF EnsureDestinationProbes, Frame
  <1>2. CASE StageResolutionsSettled(g, s)
    <2> DEFINE live == {t \in StageTargets(g, s) : g.targets[t].status # "voided" /\ ItemsOf(g, t) # {}}
               needed == {ProbeOf(t) : t \in live}
    <2>1. PICK f : f = [p \in DOMAIN g.probes \cup needed |->
                          IF p \in DOMAIN g.probes THEN g.probes[p] ELSE Fresh]
      OBVIOUS
    <2>2. h = [g EXCEPT !.probes = f]
      BY <1>2, <2>1 DEF EnsureDestinationProbes
    <2>3. \A t \in Targets : ProbeOf(t) \in Stages \X Destinations /\ ProbeOf(t)[1] = Stage(t)
      BY GateAssumption DEF ProbeOf, Stage, Stages
    <2>4. live \subseteq StageTargets(g, s) /\ StageTargets(g, s) \subseteq Targets
      BY GateFields DEF StageTargets
    <2>5. needed \subseteq Stages \X Destinations /\ \A p \in needed : p[1] = s
      BY <2>3, <2>4 DEF StageTargets
    <2> HIDE DEF needed
    <2>6. DOMAIN g.probes \cup needed \in SUBSET (Stages \X Destinations)
      BY <2>5, GateFields
    <2>7. f \in [DOMAIN g.probes \cup needed -> RecordType]
      BY <2>1, GateFields, FreshTyped
    <2>8. f \in Partial(Stages \X Destinations, RecordType) /\ DOMAIN f = DOMAIN g.probes \cup needed
      BY <2>6, <2>7, PartialIntro
    <2>9. /\ Typed(h) /\ Frame(g, h) /\ h.probes = f
          /\ h.targets = g.targets /\ h.resolutions = g.resolutions /\ h.items = g.items
      BY <2>2, <2>8 DEF Typed, GateType, Frame
    <2>10. /\ \A p \in DOMAIN g.probes : f[p] = g.probes[p]
           /\ \A p \in DOMAIN f \ DOMAIN g.probes : f[p] = Fresh /\ p \in needed
      BY <2>1
    <2>11. QED
      BY <1>2, <2>5, <2>8, <2>9, <2>10 DEF needed
  <1>3. QED
    BY <1>1, <1>2

(* What a resolution finds, before the probes. *)
Found(g, t) ==
  LET found == {i \in Items : TargetOf[i] = t}
  IN  [g EXCEPT !.resolutions[t] = Observed(@),
                !.items = [i \in DOMAIN @ \cup found |-> IF i \in found THEN FreshItem ELSE @[i]]]

(* A resolution finds the outputs of its target. *)
LEMMA FoundFields ==
  ASSUME NEW g, Typed(g), NEW t \in DOMAIN g.targets, NEW h, h = Found(g, t)
  PROVE  /\ Typed(h) /\ Frame(g, h)
         /\ h.targets = g.targets /\ h.probes = g.probes
         /\ DOMAIN h.resolutions = DOMAIN g.targets
         /\ h.resolutions[t] = Observed(g.resolutions[t])
         /\ \A u \in DOMAIN g.targets : u # t => h.resolutions[u] = g.resolutions[u]
         /\ DOMAIN h.items = DOMAIN g.items \cup {j \in Items : TargetOf[j] = t}
         /\ \A i \in DOMAIN h.items :
              h.items[i] = IF TargetOf[i] = t THEN FreshItem ELSE g.items[i]
  <1> DEFINE found == {j \in Items : TargetOf[j] = t}
  <1>1. PICK f : f = [g.resolutions EXCEPT ![t] = Observed(g.resolutions[t])]
    OBVIOUS
  <1>2. PICK is : is = [i \in DOMAIN g.items \cup found |-> IF i \in found THEN FreshItem ELSE g.items[i]]
    OBVIOUS
  <1>3. h = [g EXCEPT !.resolutions = f, !.items = is]
    BY <1>1, <1>2 DEF Found
  <1>4. g.resolutions \in Partial(Targets, RecordType) /\ DOMAIN g.resolutions = DOMAIN g.targets
    BY DEF Typed, GateType
  <1>5. Observed(g.resolutions[t]) \in RecordType
    <2>1. g.resolutions[t] \in RecordType /\ "none" \in Dispositions /\ "none" \in Refusals
      BY GateFields DEF Dispositions, Refusals
    <2>2. QED
      BY <2>1, RecordOps
  <1>6. /\ f \in Partial(Targets, RecordType) /\ DOMAIN f = DOMAIN g.targets
        /\ f[t] = Observed(g.resolutions[t])
        /\ \A u \in DOMAIN g.targets : u # t => f[u] = g.resolutions[u]
    BY <1>1, <1>4, <1>5, PartialSet
  <1>7. is \in [DOMAIN g.items \cup found -> ItemType] /\ DOMAIN g.items \cup found \in SUBSET Items
    BY <1>2, GateFields, FreshTyped
  <1>8. is \in Partial(Items, ItemType) /\ DOMAIN is = DOMAIN g.items \cup found
    BY <1>7, PartialIntro
  <1>9. /\ Typed(h) /\ Frame(g, h) /\ h.resolutions = f /\ h.items = is
        /\ h.targets = g.targets /\ h.probes = g.probes
    BY <1>3, <1>6, <1>8 DEF Typed, GateType, Frame
  <1>10. \A i \in DOMAIN is : is[i] = IF TargetOf[i] = t THEN FreshItem ELSE g.items[i]
    BY <1>2, GateFields
  <1>11. QED
    BY <1>6, <1>8, <1>9, <1>10

(* What is voided with probe p, before provenance is looked at. *)
Unmounted(g, p) ==
  LET void(r) == Voided(r, "optional_alias_unmounted")
  IN  [g EXCEPT !.probes[p] = void(RefusedWith(@, "optional_alias_unmounted")),
                !.targets = Update(@, Dependents(g, p), void),
                !.items = Update(@, DependentItems(g, p), void)]

ProbeDeferred(g, p) ==
  [g EXCEPT !.probes[p] = Deferred(@),
            !.targets = Update(@, Dependents(g, p), CascadeVoid),
            !.items = Update(@, DependentItems(g, p), CascadeVoid)]

(* i's record is voided, and nothing else about it. *)
ItemVoided(g, h, i) ==
  /\ h.items[i].status = "voided" /\ h.items[i].name = g.items[i].name
  /\ h.items[i].refusal = g.items[i].refusal /\ h.items[i].witness = g.items[i].witness

(* A probe is voided with every target and output that depends on it. *)
ProbeVoids(g, h, p) ==
  /\ Typed(h) /\ Frame(g, h) /\ h.resolutions = g.resolutions
  /\ DOMAIN h.targets = DOMAIN g.targets /\ DOMAIN h.items = DOMAIN g.items
  /\ DOMAIN h.probes = DOMAIN g.probes
  /\ h.probes[p].status = "voided"
  /\ \A q \in DOMAIN g.probes : q # p => h.probes[q] = g.probes[q]
  /\ \A t \in DOMAIN g.targets : IF t \in Dependents(g, p) THEN h.targets[t].status = "voided"
                                 ELSE h.targets[t] = g.targets[t]
  /\ \A i \in DOMAIN g.items : IF i \in DependentItems(g, p) THEN ItemVoided(g, h, i)
                               ELSE h.items[i] = g.items[i]

LEMMA ProbeVoidShape ==
  ASSUME NEW g, Typed(g), NEW p \in DOMAIN g.probes,
         NEW r \in RecordType, r.status = "voided",
         NEW ts \in [DOMAIN g.targets -> RecordType], NEW is \in [DOMAIN g.items -> ItemType],
         \A t \in DOMAIN g.targets :
            IF t \in Dependents(g, p) THEN ts[t].status = "voided" ELSE ts[t] = g.targets[t],
         \A i \in DOMAIN g.items :
            IF i \in DependentItems(g, p)
            THEN /\ is[i].status = "voided" /\ is[i].name = g.items[i].name
                 /\ is[i].refusal = g.items[i].refusal /\ is[i].witness = g.items[i].witness
            ELSE is[i] = g.items[i],
         NEW h, h = [g EXCEPT !.probes[p] = r, !.targets = ts, !.items = is]
  PROVE  ProbeVoids(g, h, p)
  <1>1. PICK ps : ps = [g.probes EXCEPT ![p] = r]
    OBVIOUS
  <1>2. g.probes \in Partial(Stages \X Destinations, RecordType)
    BY DEF Typed, GateType
  <1>3. /\ ps \in Partial(Stages \X Destinations, RecordType) /\ DOMAIN ps = DOMAIN g.probes
        /\ ps[p] = r /\ \A q \in DOMAIN g.probes : q # p => ps[q] = g.probes[q]
    BY <1>1, <1>2, PartialSet
  <1>4. /\ ts \in Partial(Targets, RecordType) /\ DOMAIN ts = DOMAIN g.targets
        /\ is \in Partial(Items, ItemType) /\ DOMAIN is = DOMAIN g.items
    BY GateFields, PartialIntro
  <1>5. h = [g EXCEPT !.probes = ps, !.targets = ts, !.items = is]
    BY <1>1
  <1>6. /\ h \in GateType /\ Frame(g, h) /\ h.resolutions = g.resolutions
        /\ h.probes = ps /\ h.targets = ts /\ h.items = is
    BY ZenonT(60), <1>3, <1>4, <1>5 DEF Typed, GateType, Frame
  <1>7. Typed(h)
    BY <1>4, <1>6 DEF Typed, Frame
  <1>8. QED
    BY <1>3, <1>4, <1>6, <1>7 DEF ProbeVoids, ItemVoided

LEMMA UnmountedFields ==
  ASSUME NEW g, Typed(g), NEW p \in DOMAIN g.probes
  PROVE  ProbeVoids(g, Unmounted(g, p), p)
  <1>1. "optional_alias_unmounted" \in Dispositions /\ "optional_alias_unmounted" \in Refusals
    BY DEF Dispositions, Refusals
  <1>2. g.probes[p] \in RecordType
    BY GateFields
  <1>3. PICK r : r = Voided(RefusedWith(g.probes[p], "optional_alias_unmounted"), "optional_alias_unmounted")
    OBVIOUS
  <1>4. PICK ts : ts = [t \in DOMAIN g.targets |-> IF t \in Dependents(g, p)
                         THEN Voided(g.targets[t], "optional_alias_unmounted") ELSE g.targets[t]]
    OBVIOUS
  <1>5. PICK is : is = [i \in DOMAIN g.items |-> IF i \in DependentItems(g, p)
                         THEN Voided(g.items[i], "optional_alias_unmounted") ELSE g.items[i]]
    OBVIOUS
  <1>6. Unmounted(g, p) = [g EXCEPT !.probes[p] = r, !.targets = ts, !.items = is]
    BY <1>3, <1>4, <1>5 DEF Unmounted, Update
  <1>7. r \in RecordType /\ r.status = "voided"
    <2>1. PICK q : q = RefusedWith(g.probes[p], "optional_alias_unmounted")
      OBVIOUS
    <2>2. q \in RecordType
      BY <1>1, <1>2, <2>1, RecordOps
    <2>3. r = Voided(q, "optional_alias_unmounted")
      BY <1>3, <2>1
    <2>4. QED
      BY ZenonT(60), <1>1, <2>2, <2>3, RecordOps
  <1>8. /\ ts \in [DOMAIN g.targets -> RecordType]
        /\ \A t \in DOMAIN g.targets :
             IF t \in Dependents(g, p) THEN ts[t].status = "voided" ELSE ts[t] = g.targets[t]
    <2>1. ASSUME NEW t \in DOMAIN g.targets
          PROVE  /\ g.targets[t] \in RecordType
                 /\ Voided(g.targets[t], "optional_alias_unmounted") \in RecordType /\ Voided(g.targets[t], "optional_alias_unmounted").status = "voided"
      <3>1. g.targets[t] \in RecordType
        BY GateFields
      <3>2. QED
        BY <1>1, <3>1 DEF Voided, RecordType
    <2>2. QED
      BY <1>4, <2>1
  <1>9. /\ is \in [DOMAIN g.items -> ItemType]
        /\ \A i \in DOMAIN g.items :
             IF i \in DependentItems(g, p)
             THEN /\ is[i].status = "voided" /\ is[i].name = g.items[i].name
                  /\ is[i].refusal = g.items[i].refusal /\ is[i].witness = g.items[i].witness
             ELSE is[i] = g.items[i]
    <2>1. ASSUME NEW i \in DOMAIN g.items
          PROVE  LET v == Voided(g.items[i], "optional_alias_unmounted") IN
                 /\ g.items[i] \in ItemType
                 /\ v \in ItemType /\ v.status = "voided" /\ v.name = g.items[i].name
                 /\ v.refusal = g.items[i].refusal /\ v.witness = g.items[i].witness
      <3>1. g.items[i] \in ItemType
        BY GateFields
      <3>2. QED
        BY <1>1, <3>1 DEF Voided, ItemType, Statuses
    <2>2. QED
      BY <1>5, <2>1
  <1>10. QED
    BY ZenonT(60), <1>6, <1>7, <1>8, <1>9, ProbeVoidShape

LEMMA ProbeDeferredFields ==
  ASSUME NEW g, Typed(g), NEW p \in DOMAIN g.probes
  PROVE  ProbeVoids(g, ProbeDeferred(g, p), p)
  <1>1. "optional_alias_unmounted" \in Dispositions /\ "optional_alias_unmounted" \in Refusals
    BY DEF Dispositions, Refusals
  <1>2. g.probes[p] \in RecordType
    BY GateFields
  <1>3. PICK r : r = Deferred(g.probes[p])
    OBVIOUS
  <1>4. PICK ts : ts = [t \in DOMAIN g.targets |-> IF t \in Dependents(g, p)
                         THEN CascadeVoid(g.targets[t]) ELSE g.targets[t]]
    OBVIOUS
  <1>5. PICK is : is = [i \in DOMAIN g.items |-> IF i \in DependentItems(g, p)
                         THEN CascadeVoid(g.items[i]) ELSE g.items[i]]
    OBVIOUS
  <1>6. ProbeDeferred(g, p) = [g EXCEPT !.probes[p] = r, !.targets = ts, !.items = is]
    BY <1>3, <1>4, <1>5 DEF ProbeDeferred, Update
  <1>7. r \in RecordType /\ r.status = "voided"
    BY <1>1, <1>2, <1>3, RecordOps
  <1>8. /\ ts \in [DOMAIN g.targets -> RecordType]
        /\ \A t \in DOMAIN g.targets :
             IF t \in Dependents(g, p) THEN ts[t].status = "voided" ELSE ts[t] = g.targets[t]
    <2>1. ASSUME NEW t \in DOMAIN g.targets
          PROVE  /\ g.targets[t] \in RecordType
                 /\ CascadeVoid(g.targets[t]) \in RecordType /\ CascadeVoid(g.targets[t]).status = "voided"
      <3>1. g.targets[t] \in RecordType
        BY GateFields
      <3>2. QED
        BY <1>1, <3>1, RecordOps
    <2>2. QED
      BY <1>4, <2>1
  <1>9. /\ is \in [DOMAIN g.items -> ItemType]
        /\ \A i \in DOMAIN g.items :
             IF i \in DependentItems(g, p)
             THEN /\ is[i].status = "voided" /\ is[i].name = g.items[i].name
                  /\ is[i].refusal = g.items[i].refusal /\ is[i].witness = g.items[i].witness
             ELSE is[i] = g.items[i]
    <2>1. ASSUME NEW i \in DOMAIN g.items
          PROVE  LET v == CascadeVoid(g.items[i]) IN
                 /\ g.items[i] \in ItemType
                 /\ v \in ItemType /\ v.status = "voided" /\ v.name = g.items[i].name
                 /\ v.refusal = g.items[i].refusal /\ v.witness = g.items[i].witness
      <3>1. g.items[i] \in ItemType
        BY GateFields
      <3>2. QED
        BY ZenonT(60), <1>1, <3>1, ItemOps
    <2>2. QED
      BY <1>5, <2>1
  <1>10. QED
    BY ZenonT(60), <1>6, <1>7, <1>8, <1>9, ProbeVoidShape

(* A refused resolution is deferred; it has found nothing. *)
ResolutionDeferred(g, t) ==
  [g EXCEPT !.resolutions[t] = Deferred(@),
            !.targets[t] = CascadeVoid(@),
            !.items = Update(@, ItemsOf(g, t), CascadeVoid)]

LEMMA ResolutionDeferredFields ==
  ASSUME NEW g, Typed(g), NEW t \in DOMAIN g.targets, ItemsOf(g, t) = {},
         NEW h, h = ResolutionDeferred(g, t)
  PROVE  /\ Typed(h) /\ Frame(g, h) /\ h.items = g.items /\ h.probes = g.probes
         /\ DOMAIN h.targets = DOMAIN g.targets /\ DOMAIN h.resolutions = DOMAIN g.targets
         /\ h.targets[t].status = "voided" /\ h.resolutions[t].status = "voided"
         /\ \A u \in DOMAIN g.targets : u # t =>
              h.targets[u] = g.targets[u] /\ h.resolutions[u] = g.resolutions[u]
  <1>1. /\ g.targets \in Partial(Targets, RecordType) /\ g.resolutions \in Partial(Targets, RecordType)
        /\ DOMAIN g.resolutions = DOMAIN g.targets /\ g.items \in Partial(Items, ItemType)
    BY DEF Typed, GateType
  <1>2. PICK r : r = Deferred(g.resolutions[t])
    OBVIOUS
  <1>3. PICK v : v = CascadeVoid(g.targets[t])
    OBVIOUS
  <1>4. r \in RecordType /\ r.status = "voided" /\ v \in RecordType /\ v.status = "voided"
    <2>1. /\ g.resolutions[t] \in RecordType /\ g.targets[t] \in RecordType
          /\ "none" \in Dispositions /\ "none" \in Refusals
      BY GateFields DEF Dispositions, Refusals
    <2>2. QED
      BY ZenonT(60), <1>2, <1>3, <2>1, RecordOps
  <1>5. PICK ts : ts = [g.targets EXCEPT ![t] = v]
    OBVIOUS
  <1>6. PICK rs : rs = [g.resolutions EXCEPT ![t] = r]
    OBVIOUS
  <1>7. /\ ts \in Partial(Targets, RecordType) /\ DOMAIN ts = DOMAIN g.targets /\ ts[t] = v
        /\ \A u \in DOMAIN g.targets : u # t => ts[u] = g.targets[u]
    BY <1>1, <1>4, <1>5, PartialSet
  <1>8. /\ rs \in Partial(Targets, RecordType) /\ DOMAIN rs = DOMAIN g.targets /\ rs[t] = r
        /\ \A u \in DOMAIN g.targets : u # t => rs[u] = g.resolutions[u]
    BY <1>1, <1>4, <1>6, PartialSet
  <1>9. [i \in DOMAIN g.items |-> IF i \in ItemsOf(g, t) THEN CascadeVoid(g.items[i]) ELSE g.items[i]]
          = g.items
    <2>1. g.items = [i \in DOMAIN g.items |-> g.items[i]]
      BY <1>1, PartialFacts
    <2>2. QED
      BY <2>1
  <1>10. h = [g EXCEPT !.resolutions = rs, !.targets = ts, !.items = g.items]
    BY <1>2, <1>3, <1>5, <1>6, <1>9 DEF ResolutionDeferred, Update
  <1>11. /\ h \in GateType /\ Frame(g, h) /\ h.items = g.items /\ h.probes = g.probes
         /\ h.targets = ts /\ h.resolutions = rs
    BY <1>1, <1>7, <1>8, <1>10 DEF Typed, GateType, Frame
  <1>12. Typed(h)
    BY <1>7, <1>8, <1>11 DEF Typed, Frame
  <1>13. QED
    BY <1>4, <1>7, <1>8, <1>11, <1>12

-----------------------------------------------------------------------------
(* Provenance and promises *)

(* The gate's own promises are voided. *)
GatePromisesVoided(g, h) ==
  /\ DOMAIN h.promises = DOMAIN g.promises
  /\ \A t \in DOMAIN g.promises :
       IF Stage(t) = "gate" THEN h.promises[t].status = "voided"
       ELSE h.promises[t] = g.promises[t]

CreatesProvenance(g) ==
  /\ ~g.provenance.entry /\ g.provenance.disposition # "handoff_boundary"
  /\ UnitProjectionStageSettled(g)

LEMMA MaybeCreateFields ==
  ASSUME NEW g, Typed(g), NEW h, h = MaybeCreateProvenance(g)
  PROVE  /\ Typed(h) /\ SameTables(g, h)
         /\ h.unitIds = g.unitIds /\ h.uncommitted = g.uncommitted
         /\ CASE ~CreatesProvenance(g) -> h = g
              [] CreatesProvenance(g) /\ ProvenanceUnits(g) = {} ->
                   /\ h.carried = g.carried
                   /\ h.provenance = Voided(g.provenance, "no_landed_units")
                   /\ h.verify = Voided(g.verify, "no_landed_units")
                   /\ GatePromisesVoided(g, h)
              [] CreatesProvenance(g) /\ ProvenanceUnits(g) # {} ->
                   /\ h.carried = {} /\ h.promises = g.promises /\ h.verify = g.verify
                   /\ h.provenance = [g.provenance EXCEPT !.entry = TRUE,
                                                          !.units = ProvenanceUnits(g)]
  <1>1. CASE ~CreatesProvenance(g)
    BY <1>1 DEF MaybeCreateProvenance, CreatesProvenance, SameTables
  <1>2. CASE CreatesProvenance(g) /\ ProvenanceUnits(g) = {}
    <2>1. "no_landed_units" \in Dispositions
      BY DEF Dispositions
    <2>2. PICK p : p = Voided(g.provenance, "no_landed_units")
      OBVIOUS
    <2>3. PICK v : v = Voided(g.verify, "no_landed_units")
      OBVIOUS
    <2>4. PICK f : f = [t \in DOMAIN g.promises |->
                          IF t \in {u \in DOMAIN g.promises : Stage(u) = "gate"}
                          THEN Voided(g.promises[t], "no_landed_units") ELSE g.promises[t]]
      OBVIOUS
    <2>5. h = [g EXCEPT !.provenance = p, !.verify = v, !.promises = f]
      BY <1>2, <2>2, <2>3, <2>4 DEF MaybeCreateProvenance, CreatesProvenance, Update
    <2>6. p \in ProvenanceType /\ v \in VerifyType
      <3>1. g.provenance \in ProvenanceType /\ g.verify \in VerifyType
        BY GateFields
      <3>2. QED
        BY <2>1, <2>2, <2>3, <3>1 DEF Voided, ProvenanceType, VerifyType, Statuses
    <2>7. ASSUME NEW t \in DOMAIN g.promises
          PROVE  /\ Voided(g.promises[t], "no_landed_units") \in RecordType
                 /\ Voided(g.promises[t], "no_landed_units").status = "voided"
                 /\ g.promises[t] \in RecordType
      <3>1. g.promises[t] \in RecordType
        BY GateFields
      <3>2. QED
        BY <2>1, <3>1 DEF Voided, RecordType
    <2>8. /\ f \in [DOMAIN g.promises -> RecordType]
          /\ \A t \in DOMAIN g.promises :
               IF Stage(t) = "gate" THEN f[t].status = "voided" ELSE f[t] = g.promises[t]
      BY <2>4, <2>7
    <2>9. f \in Partial(Targets, RecordType) /\ DOMAIN f = DOMAIN g.promises
      BY <2>8, GateFields, PartialIntro
    <2>10. /\ h \in GateType /\ SameTables(g, h)
           /\ h.unitIds = g.unitIds /\ h.uncommitted = g.uncommitted /\ h.carried = g.carried
           /\ h.provenance = p /\ h.verify = v /\ h.promises = f
      BY <2>5, <2>6, <2>9 DEF Typed, GateType, SameTables
    <2>11. Typed(h)
      BY <2>9, <2>10 DEF Typed, SameTables
    <2>12. GatePromisesVoided(g, h)
      BY <2>8, <2>9, <2>10 DEF GatePromisesVoided
    <2>13. QED
      BY <1>2, <2>2, <2>3, <2>10, <2>11, <2>12
  <1>3. CASE CreatesProvenance(g) /\ ProvenanceUnits(g) # {}
    <2>1. PICK p : p = [g.provenance EXCEPT !.entry = TRUE, !.units = ProvenanceUnits(g)]
      OBVIOUS
    <2>2. h = [g EXCEPT !.provenance = p, !.carried = {}]
      BY <1>3, <2>1 DEF MaybeCreateProvenance, CreatesProvenance
    <2>3. p \in ProvenanceType
      <3>1. g.provenance \in ProvenanceType /\ ProvenanceUnits(g) \subseteq Units
        BY GateFields DEF ProvenanceUnits
      <3>2. QED
        BY <2>1, <3>1 DEF ProvenanceType
    <2>4. /\ h \in GateType /\ SameTables(g, h)
           /\ h.unitIds = g.unitIds /\ h.uncommitted = g.uncommitted /\ h.carried = {}
           /\ h.provenance = p /\ h.verify = g.verify /\ h.promises = g.promises
      BY <2>2, <2>3 DEF Typed, GateType, SameTables
    <2>5. Typed(h)
      BY <2>4 DEF Typed, SameTables
    <2>6. QED
      BY <1>3, <2>1, <2>4, <2>5
  <1>4. QED
    BY <1>1, <1>2, <1>3

LEMMA CascadeFields ==
  ASSUME NEW g, Typed(g), NEW h, h = CascadeGatePromises(g)
  PROVE  /\ Typed(h) /\ SameTables(g, h) /\ GatePromisesVoided(g, h)
         /\ h.unitIds = g.unitIds /\ h.uncommitted = g.uncommitted /\ h.carried = g.carried
         /\ h.provenance = g.provenance /\ h.verify = g.verify
  <1>1. PICK f : f = [t \in DOMAIN g.promises |->
                        IF t \in {u \in DOMAIN g.promises : Stage(u) = "gate"}
                        THEN CascadeVoid(g.promises[t]) ELSE g.promises[t]]
    OBVIOUS
  <1>2. h = [g EXCEPT !.promises = f]
    BY <1>1 DEF CascadeGatePromises, Update
  <1>3. ASSUME NEW t \in DOMAIN g.promises
        PROVE  /\ CascadeVoid(g.promises[t]) \in RecordType
               /\ CascadeVoid(g.promises[t]).status = "voided"
               /\ g.promises[t] \in RecordType
    <2>1. g.promises[t] \in RecordType /\ "none" \in Dispositions /\ "none" \in Refusals
      BY GateFields DEF Dispositions, Refusals
    <2>2. QED
      BY <2>1, RecordOps
  <1>4. /\ f \in [DOMAIN g.promises -> RecordType]
        /\ \A t \in DOMAIN g.promises :
             IF Stage(t) = "gate" THEN f[t].status = "voided" ELSE f[t] = g.promises[t]
    BY <1>1, <1>3
  <1>5. f \in Partial(Targets, RecordType) /\ DOMAIN f = DOMAIN g.promises
    BY <1>4, GateFields, PartialIntro
  <1>6. /\ h \in GateType /\ SameTables(g, h) /\ h.promises = f
        /\ h.unitIds = g.unitIds /\ h.uncommitted = g.uncommitted /\ h.carried = g.carried
        /\ h.provenance = g.provenance /\ h.verify = g.verify
    BY <1>2, <1>5 DEF Typed, GateType, SameTables
  <1>7. Typed(h)
    BY <1>5, <1>6 DEF Typed, SameTables
  <1>8. QED
    BY <1>4, <1>5, <1>6, <1>7 DEF GatePromisesVoided

LEMMA UnitVoidFields ==
  ASSUME NEW g, Typed(g), NEW u \in Units, NEW why \in Dispositions,
         NEW h, h = VoidUnitTargets(g, u, why)
  PROVE  /\ Typed(h) /\ SameTables(g, h)
         /\ h.unitIds = g.unitIds /\ h.uncommitted = g.uncommitted /\ h.carried = g.carried
         /\ h.provenance = g.provenance /\ h.verify = g.verify
         /\ DOMAIN h.promises = DOMAIN g.promises
         /\ \A t \in DOMAIN g.promises :
              IF Origin[t] = u THEN h.promises[t].status = "voided"
              ELSE h.promises[t] = g.promises[t]
  <1>1. PICK f : f = [t \in DOMAIN g.promises |->
                        IF t \in {v \in DOMAIN g.promises : Origin[v] = u}
                        THEN Voided(g.promises[t], why) ELSE g.promises[t]]
    OBVIOUS
  <1>2. h = [g EXCEPT !.promises = f]
    BY <1>1 DEF VoidUnitTargets, Update
  <1>3. ASSUME NEW t \in DOMAIN g.promises
        PROVE  /\ Voided(g.promises[t], why) \in RecordType
               /\ Voided(g.promises[t], why).status = "voided"
               /\ g.promises[t] \in RecordType
    <2>1. g.promises[t] \in RecordType
      BY GateFields
    <2>2. QED
      BY <2>1 DEF Voided, RecordType
  <1>4. /\ f \in [DOMAIN g.promises -> RecordType]
        /\ \A t \in DOMAIN g.promises :
             IF Origin[t] = u THEN f[t].status = "voided" ELSE f[t] = g.promises[t]
    BY <1>1, <1>3
  <1>5. f \in Partial(Targets, RecordType) /\ DOMAIN f = DOMAIN g.promises
    BY <1>4, GateFields, PartialIntro
  <1>6. /\ h \in GateType /\ SameTables(g, h) /\ h.promises = f
        /\ h.unitIds = g.unitIds /\ h.uncommitted = g.uncommitted /\ h.carried = g.carried
        /\ h.provenance = g.provenance /\ h.verify = g.verify
    BY <1>2, <1>5 DEF Typed, GateType, SameTables
  <1>7. Typed(h)
    BY <1>5, <1>6 DEF Typed, SameTables
  <1>8. QED
    BY <1>4, <1>5, <1>6, <1>7

LEMMA MinFacts ==
  ASSUME NEW S \in SUBSET Nat, S # {}
  PROVE  Min(S) \in S /\ \A x \in S : Min(S) <= x
  <1>1. IsWellFoundedOn(OpToRel(<, Nat), S)
    BY NatLessThanWellFounded, IsWellFoundedOnSubset
  <1>2. \E x \in S : \A y \in S : x <= y
    <2>1. PICK x \in S : \A y \in S : ~(<<y, x>> \in OpToRel(<, Nat))
      BY <1>1, WFMin
    <2>2. \A y \in S : ~(y < x)
      BY <2>1 DEF OpToRel
    <2>3. QED
      BY <2>2
  <1>3. QED
    BY <1>2 DEF Min

(* The first naming of an output, or its renaming with the whole stage. *)
Clocked(g, i, c) ==
  LET base == IF Collided(g, i) THEN ResetStageNames(g, Stage(TargetOf[i])) ELSE g
  IN  [base EXCEPT !.items[i].name = c]

LEMMA ClockedFields ==
  ASSUME NEW g, Typed(g), NEW i \in DOMAIN g.items, NEW c \in Clocks, Pending(g.items[i]),
         ~Collided(g, i) => g.items[i].refusal = "none",
         NEW h, h = Clocked(g, i, c)
  PROVE  /\ Typed(h) /\ Frame(g, h)
         /\ h.targets = g.targets /\ h.resolutions = g.resolutions /\ h.probes = g.probes
         /\ DOMAIN h.items = DOMAIN g.items
         /\ h.items[i].status = "pending" /\ h.items[i].name = c /\ h.items[i].refusal = "none"
         /\ \A j \in DOMAIN g.items :
              j # i => h.items[j] = IF /\ Collided(g, i) /\ Pending(g.items[j])
                                       /\ j \in StageItems(g, Stage(TargetOf[i]))
                                    THEN FreshItem ELSE g.items[j]
  <1> DEFINE s == Stage(TargetOf[i])
  <1>1. PICK b : b = IF Collided(g, i) THEN ResetStageNames(g, s) ELSE g
    OBVIOUS
  <1>2. /\ b \in GateType /\ Frame(g, b)
        /\ b.targets = g.targets /\ b.resolutions = g.resolutions /\ b.probes = g.probes
        /\ DOMAIN b.items = DOMAIN g.items
        /\ \A j \in DOMAIN g.items :
             b.items[j] = IF /\ Collided(g, i) /\ Pending(g.items[j]) /\ j \in StageItems(g, s)
                          THEN FreshItem ELSE g.items[j]
    <2>1. CASE ~Collided(g, i)
      BY <1>1, <2>1 DEF Frame, Typed
    <2>2. CASE Collided(g, i)
      <3>1. PICK f : f = [j \in DOMAIN g.items |->
                            IF j \in {k \in StageItems(g, s) : Pending(g.items[k])}
                            THEN FreshItem ELSE g.items[j]]
        OBVIOUS
      <3>2. b = [g EXCEPT !.items = f]
        BY <1>1, <2>2, <3>1 DEF ResetStageNames, Update
      <3>3. f \in [DOMAIN g.items -> ItemType]
        BY <3>1, GateFields, FreshTyped
      <3>4. f \in Partial(Items, ItemType) /\ DOMAIN f = DOMAIN g.items
        BY <3>3, GateFields, PartialIntro
      <3>5. /\ b \in GateType /\ Frame(g, b) /\ b.items = f
            /\ b.targets = g.targets /\ b.resolutions = g.resolutions /\ b.probes = g.probes
        BY <3>2, <3>4 DEF Typed, GateType, Frame
      <3>6. \A j \in DOMAIN g.items :
              f[j] = IF Pending(g.items[j]) /\ j \in StageItems(g, s)
                     THEN FreshItem ELSE g.items[j]
        BY <3>1
      <3>7. QED
        BY <2>2, <3>4, <3>5, <3>6
    <2>3. QED
      BY <2>1, <2>2
  <1>3. Typed(b)
    BY <1>2 DEF Typed, Frame
  <1>4. b.items[i] \in ItemType /\ b.items[i].status = "pending" /\ b.items[i].refusal = "none"
    <2>1. b.items[i] \in ItemType
      BY <1>2, <1>3, GateFields
    <2>2. CASE Collided(g, i)
      <3>1. i \in StageItems(g, s)
        BY DEF StageItems
      <3>2. b.items[i] = FreshItem
        BY <1>2, <2>2, <3>1
      <3>3. QED
        BY <2>1, <3>2, FreshTyped
    <2>3. CASE ~Collided(g, i)
      BY <1>2, <2>1, <2>3 DEF Pending
    <2>4. QED
      BY <2>2, <2>3
  <1>5. PICK r : r = [b.items[i] EXCEPT !.name = c]
    OBVIOUS
  <1>6. r \in ItemType /\ r.status = "pending" /\ r.name = c /\ r.refusal = "none"
    BY <1>4, <1>5 DEF ItemType
  <1>7. h = [b EXCEPT !.items[i] = r]
    BY <1>1, <1>5 DEF Clocked
  <1>8. /\ Typed(h) /\ Frame(b, h)
        /\ h.targets = b.targets /\ h.resolutions = b.resolutions /\ h.probes = b.probes
        /\ DOMAIN h.items = DOMAIN b.items /\ h.items[i] = r
        /\ \A j \in DOMAIN b.items : j # i => h.items[j] = b.items[j]
    BY <1>2, <1>3, <1>6, <1>7, ItemSet
  <1>9. Frame(g, h)
    BY <1>2, <1>8 DEF Frame
  <1>10. QED
    BY <1>2, <1>6, <1>8, <1>9

LEMMA WitnessTyped ==
  ASSUME NEW g, Typed(g), NEW s, NEW v, NEW j
  PROVE  NameCollisionWitness(g, s, v, j) \in Items \cup {NoEntry}
  <1>1. \A S \in SUBSET DOMAIN g.items : S # {} => Min(S) \in Items
    BY GateFields, GateAssumption, MinFacts
  <1>2. QED
    BY <1>1 DEF NameCollisionWitness, StageItems

(* The round has ended and j's name is another's. *)
CollisionFound(g, s, j) ==
  /\ StageNamesReady(g, s) /\ j \in StageItems(g, s)
  /\ NameCollisionWitness(g, s, FALSE, j) # NoEntry

(* j's record, with the collision found. *)
Recorded(g, h, s, j) ==
  /\ h.items[j].name = g.items[j].name /\ h.items[j].status = g.items[j].status
  /\ h.items[j].disposition = g.items[j].disposition
  /\ CollisionFound(g, s, j) =>
       /\ h.items[j].refusal = "output_name_collision"
       /\ h.items[j].witness = NameCollisionWitness(g, s, FALSE, j)
  /\ ~CollisionFound(g, s, j) => h.items[j] = g.items[j]

(* The collisions of a stage whose names are ready are recorded. *)
LEMMA RecordFields ==
  ASSUME NEW g, Typed(g), NEW s \in Stages, NEW h, h = RecordNameCollisions(g, s)
  PROVE  /\ Typed(h) /\ Frame(g, h)
         /\ h.targets = g.targets /\ h.resolutions = g.resolutions /\ h.probes = g.probes
         /\ DOMAIN h.items = DOMAIN g.items
         /\ \A j \in DOMAIN g.items : Recorded(g, h, s, j)
  <1>1. CASE ~StageNamesReady(g, s)
    BY <1>1 DEF RecordNameCollisions, Frame, CollisionFound, Recorded
  <1>2. CASE StageNamesReady(g, s)
    <2>1. PICK w : w = [j \in DOMAIN g.items |-> NameCollisionWitness(g, s, FALSE, j)]
      OBVIOUS
    <2>2. w \in [DOMAIN g.items -> Items \cup {NoEntry}]
      BY <2>1, WitnessTyped
    <2>3. PICK f : f = [j \in DOMAIN g.items |->
                          IF j \in StageItems(g, s) /\ w[j] # NoEntry
                          THEN [g.items[j] EXCEPT !.refusal = "output_name_collision",
                                                  !.witness = w[j]]
                          ELSE g.items[j]]
      OBVIOUS
    <2>4. h = [g EXCEPT !.items = f]
      BY <1>2, <2>1, <2>3 DEF RecordNameCollisions
    <2>5. ASSUME NEW j \in DOMAIN g.items
          PROVE  /\ f[j] \in ItemType
                 /\ f[j].name = g.items[j].name /\ f[j].status = g.items[j].status
                 /\ f[j].disposition = g.items[j].disposition
                 /\ IF j \in StageItems(g, s) /\ w[j] # NoEntry
                    THEN f[j].refusal = "output_name_collision" /\ f[j].witness = w[j]
                    ELSE f[j] = g.items[j]
      <3>1. g.items[j] \in ItemType /\ "output_name_collision" \in Refusals
        BY GateFields DEF Refusals
      <3>2. w[j] \in Items \cup {NoEntry}
        BY <2>2
      <3>3. QED
        BY <2>3, <3>1, <3>2 DEF ItemType
    <2>6. f \in Partial(Items, ItemType) /\ DOMAIN f = DOMAIN g.items
      <3>1. f \in [DOMAIN g.items -> ItemType]
        BY <2>3, <2>5
      <3>2. QED
        BY <3>1, GateFields, PartialIntro
    <2>7. /\ h \in GateType /\ Frame(g, h) /\ h.items = f
          /\ h.targets = g.targets /\ h.resolutions = g.resolutions /\ h.probes = g.probes
      BY <2>4, <2>6 DEF Typed, GateType, Frame
    <2>8. Typed(h)
      BY <2>7 DEF Typed, Frame
    <2>9. \A j \in DOMAIN g.items : w[j] = NameCollisionWitness(g, s, FALSE, j)
      BY <2>1
    <2>10. QED
      BY <1>2, <2>5, <2>6, <2>7, <2>8, <2>9 DEF CollisionFound, Recorded
  <1>3. QED
    BY <1>1, <1>2

-----------------------------------------------------------------------------
(* The stages of a gate: the inductive invariant *)

IsNamed(g, i) == g.items[i].name # NoName
HasCollided(g, i) == g.items[i].refusal = "output_name_collision"

(* Two outputs of a stage would be one file. *)
Meets(g, s, i, j) ==
  /\ IsNamed(g, i) /\ IsNamed(g, j) /\ FinalName(g, i) = FinalName(g, j)
  /\ Identity(g, s, i) # {} /\ Identity(g, s, i) = Identity(g, s, j)

(* A round of naming is under way. *)
Naming(g, s) == \E i \in StageItems(g, s) : Pending(g.items[i]) /\ ~IsNamed(g, i)

(* Outputs and observed resolutions go together. *)
Sourced(g, s) ==
  /\ \A i \in StageItems(g, s) :
       TargetOf[i] \in DOMAIN g.targets /\ g.resolutions[TargetOf[i]].status = "observed"
  /\ \A t \in StageTargets(g, s) :
       g.resolutions[t].status = "observed" =>
         \A i \in Items : TargetOf[i] = t => i \in DOMAIN g.items

(* Probes come with the last resolution, one for every live target. *)
Probing(g, s) ==
  /\ \A p \in StageProbes(g, s) :
       /\ StageResolutionsSettled(g, s)
       /\ g.probes[p].status = "voided" =>
            \A t \in Dependents(g, p) : g.targets[t].status = "voided"
  /\ StageResolutionsSettled(g, s) =>
       \A t \in StageTargets(g, s) :
         g.targets[t].status # "voided" => ProbeOf(t) \in DOMAIN g.probes

(* A target is settled with the last of its outputs, not before. *)
Settling(g, s) ==
  \A t \in StageTargets(g, s) :
    /\ g.targets[t].status = "pending" =>
         \A i \in ItemsOf(g, t) : g.items[i].status = "voided" =>
            g.items[i].disposition = "deferred_by_controller"
    /\ g.targets[t].status = "pending" /\ g.resolutions[t].status = "observed" =>
         \E i \in ItemsOf(g, t) : Pending(g.items[i])
    /\ g.resolutions[t].status = "voided" => g.targets[t].status = "voided"

(* Names come after the probes. *)
NamedLate(g, s) ==
  \A i \in StageItems(g, s) :
    /\ g.items[i].status = "observed" => IsNamed(g, i)
    /\ IsNamed(g, i) =>
         LET p == ProbeOf(TargetOf[i]) IN
         /\ p \in DOMAIN g.probes /\ g.probes[p].status = "observed"
         /\ \A q \in StageProbes(g, s) : ~Pending(g.probes[q])

(* During a round the names given are later than those of voided outputs. *)
NamingRounds(g, s) ==
  Naming(g, s) =>
    /\ \A i \in StageItems(g, s) : Pending(g.items[i]) => g.items[i].refusal = "none"
    /\ \A k \in StageItems(g, s) :
         g.items[k].status = "voided" /\ IsNamed(g, k) =>
           /\ \E i \in StageItems(g, s) : Pending(g.items[i]) /\ IsNamed(g, i)
           /\ \A i \in StageItems(g, s) :
                Pending(g.items[i]) /\ IsNamed(g, i) => g.items[k].name < g.items[i].name

(* Outputs that meet are known to collide once the round is over. *)
NamesDistinct(g, s) ==
  \A i, j \in StageItems(g, s) :
    i # j /\ Meets(g, s, i, j) =>
      \/ HasCollided(g, i) /\ HasCollided(g, j)
      \/ Naming(g, s) /\ (Pending(g.items[i]) \/ Pending(g.items[j]))

Witnessed(g, s) ==
  \A i \in StageItems(g, s) : HasCollided(g, i) => g.items[i].witness # NoEntry

(* Nothing is published while names are being given, or collide. *)
Publishing(g, s) ==
  (\E i \in StageItems(g, s) : g.items[i].status = "observed") =>
    ~Naming(g, s) /\ \A j \in StageItems(g, s) : ~Collided(g, j)

NamesInv(g, s) ==
  /\ NamedLate(g, s) /\ NamingRounds(g, s) /\ NamesDistinct(g, s)
  /\ Witnessed(g, s) /\ Publishing(g, s)

StageInv(g, s) == Sourced(g, s) /\ Probing(g, s) /\ Settling(g, s) /\ NamesInv(g, s)

(* Nothing of a stage that is not open has been worked on. *)
StageClosed(g, s) ==
  ~StageOpen(g, s) =>
    /\ StageProbes(g, s) = {}
    /\ \A t \in StageTargets(g, s) : Pending(g.targets[t]) /\ g.resolutions[t] = Fresh

-----------------------------------------------------------------------------
(* Stages that an operation does not touch *)

LEMMA StageFacts ==
  /\ \A t \in Targets : Stage(t) \in Stages /\ ProbeOf(t) \in Stages \X Destinations
                        /\ ProbeOf(t)[1] = Stage(t) /\ ProbeOf(t)[2] = Destination[t]
  /\ \A i \in Items : TargetOf[i] \in Targets
  /\ \A t \in Targets : \E i \in Items : TargetOf[i] = t
  BY GateAssumption DEF Stage, Stages, ProbeOf

SameStage(g, h, s) ==
  /\ StageTargets(h, s) = StageTargets(g, s)
  /\ \A t \in StageTargets(g, s) : /\ h.targets[t].status = g.targets[t].status
                                   /\ h.resolutions[t].status = g.resolutions[t].status
  /\ StageItems(h, s) = StageItems(g, s)
  /\ \A i \in StageItems(g, s) : h.items[i] = g.items[i]
  /\ StageProbes(h, s) = StageProbes(g, s)
  /\ \A p \in StageProbes(g, s) : h.probes[p].status = g.probes[p].status

LEMMA SameStageOps ==
  ASSUME NEW g, NEW h, Typed(g), Typed(h), NEW s \in Stages, SameStage(g, h, s)
  PROVE  /\ StageResolutionsSettled(h, s) = StageResolutionsSettled(g, s)
         /\ \A t \in StageTargets(g, s) :
              ItemsOf(h, t) = ItemsOf(g, t) /\ ItemsOf(g, t) \subseteq StageItems(g, s)
         /\ \A p \in StageProbes(g, s) :
              Dependents(h, p) = Dependents(g, p) /\ Dependents(g, p) \subseteq StageTargets(g, s)
         /\ \A t \in StageTargets(g, s) :
              /\ ProbeOf(t) \in DOMAIN h.probes <=> ProbeOf(t) \in DOMAIN g.probes
              /\ ProbeOf(t) \in DOMAIN g.probes => ProbeOf(t) \in StageProbes(g, s)
         /\ \A i \in StageItems(g, s) :
              /\ ProbeOf(TargetOf[i]) \in DOMAIN h.probes <=> ProbeOf(TargetOf[i]) \in DOMAIN g.probes
              /\ ProbeOf(TargetOf[i]) \in DOMAIN g.probes => ProbeOf(TargetOf[i]) \in StageProbes(g, s)
              /\ Identity(h, s, i) = Identity(g, s, i)
              /\ FinalName(h, i) = FinalName(g, i)
              /\ IsNamed(h, i) = IsNamed(g, i) /\ Collided(h, i) = Collided(g, i)
              /\ HasCollided(h, i) = HasCollided(g, i)
         /\ Naming(h, s) = Naming(g, s)
         /\ \A i, j \in StageItems(g, s) : Meets(h, s, i, j) = Meets(g, s, i, j)
  <1>1. StageResolutionsSettled(h, s) = StageResolutionsSettled(g, s)
    BY DEF SameStage, StageResolutionsSettled
  <1>2. \A t \in StageTargets(g, s) :
          ItemsOf(h, t) = ItemsOf(g, t) /\ ItemsOf(g, t) \subseteq StageItems(g, s)
    BY DEF SameStage, StageItems, StageTargets, ItemsOf
  <1>3. \A p \in StageProbes(g, s) :
          Dependents(h, p) = Dependents(g, p) /\ Dependents(g, p) \subseteq StageTargets(g, s)
    <2>1. \A t \in DOMAIN g.targets \cup DOMAIN h.targets : ProbeOf(t)[1] = Stage(t)
      BY StageFacts, GateFields
    <2>2. QED
      BY <2>1 DEF SameStage, StageTargets, StageProbes, Dependents
  <1>4. \A t \in StageTargets(g, s) :
          /\ ProbeOf(t) \in DOMAIN h.probes <=> ProbeOf(t) \in DOMAIN g.probes
          /\ ProbeOf(t) \in DOMAIN g.probes => ProbeOf(t) \in StageProbes(g, s)
    <2>1. \A t \in StageTargets(g, s) : ProbeOf(t)[1] = s
      BY StageFacts, GateFields DEF StageTargets
    <2>2. QED
      BY <2>1 DEF SameStage, StageProbes
  <1>5. \A i \in StageItems(g, s) : ProbeOf(TargetOf[i])[1] = s
      BY StageFacts, GateFields DEF StageItems
  <1>6. \A i \in StageItems(g, s) :
          /\ ProbeOf(TargetOf[i]) \in DOMAIN h.probes <=> ProbeOf(TargetOf[i]) \in DOMAIN g.probes
          /\ ProbeOf(TargetOf[i]) \in DOMAIN g.probes => ProbeOf(TargetOf[i]) \in StageProbes(g, s)
    BY <1>5 DEF SameStage, StageProbes
  <1>7. \A i \in StageItems(g, s) :
          /\ FinalName(h, i) = FinalName(g, i)
          /\ IsNamed(h, i) = IsNamed(g, i) /\ Collided(h, i) = Collided(g, i)
          /\ HasCollided(h, i) = HasCollided(g, i)
    BY DEF SameStage, FinalName, IsNamed, Collided, HasCollided
  <1>8. ASSUME NEW i \in StageItems(g, s)
        PROVE  Identity(h, s, i) = Identity(g, s, i)
    <2>1. PICK p : p = <<s, Destination[TargetOf[i]]>>
      OBVIOUS
    <2>2. p[1] = s /\ p[2] = Destination[TargetOf[i]]
      BY <2>1
    <2>3. /\ p \in DOMAIN h.probes <=> p \in DOMAIN g.probes
          /\ p \in DOMAIN g.probes => h.probes[p].status = g.probes[p].status
      BY <2>2 DEF SameStage, StageProbes
    <2>4. \A k \in {g, h} : Identity(k, s, i) = IF p \in DOMAIN k.probes /\ k.probes[p].status = "observed"
                                                THEN {Physical[p[2]]} ELSE {}
      BY <2>1 DEF Identity
    <2>5. QED
      BY <2>3, <2>4
  <1>9. Naming(h, s) = Naming(g, s)
    BY <1>7 DEF SameStage, Naming
  <1>10. \A i, j \in StageItems(g, s) : Meets(h, s, i, j) = Meets(g, s, i, j)
    BY <1>7, <1>8 DEF Meets
  <1>11. QED
    BY <1>1, <1>2, <1>3, <1>4, <1>6, <1>7, <1>8, <1>9, <1>10

LEMMA SameStageInv ==
  ASSUME NEW g, NEW h, Typed(g), Typed(h), NEW s \in Stages, SameStage(g, h, s), StageInv(g, s)
  PROVE  StageInv(h, s)
  <1>1. Sourced(h, s)
    <2>1. \A i \in StageItems(g, s) : TargetOf[i] \in DOMAIN g.targets => TargetOf[i] \in StageTargets(g, s)
      BY DEF StageItems, StageTargets
    <2>2. \A t \in StageTargets(g, s), i \in Items :
             TargetOf[i] = t => (i \in DOMAIN g.items <=> i \in DOMAIN h.items)
      BY DEF SameStage, StageItems, StageTargets
    <2>3. \A t \in StageTargets(g, s) : t \in DOMAIN h.targets
      BY DEF SameStage, StageTargets
    <2>4. QED
      BY <2>1, <2>2, <2>3 DEF SameStage, StageInv, Sourced
  <1>2. Probing(h, s)
    <2>1. Probing(g, s)
      BY DEF StageInv
    <2>2. \A p \in StageProbes(h, s) :
            /\ StageResolutionsSettled(h, s)
            /\ h.probes[p].status = "voided" =>
                 \A t \in Dependents(h, p) : h.targets[t].status = "voided"
      BY <2>1, SameStageOps DEF SameStage, Probing
    <2>3. StageResolutionsSettled(h, s) =>
             \A t \in StageTargets(h, s) : h.targets[t].status # "voided" => ProbeOf(t) \in DOMAIN h.probes
      BY <2>1, SameStageOps DEF SameStage, Probing
    <2>4. QED
      BY <2>2, <2>3 DEF Probing
  <1>3. Settling(h, s)
    <2>1. \A t \in StageTargets(g, s) : \A i \in ItemsOf(g, t) : h.items[i] = g.items[i]
      BY SameStageOps DEF SameStage
    <2>2. QED
      BY <2>1, SameStageOps DEF SameStage, StageInv, Settling
  <1>4. NamesInv(h, s)
    <2>1. NamedLate(h, s)
      BY SameStageOps DEF SameStage, StageInv, NamesInv, NamedLate, Pending
    <2>2. NamingRounds(h, s)
      BY SameStageOps DEF SameStage, StageInv, NamesInv, NamingRounds
    <2>3. NamesDistinct(h, s)
      BY SameStageOps DEF SameStage, StageInv, NamesInv, NamesDistinct
    <2>4. Witnessed(h, s)
      BY SameStageOps DEF SameStage, StageInv, NamesInv, Witnessed
    <2>5. Publishing(h, s)
      BY SameStageOps DEF SameStage, StageInv, NamesInv, Publishing
    <2>6. QED
      BY <2>1, <2>2, <2>3, <2>4, <2>5 DEF NamesInv
  <1>5. QED
    BY <1>1, <1>2, <1>3, <1>4 DEF StageInv

(* A stage in which no output has a name. *)
Blank(g, s) ==
  \A i \in StageItems(g, s) :
    ~IsNamed(g, i) /\ g.items[i].refusal = "none" /\ g.items[i].status # "observed"

LEMMA BlankNames ==
  ASSUME NEW g, NEW s, Blank(g, s)
  PROVE  NamesInv(g, s)
  BY DEF Blank, NamesInv, NamedLate, NamingRounds, NamesDistinct, Witnessed, Publishing, Meets,
         HasCollided, Collided

LEMMA UnprobedIsBlank ==
  ASSUME NEW g, NEW s, NamedLate(g, s),
         \A i \in DOMAIN g.items : g.items[i].refusal # "none" => IsNamed(g, i),
         \/ \E p \in StageProbes(g, s) : Pending(g.probes[p])
         \/ StageProbes(g, s) = {} /\ \A i \in StageItems(g, s) : ProbeOf(TargetOf[i])[1] = s
  PROVE  Blank(g, s)
  BY DEF Blank, NamedLate, StageItems, StageProbes

-----------------------------------------------------------------------------
(* Resolutions and probes *)

(* The operations of one stage leave the others alone. *)
OtherStages(g, h, s) == \A r \in Stages : r # s => SameStage(g, h, r)

LEMMA UntouchedStage ==
  ASSUME NEW g, NEW s, StageItems(g, s) = {}, StageProbes(g, s) = {},
         \A t \in StageTargets(g, s) : Pending(g.targets[t]) /\ Pending(g.resolutions[t])
  PROVE  StageInv(g, s)
  <1>1. Blank(g, s)
    BY DEF Blank
  <1>2. Sourced(g, s)
    BY DEF Sourced, Pending
  <1>3. Probing(g, s)
    BY DEF Probing, StageResolutionsSettled, Pending
  <1>4. \A t \in StageTargets(g, s) : ItemsOf(g, t) = {}
    BY DEF StageItems, StageTargets, ItemsOf
  <1>5. Settling(g, s)
    BY <1>4 DEF Settling, Pending
  <1>6. QED
    BY <1>1, <1>2, <1>3, <1>5, BlankNames DEF StageInv

(* Only refusals change. *)
LEMMA StatusesKept ==
  ASSUME NEW g, NEW h, h.targets = g.targets, h.items = g.items,
         DOMAIN h.probes = DOMAIN g.probes,
         \A t \in DOMAIN g.targets : h.resolutions[t].status = g.resolutions[t].status,
         \A p \in DOMAIN g.probes : h.probes[p].status = g.probes[p].status
  PROVE  \A s \in Stages : SameStage(g, h, s)
  BY DEF SameStage, StageTargets, StageItems, StageProbes

LEMMA SameTablesStages ==
  ASSUME NEW g, NEW h, SameTables(g, h)
  PROVE  \A s \in Stages : SameStage(g, h, s)
  BY DEF SameTables, SameStage, StageTargets, StageItems, StageProbes

(* A pending resolution keeps the stage without probes and names. *)
LEMMA UnresolvedIsBlank ==
  ASSUME NEW g, Typed(g), NEW t \in DOMAIN g.targets, StageInv(g, Stage(t)),
         \A i \in DOMAIN g.items : g.items[i].refusal # "none" => IsNamed(g, i),
         Pending(g.targets[t]), Pending(g.resolutions[t])
  PROVE  /\ ~StageResolutionsSettled(g, Stage(t))
         /\ StageProbes(g, Stage(t)) = {} /\ Blank(g, Stage(t)) /\ ItemsOf(g, t) = {}
  <1>1. t \in StageTargets(g, Stage(t))
    BY DEF StageTargets
  <1>2. ~StageResolutionsSettled(g, Stage(t))
    BY <1>1 DEF StageResolutionsSettled, Pending
  <1>3. StageProbes(g, Stage(t)) = {}
    BY <1>2 DEF StageInv, Probing
  <1>4. ItemsOf(g, t) = {}
    BY DEF StageInv, Sourced, ItemsOf, StageItems, Pending
  <1>5. \A i \in StageItems(g, Stage(t)) : ProbeOf(TargetOf[i])[1] = Stage(t)
    BY StageFacts, GateFields DEF StageItems
  <1>6. NamedLate(g, Stage(t))
    BY DEF StageInv, NamesInv
  <1>7. QED
    BY <1>2, <1>3, <1>4, <1>5, <1>6, UnprobedIsBlank

(* The probes that a stage gets with its last resolution. *)
LEMMA EnsureKeeps ==
  ASSUME NEW g, Typed(g), NEW s \in Stages,
         Sourced(g, s), Settling(g, s), Blank(g, s), StageProbes(g, s) = {},
         NEW h, h = EnsureDestinationProbes(g, s)
  PROVE  StageInv(h, s) /\ OtherStages(g, h, s)
  <1> USE EnsureFields
  <1>1. /\ StageTargets(h, s) = StageTargets(g, s) /\ StageItems(h, s) = StageItems(g, s)
        /\ StageResolutionsSettled(h, s) = StageResolutionsSettled(g, s)
    BY DEF StageTargets, StageItems, StageResolutionsSettled
  <1>2. \A p \in StageProbes(h, s) : StageResolutionsSettled(g, s) /\ h.probes[p].status = "pending"
    BY FreshTyped DEF StageProbes
  <1>3. StageResolutionsSettled(g, s) =>
           \A t \in StageTargets(g, s) : g.targets[t].status # "voided" => ProbeOf(t) \in DOMAIN h.probes
    <2> SUFFICES ASSUME StageResolutionsSettled(g, s), NEW t \in StageTargets(g, s),
                        g.targets[t].status # "voided"
                 PROVE  ProbeOf(t) \in DOMAIN h.probes
      OBVIOUS
    <2>1. g.resolutions[t].status = "observed"
      BY DEF StageResolutionsSettled
    <2>2. PICK i \in Items : TargetOf[i] = t
      BY StageFacts, GateFields DEF StageTargets
    <2>3. i \in ItemsOf(g, t)
      BY <2>1, <2>2 DEF Sourced, ItemsOf
    <2>4. QED
      BY <2>3
  <1>4. Sourced(h, s)
    BY <1>1 DEF Sourced
  <1>5. Probing(h, s)
    BY <1>1, <1>2, <1>3 DEF Probing
  <1>6. Settling(h, s)
    BY <1>1 DEF Settling, ItemsOf
  <1>7. Blank(h, s)
    BY <1>1 DEF Blank, IsNamed
  <1>8. OtherStages(g, h, s)
    BY DEF OtherStages, SameStage, StageTargets, StageItems, StageProbes
  <1>9. QED
    BY <1>4, <1>5, <1>6, <1>7, <1>8, BlankNames DEF StageInv

LEMMA ResolvedKeeps ==
  ASSUME NEW g, Typed(g), NEW t \in DOMAIN g.targets, StageInv(g, Stage(t)),
         \A i \in DOMAIN g.items : g.items[i].refusal # "none" => IsNamed(g, i),
         Pending(g.targets[t]), Pending(g.resolutions[t]),
         NEW h, h = Resolved(g, t)
  PROVE  /\ Typed(h) /\ Frame(g, h) /\ h.targets = g.targets
         /\ StageInv(h, Stage(t)) /\ OtherStages(g, h, Stage(t))
         /\ \E i \in StageItems(h, Stage(t)) : Pending(h.items[i]) /\ TargetOf[i] = t
         /\ Blank(h, Stage(t))
  <1> DEFINE s == Stage(t)
  <1>1. PICK f : f = Found(g, t)
    OBVIOUS
  <1>2. h = EnsureDestinationProbes(f, s)
    BY <1>1 DEF Resolved, Found
  <1>3. s \in Stages /\ t \in Targets
    BY StageFacts, GateFields
  <1>4. /\ Typed(f) /\ Frame(g, f) /\ f.targets = g.targets /\ f.probes = g.probes
        /\ DOMAIN f.resolutions = DOMAIN g.targets
        /\ f.resolutions[t] = Observed(g.resolutions[t])
        /\ \A u \in DOMAIN g.targets : u # t => f.resolutions[u] = g.resolutions[u]
        /\ DOMAIN f.items = DOMAIN g.items \cup {j \in Items : TargetOf[j] = t}
        /\ \A i \in DOMAIN f.items :
             f.items[i] = IF TargetOf[i] = t THEN FreshItem ELSE g.items[i]
    BY <1>1, FoundFields
  <1>5. f.resolutions[t].status = "observed"
    <2>1. g.resolutions[t] \in RecordType /\ "none" \in Dispositions /\ "none" \in Refusals
      BY GateFields DEF Dispositions, Refusals
    <2>2. QED
      BY <1>4, <2>1 DEF Observed, RecordType
  <1>6. /\ StageProbes(g, s) = {} /\ Blank(g, s) /\ ItemsOf(g, t) = {}
    BY UnresolvedIsBlank
  <1>7. Sourced(f, s)
    BY <1>4, <1>5 DEF StageInv, Sourced, StageItems, StageTargets
  <1>8. \E i \in StageItems(f, s) : TargetOf[i] = t /\ i \in ItemsOf(f, t) /\ Pending(f.items[i])
    <2>1. PICK i \in Items : TargetOf[i] = t
      BY <1>3, StageFacts
    <2>2. QED
      BY <1>4, <2>1, FreshTyped DEF StageItems, ItemsOf, Pending
  <1>9. Settling(f, s)
    <2>1. \A u \in DOMAIN g.targets : u # t =>
             ItemsOf(f, u) = ItemsOf(g, u) /\ \A i \in ItemsOf(g, u) : f.items[i] = g.items[i]
      BY <1>4 DEF ItemsOf
    <2>2. \A i \in ItemsOf(f, t) : f.items[i].status = "pending"
      BY <1>4, FreshTyped DEF ItemsOf
    <2>3. \A u \in StageTargets(f, s) :
            /\ u \in StageTargets(g, s)
            /\ f.targets[u] = g.targets[u] /\ (u # t => f.resolutions[u] = g.resolutions[u])
      BY <1>4 DEF StageTargets
    <2>4. QED
      BY <1>5, <1>8, <2>1, <2>2, <2>3 DEF StageInv, Settling, StageTargets
  <1>10. Blank(f, s)
    BY <1>4, <1>6, FreshTyped DEF Blank, StageItems, IsNamed
  <1>11. StageProbes(f, s) = {}
    BY <1>4, <1>6 DEF StageProbes
  <1>12. StageInv(h, s) /\ OtherStages(f, h, s)
    BY <1>2, <1>3, <1>4, <1>7, <1>9, <1>10, <1>11, EnsureKeeps
  <1>13. Typed(h) /\ Frame(f, h) /\ h.targets = f.targets /\ h.items = f.items
    BY <1>2, <1>3, <1>4, EnsureFields
  <1>14. OtherStages(g, f, s)
    BY <1>4 DEF OtherStages, SameStage, StageTargets, StageItems, StageProbes
  <1>15. OtherStages(g, h, s)
    BY <1>12, <1>14 DEF OtherStages, SameStage
  <1>16. Frame(g, h) /\ h.targets = g.targets
    BY <1>4, <1>13 DEF Frame
  <1>17. Blank(h, s)
    BY <1>10, <1>13 DEF Blank, StageItems, IsNamed
  <1>18. QED
    BY <1>8, <1>12, <1>13, <1>15, <1>16, <1>17 DEF StageItems

LEMMA DeferResolutionKeeps ==
  ASSUME NEW g, Typed(g), NEW t \in DOMAIN g.targets, StageInv(g, Stage(t)),
         \A i \in DOMAIN g.items : g.items[i].refusal # "none" => IsNamed(g, i),
         Pending(g.targets[t]), Pending(g.resolutions[t]),
         NEW h, h = EnsureDestinationProbes(ResolutionDeferred(g, t), Stage(t))
  PROVE  /\ Typed(h) /\ Frame(g, h) /\ h.items = g.items
         /\ StageInv(h, Stage(t)) /\ OtherStages(g, h, Stage(t))
         /\ DOMAIN h.targets = DOMAIN g.targets
         /\ \A u \in DOMAIN g.targets : u # t => h.resolutions[u] = g.resolutions[u]
         /\ \A p \in DOMAIN g.probes : p \in DOMAIN h.probes /\ h.probes[p] = g.probes[p]
  <1> DEFINE s == Stage(t)
  <1>1. PICK f : f = ResolutionDeferred(g, t)
    OBVIOUS
  <1>2. s \in Stages /\ t \in Targets /\ t \in StageTargets(g, s)
    BY StageFacts, GateFields DEF StageTargets
  <1>3. /\ StageProbes(g, s) = {} /\ Blank(g, s) /\ ItemsOf(g, t) = {}
    BY UnresolvedIsBlank
  <1>4. /\ Typed(f) /\ Frame(g, f) /\ f.items = g.items /\ f.probes = g.probes
        /\ DOMAIN f.targets = DOMAIN g.targets /\ DOMAIN f.resolutions = DOMAIN g.targets
        /\ f.targets[t].status = "voided" /\ f.resolutions[t].status = "voided"
        /\ \A u \in DOMAIN g.targets : u # t =>
             f.targets[u] = g.targets[u] /\ f.resolutions[u] = g.resolutions[u]
    BY <1>1, <1>3, ResolutionDeferredFields
  <1>5. Sourced(f, s)
    <2>1. \A i \in StageItems(g, s) : TargetOf[i] # t
      BY <1>3 DEF StageItems, ItemsOf
    <2>2. QED
      BY <1>4, <2>1 DEF StageInv, Sourced, StageItems, StageTargets
  <1>6. Settling(f, s)
    BY <1>4 DEF StageInv, Settling, StageTargets, ItemsOf
  <1>7. Blank(f, s) /\ StageProbes(f, s) = {}
    BY <1>3, <1>4 DEF Blank, StageItems, IsNamed, StageProbes
  <1>8. StageInv(h, s) /\ OtherStages(f, h, s)
    BY <1>1, <1>2, <1>4, <1>5, <1>6, <1>7, EnsureKeeps
  <1>9. /\ Typed(h) /\ Frame(f, h) /\ h.targets = f.targets /\ h.items = f.items
        /\ h.resolutions = f.resolutions
        /\ \A p \in DOMAIN f.probes : p \in DOMAIN h.probes /\ h.probes[p] = f.probes[p]
    BY <1>1, <1>2, <1>4, EnsureFields
  <1>10. OtherStages(g, f, s)
    BY <1>4 DEF OtherStages, SameStage, StageTargets, StageItems, StageProbes
  <1>11. OtherStages(g, h, s)
    BY <1>8, <1>10 DEF OtherStages, SameStage
  <1>12. Frame(g, h)
    BY <1>4, <1>9 DEF Frame
  <1>13. QED
    BY <1>4, <1>8, <1>9, <1>11, <1>12

(* A pending probe keeps the stage without names. *)
LEMMA UnprobedStage ==
  ASSUME NEW g, Typed(g), NEW p \in DOMAIN g.probes, StageInv(g, p[1]),
         \A i \in DOMAIN g.items : g.items[i].refusal # "none" => IsNamed(g, i),
         Pending(g.probes[p])
  PROVE  p \in StageProbes(g, p[1]) /\ Blank(g, p[1])
  <1>1. p \in StageProbes(g, p[1])
    BY DEF StageProbes
  <1>2. NamedLate(g, p[1])
    BY DEF StageInv, NamesInv
  <1>3. QED
    BY <1>1, <1>2, UnprobedIsBlank

LEMMA ProbedKeeps ==
  ASSUME NEW g, Typed(g), NEW p \in DOMAIN g.probes, StageInv(g, p[1]),
         \A i \in DOMAIN g.items : g.items[i].refusal # "none" => IsNamed(g, i),
         Pending(g.probes[p]),
         NEW h, Typed(h), h.targets = g.targets, h.resolutions = g.resolutions, h.items = g.items,
         DOMAIN h.probes = DOMAIN g.probes, h.probes[p].status = "observed",
         \A q \in DOMAIN g.probes : q # p => h.probes[q] = g.probes[q]
  PROVE  StageInv(h, p[1]) /\ OtherStages(g, h, p[1]) /\ Blank(h, p[1])
  <1> DEFINE s == p[1]
  <1>1. Blank(g, s)
    BY UnprobedStage
  <1>2. Blank(h, s)
    BY <1>1 DEF Blank, StageItems, IsNamed
  <1>3. Sourced(h, s)
    BY DEF StageInv, Sourced, StageItems, StageTargets
  <1>4. Probing(h, s)
    <2>1. /\ StageTargets(h, s) = StageTargets(g, s) /\ StageProbes(h, s) = StageProbes(g, s)
          /\ StageResolutionsSettled(h, s) = StageResolutionsSettled(g, s)
          /\ \A q : Dependents(h, q) = Dependents(g, q)
      BY DEF StageTargets, StageResolutionsSettled, Dependents, StageProbes
    <2>2. \A q \in StageProbes(g, s) : h.probes[q].status = "voided" => g.probes[q].status = "voided"
      BY DEF StageProbes
    <2>3. QED
      BY <2>1, <2>2 DEF StageInv, Probing
  <1>5. Settling(h, s)
    BY DEF StageInv, Settling, StageTargets, ItemsOf
  <1>6. OtherStages(g, h, s)
    BY DEF OtherStages, SameStage, StageTargets, StageItems, StageProbes
  <1>7. QED
    BY <1>2, <1>3, <1>4, <1>5, <1>6, BlankNames DEF StageInv

LEMMA ProbeVoidsKeeps ==
  ASSUME NEW g, Typed(g), NEW p \in DOMAIN g.probes, StageInv(g, p[1]),
         \A i \in DOMAIN g.items : g.items[i].refusal # "none" => IsNamed(g, i),
         Pending(g.probes[p]),
         NEW h, ProbeVoids(g, h, p)
  PROVE  StageInv(h, p[1]) /\ OtherStages(g, h, p[1])
  <1> DEFINE s == p[1]
  <1>1. p \in StageProbes(g, s) /\ Blank(g, s)
    BY UnprobedStage
  <1>2. /\ \A t \in Dependents(g, p) : Stage(t) = s
        /\ \A i \in DependentItems(g, p) : Stage(TargetOf[i]) = s
    BY StageFacts, GateFields DEF Dependents, DependentItems
  <1>3. /\ StageTargets(h, s) = StageTargets(g, s) /\ StageItems(h, s) = StageItems(g, s)
        /\ StageProbes(h, s) = StageProbes(g, s)
        /\ \A q : Dependents(h, q) = Dependents(g, q)
        /\ \A t : ItemsOf(h, t) = ItemsOf(g, t)
    BY DEF ProbeVoids, StageTargets, StageItems, StageProbes, Dependents, ItemsOf
  <1>4. Blank(h, s)
    <2> SUFFICES ASSUME NEW i \in StageItems(g, s)
                 PROVE  /\ ~IsNamed(h, i) /\ h.items[i].refusal = "none"
                        /\ h.items[i].status # "observed"
      BY <1>3 DEF Blank
    <2>1. i \in DOMAIN g.items
      BY DEF StageItems
    <2>2. CASE i \in DependentItems(g, p)
      BY <1>1, <2>1, <2>2 DEF Blank, ProbeVoids, ItemVoided, IsNamed
    <2>3. CASE i \notin DependentItems(g, p)
      BY <1>1, <2>1, <2>3 DEF Blank, ProbeVoids, IsNamed
    <2>4. QED
      BY <2>2, <2>3
  <1>5. Sourced(h, s)
    BY <1>3 DEF ProbeVoids, StageInv, Sourced
  <1>6. \A t \in StageTargets(g, s) : IF t \in Dependents(g, p) THEN h.targets[t].status = "voided"
                                     ELSE h.targets[t] = g.targets[t]
    BY DEF ProbeVoids, StageTargets
  <1>7. StageResolutionsSettled(g, s)
    BY <1>1 DEF StageInv, Probing
  <1>8. Probing(h, s)
    <2>1. StageResolutionsSettled(h, s)
      BY <1>3, <1>6, <1>7 DEF StageResolutionsSettled, ProbeVoids
    <2>2. \A q \in StageProbes(g, s) : h.probes[q].status = "voided" =>
             \A t \in Dependents(g, q) : h.targets[t].status = "voided"
      <3>1. \A q \in StageProbes(g, s) : q # p => h.probes[q] = g.probes[q]
        BY DEF ProbeVoids, StageProbes
      <3>2. \A q : Dependents(g, q) \subseteq DOMAIN g.targets
        BY DEF Dependents
      <3>3. \A t \in DOMAIN g.targets : g.targets[t].status = "voided" => h.targets[t].status = "voided"
        BY DEF ProbeVoids
      <3>4. \A t \in Dependents(g, p) : h.targets[t].status = "voided"
        BY <3>2 DEF ProbeVoids
      <3>5. QED
        BY <3>1, <3>2, <3>3, <3>4 DEF StageInv, Probing
    <2>3. \A t \in StageTargets(g, s) : h.targets[t].status # "voided" => ProbeOf(t) \in DOMAIN h.probes
      BY <1>6, <1>7 DEF StageInv, Probing, ProbeVoids
    <2>4. QED
      BY <1>3, <2>1, <2>2, <2>3 DEF Probing
  <1>9. Settling(h, s)
    <2> SUFFICES ASSUME NEW t \in StageTargets(g, s)
                 PROVE  /\ h.targets[t].status = "pending" =>
                             \A i \in ItemsOf(g, t) : h.items[i].status = "voided" =>
                                h.items[i].disposition = "deferred_by_controller"
                        /\ h.targets[t].status = "pending" /\ h.resolutions[t].status = "observed" =>
                             \E i \in ItemsOf(g, t) : Pending(h.items[i])
                        /\ h.resolutions[t].status = "voided" => h.targets[t].status = "voided"
      BY <1>3 DEF Settling
    <2>1. CASE t \in Dependents(g, p)
      BY <1>6, <2>1
    <2>2. CASE t \notin Dependents(g, p)
      <3>1. \A i \in ItemsOf(g, t) : h.items[i] = g.items[i]
        <4>1. \A i \in ItemsOf(g, t) : i \in DOMAIN g.items /\ i \notin DependentItems(g, p)
          BY <2>2 DEF ItemsOf, DependentItems, Dependents, StageTargets
        <4>2. QED
          BY <4>1 DEF ProbeVoids
      <3>2. h.targets[t] = g.targets[t] /\ h.resolutions[t] = g.resolutions[t]
        BY <1>6, <2>2 DEF ProbeVoids
      <3>3. QED
        BY <3>1, <3>2 DEF StageInv, Settling
    <2>3. QED
      BY <2>1, <2>2
  <1>10. OtherStages(g, h, s)
    <2>1. \A t \in DOMAIN g.targets : Stage(t) # s => h.targets[t] = g.targets[t]
      BY <1>2 DEF ProbeVoids
    <2>2. \A i \in DOMAIN g.items : Stage(TargetOf[i]) # s => h.items[i] = g.items[i]
      BY <1>2 DEF ProbeVoids
    <2>3. QED
      BY <2>1, <2>2 DEF OtherStages, SameStage, StageTargets, StageItems, StageProbes, ProbeVoids
  <1>11. QED
    BY <1>4, <1>5, <1>8, <1>9, <1>10, BlankNames DEF StageInv

(* The promises of closed stages become targets. *)
LEMMA AttachKeeps ==
  ASSUME NEW g, Typed(g), NEW S \in SUBSET Targets, NEW s \in Stages, \A t \in S : Stage(t) = s,
         StageInv(g, s), StageProbes(g, s) = {},
         \A t \in StageTargets(g, s) : Pending(g.targets[t]) /\ g.resolutions[t] = Fresh,
         NEW h, h = AttachSource(g, S)
  PROVE  /\ StageInv(h, s) /\ OtherStages(g, h, s)
         /\ StageItems(h, s) = {} /\ StageProbes(h, s) = {}
         /\ \A t \in StageTargets(h, s) : Pending(h.targets[t]) /\ h.resolutions[t] = Fresh
  <1>1. PICK due : due = {t \in S \cap DOMAIN g.promises : Pending(g.promises[t])}
    OBVIOUS
  <1>2. /\ h.items = g.items /\ h.probes = g.probes
        /\ due \cap DOMAIN g.targets = {}
        /\ DOMAIN h.targets = DOMAIN g.targets \cup due
        /\ \A t \in DOMAIN g.targets :
             h.targets[t] = g.targets[t] /\ h.resolutions[t] = g.resolutions[t]
        /\ \A t \in due : h.targets[t] = Fresh /\ h.resolutions[t] = Fresh
    BY <1>1, AttachFields
  <1>3. StageItems(g, s) = {} /\ StageProbes(g, s) = {}
    BY FreshTyped DEF StageInv, Sourced, StageItems, StageTargets
  <1>4. StageItems(h, s) = {} /\ StageProbes(h, s) = {}
    BY <1>2, <1>3 DEF StageItems, StageProbes
  <1>5. \A t \in StageTargets(h, s) : Pending(h.targets[t]) /\ h.resolutions[t] = Fresh
    BY <1>2, FreshTyped DEF StageTargets, Pending
  <1>6. StageInv(h, s)
    BY <1>4, <1>5, FreshTyped, UntouchedStage DEF Pending
  <1>7. \A t \in due : Stage(t) = s
    BY <1>1
  <1>8. OtherStages(g, h, s)
    BY <1>2, <1>7 DEF OtherStages, SameStage, StageTargets, StageItems, StageProbes
  <1>9. QED
    BY <1>4, <1>5, <1>6, <1>8

-----------------------------------------------------------------------------
(* Outputs *)

(* Settling, but for the last output of t. *)
SettlingBut(g, s, t) ==
  \A u \in StageTargets(g, s) :
    /\ g.targets[u].status = "pending" =>
         \A i \in ItemsOf(g, u) : g.items[i].status = "voided" =>
            g.items[i].disposition = "deferred_by_controller"
    /\ u # t /\ g.targets[u].status = "pending" /\ g.resolutions[u].status = "observed" =>
         \E i \in ItemsOf(g, u) : Pending(g.items[i])
    /\ g.resolutions[u].status = "voided" => g.targets[u].status = "voided"

(* One output's record is replaced. *)
WithItem(g, i, r) == [g EXCEPT !.items[i] = r]

(* A named output is intended, refused, published or deferred. *)
LEMMA ItemKeeps ==
  ASSUME NEW g, Typed(g), NEW s \in Stages, StageInv(g, s),
         NEW i \in StageItems(g, s), Pending(g.items[i]), IsNamed(g, i), ~Naming(g, s),
         NEW r \in ItemType, r.name = g.items[i].name, r.witness = g.items[i].witness,
         r.refusal = "output_name_collision" <=> HasCollided(g, i),
         r.status = "observed" => \A j \in StageItems(g, s) : ~Collided(g, j),
         r.status = "voided" => r.disposition = "deferred_by_controller",
         NEW h, h = WithItem(g, i, r)
  PROVE  /\ Typed(h) /\ Frame(g, h) /\ h.targets = g.targets /\ h.resolutions = g.resolutions
         /\ h.probes = g.probes /\ DOMAIN h.items = DOMAIN g.items /\ h.items[i] = r
         /\ \A j \in DOMAIN g.items : j # i => h.items[j] = g.items[j]
         /\ ~Naming(h, s) /\ OtherStages(g, h, s)
         /\ Sourced(h, s) /\ Probing(h, s) /\ NamesInv(h, s)
         /\ SettlingBut(h, s, TargetOf[i])
         /\ r.status = "pending" => StageInv(h, s)
  <1>1. i \in DOMAIN g.items /\ Stage(TargetOf[i]) = s
    BY DEF StageItems
  <1>2. /\ Typed(h) /\ Frame(g, h) /\ h.targets = g.targets /\ h.resolutions = g.resolutions
        /\ h.probes = g.probes /\ DOMAIN h.items = DOMAIN g.items /\ h.items[i] = r
        /\ \A j \in DOMAIN g.items : j # i => h.items[j] = g.items[j]
    BY <1>1, ItemSet DEF WithItem
  <1>3. /\ StageTargets(h, s) = StageTargets(g, s) /\ StageItems(h, s) = StageItems(g, s)
        /\ StageProbes(h, s) = StageProbes(g, s)
        /\ StageResolutionsSettled(h, s) = StageResolutionsSettled(g, s)
        /\ \A q : Dependents(h, q) = Dependents(g, q)
        /\ \A t : ItemsOf(h, t) = ItemsOf(g, t)
    BY <1>2 DEF StageTargets, StageItems, StageProbes, StageResolutionsSettled, Dependents, ItemsOf
  <1>4. \A j \in DOMAIN g.items : h.items[j].name = g.items[j].name /\ h.items[j].witness = g.items[j].witness
    BY <1>1, <1>2
  <1>5. \A j \in StageItems(g, s) :
          /\ j \in DOMAIN g.items /\ IsNamed(h, j) = IsNamed(g, j) /\ FinalName(h, j) = FinalName(g, j)
          /\ Identity(h, s, j) = Identity(g, s, j)
    BY <1>2, <1>4 DEF StageItems, IsNamed, FinalName, Identity
  <1>6. \A j \in StageItems(g, s) : HasCollided(h, j) = HasCollided(g, j)
    <2>1. HasCollided(h, i) = HasCollided(g, i)
      BY <1>2 DEF HasCollided
    <2>2. QED
      BY <1>2, <1>5, <2>1 DEF HasCollided
  <1>7. \A j, k \in StageItems(g, s) : Meets(h, s, j, k) = Meets(g, s, j, k)
    BY <1>5 DEF Meets
  <1>8. ~Naming(h, s)
    BY <1>2, <1>3, <1>5 DEF Naming
  <1>9. NamedLate(h, s)
    <2>1. \A j \in StageItems(g, s) : h.items[j].status = "observed" => IsNamed(h, j)
      BY <1>2, <1>5 DEF StageInv, NamesInv, NamedLate
    <2>2. QED
      BY <1>2, <1>3, <1>5, <2>1 DEF StageInv, NamesInv, NamedLate
  <1>10. NamesDistinct(h, s)
    BY <1>3, <1>6, <1>7 DEF StageInv, NamesInv, NamesDistinct
  <1>11. Witnessed(h, s)
    BY <1>3, <1>4, <1>5, <1>6 DEF StageInv, NamesInv, Witnessed
  <1>12. Publishing(h, s)
    <2> SUFFICES ASSUME NEW k \in StageItems(g, s), h.items[k].status = "observed",
                        NEW j \in StageItems(g, s), Collided(h, j)
                 PROVE  FALSE
      BY <1>3, <1>8 DEF Publishing
    <2>1. Collided(g, j)
      BY <1>2, <1>5, <1>6 DEF Collided, HasCollided
    <2>2. CASE k = i
      BY <1>2, <2>1, <2>2
    <2>3. CASE k # i
      BY <1>2, <1>5, <2>1, <2>3 DEF StageInv, NamesInv, Publishing
    <2>4. QED
      BY <2>2, <2>3
  <1>13. Sourced(h, s)
    BY <1>2, <1>3 DEF StageInv, Sourced
  <1>14. Probing(h, s)
    BY <1>2, <1>3 DEF StageInv, Probing
  <1>15. SettlingBut(h, s, TargetOf[i])
    <2> SUFFICES ASSUME NEW u \in StageTargets(g, s)
                 PROVE  /\ h.targets[u].status = "pending" =>
                             \A j \in ItemsOf(g, u) : h.items[j].status = "voided" =>
                                h.items[j].disposition = "deferred_by_controller"
                        /\ u # TargetOf[i] /\ h.targets[u].status = "pending"
                             /\ h.resolutions[u].status = "observed" =>
                             \E j \in ItemsOf(g, u) : Pending(h.items[j])
                        /\ h.resolutions[u].status = "voided" => h.targets[u].status = "voided"
      BY <1>3 DEF SettlingBut
    <2>1. \A j \in ItemsOf(g, u) : j \in DOMAIN g.items /\ (u # TargetOf[i] => j # i)
      BY DEF ItemsOf
    <2>2. QED
      BY <1>2, <2>1 DEF StageInv, Settling
  <1>16. NamesInv(h, s)
    BY <1>8, <1>9, <1>10, <1>11, <1>12 DEF NamesInv, NamingRounds
  <1>17. ASSUME r.status = "pending"
         PROVE  StageInv(h, s)
    <2>1. Settling(h, s)
      <3> SUFFICES ASSUME NEW u \in StageTargets(h, s), u = TargetOf[i]
                   PROVE  \E j \in ItemsOf(h, u) : Pending(h.items[j])
        BY <1>15 DEF SettlingBut, Settling
      <3>1. i \in ItemsOf(h, u)
        BY <1>1, <1>2 DEF ItemsOf
      <3>2. QED
        BY <1>2, <1>17, <3>1 DEF Pending
    <2>2. QED
      BY <1>13, <1>14, <1>16, <2>1 DEF StageInv
  <1>18. OtherStages(g, h, s)
    BY <1>1, <1>2 DEF OtherStages, SameStage, StageTargets, StageItems, StageProbes
  <1>19. QED
    BY <1>2, <1>8, <1>13, <1>14, <1>15, <1>16, <1>17, <1>18

(* The target is settled with it. *)
LEMMA SettleKeeps ==
  ASSUME NEW g, Typed(g), NEW s \in Stages, NEW t \in StageTargets(g, s),
         Sourced(g, s), Probing(g, s), NamesInv(g, s), SettlingBut(g, s, t),
         NEW h, h = SettleTargetPromise(g, t)
  PROVE  /\ Typed(h) /\ Frame(g, h)
         /\ h.resolutions = g.resolutions /\ h.items = g.items /\ h.probes = g.probes
         /\ DOMAIN h.targets = DOMAIN g.targets
         /\ StageInv(h, s) /\ OtherStages(g, h, s)
         /\ StageResolutionsSettled(h, s) = StageResolutionsSettled(g, s)
  <1>1. t \in DOMAIN g.targets /\ Stage(t) = s
    BY DEF StageTargets
  <1>2. PICK settled : settled = (/\ Pending(g.targets[t]) /\ g.resolutions[t].status = "observed"
                          /\ ItemsOf(g, t) # {} /\ \A i \in ItemsOf(g, t) : ~Pending(g.items[i]))
    OBVIOUS
  <1>3. /\ Typed(h) /\ Frame(g, h)
        /\ h.resolutions = g.resolutions /\ h.items = g.items /\ h.probes = g.probes
        /\ DOMAIN h.targets = DOMAIN g.targets
        /\ \A u \in DOMAIN g.targets : u # t => h.targets[u] = g.targets[u]
        /\ settled => h.targets[t] \in {CascadeVoid(g.targets[t]), Observed(g.targets[t])}
        /\ ~settled => h.targets[t] = g.targets[t]
    <2>1. /\ Typed(h) /\ Frame(g, h)
          /\ h.resolutions = g.resolutions /\ h.items = g.items /\ h.probes = g.probes
          /\ DOMAIN h.targets = DOMAIN g.targets
          /\ \A u \in DOMAIN g.targets : u # t => h.targets[u] = g.targets[u]
          /\ IF /\ Pending(g.targets[t]) /\ g.resolutions[t].status = "observed"
                /\ ItemsOf(g, t) # {} /\ \A i \in ItemsOf(g, t) : ~Pending(g.items[i])
             THEN h.targets[t] = IF \E i \in ItemsOf(g, t) : g.items[i].status = "voided"
                                 THEN CascadeVoid(g.targets[t]) ELSE Observed(g.targets[t])
             ELSE h.targets[t] = g.targets[t]
      BY <1>1, SettleFields
    <2>2. CASE settled
      BY <1>2, <2>1, <2>2
    <2>3. CASE ~settled
      BY <1>2, <2>1, <2>3
    <2>4. QED
      BY <2>1, <2>2, <2>3
  <1>4. settled => h.targets[t].status \in {"voided", "observed"}
    <2>1. g.targets[t] \in RecordType /\ "none" \in Dispositions /\ "none" \in Refusals
      BY <1>1, GateFields DEF Dispositions, Refusals
    <2>2. CascadeVoid(g.targets[t]).status = "voided" /\ Observed(g.targets[t]).status = "observed"
      BY <2>1, RecordOps
    <2>3. QED
      BY <1>3, <2>2
  <1>5. settled => g.targets[t].status = "pending" /\ g.resolutions[t].status = "observed"
    BY <1>2 DEF Pending
  <1>6. \A u \in StageTargets(g, s) :
           \/ h.targets[u] = g.targets[u]
           \/ /\ settled /\ u = t /\ g.targets[u].status = "pending"
              /\ g.resolutions[u].status = "observed" /\ h.targets[u].status \in {"voided", "observed"}
    BY <1>3, <1>4, <1>5 DEF StageTargets
  <1>7. /\ StageTargets(h, s) = StageTargets(g, s) /\ StageItems(h, s) = StageItems(g, s)
        /\ StageProbes(h, s) = StageProbes(g, s)
        /\ \A q : Dependents(h, q) = Dependents(g, q)
        /\ \A u : ItemsOf(h, u) = ItemsOf(g, u)
    BY <1>3 DEF StageTargets, StageItems, StageProbes, Dependents, ItemsOf
  <1>8. StageResolutionsSettled(h, s) = StageResolutionsSettled(g, s)
    <2>1. \A u \in StageTargets(g, s) :
             (h.targets[u].status = "voided" \/ h.resolutions[u].status = "observed")
               <=> (g.targets[u].status = "voided" \/ g.resolutions[u].status = "observed")
      BY <1>3, <1>6
    <2>2. QED
      BY <1>7, <2>1 DEF StageResolutionsSettled
  <1>9. Sourced(h, s)
    BY <1>3, <1>7 DEF Sourced
  <1>10. Probing(h, s)
    <2>1. \A q \in StageProbes(g, s) : h.probes[q].status = "voided" =>
             \A u \in Dependents(g, q) : h.targets[u].status = "voided"
      <3>1. \A q \in StageProbes(g, s) : Dependents(g, q) \subseteq StageTargets(g, s)
        BY StageFacts, GateFields DEF Dependents, StageTargets, StageProbes
      <3>2. QED
        BY <1>3, <1>6, <3>1 DEF Probing
    <2>2. StageResolutionsSettled(g, s) =>
             \A u \in StageTargets(g, s) : h.targets[u].status # "voided" => ProbeOf(u) \in DOMAIN h.probes
      BY <1>3, <1>6 DEF Probing
    <2>3. \A q \in StageProbes(g, s) : StageResolutionsSettled(g, s)
      BY DEF Probing
    <2>4. QED
      BY <1>7, <1>8, <2>1, <2>2, <2>3 DEF Probing
  <1>11. Settling(h, s)
    <2> SUFFICES ASSUME NEW u \in StageTargets(g, s)
                 PROVE  /\ h.targets[u].status = "pending" =>
                             \A j \in ItemsOf(g, u) : h.items[j].status = "voided" =>
                                h.items[j].disposition = "deferred_by_controller"
                        /\ h.targets[u].status = "pending" /\ h.resolutions[u].status = "observed" =>
                             \E j \in ItemsOf(g, u) : Pending(h.items[j])
                        /\ h.resolutions[u].status = "voided" => h.targets[u].status = "voided"
      BY <1>7 DEF Settling
    <2>1. CASE u # t
      BY <1>3, <1>6, <2>1 DEF SettlingBut
    <2>2. CASE u = t /\ settled
      BY <1>3, <1>4, <1>5, <2>2
    <2>3. CASE u = t /\ ~settled
      <3>1. g.resolutions[t].status = "observed" => ItemsOf(g, t) # {}
        <4>1. PICK i \in Items : TargetOf[i] = t
          BY <1>1, StageFacts, GateFields
        <4>2. QED
          BY <4>1 DEF Sourced, ItemsOf
      <3>2. h.targets[t] = g.targets[t]
        BY <1>3, <2>3
      <3>3. Pending(g.targets[t]) /\ g.resolutions[t].status = "observed" =>
               \E j \in ItemsOf(g, t) : Pending(g.items[j])
        BY <1>2, <2>3, <3>1
      <3>4. QED
        BY <1>3, <2>3, <3>2, <3>3 DEF SettlingBut, Pending
    <2>4. QED
      BY <2>1, <2>2, <2>3
  <1>12. NamesInv(h, s)
    <2>1. \A j : IsNamed(h, j) = IsNamed(g, j) /\ Collided(h, j) = Collided(g, j)
                 /\ HasCollided(h, j) = HasCollided(g, j) /\ FinalName(h, j) = FinalName(g, j)
                 /\ Identity(h, s, j) = Identity(g, s, j)
      BY <1>3 DEF IsNamed, Collided, HasCollided, FinalName, Identity
    <2>2. Naming(h, s) = Naming(g, s) /\ \A j, k : Meets(h, s, j, k) = Meets(g, s, j, k)
      BY <1>3, <1>7, <2>1 DEF Naming, Meets
    <2>3. NamedLate(h, s) /\ Witnessed(h, s)
      BY <1>3, <1>7, <2>1 DEF NamesInv, NamedLate, Witnessed
    <2>4. NamingRounds(h, s)
      BY <1>3, <1>7, <2>1, <2>2 DEF NamesInv, NamingRounds
    <2>5. NamesDistinct(h, s)
      BY <1>3, <1>7, <2>1, <2>2 DEF NamesInv, NamesDistinct
    <2>6. Publishing(h, s)
      BY <1>3, <1>7, <2>1, <2>2 DEF NamesInv, Publishing
    <2>7. QED
      BY <2>3, <2>4, <2>5, <2>6 DEF NamesInv
  <1>13. OtherStages(g, h, s)
    BY <1>1, <1>3 DEF OtherStages, SameStage, StageTargets, StageItems, StageProbes
  <1>14. QED
    BY <1>3, <1>8, <1>9, <1>10, <1>11, <1>12, <1>13 DEF StageInv

-----------------------------------------------------------------------------
(* Names *)

(* Two pending outputs that meet are given a witness. *)
LEMMA MeetingIsWitnessed ==
  ASSUME NEW g, Typed(g), NEW s \in Stages, NEW i \in StageItems(g, s), NEW j \in StageItems(g, s),
         i # j, Pending(g.items[i]), Pending(g.items[j]), Meets(g, s, i, j)
  PROVE  NameCollisionWitness(g, s, FALSE, i) # NoEntry
  <1>1. PICK open : open = {k \in StageItems(g, s) :
                               \/ Pending(g.items[k])
                               \/ /\ FALSE /\ g.items[k].status = "voided"
                                  /\ g.items[k].refusal = "output_name_collision"}
    OBVIOUS
  <1>2. i \in open /\ j \in open
    BY <1>1
  <1>3. PICK done : done = {k \in StageItems(g, s) \cup (IF s = "gate" THEN StageItems(g, "unit") ELSE {}) :
                               g.items[k].status = "observed"}
    OBVIOUS
  <1>4. PICK rivals : rivals = {k \in (open \cup done) \ {i} :
                   /\ g.items[k].name # NoName
                   /\ FinalName(g, k) = FinalName(g, i)
                   /\ CandidatePlace(g, s, open, k) # {}
                   /\ CandidatePlace(g, s, open, k) = CandidatePlace(g, s, open, i)}
    OBVIOUS
  <1>5. CandidatePlace(g, s, open, i) = Identity(g, s, i) /\ CandidatePlace(g, s, open, j) = Identity(g, s, j)
    BY <1>2 DEF CandidatePlace
  <1>6. j \in rivals
    BY <1>2, <1>4, <1>5 DEF Meets, IsNamed
  <1>7. rivals \subseteq Items
    BY <1>1, <1>3, <1>4, GateFields DEF StageItems
  <1>8. NameCollisionWitness(g, s, FALSE, i) = Min(rivals)
    <2>1. g.items[i].name # NoName /\ rivals # {}
      BY <1>6 DEF Meets, IsNamed
    <2>2. QED
      BY ZenonT(60), <1>1, <1>2, <1>3, <1>4, <2>1 DEF NameCollisionWitness
  <1>9. Min(rivals) \in rivals
    BY <1>6, <1>7, GateAssumption, MinFacts
  <1>10. QED
    BY <1>7, <1>8, <1>9, GateAssumption DEF NoEntry

(* What the clock's reading does, before collisions are looked for. *)
LEMMA ClockedKeeps ==
  ASSUME NEW g, Typed(g), NEW s \in Stages, StageInv(g, s),
         \A j \in DOMAIN g.items : /\ g.items[j].refusal # "none" => IsNamed(g, j)
                                   /\ Pending(g.items[j]) => g.targets[TargetOf[j]].status # "voided",
         NEW i \in DOMAIN g.items, s = Stage(TargetOf[i]), ClockDue(g, i),
         NEW c \in Clocks, ClockReads(g, i, c),
         NEW m, m = Clocked(g, i, c)
  PROVE  /\ Typed(m) /\ Frame(g, m)
         /\ m.targets = g.targets /\ m.resolutions = g.resolutions /\ m.probes = g.probes
         /\ DOMAIN m.items = DOMAIN g.items
         /\ Pending(g.items[i]) /\ Pending(m.items[i]) /\ m.items[i].name = c
         /\ Collided(g, i) => \A j \in StageItems(g, s) : Pending(g.items[j]) /\ j # i => ~IsNamed(m, j)
         /\ \A j \in DOMAIN g.items : j \notin StageItems(g, s) => m.items[j] = g.items[j]
         /\ \A j \in StageItems(g, s) :
              /\ m.items[j].status = g.items[j].status
              /\ g.items[j].status \in {"pending", "voided"}
              /\ Pending(g.items[j]) => m.items[j].refusal = "none"
              /\ g.items[j].status = "voided" =>
                   /\ m.items[j] = g.items[j]
                   /\ IsNamed(g, j) => \A k \in StageItems(g, s) :
                        Pending(m.items[k]) /\ IsNamed(m, k) => m.items[j].name < m.items[k].name
         /\ NamedLate(m, s) /\ StageResolutionsSettled(g, s)
         /\ ~Naming(m, s) => StageNamesReady(m, s)
  <1>1. /\ i \in StageItems(g, s) /\ Pending(g.items[i])
        /\ \/ ~IsNamed(g, i) /\ Naming(g, s)
           \/ Collided(g, i)
    <2>1. PICK open : open = {j \in StageItems(g, s) : Pending(g.items[j])}
      OBVIOUS
    <2>2. PICK unnamed, collided :
             /\ unnamed = {j \in open : g.items[j].name = NoName}
             /\ collided = {j \in open : Collided(g, j)}
      OBVIOUS
    <2>3. NextClock(g, s) = CASE unnamed # {}  -> {Min(unnamed)}
                              [] collided # {} -> {Min(collided)}
                              [] OTHER         -> {}
      BY <2>1, <2>2 DEF NextClock
    <2>4. i \in NextClock(g, s)
      BY DEF ClockDue
    <2>5. unnamed \in SUBSET Nat /\ collided \in SUBSET Nat
      BY <2>1, <2>2, GateFields, GateAssumption DEF StageItems
    <2>6. i \in unnamed \/ i \in collided
      BY <2>3, <2>4, <2>5, MinFacts
    <2>7. QED
      BY <2>1, <2>2, <2>6 DEF Naming, IsNamed
  <1>2. ~Collided(g, i) => g.items[i].refusal = "none"
    BY <1>1
  <1>3. /\ Typed(m) /\ Frame(g, m)
        /\ m.targets = g.targets /\ m.resolutions = g.resolutions /\ m.probes = g.probes
        /\ DOMAIN m.items = DOMAIN g.items
        /\ m.items[i].status = "pending" /\ m.items[i].name = c /\ m.items[i].refusal = "none"
        /\ \A j \in DOMAIN g.items :
             j # i => m.items[j] = IF /\ Collided(g, i) /\ Pending(g.items[j])
                                      /\ j \in StageItems(g, Stage(TargetOf[i]))
                                   THEN FreshItem ELSE g.items[j]
    BY <1>1, <1>2, ClockedFields
  <1>4. StageItems(m, s) = StageItems(g, s) /\ StageItems(g, s) \subseteq DOMAIN g.items
    BY <1>3 DEF StageItems
  <1>5. \A j \in StageItems(g, s) : g.items[j].status \in {"pending", "voided"}
    <2>1. \A j \in StageItems(g, s) : g.items[j].status # "observed"
      BY <1>1 DEF StageInv, NamesInv, Publishing
    <2>2. \A j \in StageItems(g, s) : g.items[j] \in ItemType
      BY <1>4, GateFields
    <2>3. QED
      BY <2>1, <2>2 DEF ItemType, Statuses
  <1>6. \A j \in StageItems(g, s) : m.items[j].status = g.items[j].status
    BY <1>1, <1>3, <1>4, FreshTyped DEF Pending
  <1>7. \A j \in StageItems(g, s) : Pending(g.items[j]) => m.items[j].refusal = "none"
    <2> SUFFICES ASSUME NEW j \in StageItems(g, s), Pending(g.items[j])
                 PROVE  m.items[j].refusal = "none"
      OBVIOUS
    <2>1. CASE j = i
      BY <1>3, <2>1
    <2>2. CASE j # i /\ Collided(g, i)
      BY <1>3, <1>4, <2>2, FreshTyped
    <2>3. CASE j # i /\ ~Collided(g, i)
      BY <1>1, <1>3, <1>4, <2>3 DEF StageInv, NamesInv, NamingRounds
    <2>4. QED
      BY <2>1, <2>2, <2>3
  <1>8. \A j \in StageItems(g, s) : g.items[j].status = "voided" => m.items[j] = g.items[j]
    BY <1>1, <1>3, <1>4 DEF Pending
  <1>9. Collided(g, i) => \A j \in StageItems(g, s) : Pending(g.items[j]) /\ j # i => ~IsNamed(m, j)
    BY <1>3, <1>4, FreshTyped DEF IsNamed
  <1>10. \A j \in StageItems(g, s) : g.items[j].name \in Nat /\ m.items[j].name \in Nat /\ c \in Nat
    <2>1. \A j \in StageItems(g, s) : g.items[j] \in ItemType /\ m.items[j] \in ItemType
      BY <1>3, <1>4, GateFields
    <2>2. \A r \in ItemType : r.name \in Nat
      BY NamesAreNumbers
    <2>3. QED
      BY <2>1, <2>2, GateAssumption
  <1>11. ASSUME NEW j \in StageItems(g, s), g.items[j].status = "voided", IsNamed(g, j),
                NEW k \in StageItems(g, s), Pending(m.items[k]), IsNamed(m, k)
         PROVE  m.items[j].name < m.items[k].name
    <2>1. m.items[j].name = g.items[j].name
      BY <1>8, <1>11
    <2>2. CASE Collided(g, i)
      <3>1. k = i
        BY <1>6, <1>9, <1>11, <2>2 DEF Pending
      <3>2. g.items[j].name <= c /\ g.items[j].name # c
        BY <2>2 DEF ClockReads
      <3>3. QED
        BY <1>3, <1>10, <2>1, <3>1, <3>2
    <2>3. CASE ~Collided(g, i)
      <3>1. /\ \E l \in StageItems(g, s) : Pending(g.items[l]) /\ IsNamed(g, l)
            /\ \A l \in StageItems(g, s) :
                 Pending(g.items[l]) /\ IsNamed(g, l) => g.items[j].name < g.items[l].name
        BY <1>1, <1>11, <2>3 DEF StageInv, NamesInv, NamingRounds
      <3>2. g.items[j].name < c
        <4>1. PICK l \in StageItems(g, s) : Pending(g.items[l]) /\ IsNamed(g, l)
          BY <3>1
        <4>2. g.items[j].name < g.items[l].name /\ g.items[l].name <= c
          BY <3>1, <4>1 DEF ClockReads
        <4>3. QED
          BY <1>10, <4>2
      <3>3. k # i => m.items[k] = g.items[k]
        BY <1>3, <1>4, <2>3
      <3>4. QED
        BY <1>3, <1>11, <2>1, <3>1, <3>2, <3>3 DEF IsNamed
    <2>4. QED
      BY <2>2, <2>3
  <1>12. /\ StageResolutionsSettled(g, s) /\ \A p \in StageProbes(g, s) : ~Pending(g.probes[p])
         /\ g.probes[ProbeOf(TargetOf[i])].status = "observed"
    BY DEF ClockDue
  <1>13. \A j \in StageItems(g, s) : g.targets[TargetOf[j]].status # "voided" =>
            /\ ProbeOf(TargetOf[j]) \in DOMAIN g.probes
            /\ g.probes[ProbeOf(TargetOf[j])].status = "observed"
    <2> SUFFICES ASSUME NEW j \in StageItems(g, s), g.targets[TargetOf[j]].status # "voided"
                 PROVE  /\ ProbeOf(TargetOf[j]) \in DOMAIN g.probes
                        /\ g.probes[ProbeOf(TargetOf[j])].status = "observed"
      OBVIOUS
    <2>1. PICK t : t = TargetOf[j]
      OBVIOUS
    <2>2. t \in StageTargets(g, s) /\ t \in Targets /\ Stage(t) = s
      BY <2>1, GateFields DEF StageInv, Sourced, StageItems, StageTargets
    <2>3. ProbeOf(t) \in DOMAIN g.probes
      BY <1>12, <2>1, <2>2 DEF StageInv, Probing
    <2>4. ProbeOf(t) \in StageProbes(g, s) /\ t \in Dependents(g, ProbeOf(t))
      BY <2>2, <2>3, StageFacts DEF StageProbes, Dependents, StageTargets
    <2>5. g.probes[ProbeOf(t)].status # "voided" /\ ~Pending(g.probes[ProbeOf(t)])
      BY <1>12, <2>1, <2>4 DEF StageInv, Probing
    <2>6. g.probes[ProbeOf(t)] \in RecordType
      BY <2>3, GateFields
    <2>7. QED
      BY <2>1, <2>3, <2>5, <2>6 DEF Pending, RecordType
  <1>14. NamedLate(m, s)
    <2> SUFFICES ASSUME NEW j \in StageItems(g, s), IsNamed(m, j)
                 PROVE  /\ ProbeOf(TargetOf[j]) \in DOMAIN g.probes
                        /\ g.probes[ProbeOf(TargetOf[j])].status = "observed"
      BY <1>3, <1>4, <1>5, <1>6, <1>12 DEF NamedLate, StageProbes
    <2>1. CASE j = i
      BY <1>1, <1>4, <1>13, <2>1
    <2>2. CASE j # i
      <3>1. m.items[j] = g.items[j]
        BY <1>3, <1>4, <2>2, FreshTyped DEF IsNamed
      <3>2. QED
        BY <3>1 DEF StageInv, NamesInv, NamedLate, IsNamed
    <2>3. QED
      BY <2>1, <2>2
  <1>15. ASSUME ~Naming(m, s)
         PROVE  StageNamesReady(m, s)
    <2>1. StageResolutionsSettled(m, s) /\ StageProbes(m, s) = StageProbes(g, s)
      BY <1>3, <1>12 DEF StageResolutionsSettled, StageTargets, StageProbes
    <2>2. \A j \in StageItems(m, s) : Pending(m.items[j]) => m.items[j].name # NoName
      BY <1>15 DEF Naming, IsNamed
    <2>3. QED
      BY <1>3, <1>4, <1>12, <1>13, <2>1, <2>2 DEF StageNamesReady
  <1>16. \A j \in DOMAIN g.items : j \notin StageItems(g, s) => m.items[j] = g.items[j]
    BY <1>1, <1>3
  <1>17. Pending(m.items[i])
    BY <1>3 DEF Pending
  <1>18. QED
    BY <1>1, <1>3, <1>5, <1>6, <1>7, <1>8, <1>9, <1>11, <1>12, <1>14, <1>15, <1>16, <1>17

(* A clock's reading names an output, and the last of a round finds every  *)
(* pair of outputs that would be one file.                                 *)
LEMMA NamedKeeps ==
  ASSUME NEW g, Typed(g), NEW s \in Stages, StageInv(g, s),
         \A j \in DOMAIN g.items : /\ g.items[j].refusal # "none" => IsNamed(g, j)
                                   /\ Pending(g.items[j]) => g.targets[TargetOf[j]].status # "voided",
         NEW i \in DOMAIN g.items, s = Stage(TargetOf[i]), ClockDue(g, i),
         NEW c \in Clocks, ClockReads(g, i, c),
         NEW h, h = Named(g, i, c)
  PROVE  /\ Typed(h) /\ Frame(g, h)
         /\ h.targets = g.targets /\ h.resolutions = g.resolutions /\ h.probes = g.probes
         /\ DOMAIN h.items = DOMAIN g.items
         /\ \A j \in DOMAIN g.items : /\ h.items[j].status = g.items[j].status
                                      /\ j \notin StageItems(g, s) => h.items[j] = g.items[j]
         /\ StageInv(h, s) /\ OtherStages(g, h, s) /\ Pending(h.items[i])
  <1>1. PICK m : m = Clocked(g, i, c)
    OBVIOUS
  <1>2. h = RecordNameCollisions(m, s)
    BY <1>1 DEF Named, Clocked
  <1>3. /\ Typed(m) /\ Frame(g, m)
        /\ m.targets = g.targets /\ m.resolutions = g.resolutions /\ m.probes = g.probes
        /\ DOMAIN m.items = DOMAIN g.items
        /\ Pending(g.items[i]) /\ Pending(m.items[i]) /\ m.items[i].name = c
        /\ \A j \in DOMAIN g.items : j \notin StageItems(g, s) => m.items[j] = g.items[j]
        /\ \A j \in StageItems(g, s) :
             /\ m.items[j].status = g.items[j].status
             /\ g.items[j].status \in {"pending", "voided"}
             /\ Pending(g.items[j]) => m.items[j].refusal = "none"
             /\ g.items[j].status = "voided" =>
                  /\ m.items[j] = g.items[j]
                  /\ IsNamed(g, j) => \A k \in StageItems(g, s) :
                       Pending(m.items[k]) /\ IsNamed(m, k) => m.items[j].name < m.items[k].name
        /\ NamedLate(m, s) /\ StageResolutionsSettled(g, s)
        /\ ~Naming(m, s) => StageNamesReady(m, s)
    BY <1>1, ClockedKeeps
  <1>4. /\ Typed(h) /\ Frame(m, h)
        /\ h.targets = m.targets /\ h.resolutions = m.resolutions /\ h.probes = m.probes
        /\ DOMAIN h.items = DOMAIN m.items
        /\ \A j \in DOMAIN m.items : Recorded(m, h, s, j)
    <2>1. Typed(m)
      BY <1>3
    <2>2. QED
      BY <1>2, <2>1, RecordFields
  <1>r. \A j \in DOMAIN m.items :
          /\ h.items[j].name = m.items[j].name /\ h.items[j].status = m.items[j].status
          /\ h.items[j].disposition = m.items[j].disposition
    BY <1>4 DEF Recorded
  <1>n. \A j \in DOMAIN m.items :
          ~CollisionFound(m, s, j) => h.items[j] = m.items[j]
    BY <1>4 DEF Recorded
  <1>c. \A j \in DOMAIN m.items : CollisionFound(m, s, j) =>
          /\ h.items[j].refusal = "output_name_collision"
          /\ h.items[j].witness = NameCollisionWitness(m, s, FALSE, j)
    BY <1>4 DEF Recorded
  <1>5. /\ StageTargets(h, s) = StageTargets(g, s) /\ StageItems(h, s) = StageItems(g, s)
        /\ StageItems(m, s) = StageItems(g, s) /\ StageProbes(h, s) = StageProbes(g, s)
        /\ StageResolutionsSettled(h, s) = StageResolutionsSettled(g, s)
        /\ \A q : Dependents(h, q) = Dependents(g, q)
        /\ \A t : ItemsOf(h, t) = ItemsOf(g, t)
        /\ StageItems(g, s) \subseteq DOMAIN g.items
    BY <1>3, <1>4 DEF StageTargets, StageItems, StageProbes, StageResolutionsSettled, Dependents, ItemsOf
  <1>6. \A j \in StageItems(g, s) :
          /\ h.items[j].status = g.items[j].status /\ IsNamed(h, j) = IsNamed(m, j)
          /\ h.items[j].name = m.items[j].name
          /\ FinalName(h, j) = FinalName(m, j) /\ Identity(h, s, j) = Identity(m, s, j)
    <2>1. \A j \in StageItems(g, s) : /\ h.items[j].name = m.items[j].name
                                       /\ h.items[j].status = g.items[j].status
      BY <1>3, <1>r, <1>5
    <2>2. h.probes = m.probes
      BY <1>4
    <2>3. QED
      BY <2>1, <2>2 DEF IsNamed, FinalName, Identity
  <1>7. \A j, k \in StageItems(g, s) : Meets(h, s, j, k) = Meets(m, s, j, k)
    BY <1>6 DEF Meets
  <1>8. Naming(h, s) = Naming(m, s)
    BY <1>3, <1>5, <1>6 DEF Naming, Pending
  <1>9. Naming(m, s) => \A j \in DOMAIN g.items : h.items[j] = m.items[j]
    <2>1. Naming(m, s) => ~StageNamesReady(m, s)
      BY DEF Naming, IsNamed, StageNamesReady
    <2>2. QED
      BY <1>3, <1>4, <1>n, <2>1 DEF CollisionFound
  <1>10. Sourced(h, s)
    BY <1>3, <1>4, <1>5 DEF StageInv, Sourced
  <1>11. Probing(h, s)
    BY <1>3, <1>4, <1>5 DEF StageInv, Probing
  <1>12. Settling(h, s)
    <2> SUFFICES ASSUME NEW t \in StageTargets(g, s)
                 PROVE  /\ h.targets[t].status = "pending" =>
                             \A j \in ItemsOf(g, t) : h.items[j].status = "voided" =>
                                h.items[j].disposition = "deferred_by_controller"
                        /\ h.targets[t].status = "pending" /\ h.resolutions[t].status = "observed" =>
                             \E j \in ItemsOf(g, t) : Pending(h.items[j])
                        /\ h.resolutions[t].status = "voided" => h.targets[t].status = "voided"
      BY <1>5 DEF Settling
    <2>1. \A j \in ItemsOf(g, t) : j \in StageItems(g, s)
      BY DEF ItemsOf, StageItems, StageTargets
    <2>2. \A j \in DOMAIN m.items : h.items[j].disposition = m.items[j].disposition
      BY <1>r
    <2>3. \A j \in ItemsOf(g, t) : h.items[j].status = "voided" =>
            g.items[j].status = "voided" /\ h.items[j].disposition = g.items[j].disposition
      BY <1>3, <1>4, <1>6, <2>1, <2>2 DEF ItemsOf
    <2>4. \A j \in ItemsOf(g, t) : Pending(h.items[j]) = Pending(g.items[j])
      BY <1>6, <2>1 DEF Pending
    <2>5. QED
      BY <1>3, <1>4, <2>3, <2>4 DEF StageInv, Settling
  <1>13. NamedLate(h, s)
    BY <1>3, <1>4, <1>5, <1>6 DEF NamedLate, StageProbes
  <1>14. NamingRounds(h, s)
    <2> SUFFICES ASSUME Naming(h, s)
                 PROVE  /\ \A j \in StageItems(g, s) : Pending(h.items[j]) => h.items[j].refusal = "none"
                        /\ \A k \in StageItems(g, s) :
                             h.items[k].status = "voided" /\ IsNamed(h, k) =>
                               /\ \E j \in StageItems(g, s) : Pending(h.items[j]) /\ IsNamed(h, j)
                               /\ \A j \in StageItems(g, s) :
                                    Pending(h.items[j]) /\ IsNamed(h, j) => h.items[k].name < h.items[j].name
      BY <1>5 DEF NamingRounds
    <2>1. \A j \in DOMAIN g.items : h.items[j] = m.items[j]
      BY <1>8, <1>9
    <2>2. i \in StageItems(g, s) /\ IsNamed(m, i)
      BY <1>3, GateAssumption DEF StageItems, IsNamed, NoName
    <2>3. \A j \in StageItems(g, s) : Pending(h.items[j]) => Pending(g.items[j])
      BY <1>6 DEF Pending
    <2>4. \A k \in StageItems(g, s) : m.items[k].status = "voided" /\ IsNamed(m, k) =>
            g.items[k].status = "voided" /\ IsNamed(g, k)
      BY <1>3 DEF IsNamed
    <2>5. \A k \in StageItems(g, s) : h.items[k] = m.items[k] /\ IsNamed(h, k) = IsNamed(m, k)
      BY <1>5, <1>6, <2>1
    <2>6. QED
      BY <1>3, <2>2, <2>3, <2>4, <2>5
  <1>15. NamesDistinct(h, s)
    <2> SUFFICES ASSUME NEW j \in StageItems(g, s), NEW k \in StageItems(g, s), j # k,
                        Meets(m, s, j, k)
                 PROVE  \/ HasCollided(h, j) /\ HasCollided(h, k)
                        \/ Naming(h, s) /\ (Pending(h.items[j]) \/ Pending(h.items[k]))
      BY <1>5, <1>7 DEF NamesDistinct
    <2>a. Meets(m, s, k, j) /\ m.items[j].name = m.items[k].name /\ IsNamed(m, j) /\ IsNamed(m, k)
      BY DEF Meets, FinalName
    <2>1. CASE g.items[j].status = "voided" /\ g.items[k].status = "voided"
      <3>1. m.items[j] = g.items[j] /\ m.items[k] = g.items[k]
        BY <1>3, <2>1
      <3>2. Meets(g, s, j, k)
        BY <1>3, <3>1 DEF Meets, IsNamed, FinalName, Identity
      <3>3. HasCollided(g, j) /\ HasCollided(g, k)
        BY <2>1, <3>2 DEF StageInv, NamesInv, NamesDistinct, Pending
      <3>4. HasCollided(h, j) /\ HasCollided(h, k)
        BY ZenonT(60), <1>3, <1>c, <1>n, <1>5, <3>1, <3>3 DEF HasCollided
      <3>5. QED
        BY <3>4
    <2>2. CASE Pending(g.items[j]) /\ Pending(g.items[k])
      <3>1. CASE Naming(m, s)
        BY <1>6, <1>8, <2>2, <3>1 DEF Pending
      <3>2. CASE ~Naming(m, s)
        <4>1. Pending(m.items[j]) /\ Pending(m.items[k])
          BY <1>3, <2>2 DEF Pending
        <4>2. /\ NameCollisionWitness(m, s, FALSE, j) # NoEntry
              /\ NameCollisionWitness(m, s, FALSE, k) # NoEntry
          <5>1. Typed(m) /\ j \in StageItems(m, s) /\ k \in StageItems(m, s)
            BY <1>3, <1>5
          <5>2. QED
            BY <2>a, <4>1, <5>1, MeetingIsWitnessed
        <4>3. QED
          BY <1>3, <1>4, <1>5, <1>c, <3>2, <4>2 DEF HasCollided, CollisionFound
      <3>3. QED
        BY <3>1, <3>2
    <2>3. ASSUME NEW x \in StageItems(g, s), NEW y \in StageItems(g, s),
                 g.items[x].status = "voided", Pending(g.items[y]),
                 m.items[x].name = m.items[y].name, IsNamed(m, x), IsNamed(m, y)
          PROVE  FALSE
      <3>1. m.items[x] = g.items[x] /\ Pending(m.items[y])
        BY <1>3, <2>3 DEF Pending
      <3>2. m.items[x].name < m.items[y].name
        BY <1>3, <2>3, <3>1 DEF IsNamed
      <3>3. \A r \in ItemType : r.name \in Nat
        BY NamesAreNumbers
      <3>4. m.items[x] \in ItemType
        BY <1>3, <1>5, GateFields
      <3>5. QED
        BY <2>3, <3>2, <3>3, <3>4
    <2>4. g.items[j].status \in {"pending", "voided"} /\ g.items[k].status \in {"pending", "voided"}
      BY <1>3
    <2>5. QED
      BY <2>a, <2>1, <2>2, <2>3, <2>4 DEF Pending
  <1>16. Witnessed(h, s)
    <2> SUFFICES ASSUME NEW j \in StageItems(g, s), HasCollided(h, j)
                 PROVE  h.items[j].witness # NoEntry
      BY <1>5 DEF Witnessed
    <2>1. CASE CollisionFound(m, s, j)
      BY <1>3, <1>c, <1>5, <2>1 DEF CollisionFound
    <2>2. CASE ~CollisionFound(m, s, j)
      <3>1. h.items[j] = m.items[j]
        BY <1>3, <1>n, <1>5, <2>2
      <3>2. ~Pending(g.items[j])
        BY <1>3, <3>1 DEF HasCollided
      <3>3. m.items[j] = g.items[j]
        BY <1>3, <3>2 DEF Pending
      <3>4. QED
        BY <3>1, <3>3 DEF StageInv, NamesInv, Witnessed, HasCollided
    <2>3. QED
      BY <2>1, <2>2
  <1>17. Publishing(h, s)
    BY <1>3, <1>5, <1>6 DEF Publishing
  <1>18. \A j \in DOMAIN g.items : j \notin StageItems(g, s) => h.items[j] = g.items[j]
    BY <1>3, <1>n, <1>5 DEF CollisionFound
  <1>19. \A j \in DOMAIN g.items : h.items[j].status = g.items[j].status
    BY <1>6, <1>18
  <1>20. OtherStages(g, h, s)
    BY <1>3, <1>4, <1>18 DEF OtherStages, SameStage, StageTargets, StageItems, StageProbes
  <1>21. Frame(g, h)
    BY <1>3, <1>4 DEF Frame
  <1>22. StageInv(h, s)
    BY <1>10, <1>11, <1>12, <1>13, <1>14, <1>15, <1>16, <1>17 DEF StageInv, NamesInv
  <1>23. Pending(h.items[i])
    BY <1>3, <1>19 DEF Pending
  <1>24. QED
    BY <1>3, <1>4, <1>18, <1>19, <1>20, <1>21, <1>22, <1>23

-----------------------------------------------------------------------------
(* Provenance, promises, and the effect in flight: the inductive invariant *)

ProvenanceKnown(g) ==
  /\ g.provenance.disposition \in
       {"none", "no_landed_units", "handoff_boundary", "deferred_by_controller"}
  /\ g.provenance.disposition = "deferred_by_controller" => g.provenance.entry
  /\ g.provenance.disposition \in {"handoff_boundary", "no_landed_units"} => ~g.provenance.entry
  /\ g.provenance.status = "voided" <=> g.provenance.disposition # "none"
  /\ g.provenance.status = "observed" => g.provenance.entry
  /\ ~g.provenance.entry => g.carried \subseteq g.uncommitted
  /\ g.provenance.status = "voided" => g.verify.status = "voided"
  /\ g.provenance.status = "observed" => g.verify.entry
  /\ g.verify.entry => g.provenance.status = "observed"
  /\ g.verify.status = "observed" => g.verify.entry
  /\ g.verify.status = "voided" /\ ~g.verify.entry => g.provenance.status = "voided"

(* A projected wave has its provenance entry, or needs none. *)
ProvenanceInv(g) ==
  /\ ProvenanceKnown(g)
  /\ UnitProjectionStageSettled(g) => g.provenance.entry \/ g.provenance.status = "voided"

(* What is promised is owed by an open unit, or by the gate's verification. *)
PromisesInv(g, evidence) ==
  \A t \in DOMAIN g.promises :
    /\ g.promises[t].status # "observed"
    /\ Stage(t) = "gate" =>
         /\ g.verify.status # "observed"
         /\ g.verify.status = "voided" <=> g.promises[t].status = "voided"
    /\ Stage(t) = "unit" /\ Pending(g.promises[t]) =>
         Origin[t] \in g.unitIds /\ evidence[Origin[t]] = "none"

(* What is in flight can still be answered. *)
InFlight(g, entry) ==
  \/ entry = None
  \/ \E t \in DOMAIN g.targets :
       /\ entry = <<"resolution", t>> /\ StageOpen(g, Stage(t))
       /\ Pending(g.resolutions[t]) /\ g.resolutions[t].refusal = "none"
  \/ \E p \in DOMAIN g.probes :
       /\ entry = <<"probe", p>> /\ StageOpen(g, p[1])
       /\ Pending(g.probes[p]) /\ g.probes[p].refusal = "none"
  \/ \E i \in DOMAIN g.items :
       /\ entry = <<"item", i>>
       /\ StageNamesReady(g, Stage(TargetOf[i]))
       /\ \A j \in StageItems(g, Stage(TargetOf[i])) : ~Collided(g, j)
       /\ Pending(g.items[i]) /\ g.items[i].refusal = "none"
  \/ /\ entry = <<"provenance">>
     /\ g.provenance.entry /\ Pending(g.provenance) /\ g.provenance.refusal = "none"
  \/ /\ entry = <<"verify">>
     /\ g.verify.entry /\ Pending(g.verify) /\ g.verify.refusal = "none"

(* A gate that the reducer can hold. *)
GateInv(g, evidence) ==
  /\ Typed(g) /\ GateInvariantHolds(g)
  /\ \A s \in Stages : StageInv(g, s) /\ StageClosed(g, s)
  /\ ProvenanceInv(g) /\ PromisesInv(g, evidence)

-----------------------------------------------------------------------------
(* What a held gate says of its records *)

LEMMA HeldItems ==
  ASSUME NEW g, Typed(g), GateInvariantHolds(g), \A s \in Stages : Sourced(g, s)
  PROVE  \A i \in DOMAIN g.items :
           /\ g.items[i].refusal # "none" => IsNamed(g, i)
           /\ TargetOf[i] \in DOMAIN g.targets /\ Stage(TargetOf[i]) \in Stages
           /\ i \in StageItems(g, Stage(TargetOf[i]))
           /\ Pending(g.items[i]) => Pending(g.targets[TargetOf[i]])
  <1> SUFFICES ASSUME NEW i \in DOMAIN g.items
               PROVE  /\ g.items[i].refusal # "none" => IsNamed(g, i)
                      /\ TargetOf[i] \in DOMAIN g.targets /\ Stage(TargetOf[i]) \in Stages
                      /\ i \in StageItems(g, Stage(TargetOf[i]))
                      /\ Pending(g.items[i]) => Pending(g.targets[TargetOf[i]])
    OBVIOUS
  <1>1. g.items[i].refusal # "none" => IsNamed(g, i)
    BY DEF GateInvariantHolds, IsNamed
  <1>2. Stage(TargetOf[i]) \in Stages /\ i \in StageItems(g, Stage(TargetOf[i]))
    BY StageFacts, GateFields DEF StageItems
  <1>3. TargetOf[i] \in DOMAIN g.targets
    BY <1>2 DEF Sourced
  <1>4. i \in ItemsOf(g, TargetOf[i])
    BY DEF ItemsOf
  <1>5. TargetRecordIsCoherent(g, TargetOf[i]) /\ g.targets[TargetOf[i]] \in RecordType
    BY <1>3, GateFields DEF GateInvariantHolds
  <1>6. Pending(g.items[i]) => g.targets[TargetOf[i]].status # "voided"
    BY <1>4, <1>5 DEF TargetRecordIsCoherent, TargetIsSettled
  <1>7. Pending(g.items[i]) => g.targets[TargetOf[i]].status # "observed"
    BY <1>4, <1>5 DEF TargetRecordIsCoherent, Pending
  <1>8. g.targets[TargetOf[i]].status \in {"pending", "observed", "voided"}
    BY <1>5 DEF RecordType
  <1>9. QED
    BY <1>1, <1>2, <1>3, <1>6, <1>7, <1>8 DEF Pending

LEMMA HeldTargets ==
  ASSUME NEW g, Typed(g), GateInvariantHolds(g)
  PROVE  \A t \in DOMAIN g.targets :
           /\ Stage(t) \in Stages /\ t \in StageTargets(g, Stage(t))
           /\ Pending(g.resolutions[t]) => Pending(g.targets[t])
  <1> SUFFICES ASSUME NEW t \in DOMAIN g.targets
               PROVE  /\ Stage(t) \in Stages /\ t \in StageTargets(g, Stage(t))
                      /\ Pending(g.resolutions[t]) => Pending(g.targets[t])
    OBVIOUS
  <1>1. Stage(t) \in Stages /\ t \in StageTargets(g, Stage(t))
    BY StageFacts, GateFields DEF StageTargets
  <1>2. TargetRecordIsCoherent(g, t) /\ g.targets[t] \in RecordType
    BY GateFields DEF GateInvariantHolds
  <1>3. Pending(g.resolutions[t]) => g.targets[t].status # "voided"
    BY <1>2 DEF TargetRecordIsCoherent, TargetIsSettled
  <1>4. Pending(g.resolutions[t]) => g.targets[t].status # "observed"
    BY <1>2 DEF TargetRecordIsCoherent, Pending
  <1>5. g.targets[t].status \in {"pending", "observed", "voided"}
    BY <1>2 DEF RecordType
  <1>6. QED
    BY <1>1, <1>3, <1>4, <1>5 DEF Pending

(* A gate whose wave is open has no provenance entry, no verification, and *)
(* nothing in flight.                                                      *)
LEMMA OpenWaveIsQuiet ==
  ASSUME NEW g, NEW evidence, GateInv(g, evidence), g.unitIds # {}
  PROVE  /\ ~g.provenance.entry /\ ~g.verify.entry
         /\ \A s \in Stages : ~StageOpen(g, s)
         /\ DOMAIN g.items = {} /\ DOMAIN g.probes = {}
         /\ \A t \in DOMAIN g.targets : Pending(g.targets[t]) /\ g.resolutions[t] = Fresh
         /\ \A entry : InFlight(g, entry) => entry = None
  <1>1. ~g.provenance.entry /\ ~g.verify.entry
    BY DEF GateInv, GateInvariantHolds, ProvenanceIsCoherent, UnitProjectionStageSettled,
           ProvenanceInv, ProvenanceKnown
  <1>2. \A s \in Stages : ~StageOpen(g, s)
    BY <1>1 DEF StageOpen
  <1>3. \A s \in Stages : StageProbes(g, s) = {}
    BY <1>2 DEF GateInv, StageClosed
  <1>4. \A t \in DOMAIN g.targets : Pending(g.targets[t]) /\ g.resolutions[t] = Fresh
    BY <1>2, HeldTargets DEF GateInv, StageClosed
  <1>5. Typed(g) /\ GateInvariantHolds(g) /\ \A s \in Stages : Sourced(g, s)
    BY DEF GateInv, StageInv
  <1>6. DOMAIN g.items = {}
    <2> SUFFICES ASSUME NEW i \in DOMAIN g.items PROVE FALSE
      OBVIOUS
    <2>1. TargetOf[i] \in DOMAIN g.targets /\ g.resolutions[TargetOf[i]].status = "observed"
      BY <1>5, HeldItems DEF Sourced
    <2>2. QED
      BY <1>4, <2>1, FreshTyped
  <1>7. DOMAIN g.probes = {}
    <2>1. \A p \in DOMAIN g.probes : p[1] \in Stages
      BY <1>5, GateFields
    <2>2. QED
      BY <1>3, <2>1 DEF StageProbes
  <1>8. \A entry : InFlight(g, entry) => entry = None
    <2>1. \A t \in DOMAIN g.targets : Stage(t) \in Stages
      BY <1>5, HeldTargets
    <2>2. QED
      BY <1>1, <1>2, <1>6, <1>7, <2>1 DEF InFlight
  <1>9. QED
    BY <1>1, <1>2, <1>4, <1>6, <1>7, <1>8

LEMMA SettledFrame ==
  ASSUME NEW g, NEW h, h.unitIds = g.unitIds, SameTables(g, h),
         DOMAIN h.promises = DOMAIN g.promises,
         \A t \in DOMAIN g.promises : Stage(t) = "unit" => h.promises[t] = g.promises[t]
  PROVE  UnitProjectionStageSettled(h) = UnitProjectionStageSettled(g)
  <1>1. /\ StageTargets(h, "unit") = StageTargets(g, "unit")
        /\ StageProbes(h, "unit") = StageProbes(g, "unit")
        /\ \A t : TargetIsSettled(h, t) = TargetIsSettled(g, t)
    BY DEF SameTables, StageTargets, StageProbes, TargetIsSettled, ItemsOf
  <1>2. QED
    BY <1>1 DEF UnitProjectionStageSettled, SameTables

(* Provenance is looked at after every settlement. *)
LEMMA MaybeCreateKeeps ==
  ASSUME NEW g, Typed(g), NEW evidence, ProvenanceKnown(g), PromisesInv(g, evidence),
         NEW h, h = MaybeCreateProvenance(g), GateInvariantHolds(h)
  PROVE  /\ Typed(h) /\ SameTables(g, h) /\ DOMAIN h.promises = DOMAIN g.promises
         /\ h.unitIds = g.unitIds /\ h.uncommitted = g.uncommitted
         /\ ProvenanceInv(h) /\ PromisesInv(h, evidence)
         /\ \A s \in Stages : StageOpen(h, s) = StageOpen(g, s)
         /\ g.provenance.entry => h = g
         /\ h.provenance.disposition = "handoff_boundary" =>
              g.provenance.disposition = "handoff_boundary"
  <1>1. Typed(h) /\ SameTables(g, h) /\ h.unitIds = g.unitIds /\ h.uncommitted = g.uncommitted
    BY MaybeCreateFields
  <1>2. CASE ~CreatesProvenance(g)
    <2>1. h = g
      BY <1>2, MaybeCreateFields
    <2>2. UnitProjectionStageSettled(g) => g.provenance.entry \/ g.provenance.status = "voided"
      BY <1>2 DEF CreatesProvenance, ProvenanceKnown
    <2>3. QED
      BY <1>1, <2>1, <2>2 DEF ProvenanceInv
  <1>3. CASE CreatesProvenance(g) /\ ProvenanceUnits(g) = {}
    <2>1. /\ h.carried = g.carried
          /\ h.provenance = Voided(g.provenance, "no_landed_units")
          /\ h.verify = Voided(g.verify, "no_landed_units")
          /\ GatePromisesVoided(g, h)
      BY <1>3, MaybeCreateFields
    <2>2. ~g.provenance.entry
      BY <1>3 DEF CreatesProvenance
    <2>3. g.provenance \in ProvenanceType /\ g.verify \in VerifyType
      BY GateFields
    <2>4. /\ h.provenance.status = "voided" /\ h.provenance.disposition = "no_landed_units"
          /\ h.provenance.entry = g.provenance.entry
          /\ h.verify.status = "voided" /\ h.verify.entry = g.verify.entry
      BY <2>1, <2>3 DEF Voided, ProvenanceType, VerifyType
    <2>5. ~g.verify.entry /\ g.verify.status # "observed"
      BY <2>2 DEF ProvenanceKnown
    <2>6. ProvenanceInv(h)
      BY <1>1, <2>1, <2>2, <2>4, <2>5 DEF ProvenanceInv, ProvenanceKnown
    <2>7. PromisesInv(h, evidence)
      <3> SUFFICES ASSUME NEW t \in DOMAIN h.promises
                   PROVE  /\ h.promises[t].status # "observed"
                          /\ Stage(t) = "gate" => h.promises[t].status = "voided"
                          /\ Stage(t) = "unit" /\ Pending(h.promises[t]) =>
                               Origin[t] \in h.unitIds /\ evidence[Origin[t]] = "none"
        BY <2>4 DEF PromisesInv
      <3>1. CASE Stage(t) = "gate"
        BY <2>1, <3>1 DEF GatePromisesVoided
      <3>2. CASE Stage(t) # "gate"
        BY <1>1, <2>1, <3>2 DEF GatePromisesVoided, PromisesInv
      <3>3. QED
        BY <3>1, <3>2
    <2>8. \A s \in Stages : StageOpen(h, s) = StageOpen(g, s)
      BY <1>1, <2>4, <2>5 DEF StageOpen
    <2>9. QED
      BY <1>1, <2>1, <2>2, <2>4, <2>6, <2>7, <2>8 DEF GatePromisesVoided
  <1>4. CASE CreatesProvenance(g) /\ ProvenanceUnits(g) # {}
    <2>1. /\ h.carried = {} /\ h.promises = g.promises /\ h.verify = g.verify
          /\ h.provenance = [g.provenance EXCEPT !.entry = TRUE, !.units = ProvenanceUnits(g)]
      BY <1>4, MaybeCreateFields
    <2>2. ~g.provenance.entry /\ g.provenance.disposition # "handoff_boundary"
      BY <1>4 DEF CreatesProvenance
    <2>3. g.provenance \in ProvenanceType
      BY GateFields
    <2>4. /\ h.provenance.status = g.provenance.status /\ h.provenance.entry = TRUE
          /\ h.provenance.disposition = g.provenance.disposition
      BY <2>1, <2>3 DEF ProvenanceType
    <2>5. h.provenance.disposition # "no_landed_units"
      <3> SUFFICES ASSUME h.provenance.disposition = "no_landed_units" PROVE FALSE
        OBVIOUS
      <3>1. h.uncommitted = {}
        BY DEF GateInvariantHolds, ProvenanceIsCoherent
      <3>2. g.carried \subseteq g.uncommitted
        BY <2>2 DEF ProvenanceKnown
      <3>3. QED
        BY <1>1, <1>4, <3>1, <3>2 DEF ProvenanceUnits
    <2>6. g.provenance.disposition = "none"
      BY <2>2, <2>4, <2>5 DEF ProvenanceKnown
    <2>7. ProvenanceInv(h)
      BY <2>1, <2>2, <2>4, <2>6 DEF ProvenanceInv, ProvenanceKnown
    <2>8. PromisesInv(h, evidence)
      BY <1>1, <2>1 DEF PromisesInv
    <2>9. QED
      BY <1>1, <2>1, <2>2, <2>4, <2>7, <2>8 DEF StageOpen
  <1>5. QED
    BY <1>2, <1>3, <1>4

(* A stage that is open leaves the other one open, or empty. *)
LEMMA OpenStageSettles ==
  ASSUME NEW g, NEW evidence, GateInv(g, evidence), NEW s \in Stages, StageOpen(g, s)
  PROVE  /\ g.unitIds = {}
         /\ s = "gate" => g.provenance.entry
         /\ \A r \in Stages : ~StageOpen(g, r) => r = "gate" /\ s = "unit"
  <1>1. s = "gate" => g.verify.entry
    BY DEF StageOpen
  <1>2. s = "gate" => g.provenance.entry /\ g.unitIds = {}
    BY <1>1 DEF GateInv, ProvenanceInv, ProvenanceKnown, GateInvariantHolds, ProvenanceIsCoherent,
                UnitProjectionStageSettled
  <1>3. QED
    BY <1>2 DEF StageOpen, Stages

(* A settlement in an open stage, with provenance looked at. *)
LEMMA StageStepKeeps ==
  ASSUME NEW g, NEW evidence, GateInv(g, evidence), NEW s \in Stages, StageOpen(g, s),
         NEW f, Typed(f), Frame(g, f), StageInv(f, s), OtherStages(g, f, s),
         NEW h, h = f \/ h = MaybeCreateProvenance(f), GateInvariantHolds(h),
         \/ h = MaybeCreateProvenance(f)
         \/ UnitProjectionStageSettled(f) => f.provenance.entry \/ f.provenance.status = "voided"
  PROVE  /\ GateInv(h, evidence) /\ SameTables(f, h)
         /\ h.unitIds = g.unitIds /\ h.uncommitted = g.uncommitted
         /\ \A r \in Stages : StageOpen(h, r) = StageOpen(g, r)
         /\ h.provenance.disposition = "handoff_boundary" =>
              g.provenance.disposition = "handoff_boundary"
         /\ g.provenance.entry => h.provenance = g.provenance /\ h.verify = g.verify
  <1>1. ProvenanceKnown(f) /\ PromisesInv(f, evidence)
    BY DEF GateInv, ProvenanceInv, ProvenanceKnown, PromisesInv, Frame
  <1>2. \A r \in Stages : StageOpen(f, r) = StageOpen(g, r)
    BY DEF StageOpen, Frame
  <1>3. /\ Typed(h) /\ SameTables(f, h) /\ h.unitIds = f.unitIds /\ h.uncommitted = f.uncommitted
        /\ ProvenanceInv(h) /\ PromisesInv(h, evidence)
        /\ \A r \in Stages : StageOpen(h, r) = StageOpen(f, r)
        /\ f.provenance.entry => h = f
        /\ h.provenance.disposition = "handoff_boundary" =>
             f.provenance.disposition = "handoff_boundary"
    <2>1. CASE h # MaybeCreateProvenance(f)
      BY <1>1, <2>1 DEF ProvenanceInv, SameTables
    <2>2. CASE h = MaybeCreateProvenance(f)
      BY <1>1, <2>2, MaybeCreateKeeps
    <2>3. QED
      BY <2>1, <2>2
  <1>4. \A r \in Stages : StageInv(f, r)
    BY SameStageInv DEF OtherStages, GateInv
  <1>5. \A r \in Stages : StageInv(h, r) /\ SameStage(f, h, r)
    BY <1>3, <1>4, SameTablesStages, SameStageInv
  <1>6. ASSUME NEW r \in Stages
        PROVE  StageClosed(h, r)
    <2> SUFFICES ASSUME ~StageOpen(h, r)
                 PROVE  StageProbes(h, r) = {} /\ StageTargets(h, r) = {}
      BY DEF StageClosed
    <2>1. ~StageOpen(g, r) /\ r = "gate" /\ r # s
      BY <1>2, <1>3, OpenStageSettles
    <2>2. StageTargets(h, r) = {}
      BY <2>1 DEF GateInvariantHolds, StagesAreOrdered
    <2>3. StageProbes(g, r) = {}
      BY <2>1 DEF GateInv, StageClosed
    <2>4. StageProbes(f, r) = StageProbes(g, r) /\ StageProbes(h, r) = StageProbes(f, r)
      BY <1>5, <2>1 DEF OtherStages, SameStage
    <2>5. QED
      BY <2>2, <2>3, <2>4
  <1>7. GateInv(h, evidence)
    BY <1>3, <1>5, <1>6 DEF GateInv
  <1>8. QED
    BY <1>2, <1>3, <1>7 DEF Frame

-----------------------------------------------------------------------------
(* Every operation on a stage keeps the gate *)

(* What every such operation leaves as it was. *)
WaveKept(g, h) ==
  /\ h.unitIds = g.unitIds /\ h.uncommitted = g.uncommitted
  /\ \A r \in Stages : StageOpen(h, r) = StageOpen(g, r)
  /\ h.provenance.disposition = "handoff_boundary" =>
       g.provenance.disposition = "handoff_boundary"
  /\ g.provenance.entry => h.provenance = g.provenance /\ h.verify = g.verify

(* The wave is projected only when nothing of the unit stage is pending. *)
LEMMA UnsettledStage ==
  ASSUME NEW g, NEW evidence, GateInv(g, evidence), NEW s \in Stages, StageOpen(g, s),
         NEW f, Frame(g, f), NEW i \in DOMAIN f.items, Pending(f.items[i]),
         TargetOf[i] \in StageTargets(f, s)
  PROVE  UnitProjectionStageSettled(f) => f.provenance.entry \/ f.provenance.status = "voided"
  <1>1. CASE s = "gate"
    BY <1>1, OpenStageSettles DEF Frame
  <1>2. CASE s = "unit"
    <2>1. i \in ItemsOf(f, TargetOf[i])
      BY DEF ItemsOf
    <2>2. ~TargetIsSettled(f, TargetOf[i])
      BY <2>1 DEF TargetIsSettled
    <2>3. QED
      BY <1>2, <2>2 DEF UnitProjectionStageSettled
  <1>3. QED
    BY <1>1, <1>2 DEF Stages

(* An attempt or a refusal changes no status. *)
LEMMA AttemptKeeps ==
  ASSUME NEW g, NEW evidence, GateInv(g, evidence), NEW s \in Stages, StageOpen(g, s),
         NEW f, Typed(f), Frame(g, f), f.targets = g.targets, f.items = g.items,
         DOMAIN f.probes = DOMAIN g.probes,
         \A t \in DOMAIN g.targets : f.resolutions[t].status = g.resolutions[t].status,
         \A p \in DOMAIN g.probes : f.probes[p].status = g.probes[p].status,
         NEW h, h = f \/ h = MaybeCreateProvenance(f), GateInvariantHolds(h)
  PROVE  GateInv(h, evidence) /\ SameTables(f, h) /\ WaveKept(g, h)
  <1>1. \A r \in Stages : SameStage(g, f, r)
    BY StatusesKept
  <1>2. StageInv(f, s) /\ OtherStages(g, f, s)
    BY <1>1, SameStageInv DEF GateInv, OtherStages
  <1>3. UnitProjectionStageSettled(f) = UnitProjectionStageSettled(g)
    <2>1. /\ \A t : ItemsOf(f, t) = ItemsOf(g, t)
          /\ StageTargets(f, "unit") = StageTargets(g, "unit")
          /\ StageProbes(f, "unit") = StageProbes(g, "unit")
      BY DEF ItemsOf, StageTargets, StageProbes
    <2>2. \A t \in StageTargets(g, "unit") : TargetIsSettled(f, t) = TargetIsSettled(g, t)
      BY <2>1 DEF TargetIsSettled, StageTargets, Pending
    <2>3. \A p \in StageProbes(g, "unit") : Pending(f.probes[p]) = Pending(g.probes[p])
      BY DEF Pending, StageProbes
    <2>4. QED
      BY <2>1, <2>2, <2>3 DEF UnitProjectionStageSettled, Frame
  <1>4. UnitProjectionStageSettled(f) => f.provenance.entry \/ f.provenance.status = "voided"
    BY <1>3 DEF GateInv, ProvenanceInv, Frame
  <1>5. QED
    BY <1>2, <1>4, StageStepKeeps DEF WaveKept

LEMMA ResolutionRefusalKeeps ==
  ASSUME NEW g, NEW evidence, GateInv(g, evidence), NEW t \in DOMAIN g.targets,
         StageOpen(g, Stage(t)), NEW r \in RecordType, r.status = g.resolutions[t].status,
         NEW h, h = [g EXCEPT !.resolutions[t] = r], GateInvariantHolds(h)
  PROVE  GateInv(h, evidence) /\ WaveKept(g, h) /\ h.targets = g.targets /\ h.resolutions[t] = r
  <1>1. Typed(g) /\ Stage(t) \in Stages
    BY HeldTargets DEF GateInv
  <1>2. /\ Typed(h) /\ Frame(g, h)
        /\ h.targets = g.targets /\ h.items = g.items /\ h.probes = g.probes
        /\ DOMAIN h.resolutions = DOMAIN g.targets /\ h.resolutions[t] = r
        /\ \A u \in DOMAIN g.targets : u # t => h.resolutions[u] = g.resolutions[u]
    BY <1>1, ResolutionSet DEF Typed
  <1>3. \A u \in DOMAIN g.targets : h.resolutions[u].status = g.resolutions[u].status
    BY <1>2
  <1>4. GateInv(h, evidence) /\ WaveKept(g, h)
    BY <1>1, <1>2, <1>3, AttemptKeeps
  <1>5. QED
    BY <1>2, <1>4

LEMMA ProbeRefusalKeeps ==
  ASSUME NEW g, NEW evidence, GateInv(g, evidence), NEW p \in DOMAIN g.probes,
         StageOpen(g, p[1]), NEW r \in RecordType, r.status = g.probes[p].status,
         NEW f, f = [g EXCEPT !.probes[p] = r],
         NEW h, h = f \/ h = MaybeCreateProvenance(f), GateInvariantHolds(h)
  PROVE  GateInv(h, evidence) /\ WaveKept(g, h) /\ p \in DOMAIN h.probes /\ h.probes[p] = r
  <1>1. Typed(g) /\ p[1] \in Stages
    BY GateFields DEF GateInv
  <1>2. /\ Typed(f) /\ Frame(g, f)
        /\ f.targets = g.targets /\ f.resolutions = g.resolutions /\ f.items = g.items
        /\ DOMAIN f.probes = DOMAIN g.probes /\ f.probes[p] = r
        /\ \A q \in DOMAIN g.probes : q # p => f.probes[q] = g.probes[q]
    BY <1>1, ProbeSet
  <1>3. \A q \in DOMAIN g.probes : f.probes[q].status = g.probes[q].status
    BY <1>2
  <1>4. GateInv(h, evidence) /\ SameTables(f, h) /\ WaveKept(g, h)
    BY <1>1, <1>2, <1>3, AttemptKeeps
  <1>5. QED
    BY <1>2, <1>4 DEF SameTables

LEMMA GateParts ==
  ASSUME NEW g, NEW evidence, GateInv(g, evidence)
  PROVE  /\ Typed(g) /\ GateInvariantHolds(g)
         /\ \A s \in Stages : StageInv(g, s) /\ Sourced(g, s) /\ StageClosed(g, s)
         /\ \A i \in DOMAIN g.items :
              /\ g.items[i].refusal # "none" => IsNamed(g, i)
              /\ TargetOf[i] \in DOMAIN g.targets /\ Stage(TargetOf[i]) \in Stages
              /\ i \in StageItems(g, Stage(TargetOf[i]))
              /\ Pending(g.items[i]) => Pending(g.targets[TargetOf[i]])
              /\ StageOpen(g, Stage(TargetOf[i]))
         /\ \A t \in DOMAIN g.targets :
              /\ Stage(t) \in Stages /\ t \in StageTargets(g, Stage(t))
              /\ Pending(g.resolutions[t]) => Pending(g.targets[t])
         /\ \A p \in DOMAIN g.probes :
              p[1] \in Stages /\ p \in StageProbes(g, p[1]) /\ StageOpen(g, p[1])
  <1>1. /\ Typed(g) /\ GateInvariantHolds(g)
        /\ \A s \in Stages : StageInv(g, s) /\ Sourced(g, s) /\ StageClosed(g, s)
    BY DEF GateInv, StageInv
  <1>2. \A i \in DOMAIN g.items :
          /\ g.items[i].refusal # "none" => IsNamed(g, i)
          /\ TargetOf[i] \in DOMAIN g.targets /\ Stage(TargetOf[i]) \in Stages
          /\ i \in StageItems(g, Stage(TargetOf[i]))
          /\ Pending(g.items[i]) => Pending(g.targets[TargetOf[i]])
    BY <1>1, HeldItems
  <1>3. \A t \in DOMAIN g.targets :
          /\ Stage(t) \in Stages /\ t \in StageTargets(g, Stage(t))
          /\ Pending(g.resolutions[t]) => Pending(g.targets[t])
    BY <1>1, HeldTargets
  <1>4. \A i \in DOMAIN g.items : StageOpen(g, Stage(TargetOf[i]))
    <2> SUFFICES ASSUME NEW i \in DOMAIN g.items, ~StageOpen(g, Stage(TargetOf[i])) PROVE FALSE
      OBVIOUS
    <2>1. /\ TargetOf[i] \in StageTargets(g, Stage(TargetOf[i]))
          /\ g.resolutions[TargetOf[i]].status = "observed"
      BY <1>1, <1>2, <1>3 DEF Sourced
    <2>2. QED
      BY <1>1, <1>2, <2>1, FreshTyped DEF StageClosed
  <1>5. \A p \in DOMAIN g.probes : p[1] \in Stages /\ p \in StageProbes(g, p[1]) /\ StageOpen(g, p[1])
    <2> SUFFICES ASSUME NEW p \in DOMAIN g.probes
                 PROVE  p[1] \in Stages /\ p \in StageProbes(g, p[1]) /\ StageOpen(g, p[1])
      OBVIOUS
    <2>1. p[1] \in Stages /\ p \in StageProbes(g, p[1])
      BY <1>1, GateFields DEF StageProbes
    <2>2. QED
      BY <1>1, <2>1 DEF StageClosed
  <1>6. QED
    BY <1>1, <1>2, <1>3, <1>4, <1>5

LEMMA ResolvedStep ==
  ASSUME NEW g, NEW evidence, GateInv(g, evidence), NEW t \in DOMAIN g.targets,
         StageOpen(g, Stage(t)), Pending(g.resolutions[t]),
         NEW h, h = Resolved(g, t), GateInvariantHolds(h)
  PROVE  GateInv(h, evidence) /\ WaveKept(g, h)
  <1>1. /\ Typed(g) /\ Stage(t) \in Stages /\ StageInv(g, Stage(t)) /\ Pending(g.targets[t])
        /\ \A i \in DOMAIN g.items : g.items[i].refusal # "none" => IsNamed(g, i)
    BY GateParts
  <1>2. /\ Typed(h) /\ Frame(g, h) /\ h.targets = g.targets
        /\ StageInv(h, Stage(t)) /\ OtherStages(g, h, Stage(t))
        /\ \E i \in StageItems(h, Stage(t)) : Pending(h.items[i]) /\ TargetOf[i] = t
    BY <1>1, ResolvedKeeps
  <1>3. t \in StageTargets(h, Stage(t))
    BY <1>2 DEF StageTargets
  <1>4. UnitProjectionStageSettled(h) => h.provenance.entry \/ h.provenance.status = "voided"
    BY <1>1, <1>2, <1>3, UnsettledStage DEF StageItems
  <1>5. QED
    BY <1>1, <1>2, <1>4, StageStepKeeps DEF WaveKept

LEMMA ProbedStep ==
  ASSUME NEW g, NEW evidence, GateInv(g, evidence), NEW p \in DOMAIN g.probes,
         Pending(g.probes[p]), NEW h, h = Probed(g, p), GateInvariantHolds(h)
  PROVE  GateInv(h, evidence) /\ WaveKept(g, h)
  <1>1. /\ Typed(g) /\ p[1] \in Stages /\ StageInv(g, p[1]) /\ StageOpen(g, p[1])
        /\ \A i \in DOMAIN g.items : g.items[i].refusal # "none" => IsNamed(g, i)
    BY GateParts
  <1>2. PICK r : r = Observed(g.probes[p])
    OBVIOUS
  <1>3. r \in RecordType /\ r.status = "observed"
    <2>1. g.probes[p] \in RecordType /\ "none" \in Dispositions /\ "none" \in Refusals
      BY <1>1, GateFields DEF Dispositions, Refusals
    <2>2. QED
      BY <1>2, <2>1, RecordOps
  <1>4. PICK f : f = [g EXCEPT !.probes[p] = r]
    OBVIOUS
  <1>5. h = MaybeCreateProvenance(f)
    BY <1>2, <1>4 DEF Probed
  <1>6. /\ Typed(f) /\ Frame(g, f)
        /\ f.targets = g.targets /\ f.resolutions = g.resolutions /\ f.items = g.items
        /\ DOMAIN f.probes = DOMAIN g.probes /\ f.probes[p] = r
        /\ \A q \in DOMAIN g.probes : q # p => f.probes[q] = g.probes[q]
    BY <1>1, <1>3, <1>4, ProbeSet
  <1>7. StageInv(f, p[1]) /\ OtherStages(g, f, p[1])
    BY <1>1, <1>3, <1>6, ProbedKeeps
  <1>9. QED
    BY <1>1, <1>5, <1>6, <1>7, StageStepKeeps DEF WaveKept

LEMMA UnmountedStep ==
  ASSUME NEW g, NEW evidence, GateInv(g, evidence), NEW p \in DOMAIN g.probes,
         Pending(g.probes[p]), NEW h, h = ProbeUnmounted(g, p), GateInvariantHolds(h)
  PROVE  GateInv(h, evidence) /\ WaveKept(g, h)
  <1>1. /\ Typed(g) /\ p[1] \in Stages /\ StageInv(g, p[1]) /\ StageOpen(g, p[1])
        /\ \A i \in DOMAIN g.items : g.items[i].refusal # "none" => IsNamed(g, i)
    BY GateParts
  <1>2. PICK f : f = Unmounted(g, p)
    OBVIOUS
  <1>3. h = MaybeCreateProvenance(f)
    BY <1>2 DEF ProbeUnmounted, Unmounted
  <1>4. ProbeVoids(g, f, p)
    BY <1>1, <1>2, UnmountedFields
  <1>5. StageInv(f, p[1]) /\ OtherStages(g, f, p[1])
    BY <1>1, <1>4, ProbeVoidsKeeps
  <1>6. Typed(f) /\ Frame(g, f)
    BY <1>4 DEF ProbeVoids
  <1>7. QED
    BY <1>1, <1>3, <1>5, <1>6, StageStepKeeps DEF WaveKept

LEMMA NamedStep ==
  ASSUME NEW g, NEW evidence, GateInv(g, evidence), NEW i \in DOMAIN g.items, ClockDue(g, i),
         NEW c \in Clocks, ClockReads(g, i, c), NEW h, h = Named(g, i, c), GateInvariantHolds(h)
  PROVE  GateInv(h, evidence) /\ WaveKept(g, h)
  <1>1. PICK s \in Stages : s = Stage(TargetOf[i])
    BY GateParts
  <1>2. /\ Typed(g) /\ StageInv(g, s) /\ StageOpen(g, s) /\ TargetOf[i] \in DOMAIN g.targets
        /\ \A j \in DOMAIN g.items :
             /\ g.items[j].refusal # "none" => IsNamed(g, j)
             /\ Pending(g.items[j]) => g.targets[TargetOf[j]].status # "voided"
    BY <1>1, GateParts DEF Pending
  <1>3. /\ Typed(h) /\ Frame(g, h) /\ h.targets = g.targets /\ DOMAIN h.items = DOMAIN g.items
        /\ StageInv(h, s) /\ OtherStages(g, h, s) /\ Pending(h.items[i])
    BY <1>1, <1>2, NamedKeeps
  <1>4. TargetOf[i] \in StageTargets(h, s)
    BY <1>1, <1>2, <1>3 DEF StageTargets
  <1>5. UnitProjectionStageSettled(h) => h.provenance.entry \/ h.provenance.status = "voided"
    BY <1>2, <1>3, <1>4, UnsettledStage
  <1>6. QED
    BY <1>1, <1>2, <1>3, <1>5, StageStepKeeps DEF WaveKept

(* An output whose round is over is intended. *)
LEMMA ItemAttemptStep ==
  ASSUME NEW g, NEW evidence, GateInv(g, evidence), NEW i \in DOMAIN g.items,
         Pending(g.items[i]), StageNamesReady(g, Stage(TargetOf[i])), ~Collided(g, i),
         NEW h, h = WithItem(g, i, Attempted(g.items[i])), GateInvariantHolds(h)
  PROVE  /\ GateInv(h, evidence) /\ WaveKept(g, h)
         /\ h.targets = g.targets /\ h.resolutions = g.resolutions /\ h.probes = g.probes
         /\ DOMAIN h.items = DOMAIN g.items
         /\ Pending(h.items[i]) /\ h.items[i].refusal = "none"
         /\ \A j \in DOMAIN g.items :
              /\ h.items[j].status = g.items[j].status /\ h.items[j].name = g.items[j].name
              /\ j # i => h.items[j] = g.items[j]
  <1>1. PICK s \in Stages : s = Stage(TargetOf[i])
    BY GateParts
  <1>2. /\ Typed(g) /\ StageInv(g, s) /\ StageOpen(g, s) /\ TargetOf[i] \in DOMAIN g.targets
        /\ i \in StageItems(g, s)
    BY <1>1, GateParts
  <1>3. IsNamed(g, i) /\ ~Naming(g, s)
    BY <1>1, <1>2 DEF StageNamesReady, Naming, IsNamed
  <1>4. PICK r : r = Attempted(g.items[i])
    OBVIOUS
  <1>5. /\ r \in ItemType /\ r.name = g.items[i].name /\ r.witness = g.items[i].witness
        /\ r.status = "pending" /\ r.refusal = "none"
    <2>1. g.items[i] \in ItemType /\ "none" \in Dispositions /\ "none" \in Refusals
      BY <1>2, GateFields DEF Dispositions, Refusals
    <2>2. QED
      BY ZenonT(60), <1>4, <2>1, ItemOps DEF Pending
  <1>6. h = WithItem(g, i, r)
    BY <1>4
  <1>7. ~HasCollided(g, i)
    BY DEF Collided, HasCollided
  <1>8. /\ Typed(h) /\ Frame(g, h) /\ h.targets = g.targets /\ h.resolutions = g.resolutions
        /\ h.probes = g.probes /\ DOMAIN h.items = DOMAIN g.items /\ h.items[i] = r
        /\ \A j \in DOMAIN g.items : j # i => h.items[j] = g.items[j]
        /\ OtherStages(g, h, s) /\ StageInv(h, s)
    <2>1. r.refusal = "output_name_collision" <=> HasCollided(g, i)
      BY <1>5, <1>7
    <2>2. /\ r.status = "pending"
          /\ r.status = "observed" => \A j \in StageItems(g, s) : ~Collided(g, j)
          /\ r.status = "voided" => r.disposition = "deferred_by_controller"
      BY <1>5
    <2>3. r \in ItemType /\ r.name = g.items[i].name /\ r.witness = g.items[i].witness
      BY <1>5
    <2>4. QED
      BY <1>2, <1>3, <1>6, <2>1, <2>2, <2>3, ItemKeeps
  <1>9. Pending(h.items[i]) /\ TargetOf[i] \in StageTargets(h, s)
    BY <1>1, <1>2, <1>5, <1>8 DEF Pending, StageTargets
  <1>10. UnitProjectionStageSettled(h) => h.provenance.entry \/ h.provenance.status = "voided"
    BY <1>2, <1>8, <1>9, UnsettledStage
  <1>11. GateInv(h, evidence) /\ WaveKept(g, h)
    <2>1. Typed(h) /\ Frame(g, h) /\ StageInv(h, s) /\ OtherStages(g, h, s) /\ StageOpen(g, s)
      BY <1>2, <1>8
    <2>2. QED
      BY <1>10, <2>1, StageStepKeeps DEF WaveKept
  <1>12. QED
    BY <1>5, <1>8, <1>9, <1>11 DEF Pending

(* A published, refused or deferred output, its target, and provenance. *)
LEMMA ItemSettledStep ==
  ASSUME NEW g, NEW evidence, GateInv(g, evidence), NEW i \in DOMAIN g.items,
         Pending(g.items[i]), IsNamed(g, i), ~Naming(g, Stage(TargetOf[i])),
         NEW r \in ItemType, r.name = g.items[i].name, r.witness = g.items[i].witness,
         r.refusal = "output_name_collision" <=> HasCollided(g, i),
         r.status = "observed" => \A j \in StageItems(g, Stage(TargetOf[i])) : ~Collided(g, j),
         r.status = "voided" => r.disposition = "deferred_by_controller",
         NEW f, f = WithItem(g, i, r),
         NEW h, h = MaybeCreateProvenance(SettleTargetPromise(f, TargetOf[i])), GateInvariantHolds(h)
  PROVE  /\ GateInv(h, evidence) /\ WaveKept(g, h)
         /\ DOMAIN h.targets = DOMAIN g.targets /\ h.resolutions = g.resolutions
         /\ h.probes = g.probes
         /\ DOMAIN h.items = DOMAIN g.items /\ h.items[i] = r
         /\ \A j \in DOMAIN g.items : j # i => h.items[j] = g.items[j]
         /\ \A u \in DOMAIN g.targets :
              g.targets[u].status = "voided" => h.targets[u].status = "voided"
         /\ \E e : OtherStages(g, e, Stage(TargetOf[i])) /\ SameTables(e, h)
  <1>1. PICK s \in Stages : s = Stage(TargetOf[i])
    BY GateParts
  <1>2. /\ Typed(g) /\ StageInv(g, s) /\ StageOpen(g, s) /\ TargetOf[i] \in DOMAIN g.targets
        /\ i \in StageItems(g, s)
    BY <1>1, GateParts
  <1>3. /\ Typed(f) /\ Frame(g, f) /\ f.targets = g.targets /\ f.resolutions = g.resolutions
        /\ f.probes = g.probes /\ DOMAIN f.items = DOMAIN g.items /\ f.items[i] = r
        /\ \A j \in DOMAIN g.items : j # i => f.items[j] = g.items[j]
        /\ OtherStages(g, f, s) /\ Sourced(f, s) /\ Probing(f, s) /\ NamesInv(f, s)
        /\ SettlingBut(f, s, TargetOf[i])
    BY <1>1, <1>2, ItemKeeps
  <1>4. PICK e : e = SettleTargetPromise(f, TargetOf[i])
    OBVIOUS
  <1>5. TargetOf[i] \in StageTargets(f, s) /\ TargetOf[i] \in DOMAIN f.targets
    BY <1>1, <1>2, <1>3 DEF StageTargets
  <1>6. /\ Typed(e) /\ Frame(f, e)
        /\ e.resolutions = f.resolutions /\ e.items = f.items /\ e.probes = f.probes
        /\ DOMAIN e.targets = DOMAIN f.targets
        /\ StageInv(e, s) /\ OtherStages(f, e, s)
    <2>1. /\ Typed(f) /\ TargetOf[i] \in StageTargets(f, s) /\ Sourced(f, s) /\ Probing(f, s)
          /\ NamesInv(f, s) /\ SettlingBut(f, s, TargetOf[i])
      BY <1>3, <1>5
    <2>2. QED
      BY <1>4, <2>1, SettleKeeps
  <1>7. \A u \in DOMAIN f.targets : f.targets[u].status = "voided" => e.targets[u].status = "voided"
    <2>1. \A u \in DOMAIN f.targets : u # TargetOf[i] => e.targets[u] = f.targets[u]
      <3>1. Typed(f) /\ TargetOf[i] \in DOMAIN f.targets
        BY <1>3, <1>5
      <3>2. QED
        BY <1>4, <3>1, SettleFields
    <2>2. ~Pending(f.targets[TargetOf[i]]) => e = f
      BY <1>4 DEF SettleTargetPromise
    <2>3. QED
      BY <2>1, <2>2 DEF Pending
  <1>8. Frame(g, e) /\ OtherStages(g, e, s)
    BY <1>3, <1>6 DEF Frame, OtherStages, SameStage
  <1>9. h = MaybeCreateProvenance(e)
    BY <1>4
  <1>10. GateInv(h, evidence) /\ SameTables(e, h) /\ WaveKept(g, h)
    BY <1>1, <1>2, <1>6, <1>8, <1>9, StageStepKeeps DEF WaveKept
  <1>11. QED
    BY <1>1, <1>3, <1>6, <1>7, <1>8, <1>10 DEF SameTables

-----------------------------------------------------------------------------
(* A deferral leaves what is in flight *)

(* Nothing of the stage waits for a name, a probe or a resolution. *)
Publishable(g, s) == StageNamesReady(g, s) /\ \A j \in StageItems(g, s) : ~Collided(g, j)

LEMMA SameStagePublishable ==
  ASSUME NEW g, NEW h, Typed(g), Typed(h), NEW s \in Stages, SameStage(g, h, s), StageInv(g, s),
         Publishable(g, s)
  PROVE  Publishable(h, s)
  <1>1. /\ StageResolutionsSettled(h, s) = StageResolutionsSettled(g, s)
        /\ \A i \in StageItems(g, s) : Collided(h, i) = Collided(g, i)
    BY SameStageOps
  <1>2. \A p \in StageProbes(g, s) : ~Pending(h.probes[p])
    BY DEF Publishable, StageNamesReady, SameStage, Pending
  <1>3. ASSUME NEW i \in StageItems(g, s)
        PROVE  /\ h.targets[TargetOf[i]].status # "voided" =>
                    h.probes[ProbeOf(TargetOf[i])].status = "observed"
               /\ Pending(h.items[i]) => h.items[i].name # NoName
    <2>1. TargetOf[i] \in StageTargets(g, s)
      BY DEF StageInv, Sourced, StageItems, StageTargets
    <2>2. g.targets[TargetOf[i]].status # "voided" => ProbeOf(TargetOf[i]) \in DOMAIN g.probes
      BY <2>1 DEF StageInv, Probing, Publishable, StageNamesReady
    <2>3. ProbeOf(TargetOf[i]) \in DOMAIN g.probes => ProbeOf(TargetOf[i]) \in StageProbes(g, s)
      BY SameStageOps
    <2>4. QED
      BY <2>1, <2>2, <2>3 DEF SameStage, Publishable, StageNamesReady
  <1>4. QED
    BY <1>1, <1>2, <1>3 DEF Publishable, StageNamesReady, SameStage

(* What is in flight is pending and not refused: it keeps its entry. *)
LEMMA FlightKept ==
  ASSUME NEW g, NEW evidence, GateInv(g, evidence), NEW entry, InFlight(g, entry),
         NEW h, WaveKept(g, h),
         \A t \in DOMAIN g.targets : Pending(g.resolutions[t]) /\ g.resolutions[t].refusal = "none" =>
           t \in DOMAIN h.targets /\ h.resolutions[t] = g.resolutions[t],
         \A p \in DOMAIN g.probes : Pending(g.probes[p]) /\ g.probes[p].refusal = "none" =>
           p \in DOMAIN h.probes /\ h.probes[p] = g.probes[p],
         \A i \in DOMAIN g.items :
           Pending(g.items[i]) /\ g.items[i].refusal = "none" /\ Publishable(g, Stage(TargetOf[i])) =>
             /\ i \in DOMAIN h.items /\ h.items[i] = g.items[i]
             /\ Publishable(h, Stage(TargetOf[i]))
  PROVE  InFlight(h, entry)
  <1>1. CASE entry = None
    BY <1>1 DEF InFlight
  <1>2. ASSUME NEW t \in DOMAIN g.targets, entry = <<"resolution", t>>, StageOpen(g, Stage(t)),
               Pending(g.resolutions[t]), g.resolutions[t].refusal = "none"
        PROVE  InFlight(h, entry)
    <2>1. Stage(t) \in Stages
      BY GateParts
    <2>2. QED
      BY <1>2, <2>1 DEF InFlight, WaveKept
  <1>3. ASSUME NEW p \in DOMAIN g.probes, entry = <<"probe", p>>, StageOpen(g, p[1]),
               Pending(g.probes[p]), g.probes[p].refusal = "none"
        PROVE  InFlight(h, entry)
    <2>1. p[1] \in Stages
      BY GateParts
    <2>2. QED
      BY <1>3, <2>1 DEF InFlight, WaveKept
  <1>4. ASSUME NEW i \in DOMAIN g.items, entry = <<"item", i>>, Publishable(g, Stage(TargetOf[i])),
               Pending(g.items[i]), g.items[i].refusal = "none"
        PROVE  InFlight(h, entry)
    BY <1>4 DEF InFlight, Publishable
  <1>5. g.verify.entry => g.provenance.entry
    BY DEF GateInv, ProvenanceInv, ProvenanceKnown
  <1>6. ASSUME entry = <<"provenance">>, g.provenance.entry, Pending(g.provenance),
               g.provenance.refusal = "none"
        PROVE  InFlight(h, entry)
    BY <1>6 DEF InFlight, WaveKept
  <1>7. ASSUME entry = <<"verify">>, g.verify.entry, Pending(g.verify), g.verify.refusal = "none"
        PROVE  InFlight(h, entry)
    BY <1>5, <1>7 DEF InFlight, WaveKept
  <1>8. QED
    BY <1>1, <1>2, <1>3, <1>4, <1>6, <1>7 DEF InFlight, Publishable

LEMMA DeferResolutionStep ==
  ASSUME NEW g, NEW evidence, GateInv(g, evidence), NEW t \in DOMAIN g.targets,
         Refused(g.resolutions[t]), NEW h, h = DeferResolution(g, t), GateInvariantHolds(h),
         NEW entry, InFlight(g, entry)
  PROVE  GateInv(h, evidence) /\ WaveKept(g, h) /\ InFlight(h, entry)
  <1>1. PICK s \in Stages : s = Stage(t)
    BY GateParts
  <1>2. /\ Typed(g) /\ StageInv(g, s) /\ t \in StageTargets(g, s)
        /\ Pending(g.resolutions[t]) /\ Pending(g.targets[t])
        /\ \A i \in DOMAIN g.items : g.items[i].refusal # "none" => IsNamed(g, i)
    BY <1>1, GateParts DEF Refused, Pending
  <1>3. StageOpen(g, s)
    BY <1>2, GateParts, FreshTyped DEF StageClosed, Refused
  <1>4. PICK f : f = EnsureDestinationProbes(ResolutionDeferred(g, t), s)
    OBVIOUS
  <1>5. h = MaybeCreateProvenance(f)
    BY <1>1, <1>4 DEF DeferResolution, ResolutionDeferred
  <1>6. /\ Typed(f) /\ Frame(g, f) /\ f.items = g.items
        /\ StageInv(f, s) /\ OtherStages(g, f, s)
        /\ DOMAIN f.targets = DOMAIN g.targets
        /\ \A u \in DOMAIN g.targets : u # t => f.resolutions[u] = g.resolutions[u]
        /\ \A p \in DOMAIN g.probes : p \in DOMAIN f.probes /\ f.probes[p] = g.probes[p]
    BY <1>1, <1>2, <1>4, DeferResolutionKeeps
  <1>7. GateInv(h, evidence) /\ SameTables(f, h) /\ WaveKept(g, h)
    BY <1>2, <1>3, <1>5, <1>6, StageStepKeeps DEF WaveKept
  <1>8. \A i \in DOMAIN g.items : Publishable(g, Stage(TargetOf[i])) =>
          Publishable(h, Stage(TargetOf[i]))
    <2> SUFFICES ASSUME NEW r \in Stages, Publishable(g, r) PROVE Publishable(h, r)
      BY GateParts
    <2>1. ~StageResolutionsSettled(g, s)
      BY <1>2 DEF StageResolutionsSettled, Pending
    <2>2. r # s
      BY <2>1 DEF Publishable, StageNamesReady
    <2>3. SameStage(g, h, r)
      BY <1>6, <1>7, <2>2, SameTablesStages DEF OtherStages, SameStage
    <2>4. Typed(h) /\ StageInv(g, r)
      BY <1>7, GateParts
    <2>5. QED
      BY <1>2, <2>3, <2>4, SameStagePublishable
  <1>9. InFlight(h, entry)
    <2>1. /\ DOMAIN h.targets = DOMAIN g.targets /\ h.items = g.items
          /\ \A u \in DOMAIN g.targets : u # t => h.resolutions[u] = g.resolutions[u]
          /\ \A p \in DOMAIN g.probes : p \in DOMAIN h.probes /\ h.probes[p] = g.probes[p]
      BY <1>6, <1>7 DEF SameTables
    <2>2. g.resolutions[t].refusal # "none"
      BY DEF Refused
    <2>3. QED
      BY <1>7, <1>8, <2>1, <2>2, FlightKept
  <1>10. QED
    BY <1>7, <1>9

LEMMA DeferProbeStep ==
  ASSUME NEW g, NEW evidence, GateInv(g, evidence), NEW p \in DOMAIN g.probes,
         Refused(g.probes[p]), NEW h, h = DeferProbe(g, p), GateInvariantHolds(h),
         NEW entry, InFlight(g, entry)
  PROVE  GateInv(h, evidence) /\ WaveKept(g, h) /\ InFlight(h, entry)
  <1>1. PICK s \in Stages : s = p[1]
    BY GateParts
  <1>2. /\ Typed(g) /\ StageInv(g, s) /\ StageOpen(g, s) /\ p \in StageProbes(g, s)
        /\ \A i \in DOMAIN g.items : g.items[i].refusal # "none" => IsNamed(g, i)
        /\ Pending(g.probes[p])
    BY <1>1, GateParts DEF Refused, Pending
  <1>3. PICK f : f = ProbeDeferred(g, p)
    OBVIOUS
  <1>4. h = MaybeCreateProvenance(f)
    BY <1>3 DEF DeferProbe, ProbeDeferred
  <1>5. ProbeVoids(g, f, p)
    BY <1>2, <1>3, ProbeDeferredFields
  <1>6. StageInv(f, s) /\ OtherStages(g, f, s)
    BY <1>1, <1>2, <1>5, ProbeVoidsKeeps
  <1>7. Typed(f) /\ Frame(g, f)
    BY <1>5 DEF ProbeVoids
  <1>8. GateInv(h, evidence) /\ SameTables(f, h) /\ WaveKept(g, h)
    BY <1>2, <1>4, <1>6, <1>7, StageStepKeeps DEF WaveKept
  <1>9. \A r \in Stages : Publishable(g, r) => r # s /\ Publishable(h, r)
    <2> SUFFICES ASSUME NEW r \in Stages, Publishable(g, r) PROVE r # s /\ Publishable(h, r)
      OBVIOUS
    <2>1. r # s
      BY <1>2 DEF Publishable, StageNamesReady
    <2>2. SameStage(g, h, r)
      BY <1>6, <1>8, <2>1, SameTablesStages DEF OtherStages, SameStage
    <2>3. Typed(h) /\ StageInv(g, r)
      BY <1>8, GateParts
    <2>4. QED
      BY <1>2, <2>1, <2>2, <2>3, SameStagePublishable
  <1>10. \A i \in DOMAIN g.items : Publishable(g, Stage(TargetOf[i])) =>
           /\ i \in DOMAIN h.items /\ h.items[i] = g.items[i] /\ Publishable(h, Stage(TargetOf[i]))
    <2> SUFFICES ASSUME NEW i \in DOMAIN g.items, Publishable(g, Stage(TargetOf[i]))
                 PROVE  i \in DOMAIN h.items /\ h.items[i] = g.items[i]
      BY <1>9, GateParts
    <2>1. TargetOf[i] \in Targets /\ Stage(TargetOf[i]) # s
      BY <1>9, GateParts, GateFields
    <2>2. i \notin DependentItems(g, p)
      BY <1>1, <2>1, StageFacts DEF DependentItems
    <2>3. QED
      BY <1>5, <1>8, <2>2 DEF ProbeVoids, SameTables
  <1>11. InFlight(h, entry)
    <2>1. /\ DOMAIN h.targets = DOMAIN g.targets /\ h.resolutions = g.resolutions
          /\ DOMAIN h.probes = DOMAIN g.probes
          /\ \A q \in DOMAIN g.probes : q # p => h.probes[q] = g.probes[q]
      BY <1>5, <1>8 DEF SameTables, ProbeVoids
    <2>2. g.probes[p].refusal # "none"
      BY DEF Refused
    <2>3. QED
      BY <1>8, <1>10, <2>1, <2>2, FlightKept
  <1>12. QED
    BY <1>8, <1>11

LEMMA DeferItemStep ==
  ASSUME NEW g, NEW evidence, GateInv(g, evidence), NEW i \in DOMAIN g.items,
         Refused(g.items[i]), NEW h, h = DeferItem(g, i), GateInvariantHolds(h),
         NEW entry, InFlight(g, entry)
  PROVE  GateInv(h, evidence) /\ WaveKept(g, h) /\ InFlight(h, entry)
  <1>1. PICK s \in Stages : s = Stage(TargetOf[i])
    BY GateParts
  <1>2. /\ Typed(g) /\ StageInv(g, s) /\ TargetOf[i] \in DOMAIN g.targets
        /\ i \in StageItems(g, s) /\ Pending(g.items[i]) /\ IsNamed(g, i)
        /\ g.items[i].refusal # "none"
    BY <1>1, GateParts DEF Refused, Pending
  <1>3. ~Naming(g, s)
    BY <1>2 DEF StageInv, NamesInv, NamingRounds
  <1>4. PICK r : r = Deferred(g.items[i])
    OBVIOUS
  <1>5. /\ r \in ItemType /\ r.name = g.items[i].name /\ r.witness = g.items[i].witness
        /\ r.refusal = g.items[i].refusal /\ r.status = "voided"
        /\ r.disposition = "deferred_by_controller"
    <2>1. g.items[i] \in ItemType /\ "none" \in Dispositions /\ "none" \in Refusals
      BY <1>2, GateFields DEF Dispositions, Refusals
    <2>2. QED
      BY ZenonT(60), <1>4, <2>1, ItemOps
  <1>6. PICK f : f = WithItem(g, i, r)
    OBVIOUS
  <1>7. h = MaybeCreateProvenance(SettleTargetPromise(f, TargetOf[i]))
    BY <1>4, <1>6 DEF DeferItem, WithItem
  <1>8. /\ GateInv(h, evidence) /\ WaveKept(g, h)
        /\ DOMAIN h.targets = DOMAIN g.targets /\ h.resolutions = g.resolutions
        /\ h.probes = g.probes
        /\ DOMAIN h.items = DOMAIN g.items /\ h.items[i] = r
        /\ \A j \in DOMAIN g.items : j # i => h.items[j] = g.items[j]
        /\ \A u \in DOMAIN g.targets :
             g.targets[u].status = "voided" => h.targets[u].status = "voided"
        /\ \E e : OtherStages(g, e, s) /\ SameTables(e, h)
    <2>1. r.refusal = "output_name_collision" <=> HasCollided(g, i)
      BY <1>5 DEF HasCollided
    <2>2. /\ r.status = "observed" => \A j \in StageItems(g, Stage(TargetOf[i])) : ~Collided(g, j)
          /\ r.status = "voided" => r.disposition = "deferred_by_controller"
          /\ r \in ItemType /\ r.name = g.items[i].name /\ r.witness = g.items[i].witness
      BY <1>5
    <2>3. QED
      BY <1>1, <1>2, <1>3, <1>6, <1>7, <2>1, <2>2, ItemSettledStep
  <1>9. ASSUME Publishable(g, s)
        PROVE  Publishable(h, s)
    <2>1. /\ StageTargets(h, s) = StageTargets(g, s) /\ StageItems(h, s) = StageItems(g, s)
          /\ StageProbes(h, s) = StageProbes(g, s)
      BY <1>8 DEF StageTargets, StageItems, StageProbes
    <2>2. StageResolutionsSettled(h, s)
      BY <1>8, <1>9, <2>1 DEF StageResolutionsSettled, StageTargets, Publishable, StageNamesReady
    <2>3. \A j \in StageItems(g, s) : j \in DOMAIN g.items /\ TargetOf[j] \in DOMAIN g.targets
      BY GateParts DEF StageItems
    <2>4. \A j \in StageItems(g, s) :
            \/ h.items[j] = g.items[j]
            \/ h.items[j].status = "voided"
      BY <1>5, <1>8, <2>3
    <2>5. QED
      BY <1>8, <1>9, <2>1, <2>2, <2>3, <2>4 DEF Publishable, StageNamesReady, Pending, Collided
  <1>10. \A q \in Stages : Publishable(g, q) => Publishable(h, q)
    <2> SUFFICES ASSUME NEW q \in Stages, Publishable(g, q), q # s PROVE Publishable(h, q)
      BY <1>9
    <2>1. SameStage(g, h, q)
      BY <1>8, SameTablesStages DEF OtherStages, SameStage
    <2>2. Typed(h) /\ StageInv(g, q)
      BY <1>8, GateParts
    <2>3. QED
      BY <1>2, <2>1, <2>2, SameStagePublishable
  <1>11. InFlight(h, entry)
    <2>1. \A j \in DOMAIN g.items : Publishable(g, Stage(TargetOf[j])) =>
            Publishable(h, Stage(TargetOf[j]))
      BY <1>10, GateParts
    <2>2. QED
      BY <1>2, <1>8, <2>1, FlightKept
  <1>12. QED
    BY <1>8, <1>11

-----------------------------------------------------------------------------
(* Provenance and verification *)

(* A step that leaves the stages alone. *)
LEMMA GateStepKeeps ==
  ASSUME NEW g, NEW evidence, GateInv(g, evidence), NEW later,
         NEW h, Typed(h), SameTables(g, h), GateInvariantHolds(h),
         ProvenanceInv(h), PromisesInv(h, later),
         \A s \in Stages : StageOpen(g, s) => StageOpen(h, s)
  PROVE  GateInv(h, later)
  <1>1. \A s \in Stages : StageInv(h, s)
    BY SameTablesStages, SameStageInv DEF GateInv
  <1>2. \A s \in Stages : StageTargets(h, s) = StageTargets(g, s) /\ StageProbes(h, s) = StageProbes(g, s)
    BY DEF SameTables, StageTargets, StageProbes
  <1>3. \A s \in Stages : StageClosed(h, s)
    BY <1>2 DEF GateInv, StageClosed, SameTables
  <1>4. QED
    BY <1>1, <1>3 DEF GateInv

LEMMA SameTablesFlight ==
  ASSUME NEW g, NEW evidence, GateInv(g, evidence), NEW entry, InFlight(g, entry),
         NEW h, SameTables(g, h), \A s \in Stages : StageOpen(g, s) => StageOpen(h, s),
         entry # <<"provenance">>, entry # <<"verify">>
  PROVE  InFlight(h, entry)
  <1>1. CASE entry = None
    BY <1>1 DEF InFlight
  <1>2. CASE \E t \in DOMAIN g.targets :
              /\ entry = <<"resolution", t>> /\ StageOpen(g, Stage(t))
              /\ Pending(g.resolutions[t]) /\ g.resolutions[t].refusal = "none"
    BY <1>2, GateParts DEF InFlight, SameTables
  <1>3. CASE \E p \in DOMAIN g.probes :
              /\ entry = <<"probe", p>> /\ StageOpen(g, p[1])
              /\ Pending(g.probes[p]) /\ g.probes[p].refusal = "none"
    BY <1>3, GateParts DEF InFlight, SameTables
  <1>4. CASE \E i \in DOMAIN g.items :
              /\ entry = <<"item", i>> /\ Publishable(g, Stage(TargetOf[i]))
              /\ Pending(g.items[i]) /\ g.items[i].refusal = "none"
    <2>1. PICK i \in DOMAIN g.items :
              /\ entry = <<"item", i>> /\ Publishable(g, Stage(TargetOf[i]))
              /\ Pending(g.items[i]) /\ g.items[i].refusal = "none"
      BY <1>4
    <2>2. Publishable(h, Stage(TargetOf[i]))
      BY <2>1 DEF SameTables, Publishable, StageNamesReady, StageResolutionsSettled, StageItems,
                  StageTargets, StageProbes, Collided
    <2>3. QED
      BY <2>1, <2>2 DEF InFlight, Publishable, SameTables
  <1>5. QED
    BY <1>1, <1>2, <1>3, <1>4 DEF InFlight, Publishable

WithProvenance(g, r) == [g EXCEPT !.provenance = r]
WithVerify(g, r) == [g EXCEPT !.verify = r]

LEMMA WithProvenanceFields ==
  ASSUME NEW g, Typed(g), NEW r \in ProvenanceType, NEW h, h = WithProvenance(g, r)
  PROVE  /\ Typed(h) /\ SameTables(g, h) /\ h.unitIds = g.unitIds /\ h.carried = g.carried
         /\ h.uncommitted = g.uncommitted /\ h.promises = g.promises /\ h.verify = g.verify
         /\ h.provenance = r
  BY DEF WithProvenance, Typed, GateType, SameTables

LEMMA WithVerifyFields ==
  ASSUME NEW g, Typed(g), NEW r \in VerifyType, NEW h, h = WithVerify(g, r)
  PROVE  /\ Typed(h) /\ SameTables(g, h) /\ h.unitIds = g.unitIds /\ h.carried = g.carried
         /\ h.uncommitted = g.uncommitted /\ h.promises = g.promises
         /\ h.provenance = g.provenance /\ h.verify = r
  BY DEF WithVerify, Typed, GateType, SameTables

LEMMA VerifyOps ==
  ASSUME NEW r \in VerifyType, NEW code \in Refusals
  PROVE  /\ Observed(r) \in VerifyType /\ Observed(r).status = "observed"
         /\ Observed(r).disposition = r.disposition /\ Observed(r).entry = r.entry
         /\ RefusedWith(r, code) \in VerifyType /\ RefusedWith(r, code).status = r.status
         /\ RefusedWith(r, code).disposition = r.disposition /\ RefusedWith(r, code).entry = r.entry
         /\ CascadeVoid(r) \in VerifyType /\ CascadeVoid(r).status = "voided"
         /\ CascadeVoid(r).entry = r.entry
         /\ Deferred(r) \in VerifyType /\ Deferred(r).status = "voided"
         /\ Deferred(r).entry = r.entry
  <1>1. /\ Observed(r) \in VerifyType /\ Observed(r).status = "observed"
        /\ Observed(r).disposition = r.disposition /\ Observed(r).entry = r.entry
    BY DEF Observed, VerifyType, Statuses, Refusals
  <1>2. /\ RefusedWith(r, code) \in VerifyType /\ RefusedWith(r, code).status = r.status
        /\ RefusedWith(r, code).disposition = r.disposition /\ RefusedWith(r, code).entry = r.entry
    BY DEF RefusedWith, VerifyType
  <1>3. \A w \in Dispositions : \E v \in VerifyType :
          v = Voided(r, w) /\ v.status = "voided" /\ v.entry = r.entry
    <2> TAKE w \in Dispositions
    <2>1. Voided(r, w) \in VerifyType
      BY DEF Voided, VerifyType, Statuses
    <2>2. WITNESS Voided(r, w) \in VerifyType
    <2>3. QED
      BY DEF Voided, VerifyType, Statuses
  <1>4. ASSUME NEW v \in VerifyType
        PROVE  \E w \in VerifyType : /\ w = [v EXCEPT !.followUp = TRUE]
                                     /\ w.status = v.status /\ w.entry = v.entry
    <2>1. [v EXCEPT !.followUp = TRUE] \in VerifyType
      BY DEF VerifyType
    <2>2. WITNESS [v EXCEPT !.followUp = TRUE] \in VerifyType
    <2>3. QED
      BY DEF VerifyType
  <1>5. CascadeVoid(r) \in VerifyType /\ CascadeVoid(r).status = "voided" /\ CascadeVoid(r).entry = r.entry
    <2>1. PICK v \in VerifyType : /\ v = Voided(r, "deferral_cascade")
                                  /\ v.status = "voided" /\ v.entry = r.entry
      BY <1>3 DEF Dispositions
    <2>2. PICK w \in VerifyType : /\ w = [v EXCEPT !.followUp = TRUE]
                                  /\ w.status = v.status /\ w.entry = v.entry
      BY <1>4
    <2>3. w = CascadeVoid(r)
      BY <2>1, <2>2 DEF CascadeVoid
    <2>4. QED
      BY <2>1, <2>2, <2>3
  <1>6. Deferred(r) \in VerifyType /\ Deferred(r).status = "voided" /\ Deferred(r).entry = r.entry
    <2>1. PICK v \in VerifyType : /\ v = Voided(r, "deferred_by_controller")
                                  /\ v.status = "voided" /\ v.entry = r.entry
      BY <1>3 DEF Dispositions
    <2>2. PICK w \in VerifyType : /\ w = [v EXCEPT !.followUp = TRUE]
                                  /\ w.status = v.status /\ w.entry = v.entry
      BY <1>4
    <2>3. w = Deferred(r)
      BY <2>1, <2>2 DEF Deferred
    <2>4. QED
      BY <2>1, <2>2, <2>3
  <1>7. QED
    BY <1>1, <1>2, <1>5, <1>6

(* The provenance entry is clocked, intended or refused. *)
LEMMA ProvenanceAttemptStep ==
  ASSUME NEW g, NEW evidence, GateInv(g, evidence), NEW r \in ProvenanceType,
         r.status = g.provenance.status, r.disposition = g.provenance.disposition,
         r.entry = g.provenance.entry,
         NEW h, h = WithProvenance(g, r), GateInvariantHolds(h)
  PROVE  GateInv(h, evidence) /\ h.provenance = r
         /\ h.unitIds = g.unitIds /\ h.uncommitted = g.uncommitted
  <1>1. /\ Typed(h) /\ SameTables(g, h) /\ h.unitIds = g.unitIds /\ h.carried = g.carried
        /\ h.uncommitted = g.uncommitted /\ h.promises = g.promises /\ h.verify = g.verify
        /\ h.provenance = r
    BY WithProvenanceFields DEF GateInv
  <1>2. UnitProjectionStageSettled(h) = UnitProjectionStageSettled(g)
    BY <1>1, SettledFrame
  <1>3. ProvenanceInv(h)
    BY <1>1, <1>2 DEF GateInv, ProvenanceInv, ProvenanceKnown
  <1>4. PromisesInv(h, evidence)
    BY <1>1 DEF GateInv, PromisesInv
  <1>5. \A s \in Stages : StageOpen(h, s) = StageOpen(g, s)
    BY <1>1 DEF StageOpen
  <1>6. QED
    BY <1>1, <1>3, <1>4, <1>5, GateStepKeeps

LEMMA ProvenanceCommittedStep ==
  ASSUME NEW g, NEW evidence, GateInv(g, evidence), g.provenance.entry, Pending(g.provenance),
         NEW h, h = ProvenanceCommitted(g), GateInvariantHolds(h)
  PROVE  /\ GateInv(h, evidence) /\ h.unitIds = g.unitIds /\ h.uncommitted = {}
         /\ h.provenance.disposition = g.provenance.disposition
  <1>1. PICK p, v : p = Observed(g.provenance) /\ v = [g.verify EXCEPT !.entry = TRUE]
    OBVIOUS
  <1>2. Typed(g) /\ g.provenance \in ProvenanceType /\ g.verify \in VerifyType
    BY GateFields DEF GateInv
  <1>3. /\ p \in ProvenanceType /\ p.status = "observed" /\ p.entry = g.provenance.entry
        /\ p.disposition = g.provenance.disposition
    BY <1>1, <1>2 DEF Observed, ProvenanceType, Statuses, Refusals
  <1>4. v \in VerifyType /\ v.status = g.verify.status /\ v.entry = TRUE
    BY <1>1, <1>2 DEF VerifyType
  <1>5. h = [g EXCEPT !.provenance = p, !.verify = v, !.uncommitted = {}]
    BY <1>1 DEF ProvenanceCommitted
  <1>6. /\ Typed(h) /\ SameTables(g, h) /\ h.unitIds = g.unitIds /\ h.carried = g.carried
        /\ h.uncommitted = {} /\ h.promises = g.promises /\ h.verify = v /\ h.provenance = p
    BY <1>2, <1>3, <1>4, <1>5 DEF Typed, GateType, SameTables
  <1>7. /\ g.provenance.disposition = "none" /\ ~g.verify.entry /\ g.verify.status # "observed"
        /\ g.provenance.status = "pending" /\ g.verify.status # "voided"
    BY DEF GateInv, ProvenanceInv, ProvenanceKnown, Pending
  <1>8. ProvenanceInv(h)
    BY <1>3, <1>4, <1>6, <1>7 DEF ProvenanceInv, ProvenanceKnown
  <1>9. PromisesInv(h, evidence)
    BY <1>4, <1>6 DEF GateInv, PromisesInv
  <1>10. \A s \in Stages : StageOpen(g, s) => StageOpen(h, s)
    BY <1>6, <1>7 DEF StageOpen
  <1>11. QED
    BY <1>3, <1>6, <1>8, <1>9, <1>10, GateStepKeeps

LEMMA VerifyRefusedStep ==
  ASSUME NEW g, NEW evidence, GateInv(g, evidence), Pending(g.verify),
         NEW h, h = WithVerify(g, RefusedWith(g.verify, "verification_failed")), GateInvariantHolds(h)
  PROVE  GateInv(h, evidence) /\ h.unitIds = g.unitIds /\ h.uncommitted = g.uncommitted
         /\ h.provenance = g.provenance
  <1>1. PICK v : v = RefusedWith(g.verify, "verification_failed")
    OBVIOUS
  <1>2. Typed(g) /\ g.verify \in VerifyType /\ "verification_failed" \in Refusals
    BY GateFields DEF GateInv, Refusals
  <1>3. v \in VerifyType /\ v.status = g.verify.status /\ v.entry = g.verify.entry
    BY <1>1, <1>2, VerifyOps
  <1>4. /\ Typed(h) /\ SameTables(g, h) /\ h.unitIds = g.unitIds /\ h.carried = g.carried
        /\ h.uncommitted = g.uncommitted /\ h.promises = g.promises
        /\ h.provenance = g.provenance /\ h.verify = v
    BY <1>1, <1>2, <1>3, WithVerifyFields
  <1>5. UnitProjectionStageSettled(h) = UnitProjectionStageSettled(g)
    BY <1>4, SettledFrame
  <1>6. ProvenanceInv(h) /\ PromisesInv(h, evidence)
    BY <1>3, <1>4, <1>5 DEF GateInv, ProvenanceInv, ProvenanceKnown, PromisesInv
  <1>7. \A s \in Stages : StageOpen(h, s) = StageOpen(g, s)
    BY <1>3, <1>4 DEF StageOpen
  <1>8. QED
    BY <1>4, <1>6, <1>7, GateStepKeeps

LEMMA VerifiedStep ==
  ASSUME NEW g, NEW evidence, GateInv(g, evidence), g.verify.entry, Pending(g.verify),
         NEW h, h = Verified(g), GateInvariantHolds(h)
  PROVE  GateInv(h, evidence) /\ h.unitIds = g.unitIds /\ h.uncommitted = g.uncommitted
         /\ h.provenance = g.provenance
  <1>1. PICK v : v = Observed(g.verify)
    OBVIOUS
  <1>2. /\ Typed(g) /\ g.verify \in VerifyType /\ "none" \in Refusals
        /\ \A s \in Stages : StageInv(g, s) /\ StageClosed(g, s)
    BY GateFields DEF GateInv, Refusals
  <1>3. v \in VerifyType /\ v.status = "observed" /\ v.entry = g.verify.entry
    BY <1>1, <1>2, VerifyOps
  <1>4. PICK f : f = WithVerify(g, v)
    OBVIOUS
  <1>5. PICK S \in SUBSET Targets : S = {t \in Targets : Stage(t) = "gate"}
    OBVIOUS
  <1>6. h = AttachSource(f, S)
    BY <1>1, <1>4, <1>5 DEF Verified, WithVerify
  <1>7. /\ Typed(f) /\ SameTables(g, f) /\ f.unitIds = g.unitIds /\ f.carried = g.carried
        /\ f.uncommitted = g.uncommitted /\ f.promises = g.promises
        /\ f.provenance = g.provenance /\ f.verify = v
    BY <1>2, <1>3, <1>4, WithVerifyFields
  <1>8. PICK due : due = {t \in S \cap DOMAIN f.promises : Pending(f.promises[t])}
    OBVIOUS
  <1>9. /\ Typed(h)
        /\ h.unitIds = f.unitIds /\ h.carried = f.carried /\ h.uncommitted = f.uncommitted
        /\ h.provenance = f.provenance /\ h.verify = f.verify
        /\ DOMAIN h.promises = DOMAIN f.promises \ due
        /\ \A t \in DOMAIN h.promises : h.promises[t] = f.promises[t]
    BY <1>6, <1>7, <1>8, AttachFields
  <1>10. ~StageOpen(g, "gate")
    BY DEF StageOpen, Pending
  <1>11. \A s \in Stages : SameStage(g, f, s) /\ StageInv(f, s)
    BY <1>2, <1>7, SameTablesStages, SameStageInv
  <1>12. /\ StageProbes(f, "gate") = {}
         /\ \A t \in StageTargets(f, "gate") : Pending(f.targets[t]) /\ f.resolutions[t] = Fresh
    BY <1>2, <1>7, <1>10 DEF StageClosed, Stages, SameTables, StageProbes, StageTargets
  <1>13. StageInv(h, "gate") /\ OtherStages(f, h, "gate")
    BY <1>5, <1>6, <1>7, <1>11, <1>12, AttachKeeps DEF Stages
  <1>14. \A s \in Stages : StageInv(h, s)
    BY <1>7, <1>9, <1>11, <1>13, SameStageInv DEF OtherStages
  <1>15. g.provenance.entry /\ g.unitIds = {} /\ g.provenance.status = "observed"
    BY DEF GateInv, ProvenanceInv, ProvenanceKnown, GateInvariantHolds, ProvenanceIsCoherent,
           UnitProjectionStageSettled
  <1>16. ProvenanceInv(h)
    BY <1>3, <1>7, <1>9, <1>15 DEF GateInv, ProvenanceInv, ProvenanceKnown, Pending
  <1>17. PromisesInv(h, evidence)
    <2> SUFFICES ASSUME NEW t \in DOMAIN h.promises
                 PROVE  /\ h.promises[t].status # "observed"
                        /\ Stage(t) # "gate"
                        /\ Stage(t) = "unit" /\ Pending(h.promises[t]) =>
                             Origin[t] \in h.unitIds /\ evidence[Origin[t]] = "none"
      BY DEF PromisesInv
    <2>1. t \in DOMAIN g.promises /\ h.promises[t] = g.promises[t] /\ t \notin due /\ t \in Targets
      BY <1>2, <1>7, <1>9, GateFields
    <2>2. ASSUME Stage(t) = "gate"
          PROVE  FALSE
      <3>1. ~Pending(g.promises[t])
        BY <1>5, <1>7, <1>8, <2>1, <2>2
      <3>2. g.promises[t].status # "observed" /\ g.promises[t].status # "voided"
        BY <2>1, <2>2 DEF GateInv, PromisesInv, Pending
      <3>3. g.promises[t] \in RecordType
        BY <1>2, <2>1, GateFields
      <3>4. QED
        BY <3>1, <3>2, <3>3 DEF RecordType, Pending
    <2>3. QED
      BY <1>7, <1>9, <2>1, <2>2 DEF GateInv, PromisesInv
  <1>18. \A s \in Stages : StageOpen(h, s)
    BY <1>3, <1>7, <1>9, <1>15 DEF StageOpen
  <1>19. GateInv(h, evidence)
    BY <1>9, <1>14, <1>16, <1>17, <1>18 DEF GateInv, StageClosed
  <1>20. QED
    BY <1>7, <1>9, <1>19

(* A deferred provenance takes the verification and the gate's promises    *)
(* with it.                                                                *)
LEMMA DeferProvenanceStep ==
  ASSUME NEW g, NEW evidence, GateInv(g, evidence), g.provenance.entry, Refused(g.provenance),
         NEW h, h = DeferProvenance(g), GateInvariantHolds(h),
         NEW entry, InFlight(g, entry)
  PROVE  /\ GateInv(h, evidence) /\ InFlight(h, entry)
         /\ h.unitIds = g.unitIds /\ h.uncommitted = g.uncommitted
         /\ h.provenance.disposition # "handoff_boundary"
  <1>1. PICK p, v : p = Deferred(g.provenance) /\ v = CascadeVoid(g.verify)
    OBVIOUS
  <1>2. /\ Typed(g) /\ g.provenance \in ProvenanceType /\ g.verify \in VerifyType
        /\ "none" \in Refusals /\ "none" \in Dispositions
    BY GateFields DEF GateInv, Refusals, Dispositions
  <1>3. /\ p \in ProvenanceType /\ p.status = "voided" /\ p.entry = g.provenance.entry
        /\ p.disposition = "deferred_by_controller"
    BY <1>1, <1>2, ProvenanceOps
  <1>4. v \in VerifyType /\ v.status = "voided" /\ v.entry = g.verify.entry
    BY <1>1, <1>2, VerifyOps
  <1>5. PICK f : f = [g EXCEPT !.provenance = p, !.verify = v]
    OBVIOUS
  <1>6. h = CascadeGatePromises(f)
    BY <1>1, <1>5 DEF DeferProvenance
  <1>7. /\ Typed(f) /\ SameTables(g, f) /\ f.unitIds = g.unitIds /\ f.carried = g.carried
        /\ f.uncommitted = g.uncommitted /\ f.promises = g.promises
        /\ f.provenance = p /\ f.verify = v
    BY <1>2, <1>3, <1>4, <1>5 DEF Typed, GateType, SameTables
  <1>8. /\ Typed(h) /\ SameTables(f, h) /\ GatePromisesVoided(f, h)
        /\ h.unitIds = f.unitIds /\ h.uncommitted = f.uncommitted /\ h.carried = f.carried
        /\ h.provenance = f.provenance /\ h.verify = f.verify
    BY <1>6, <1>7, CascadeFields
  <1>9. SameTables(g, h)
    BY <1>7, <1>8 DEF SameTables
  <1>10. /\ g.provenance.status = "pending" /\ g.provenance.refusal # "none"
         /\ ~g.verify.entry
    BY DEF GateInv, ProvenanceInv, ProvenanceKnown, Refused
  <1>11. ProvenanceInv(h)
    BY <1>3, <1>4, <1>7, <1>8, <1>10 DEF ProvenanceInv, ProvenanceKnown
  <1>12. PromisesInv(h, evidence)
    <2> SUFFICES ASSUME NEW t \in DOMAIN h.promises
                 PROVE  /\ h.promises[t].status # "observed"
                        /\ Stage(t) = "gate" => h.promises[t].status = "voided"
                        /\ Stage(t) = "unit" /\ Pending(h.promises[t]) =>
                             Origin[t] \in h.unitIds /\ evidence[Origin[t]] = "none"
      BY <1>4, <1>7, <1>8 DEF PromisesInv
    <2>1. CASE Stage(t) = "gate"
      BY <1>8, <2>1 DEF GatePromisesVoided
    <2>2. CASE Stage(t) # "gate"
      BY <1>7, <1>8, <2>2 DEF GatePromisesVoided, GateInv, PromisesInv
    <2>3. QED
      BY <2>1, <2>2
  <1>13. \A s \in Stages : StageOpen(g, s) => StageOpen(h, s)
    BY <1>7, <1>8, <1>10 DEF StageOpen
  <1>14. GateInv(h, evidence)
    BY <1>8, <1>9, <1>11, <1>12, <1>13, GateStepKeeps
  <1>15. entry # <<"provenance">> /\ entry # <<"verify">>
    BY <1>10 DEF InFlight, None
  <1>16. InFlight(h, entry)
    BY <1>9, <1>13, <1>15, SameTablesFlight
  <1>17. QED
    BY <1>3, <1>7, <1>8, <1>14, <1>16

LEMMA DeferVerifyStep ==
  ASSUME NEW g, NEW evidence, GateInv(g, evidence), g.verify.entry, Refused(g.verify),
         NEW h, h = DeferVerify(g), GateInvariantHolds(h),
         NEW entry, InFlight(g, entry)
  PROVE  /\ GateInv(h, evidence) /\ InFlight(h, entry)
         /\ h.unitIds = g.unitIds /\ h.uncommitted = g.uncommitted
         /\ h.provenance = g.provenance
  <1>1. PICK v : v = Deferred(g.verify)
    OBVIOUS
  <1>2. /\ Typed(g) /\ g.verify \in VerifyType /\ "none" \in Refusals
    BY GateFields DEF GateInv, Refusals
  <1>4. v \in VerifyType /\ v.status = "voided" /\ v.entry = g.verify.entry
    BY <1>1, <1>2, VerifyOps
  <1>5. PICK f : f = WithVerify(g, v)
    OBVIOUS
  <1>6. h = CascadeGatePromises(f)
    BY <1>1, <1>5 DEF DeferVerify, WithVerify
  <1>7. /\ Typed(f) /\ SameTables(g, f) /\ f.unitIds = g.unitIds /\ f.carried = g.carried
        /\ f.uncommitted = g.uncommitted /\ f.promises = g.promises
        /\ f.provenance = g.provenance /\ f.verify = v
    BY <1>2, <1>4, <1>5, WithVerifyFields
  <1>8. /\ Typed(h) /\ SameTables(f, h) /\ GatePromisesVoided(f, h)
        /\ h.unitIds = f.unitIds /\ h.uncommitted = f.uncommitted /\ h.carried = f.carried
        /\ h.provenance = f.provenance /\ h.verify = f.verify
    BY <1>6, <1>7, CascadeFields
  <1>9. SameTables(g, h)
    BY <1>7, <1>8 DEF SameTables
  <1>10. /\ g.verify.status = "pending" /\ g.verify.refusal # "none"
         /\ g.provenance.status = "observed"
    BY DEF GateInv, ProvenanceInv, ProvenanceKnown, Refused
  <1>11. ProvenanceInv(h)
    BY <1>4, <1>7, <1>8, <1>10 DEF ProvenanceInv, ProvenanceKnown, GateInv
  <1>12. PromisesInv(h, evidence)
    <2> SUFFICES ASSUME NEW t \in DOMAIN h.promises
                 PROVE  /\ h.promises[t].status # "observed"
                        /\ Stage(t) = "gate" => h.promises[t].status = "voided"
                        /\ Stage(t) = "unit" /\ Pending(h.promises[t]) =>
                             Origin[t] \in h.unitIds /\ evidence[Origin[t]] = "none"
      BY <1>4, <1>7, <1>8 DEF PromisesInv
    <2>1. CASE Stage(t) = "gate"
      BY <1>8, <2>1 DEF GatePromisesVoided
    <2>2. CASE Stage(t) # "gate"
      BY <1>7, <1>8, <2>2 DEF GatePromisesVoided, GateInv, PromisesInv
    <2>3. QED
      BY <2>1, <2>2
  <1>13. \A s \in Stages : StageOpen(g, s) => StageOpen(h, s)
    BY <1>7, <1>8, <1>10 DEF StageOpen
  <1>14. GateInv(h, evidence)
    BY <1>8, <1>9, <1>11, <1>12, <1>13, GateStepKeeps
  <1>15. entry # <<"provenance">> /\ entry # <<"verify">>
    BY <1>10 DEF InFlight, None, Pending
  <1>16. InFlight(h, entry)
    BY <1>9, <1>13, <1>15, SameTablesFlight
  <1>17. QED
    BY <1>7, <1>8, <1>14, <1>16

-----------------------------------------------------------------------------
(* The wave's lifecycle *)

LEMMA TerminalStep ==
  ASSUME NEW g, NEW evidence, GateInv(g, evidence), NEW u \in g.unitIds, NEW why \in Dispositions,
         NEW h, h = VoidUnitTargets(g, u, why), GateInvariantHolds(h),
         NEW later, \A v \in Units : v # u => later[v] = evidence[v]
  PROVE  /\ GateInv(h, later) /\ h.unitIds = g.unitIds /\ h.uncommitted = g.uncommitted
         /\ h.provenance = g.provenance
  <1>1. Typed(g) /\ u \in Units
    BY GateFields DEF GateInv
  <1>2. /\ Typed(h) /\ SameTables(g, h)
        /\ h.unitIds = g.unitIds /\ h.uncommitted = g.uncommitted /\ h.carried = g.carried
        /\ h.provenance = g.provenance /\ h.verify = g.verify
        /\ DOMAIN h.promises = DOMAIN g.promises
        /\ \A t \in DOMAIN g.promises :
              IF Origin[t] = u THEN h.promises[t].status = "voided"
              ELSE h.promises[t] = g.promises[t]
    BY <1>1, UnitVoidFields
  <1>3. ProvenanceInv(h)
    BY <1>2 DEF GateInv, ProvenanceInv, ProvenanceKnown, UnitProjectionStageSettled
  <1>4. PromisesInv(h, later)
    <2> SUFFICES ASSUME NEW t \in DOMAIN h.promises
                 PROVE  /\ h.promises[t].status # "observed"
                        /\ Stage(t) = "gate" =>
                             /\ h.verify.status # "observed"
                             /\ h.verify.status = "voided" <=> h.promises[t].status = "voided"
                        /\ Stage(t) = "unit" /\ Pending(h.promises[t]) =>
                             Origin[t] \in h.unitIds /\ later[Origin[t]] = "none"
      BY DEF PromisesInv
    <2>1. CASE Origin[t] = u
      <3>1. Stage(t) = "unit"
        BY <1>1, <2>1, GateAssumption DEF Stage
      <3>2. h.promises[t].status = "voided"
        BY <1>2, <2>1
      <3>3. QED
        BY <3>1, <3>2 DEF Pending
    <2>2. CASE Origin[t] # u
      <3>1. h.promises[t] = g.promises[t] /\ t \in DOMAIN g.promises
        BY <1>2, <2>2
      <3>2. Origin[t] \in g.unitIds => later[Origin[t]] = evidence[Origin[t]]
        BY <1>1, <2>2, GateFields
      <3>3. QED
        BY <1>2, <3>1, <3>2 DEF GateInv, PromisesInv
    <2>3. QED
      BY <2>1, <2>2
  <1>5. \A s \in Stages : StageOpen(g, s) => StageOpen(h, s)
    BY <1>2 DEF StageOpen
  <1>6. QED
    BY <1>2, <1>3, <1>4, <1>5, GateStepKeeps

LEMMA IntegratedStep ==
  ASSUME NEW g, NEW evidence, GateInv(g, evidence), NEW u \in g.unitIds,
         NEW S \in SUBSET Targets, \A t \in Targets : t \in S <=> Origin[t] = u,
         NEW h, h = AttachSource(g, S), GateInvariantHolds(h),
         NEW later, \A v \in Units : v # u => later[v] = evidence[v]
  PROVE  /\ GateInv(h, later) /\ h.unitIds = g.unitIds /\ h.uncommitted = g.uncommitted
         /\ h.provenance = g.provenance
  <1>1. Typed(g) /\ u \in Units /\ \A s \in Stages : StageInv(g, s) /\ StageClosed(g, s)
    BY GateFields DEF GateInv
  <1>4. \A t \in S : Stage(t) = "unit"
    BY <1>1, GateAssumption DEF Stage
  <1>5. \A s \in Stages : ~StageOpen(g, s)
    BY OpenWaveIsQuiet
  <1>6. /\ StageProbes(g, "unit") = {}
        /\ \A t \in StageTargets(g, "unit") : Pending(g.targets[t]) /\ g.resolutions[t] = Fresh
    BY <1>1, <1>5 DEF StageClosed, Stages
  <1>7. /\ StageInv(h, "unit") /\ OtherStages(g, h, "unit")
        /\ StageProbes(h, "unit") = {}
        /\ \A t \in StageTargets(h, "unit") : Pending(h.targets[t]) /\ h.resolutions[t] = Fresh
    BY <1>1, <1>4, <1>6, AttachKeeps DEF Stages
  <1>8. PICK due : due = {t \in S \cap DOMAIN g.promises : Pending(g.promises[t])}
    OBVIOUS
  <1>9. /\ Typed(h)
        /\ h.unitIds = g.unitIds /\ h.carried = g.carried /\ h.uncommitted = g.uncommitted
        /\ h.provenance = g.provenance /\ h.verify = g.verify
        /\ h.items = g.items /\ h.probes = g.probes
        /\ due \cap DOMAIN g.targets = {}
        /\ DOMAIN h.promises = DOMAIN g.promises \ due
        /\ \A t \in DOMAIN h.promises : h.promises[t] = g.promises[t]
        /\ DOMAIN h.targets = DOMAIN g.targets \cup due
        /\ \A t \in DOMAIN g.targets :
              h.targets[t] = g.targets[t] /\ h.resolutions[t] = g.resolutions[t]
    BY <1>1, <1>8, AttachFields
  <1>10. \A s \in Stages : StageInv(h, s)
    BY <1>1, <1>7, <1>9, SameStageInv DEF OtherStages
  <1>11. \A s \in Stages : StageClosed(h, s)
    <2> SUFFICES ASSUME NEW s \in Stages
                 PROVE  /\ StageProbes(h, s) = {}
                        /\ \A t \in StageTargets(h, s) : Pending(h.targets[t]) /\ h.resolutions[t] = Fresh
      BY DEF StageClosed
    <2>1. CASE s = "unit"
      BY <1>7, <2>1
    <2>2. CASE s # "unit"
      <3>1. StageTargets(h, s) = StageTargets(g, s) /\ StageProbes(h, s) = StageProbes(g, s)
        BY <1>7, <2>2 DEF OtherStages, SameStage
      <3>2. \A t \in StageTargets(g, s) : Pending(g.targets[t]) /\ g.resolutions[t] = Fresh
        BY <1>1, <1>5 DEF StageClosed
      <3>3. StageProbes(g, s) = {}
        BY <1>1, <1>5 DEF StageClosed
      <3>4. QED
        BY <1>9, <3>1, <3>2, <3>3 DEF StageTargets
    <2>3. QED
      BY <2>1, <2>2
  <1>12. ProvenanceInv(h)
    BY <1>9 DEF GateInv, ProvenanceInv, ProvenanceKnown, UnitProjectionStageSettled
  <1>13. PromisesInv(h, later)
    <2> SUFFICES ASSUME NEW t \in DOMAIN h.promises
                 PROVE  /\ h.promises[t].status # "observed"
                        /\ Stage(t) = "gate" =>
                             /\ h.verify.status # "observed"
                             /\ h.verify.status = "voided" <=> h.promises[t].status = "voided"
                        /\ Stage(t) = "unit" /\ Pending(h.promises[t]) =>
                             Origin[t] \in h.unitIds /\ later[Origin[t]] = "none"
      BY DEF PromisesInv
    <2>1. t \in DOMAIN g.promises /\ h.promises[t] = g.promises[t] /\ t \notin due /\ t \in Targets
      BY <1>1, <1>9, GateFields
    <2>2. Pending(h.promises[t]) => Origin[t] # u
      BY <1>8, <2>1
    <2>3. Origin[t] \in g.unitIds /\ Origin[t] # u => later[Origin[t]] = evidence[Origin[t]]
      BY <1>1, GateFields
    <2>4. QED
      BY <1>9, <2>1, <2>2, <2>3 DEF GateInv, PromisesInv
  <1>14. QED
    BY <1>9, <1>10, <1>11, <1>12, <1>13 DEF GateInv

LEMMA ReleasedStep ==
  ASSUME NEW g, GateInv(g, outcome), NEW u \in g.unitIds, outcome[u] # "none",
         NEW h, h = MaybeCreateProvenance(CloseUnitAfterRelease(g, u)), GateInvariantHolds(h)
  PROVE  /\ GateInv(h, outcome) /\ h.unitIds = g.unitIds \ {u}
         /\ h.uncommitted = IF outcome[u] = "landed" THEN g.uncommitted \cup {u} ELSE g.uncommitted
         /\ h.provenance.disposition = "handoff_boundary" =>
              g.provenance.disposition = "handoff_boundary"
  <1>1. Typed(g) /\ u \in Units
    BY GateFields DEF GateInv
  <1>2. PICK f : f = CloseUnitAfterRelease(g, u)
    OBVIOUS
  <1>3. PICK owed \in SUBSET Units :
          owed = IF outcome[u] = "landed" THEN g.uncommitted \cup {u} ELSE g.uncommitted
    BY <1>1, GateFields
  <1>4. f = [g EXCEPT !.unitIds = g.unitIds \ {u}, !.uncommitted = owed]
    BY <1>2, <1>3 DEF CloseUnitAfterRelease
  <1>5. /\ Typed(f) /\ SameTables(g, f) /\ f.unitIds = g.unitIds \ {u} /\ f.carried = g.carried
        /\ f.uncommitted = owed /\ f.promises = g.promises
        /\ f.provenance = g.provenance /\ f.verify = g.verify
    BY <1>1, <1>3, <1>4 DEF Typed, GateType, SameTables
  <1>6. g.uncommitted \subseteq owed
    BY <1>3
  <1>7. ProvenanceKnown(f)
    BY <1>5, <1>6 DEF GateInv, ProvenanceInv, ProvenanceKnown
  <1>8. PromisesInv(f, outcome)
    BY <1>5 DEF GateInv, PromisesInv
  <1>9. /\ Typed(h) /\ SameTables(f, h)
        /\ h.unitIds = f.unitIds /\ h.uncommitted = f.uncommitted
        /\ ProvenanceInv(h) /\ PromisesInv(h, outcome)
        /\ h.provenance.disposition = "handoff_boundary" =>
              f.provenance.disposition = "handoff_boundary"
    BY <1>2, <1>5, <1>7, <1>8, MaybeCreateKeeps
  <1>10. \A s \in Stages : ~StageOpen(g, s)
    BY OpenWaveIsQuiet
  <1>11. SameTables(g, h)
    BY <1>5, <1>9 DEF SameTables
  <1>12. GateInv(h, outcome)
    BY <1>9, <1>10, <1>11, GateStepKeeps
  <1>13. QED
    BY <1>3, <1>5, <1>9, <1>12

NullProvenance == [status |-> "pending", disposition |-> "none", followUp |-> FALSE,
                   refusal |-> "none", entry |-> FALSE, units |-> {}, clocked |-> FALSE]
NullVerify == [status |-> "pending", disposition |-> "none", followUp |-> FALSE,
               refusal |-> "none", entry |-> FALSE]

(* What a new wave's gate is. *)
LEMMA NewGateFields ==
  ASSUME handoff \in BOOLEAN, NEW w \in DOMAIN WaveUnits, NEW carried \in SUBSET Units,
         NEW h, h = NewGate(w, carried)
  PROVE  /\ Typed(h)
         /\ h.unitIds = WaveUnits[w] /\ h.unitIds # {}
         /\ h.carried = carried /\ h.uncommitted = carried
         /\ h.targets = <<>> /\ h.resolutions = <<>> /\ h.items = <<>> /\ h.probes = <<>>
         /\ h.provenance = IF handoff THEN Voided(NullProvenance, "handoff_boundary") ELSE NullProvenance
         /\ h.verify = IF handoff THEN Voided(NullVerify, "handoff_boundary") ELSE NullVerify
         /\ \A t \in DOMAIN h.promises :
              /\ t \in Targets /\ Origin[t] \in WaveUnits[w] \cup {NoUnit}
              /\ h.promises[t] = IF Stage(t) = "gate" /\ handoff
                                 THEN Voided(Fresh, "handoff_boundary") ELSE Fresh
  <1>1. WaveUnits[w] \in SUBSET Units /\ WaveUnits[w] # {}
    BY GateAssumption DEF Range
  <1>2. PICK promised \in SUBSET Targets :
          promised = {t \in Targets : Origin[t] \in WaveUnits[w] \cup {NoUnit}}
    OBVIOUS
  <1>3. PICK dropped : dropped = Voided(Fresh, "handoff_boundary")
    OBVIOUS
  <1>4. dropped \in RecordType /\ Fresh \in RecordType
    BY <1>3, FreshTyped, RecordOps DEF Dispositions, Refusals
  <1>5. PICK ps : ps = [t \in promised |-> IF Stage(t) = "gate" /\ handoff THEN dropped ELSE Fresh]
    OBVIOUS
  <1>6. ps \in Partial(Targets, RecordType)
    <2>1. ps \in [promised -> RecordType]
      BY <1>4, <1>5
    <2>2. QED
      BY <2>1, PartialIntro
  <1>7. PICK p : p = IF handoff THEN Voided(NullProvenance, "handoff_boundary") ELSE NullProvenance
    OBVIOUS
  <1>8. p \in ProvenanceType
    BY <1>7 DEF NullProvenance, Voided, ProvenanceType, Statuses, Dispositions, Refusals
  <1>9. PICK v : v = IF handoff THEN Voided(NullVerify, "handoff_boundary") ELSE NullVerify
    OBVIOUS
  <1>10. v \in VerifyType
    BY <1>9 DEF NullVerify, Voided, VerifyType, Statuses, Dispositions, Refusals
  <1>11. /\ <<>> \in Partial(Targets, RecordType) /\ <<>> \in Partial(Items, ItemType)
         /\ <<>> \in Partial(Stages \X Destinations, RecordType)
         /\ DOMAIN <<>> = {}
    <2>1. DOMAIN <<>> = {} /\ \A S : <<>> \in [{} -> S]
      OBVIOUS
    <2>2. \A D, S : <<>> \in Partial(D, S)
      BY <2>1 DEF Partial
    <2>3. QED
      BY <2>1, <2>2
  <1>12. h = [unitIds |-> WaveUnits[w], promises |-> ps, targets |-> <<>>, resolutions |-> <<>>,
              items |-> <<>>, probes |-> <<>>, provenance |-> p, verify |-> v,
              carried |-> carried, uncommitted |-> carried]
    <2>1. ps = [t \in promised |->
                  IF Stage(t) = "gate"
                  THEN (IF handoff THEN Voided(Fresh, "handoff_boundary") ELSE Fresh) ELSE Fresh]
      BY <1>3, <1>5
    <2>2. QED
      BY <1>2, <1>7, <1>9, <2>1 DEF NewGate, NullProvenance, NullVerify
  <1>13. /\ h.unitIds = WaveUnits[w] /\ h.promises = ps /\ h.carried = carried
         /\ h.uncommitted = carried /\ h.targets = <<>> /\ h.resolutions = <<>>
         /\ h.items = <<>> /\ h.probes = <<>> /\ h.provenance = p /\ h.verify = v
    BY <1>12
  <1>14. h \in GateType
    BY <1>1, <1>6, <1>8, <1>10, <1>11, <1>12 DEF GateType
  <1>15. Typed(h)
    BY <1>11, <1>13, <1>14 DEF Typed
  <1>16. \A t \in DOMAIN h.promises :
           /\ t \in Targets /\ Origin[t] \in WaveUnits[w] \cup {NoUnit}
           /\ h.promises[t] = IF Stage(t) = "gate" /\ handoff
                              THEN Voided(Fresh, "handoff_boundary") ELSE Fresh
    BY <1>2, <1>3, <1>5, <1>13
  <1>17. QED
    BY <1>1, <1>7, <1>9, <1>13, <1>15, <1>16

(* Nothing of a new gate has begun. *)
LEMMA NewGateKeeps ==
  ASSUME handoff \in BOOLEAN, NEW w \in DOMAIN WaveUnits, NEW carried \in SUBSET Units,
         NEW evidence, \A u \in WaveUnits[w] : evidence[u] = "none",
         NEW h, h = NewGate(w, carried), GateInvariantHolds(h)
  PROVE  /\ GateInv(h, evidence)
         /\ h.unitIds = WaveUnits[w] /\ h.uncommitted = carried
         /\ h.provenance.disposition = "handoff_boundary" => handoff
  <1>1. /\ Typed(h)
        /\ h.unitIds = WaveUnits[w] /\ h.unitIds # {}
        /\ h.carried = carried /\ h.uncommitted = carried
        /\ h.targets = <<>> /\ h.resolutions = <<>> /\ h.items = <<>> /\ h.probes = <<>>
        /\ h.provenance = IF handoff THEN Voided(NullProvenance, "handoff_boundary") ELSE NullProvenance
        /\ h.verify = IF handoff THEN Voided(NullVerify, "handoff_boundary") ELSE NullVerify
        /\ \A t \in DOMAIN h.promises :
              /\ t \in Targets /\ Origin[t] \in WaveUnits[w] \cup {NoUnit}
              /\ h.promises[t] = IF Stage(t) = "gate" /\ handoff
                                 THEN Voided(Fresh, "handoff_boundary") ELSE Fresh
    BY NewGateFields
  <1>2. \A s : StageItems(h, s) = {} /\ StageProbes(h, s) = {} /\ StageTargets(h, s) = {}
    <2>1. DOMAIN h.items = {} /\ DOMAIN h.probes = {} /\ DOMAIN h.targets = {}
      BY <1>1
    <2>2. QED
      BY <2>1 DEF StageItems, StageProbes, StageTargets
  <1>3. \A s \in Stages : StageInv(h, s) /\ StageClosed(h, s)
    BY <1>2, UntouchedStage DEF StageClosed
  <1>4. /\ h.provenance.entry = FALSE /\ h.verify.entry = FALSE
        /\ IF handoff
           THEN /\ h.provenance.status = "voided" /\ h.verify.status = "voided"
                /\ h.provenance.disposition = "handoff_boundary"
           ELSE /\ h.provenance.status = "pending" /\ h.verify.status = "pending"
                /\ h.provenance.disposition = "none"
    BY <1>1 DEF Voided, NullProvenance, NullVerify
  <1>5. ProvenanceInv(h)
    BY <1>1, <1>4 DEF ProvenanceInv, ProvenanceKnown, UnitProjectionStageSettled
  <1>6. PromisesInv(h, evidence)
    <2> SUFFICES ASSUME NEW t \in DOMAIN h.promises
                 PROVE  /\ h.promises[t].status # "observed"
                        /\ Stage(t) = "gate" =>
                             /\ h.verify.status # "observed"
                             /\ h.verify.status = "voided" <=> h.promises[t].status = "voided"
                        /\ Stage(t) = "unit" /\ Pending(h.promises[t]) =>
                             Origin[t] \in h.unitIds /\ evidence[Origin[t]] = "none"
      BY DEF PromisesInv
    <2>1. Voided(Fresh, "handoff_boundary").status = "voided"
      BY DEF Voided, Fresh
    <2>2. IF Stage(t) = "gate" /\ handoff THEN h.promises[t].status = "voided"
          ELSE h.promises[t].status = "pending"
      BY <1>1, <2>1, FreshTyped
    <2>3. Stage(t) = "unit" => Origin[t] \in WaveUnits[w]
      BY <1>1 DEF Stage
    <2>4. QED
      BY <1>1, <1>4, <2>2, <2>3
  <1>7. QED
    BY <1>1, <1>3, <1>4, <1>5, <1>6 DEF GateInv

(* A record nobody has touched is coherent, and so is its void at a        *)
(* handoff.                                                                *)
LEMMA NullsCohere ==
  ASSUME NEW r, r = NullProvenance \/ r = NullVerify \/ r = Fresh
  PROVE  /\ SettlementMetadataIsCoherent(r)
         /\ SettlementMetadataIsCoherent(Voided(r, "handoff_boundary"))
  <1>0. r = NullProvenance \/ r = NullVerify \/ r = Fresh
    OBVIOUS
  <1>1. r.status = "pending" /\ r.disposition = "none" /\ r.followUp = FALSE
    BY <1>0 DEF NullProvenance, NullVerify, Fresh
  <1>2. PICK v : v = Voided(r, "handoff_boundary")
    OBVIOUS
  <1>3. v.status = "voided" /\ v.disposition = "handoff_boundary" /\ v.followUp = FALSE
    <2>1. CASE r = NullProvenance
      BY <1>2, <2>1 DEF Voided, NullProvenance
    <2>2. CASE r = NullVerify
      BY <1>2, <2>2 DEF Voided, NullVerify
    <2>3. CASE r = Fresh
      BY <1>2, <2>3 DEF Voided, Fresh
    <2>4. QED
      BY <1>0, <2>1, <2>2, <2>3
  <1>4. SettlementMetadataIsCoherent(r)
    BY <1>1 DEF SettlementMetadataIsCoherent
  <1>5. (v.disposition \in {"deferred_by_controller", "deferral_cascade"}) = FALSE
    BY <1>3
  <1>6. SettlementMetadataIsCoherent(v)
    BY <1>3, <1>5 DEF SettlementMetadataIsCoherent
  <1>7. QED
    BY <1>2, <1>4, <1>6

(* The first gate is one the reducer can hold. *)
LEMMA FirstGateHolds ==
  ASSUME handoff \in BOOLEAN, NEW w \in DOMAIN WaveUnits, NEW h, h = NewGate(w, {})
  PROVE  GateInvariantHolds(h)
  <1>1. /\ Typed(h) /\ h.unitIds # {} /\ h.carried = {} /\ h.uncommitted = {}
        /\ h.targets = <<>> /\ h.resolutions = <<>> /\ h.items = <<>> /\ h.probes = <<>>
        /\ h.provenance = IF handoff THEN Voided(NullProvenance, "handoff_boundary") ELSE NullProvenance
        /\ h.verify = IF handoff THEN Voided(NullVerify, "handoff_boundary") ELSE NullVerify
        /\ \A t \in DOMAIN h.promises :
              h.promises[t] = IF Stage(t) = "gate" /\ handoff
                              THEN Voided(Fresh, "handoff_boundary") ELSE Fresh
    BY NewGateFields
  <1>2. DOMAIN h.items = {} /\ DOMAIN h.probes = {} /\ DOMAIN h.targets = {} /\ DOMAIN h.resolutions = {}
    BY <1>1
  <1>3. /\ SettlementMetadataIsCoherent(h.provenance) /\ SettlementMetadataIsCoherent(h.verify)
        /\ h.provenance.entry = FALSE /\ h.verify.entry = FALSE
    <2>1. /\ NullProvenance.entry = FALSE /\ Voided(NullProvenance, "handoff_boundary").entry = FALSE
          /\ NullVerify.entry = FALSE /\ Voided(NullVerify, "handoff_boundary").entry = FALSE
      BY DEF Voided, NullProvenance, NullVerify
    <2>2. QED
      BY <1>1, <2>1, NullsCohere
  <1>4. \A r \in SettlementRecords(h) : SettlementMetadataIsCoherent(r)
    <2>1. /\ SettlementMetadataIsCoherent(Fresh)
          /\ SettlementMetadataIsCoherent(Voided(Fresh, "handoff_boundary"))
      BY NullsCohere
    <2>2. \A t \in DOMAIN h.promises : SettlementMetadataIsCoherent(h.promises[t])
      BY <1>1, <2>1
    <2>3. /\ Range(h.targets) = {} /\ Range(h.resolutions) = {} /\ Range(h.items) = {}
          /\ Range(h.probes) = {}
      BY <1>2 DEF Range
    <2>4. QED
      BY ZenonT(60), <1>3, <2>2, <2>3 DEF SettlementRecords, Range
  <1>5. StageTargets(h, "gate") = {}
    BY <1>2 DEF StageTargets
  <1>6. QED
    BY <1>1, <1>2, <1>3, <1>4, <1>5
       DEF GateInvariantHolds, ObservedFinalNamesAreUnique, ProvenanceIsCoherent,
           AccountingIsCoherent, StagesAreOrdered

-----------------------------------------------------------------------------
(* The invariant *)

(* Every landing is open, owed, or recorded once. *)
Accounted ==
  /\ \A u \in Units :
       /\ u \in gate.uncommitted => outcome[u] = "landed" /\ u \notin gate.unitIds
       /\ outcome[u] = "landed" =>
            projected[u] = IF u \in gate.uncommitted \cup gate.unitIds THEN 0 ELSE 1
       /\ outcome[u] # "landed" => projected[u] = 0
       /\ handoff => outcome[u] # "landed"
       /\ u \in gate.unitIds => u \in WaveUnits[wave]
  /\ \A w \in DOMAIN WaveUnits : w > wave => \A u \in WaveUnits[w] : outcome[u] = "none"
  /\ gate.provenance.disposition = "handoff_boundary" => handoff

Inv ==
  /\ wave \in DOMAIN WaveUnits /\ handoff \in BOOLEAN
  /\ outcome \in [Units -> {"none", "landed", "not_landed"}] /\ projected \in [Units -> Nat]
  /\ GateInv(gate, outcome) /\ InFlight(gate, effect) /\ Accounted

LEMMA WavesInOrder ==
  /\ 1 \in DOMAIN WaveUnits /\ DOMAIN WaveUnits = 1..Len(WaveUnits) /\ Len(WaveUnits) \in Nat
  /\ \A w \in DOMAIN WaveUnits : WaveUnits[w] \subseteq Units
  BY GateAssumption

LEMMA InitInv ==
  ASSUME Init PROVE Inv
  <1>1. /\ handoff \in BOOLEAN /\ wave = 1 /\ effect = None
        /\ outcome = [u \in Units |-> "none"] /\ projected = [u \in Units |-> 0]
    BY DEF Init
  <1>2. PICK h : h = NewGate(1, {})
    OBVIOUS
  <1>3. GateInvariantHolds(h)
    BY <1>1, <1>2, WavesInOrder, FirstGateHolds
  <1>4. \A u \in WaveUnits[1] : outcome[u] = "none"
    BY <1>1, WavesInOrder
  <1>5. /\ GateInv(h, outcome)
        /\ h.unitIds = WaveUnits[1] /\ h.uncommitted = {}
        /\ h.provenance.disposition = "handoff_boundary" => handoff
    BY <1>1, <1>2, <1>3, <1>4, WavesInOrder, NewGateKeeps
  <1>6. gate = h
    BY <1>2 DEF Init
  <1>7. Accounted
    BY <1>1, <1>5, <1>6, WavesInOrder DEF Accounted
  <1>8. InFlight(gate, effect)
    BY <1>1 DEF InFlight
  <1>9. QED
    BY <1>1, <1>5, <1>6, <1>7, <1>8, WavesInOrder DEF Inv

(* What leaves the wave and its units alone. *)
LEMMA StepKeeps ==
  ASSUME Inv, GateInv(gate', outcome), InFlight(gate', effect'),
         gate'.unitIds = gate.unitIds, gate'.uncommitted = gate.uncommitted,
         gate'.provenance.disposition = "handoff_boundary" =>
           gate.provenance.disposition = "handoff_boundary",
         UNCHANGED <<wave, handoff, outcome, projected>>
  PROVE  Inv'
  <1>1. Accounted'
    BY DEF Inv, Accounted
  <1>2. QED
    BY <1>1 DEF Inv

-----------------------------------------------------------------------------
(* The steps *)

(* The first pending entry is a pending entry. *)
LEMMA FirstIsPending ==
  ASSUME NEW f, NEW S \in SUBSET Nat, NEW x \in FirstPending(f, S)
  PROVE  x \in S /\ Pending(f[x])
  <1>1. PICK open \in SUBSET Nat : open = {y \in S : Pending(f[y])}
    OBVIOUS
  <1>2. open # {} /\ x = Min(open)
    BY <1>1 DEF FirstPending
  <1>3. x \in open
    BY <1>2, MinFacts
  <1>4. QED
    BY <1>1, <1>3

(* What is known of the entry whose answer arrives. *)
LEMMA FlightFacts ==
  ASSUME NEW g
  PROVE  /\ \A t : InFlight(g, <<"resolution", t>>) =>
              t \in DOMAIN g.targets /\ StageOpen(g, Stage(t)) /\ Pending(g.resolutions[t])
         /\ \A p : InFlight(g, <<"probe", p>>) =>
              p \in DOMAIN g.probes /\ StageOpen(g, p[1]) /\ Pending(g.probes[p])
         /\ \A i : InFlight(g, <<"item", i>>) =>
              /\ i \in DOMAIN g.items /\ Pending(g.items[i])
              /\ Publishable(g, Stage(TargetOf[i])) /\ g.items[i].refusal = "none"
         /\ InFlight(g, <<"provenance">>) => g.provenance.entry /\ Pending(g.provenance)
         /\ InFlight(g, <<"verify">>) => g.verify.entry /\ Pending(g.verify)
  <1>1. \A t : InFlight(g, <<"resolution", t>>) =>
          t \in DOMAIN g.targets /\ StageOpen(g, Stage(t)) /\ Pending(g.resolutions[t])
    BY DEF InFlight, None
  <1>2. \A p : InFlight(g, <<"probe", p>>) =>
          p \in DOMAIN g.probes /\ StageOpen(g, p[1]) /\ Pending(g.probes[p])
    BY DEF InFlight, None
  <1>3. \A i : InFlight(g, <<"item", i>>) =>
          /\ i \in DOMAIN g.items /\ Pending(g.items[i])
          /\ Publishable(g, Stage(TargetOf[i])) /\ g.items[i].refusal = "none"
    BY DEF InFlight, None, Publishable
  <1>4. InFlight(g, <<"provenance">>) => g.provenance.entry /\ Pending(g.provenance)
    BY DEF InFlight, None
  <1>5. InFlight(g, <<"verify">>) => g.verify.entry /\ Pending(g.verify)
    BY DEF InFlight, None
  <1>6. QED
    BY <1>1, <1>2, <1>3, <1>4, <1>5

LEMMA ResolveIntentKeeps ==
  ASSUME Inv, NEW t \in Targets, ResolveIntent(t)
  PROVE  Inv'
  <1>1. PICK r : r = Attempted(gate.resolutions[t])
    OBVIOUS
  <1>2. /\ t \in DOMAIN gate.targets /\ StageOpen(gate, Stage(t))
        /\ t \in FirstPending(gate.resolutions, StageTargets(gate, Stage(t)))
        /\ GateInvariantHolds(gate') /\ gate' = [gate EXCEPT !.resolutions[t] = r]
        /\ effect' = <<"resolution", t>> /\ UNCHANGED <<wave, handoff, outcome, projected>>
    BY <1>1 DEF ResolveIntent, Intend, Commit
  <1>3. Typed(gate) /\ gate.resolutions[t] \in RecordType /\ GateInv(gate, outcome)
    BY <1>2, GateFields DEF Inv, GateInv
  <1>4. StageTargets(gate, Stage(t)) \in SUBSET Nat
    BY <1>3, GateFields, GateAssumption DEF StageTargets
  <1>5. Pending(gate.resolutions[t])
    BY <1>2, <1>4, FirstIsPending
  <1>6. "none" \in Dispositions /\ "none" \in Refusals
    BY DEF Dispositions, Refusals
  <1>7. r \in RecordType /\ r.status = gate.resolutions[t].status /\ r.refusal = "none"
    BY <1>1, <1>3, <1>6, RecordOps
  <1>8. /\ GateInv(gate', outcome) /\ WaveKept(gate, gate') /\ gate'.targets = gate.targets
        /\ gate'.resolutions[t] = r
    BY <1>2, <1>3, <1>7, ResolutionRefusalKeeps
  <1>9. InFlight(gate', effect')
    <2>1. Stage(t) \in Stages
      BY StageFacts
    <2>2. StageOpen(gate', Stage(t))
      BY <1>2, <1>8, <2>1 DEF WaveKept
    <2>3. QED
      BY <1>2, <1>5, <1>7, <1>8, <2>2 DEF InFlight, Pending
  <1>10. QED
    BY <1>2, <1>8, <1>9, StepKeeps DEF WaveKept

LEMMA SourcesObservedKeeps ==
  ASSUME Inv, NEW t \in Targets, SourcesObserved(t)
  PROVE  Inv'
  <1>1. PICK r : r = RefusedWith(gate.resolutions[t], "refused")
    OBVIOUS
  <1>2. /\ t \in DOMAIN gate.targets /\ effect = <<"resolution", t>>
        /\ GateInvariantHolds(gate')
        /\ gate' = Resolved(gate, t) \/ gate' = [gate EXCEPT !.resolutions[t] = r]
        /\ effect' = None /\ UNCHANGED <<wave, handoff, outcome, projected>>
    BY <1>1 DEF SourcesObserved, Record, Commit, ResolveRefused
  <1>3. Typed(gate) /\ gate.resolutions[t] \in RecordType /\ GateInv(gate, outcome)
    BY <1>2, GateFields DEF Inv, GateInv
  <1>4. StageOpen(gate, Stage(t)) /\ Pending(gate.resolutions[t])
    BY <1>2, FlightFacts DEF Inv
  <1>5. GateInv(gate', outcome) /\ WaveKept(gate, gate')
    <2>1. CASE gate' = Resolved(gate, t)
      BY <1>2, <1>3, <1>4, <2>1, ResolvedStep
    <2>2. CASE gate' = [gate EXCEPT !.resolutions[t] = r]
      <3>1. "none" \in Dispositions /\ "refused" \in Refusals
        BY DEF Dispositions, Refusals
      <3>2. r \in RecordType /\ r.status = gate.resolutions[t].status
        BY ZenonT(60), <1>1, <1>3, <3>1, RecordOps
      <3>3. QED
        BY <1>2, <1>3, <1>4, <2>2, <3>2, ResolutionRefusalKeeps
    <2>3. QED
      BY <1>2, <2>1, <2>2
  <1>6. QED
    BY <1>2, <1>5, StepKeeps DEF WaveKept, InFlight

LEMMA ProbeIntentKeeps ==
  ASSUME Inv, NEW p \in Stages \X Destinations, ProbeIntent(p)
  PROVE  Inv'
  <1>1. PICK r : r = Attempted(gate.probes[p])
    OBVIOUS
  <1>2. /\ p \in DOMAIN gate.probes /\ StageOpen(gate, p[1]) /\ Pending(gate.probes[p])
        /\ GateInvariantHolds(gate') /\ gate' = [gate EXCEPT !.probes[p] = r]
        /\ effect' = <<"probe", p>> /\ UNCHANGED <<wave, handoff, outcome, projected>>
    BY <1>1 DEF ProbeIntent, Intend, Commit, FirstProbe
  <1>3. Typed(gate) /\ gate.probes[p] \in RecordType /\ GateInv(gate, outcome)
    BY <1>2, GateFields DEF Inv, GateInv
  <1>6. "none" \in Dispositions /\ "none" \in Refusals
    BY DEF Dispositions, Refusals
  <1>7. r \in RecordType /\ r.status = gate.probes[p].status /\ r.refusal = "none"
    BY <1>1, <1>3, <1>6, RecordOps
  <1>8. /\ GateInv(gate', outcome) /\ WaveKept(gate, gate') /\ p \in DOMAIN gate'.probes
        /\ gate'.probes[p] = r
    BY <1>2, <1>3, <1>7, ProbeRefusalKeeps
  <1>9. InFlight(gate', effect')
    <2>1. StageOpen(gate', p[1])
      BY <1>2, <1>8 DEF WaveKept
    <2>2. QED
      BY <1>2, <1>7, <1>8, <2>1 DEF InFlight, Pending
  <1>10. QED
    BY <1>2, <1>8, <1>9, StepKeeps DEF WaveKept

LEMMA ProbeObservedKeeps ==
  ASSUME Inv, NEW p \in Stages \X Destinations, DestinationProbeObserved(p)
  PROVE  Inv'
  <1>1. PICK r : r = RefusedWith(gate.probes[p], "refused")
    OBVIOUS
  <1>2. PICK f : f = [gate EXCEPT !.probes[p] = r]
    OBVIOUS
  <1>3. /\ p \in DOMAIN gate.probes /\ effect = <<"probe", p>>
        /\ GateInvariantHolds(gate')
        /\ \/ gate' = Probed(gate, p) \/ gate' = ProbeUnmounted(gate, p)
           \/ gate' = MaybeCreateProvenance(f)
        /\ effect' = None /\ UNCHANGED <<wave, handoff, outcome, projected>>
    BY <1>1, <1>2 DEF DestinationProbeObserved, Record, Commit, ProbeRefused
  <1>4. Typed(gate) /\ gate.probes[p] \in RecordType /\ GateInv(gate, outcome)
    BY <1>3, GateFields DEF Inv, GateInv
  <1>5. StageOpen(gate, p[1]) /\ Pending(gate.probes[p])
    BY <1>3, FlightFacts DEF Inv
  <1>6. GateInv(gate', outcome) /\ WaveKept(gate, gate')
    <2>1. CASE gate' = Probed(gate, p)
      BY <1>3, <1>4, <1>5, <2>1, ProbedStep
    <2>2. CASE gate' = ProbeUnmounted(gate, p)
      BY <1>3, <1>4, <1>5, <2>2, UnmountedStep
    <2>3. CASE gate' = MaybeCreateProvenance(f)
      <3>1. "none" \in Dispositions /\ "refused" \in Refusals
        BY DEF Dispositions, Refusals
      <3>2. r \in RecordType /\ r.status = gate.probes[p].status
        BY ZenonT(60), <1>1, <1>4, <3>1, RecordOps
      <3>3. QED
        BY <1>2, <1>3, <1>4, <1>5, <2>3, <3>2, ProbeRefusalKeeps
    <2>4. QED
      BY <1>3, <2>1, <2>2, <2>3
  <1>7. QED
    BY <1>3, <1>6, StepKeeps DEF WaveKept, InFlight

LEMMA ClockObservedKeeps ==
  ASSUME Inv, NEW i \in Items, ClockObserved(i)
  PROVE  Inv'
  <1>1. /\ effect = None /\ i \in DOMAIN gate.items /\ ClockDue(gate, i)
        /\ effect' = None /\ UNCHANGED <<wave, handoff, outcome, projected>>
    BY DEF ClockObserved
  <1>2. PICK c \in Clocks : /\ ClockReads(gate, i, c) /\ gate' = Named(gate, i, c)
                            /\ GateInvariantHolds(gate')
    BY DEF ClockObserved, Commit
  <1>3. GateInv(gate', outcome) /\ WaveKept(gate, gate')
    BY <1>1, <1>2, NamedStep DEF Inv
  <1>4. QED
    BY <1>1, <1>3, StepKeeps DEF WaveKept, InFlight

LEMMA MaterialiseIntentKeeps ==
  ASSUME Inv, NEW i \in Items, MaterialiseIntent(i)
  PROVE  Inv'
  <1>1. /\ i \in DOMAIN gate.items /\ Publishable(gate, Stage(TargetOf[i]))
        /\ i \in FirstPending(gate.items, StageItems(gate, Stage(TargetOf[i])))
        /\ GateInvariantHolds(gate') /\ gate' = WithItem(gate, i, Attempted(gate.items[i]))
        /\ effect' = <<"item", i>> /\ UNCHANGED <<wave, handoff, outcome, projected>>
    BY DEF MaterialiseIntent, Intend, Commit, Publishable, WithItem
  <1>2. GateInv(gate, outcome)
    BY DEF Inv
  <1>3. /\ Typed(gate) /\ i \in StageItems(gate, Stage(TargetOf[i])) /\ Stage(TargetOf[i]) \in Stages
        /\ StageInv(gate, Stage(TargetOf[i])) /\ TargetOf[i] \in DOMAIN gate.targets
    BY <1>1, <1>2, GateParts
  <1>4. StageItems(gate, Stage(TargetOf[i])) \in SUBSET Nat
    BY <1>3, GateFields, GateAssumption DEF StageItems
  <1>5. Pending(gate.items[i])
    BY <1>1, <1>4, FirstIsPending
  <1>6. StageNamesReady(gate, Stage(TargetOf[i])) /\ ~Collided(gate, i)
    BY <1>1, <1>3 DEF Publishable
  <1>7. PICK h : h = gate'
    OBVIOUS
  <1>8. /\ GateInv(h, outcome) /\ WaveKept(gate, h)
        /\ h.targets = gate.targets /\ h.resolutions = gate.resolutions /\ h.probes = gate.probes
        /\ DOMAIN h.items = DOMAIN gate.items
        /\ Pending(h.items[i]) /\ h.items[i].refusal = "none"
        /\ \A j \in DOMAIN gate.items :
              /\ h.items[j].status = gate.items[j].status /\ h.items[j].name = gate.items[j].name
              /\ j # i => h.items[j] = gate.items[j]
    BY <1>1, <1>2, <1>5, <1>6, <1>7, ItemAttemptStep
  <1>9. Publishable(h, Stage(TargetOf[i]))
    <2>1. /\ \A s : StageItems(h, s) = StageItems(gate, s) /\ StageTargets(h, s) = StageTargets(gate, s)
          /\ \A s : StageProbes(h, s) = StageProbes(gate, s)
      BY <1>8 DEF StageItems, StageTargets, StageProbes
    <2>2. \A s : StageResolutionsSettled(h, s) = StageResolutionsSettled(gate, s)
      BY <1>8, <2>1 DEF StageResolutionsSettled
    <2>3. \A s, j : j \in StageItems(gate, s) =>
             /\ j \in DOMAIN gate.items
             /\ h.items[j].status = gate.items[j].status /\ h.items[j].name = gate.items[j].name
             /\ h.items[j].refusal = gate.items[j].refusal \/ h.items[j].refusal = "none"
      BY <1>8 DEF StageItems
    <2>4. StageNamesReady(h, Stage(TargetOf[i]))
      BY <1>6, <1>8, <2>1, <2>2, <2>3 DEF StageNamesReady, Pending
    <2>5. \A j \in StageItems(h, Stage(TargetOf[i])) : ~Collided(h, j)
      BY <1>1, <2>1, <2>3 DEF Publishable, Collided, Pending
    <2>6. QED
      BY <2>4, <2>5 DEF Publishable
  <1>10. InFlight(h, effect')
    BY <1>1, <1>8, <1>9 DEF InFlight, Publishable
  <1>11. QED
    BY <1>1, <1>7, <1>8, <1>10, StepKeeps DEF WaveKept

LEMMA MaterialiseObservedKeeps ==
  ASSUME Inv, NEW i \in Items, MaterialiseObserved(i)
  PROVE  Inv'
  <1>1. PICK r, q : r = Observed(gate.items[i]) /\ q = RefusedWith(gate.items[i], "refused")
    OBVIOUS
  <1>2. /\ i \in DOMAIN gate.items /\ effect = <<"item", i>> /\ GateInvariantHolds(gate')
        /\ gate' = Materialised(gate, i) \/ gate' = MaterialiseRefused(gate, i)
        /\ effect' = None /\ UNCHANGED <<wave, handoff, outcome, projected>>
    BY DEF MaterialiseObserved, Record, Commit
  <1>3. GateInv(gate, outcome)
    BY DEF Inv
  <1>4. /\ Typed(gate) /\ gate.items[i] \in ItemType
        /\ "none" \in Dispositions /\ "none" \in Refusals /\ "refused" \in Refusals
    BY <1>2, <1>3, GateFields DEF GateInv, Dispositions, Refusals
  <1>5. /\ Pending(gate.items[i]) /\ gate.items[i].refusal = "none"
        /\ Publishable(gate, Stage(TargetOf[i]))
    BY <1>2, FlightFacts DEF Inv
  <1>6. i \in StageItems(gate, Stage(TargetOf[i]))
    BY <1>2, <1>3, GateParts
  <1>7. /\ IsNamed(gate, i) /\ ~Naming(gate, Stage(TargetOf[i])) /\ ~HasCollided(gate, i)
        /\ \A j \in StageItems(gate, Stage(TargetOf[i])) : ~Collided(gate, j)
    BY <1>5, <1>6 DEF Publishable, StageNamesReady, IsNamed, Naming, HasCollided
  <1>8. /\ r \in ItemType /\ r.name = gate.items[i].name /\ r.witness = gate.items[i].witness
        /\ r.refusal = "none" /\ r.status = "observed"
    BY ZenonT(60), <1>1, <1>4, ItemOps
  <1>9. /\ q \in ItemType /\ q.name = gate.items[i].name /\ q.witness = gate.items[i].witness
        /\ q.refusal = "refused" /\ q.status = "pending"
    <2>1. RefusedWith(gate.items[i], "refused") \in ItemType
      BY <1>4, ItemOps
    <2>2. gate.items[i].status = "pending"
      BY <1>5 DEF Pending
    <2>3. QED
      BY <1>1, <1>4, <2>1, <2>2 DEF RefusedWith, ItemType
  <1>10. GateInv(gate', outcome) /\ WaveKept(gate, gate')
    <2>1. ASSUME NEW v \in {r, q},
                 gate' = MaybeCreateProvenance(SettleTargetPromise(WithItem(gate, i, v), TargetOf[i]))
          PROVE  GateInv(gate', outcome) /\ WaveKept(gate, gate')
      <3>1. /\ v \in ItemType /\ v.name = gate.items[i].name /\ v.witness = gate.items[i].witness
            /\ v.refusal = "output_name_collision" <=> HasCollided(gate, i)
            /\ v.status # "voided"
        BY <1>7, <1>8, <1>9
      <3>2. PICK f : f = WithItem(gate, i, v)
        OBVIOUS
      <3>3. PICK h : h = gate'
        OBVIOUS
      <3>4. h = MaybeCreateProvenance(SettleTargetPromise(f, TargetOf[i])) /\ GateInvariantHolds(h)
        BY <1>2, <2>1, <3>2, <3>3
      <3>5. GateInv(h, outcome) /\ WaveKept(gate, h)
        BY <1>2, <1>3, <1>5, <1>7, <3>1, <3>2, <3>4, ItemSettledStep
      <3>6. QED
        BY <3>3, <3>5
    <2>2. CASE gate' = Materialised(gate, i)
      BY <1>1, <2>1, <2>2 DEF Materialised, WithItem
    <2>3. CASE gate' = MaterialiseRefused(gate, i)
      BY <1>1, <2>1, <2>3 DEF MaterialiseRefused, WithItem
    <2>4. QED
      BY <1>2, <2>2, <2>3
  <1>11. QED
    BY <1>2, <1>10, StepKeeps DEF WaveKept, InFlight

LEMMA ProvenanceClockKeeps ==
  ASSUME Inv, ProvenanceClockObserved
  PROVE  Inv'
  <1>1. PICK r : r = [gate.provenance EXCEPT !.clocked = TRUE]
    OBVIOUS
  <1>2. /\ GateInvariantHolds(gate') /\ gate' = WithProvenance(gate, r)
        /\ effect = None /\ effect' = None /\ UNCHANGED <<wave, handoff, outcome, projected>>
    BY <1>1 DEF ProvenanceClockObserved, Commit, WithProvenance
  <1>3. GateInv(gate, outcome) /\ gate.provenance \in ProvenanceType
    BY GateFields DEF Inv, GateInv
  <1>4. /\ r \in ProvenanceType /\ r.status = gate.provenance.status
        /\ r.disposition = gate.provenance.disposition /\ r.entry = gate.provenance.entry
    BY <1>1, <1>3 DEF ProvenanceType
  <1>5. /\ GateInv(gate', outcome) /\ gate'.provenance = r
        /\ gate'.unitIds = gate.unitIds /\ gate'.uncommitted = gate.uncommitted
    BY <1>2, <1>3, <1>4, ProvenanceAttemptStep
  <1>6. QED
    BY <1>2, <1>4, <1>5, StepKeeps DEF InFlight

LEMMA ProvenanceIntentKeeps ==
  ASSUME Inv, ProvenanceCommitIntent
  PROVE  Inv'
  <1>1. PICK r : r = Attempted(gate.provenance)
    OBVIOUS
  <1>2. /\ gate.provenance.entry /\ Pending(gate.provenance)
        /\ GateInvariantHolds(gate') /\ gate' = WithProvenance(gate, r)
        /\ effect' = <<"provenance">> /\ UNCHANGED <<wave, handoff, outcome, projected>>
    BY <1>1 DEF ProvenanceCommitIntent, Intend, Commit, WithProvenance
  <1>3. /\ GateInv(gate, outcome) /\ gate.provenance \in ProvenanceType
        /\ "none" \in Dispositions /\ "none" \in Refusals
    BY GateFields DEF Inv, GateInv, Dispositions, Refusals
  <1>4. /\ r \in ProvenanceType /\ r.status = gate.provenance.status
        /\ r.disposition = gate.provenance.disposition /\ r.entry = gate.provenance.entry
        /\ r.refusal = "none"
    BY ZenonT(60), <1>1, <1>3, ProvenanceOps
  <1>5. /\ GateInv(gate', outcome) /\ gate'.provenance = r
        /\ gate'.unitIds = gate.unitIds /\ gate'.uncommitted = gate.uncommitted
    <2>1. PICK h : h = gate'
      OBVIOUS
    <2>2. h = WithProvenance(gate, r) /\ GateInvariantHolds(h)
      BY <1>2, <2>1
    <2>3. /\ GateInv(h, outcome) /\ h.provenance = r
          /\ h.unitIds = gate.unitIds /\ h.uncommitted = gate.uncommitted
      BY <1>3, <1>4, <2>2, ProvenanceAttemptStep
    <2>4. QED
      BY <2>1, <2>3
  <1>6. InFlight(gate', effect')
    BY <1>2, <1>4, <1>5 DEF InFlight, Pending
  <1>7. QED
    BY <1>2, <1>4, <1>5, <1>6, StepKeeps

LEMMA ProvenanceObservedKeeps ==
  ASSUME Inv, ProvenanceCommitObserved
  PROVE  Inv'
  <1>1. /\ effect = <<"provenance">> /\ GateInvariantHolds(gate')
        /\ effect' = None /\ UNCHANGED <<wave, handoff, outcome>>
        /\ \/ /\ gate' = ProvenanceCommitted(gate)
              /\ projected' = [u \in Units |-> projected[u] +
                                 IF u \in gate.provenance.units THEN 1 ELSE 0]
           \/ /\ \E code \in {"provenance_base_advanced", "refused"} :
                   gate' = WithProvenance(gate, RefusedWith(gate.provenance, code))
              /\ projected' = projected
    BY DEF ProvenanceCommitObserved, Record, Commit, WithProvenance
  <1>2. /\ GateInv(gate, outcome) /\ Typed(gate) /\ gate.provenance \in ProvenanceType
        /\ "none" \in Dispositions
    BY GateFields DEF Inv, GateInv, Dispositions
  <1>3. gate.provenance.entry /\ Pending(gate.provenance)
    BY <1>1, FlightFacts DEF Inv
  <1>4. CASE /\ gate' = ProvenanceCommitted(gate)
             /\ projected' = [u \in Units |-> projected[u] +
                                 IF u \in gate.provenance.units THEN 1 ELSE 0]
    <2>1. /\ GateInv(gate', outcome) /\ gate'.unitIds = gate.unitIds /\ gate'.uncommitted = {}
          /\ gate'.provenance.disposition = gate.provenance.disposition
      BY <1>1, <1>2, <1>3, <1>4, ProvenanceCommittedStep
    <2>2. gate.uncommitted = gate.provenance.units /\ gate.unitIds = {}
      BY <1>2, <1>3 DEF GateInv, GateInvariantHolds, AccountingIsCoherent, ProvenanceIsCoherent,
                        UnitProjectionStageSettled, Pending
    <2>3. projected' \in [Units -> Nat]
      BY <1>4 DEF Inv
    <2>4. \A u \in Units : projected'[u] = IF u \in gate.uncommitted THEN projected[u] + 1 ELSE projected[u]
      BY <1>4, <2>2 DEF Inv
    <2>5. Accounted'
      BY <1>1, <2>1, <2>2, <2>4 DEF Inv, Accounted
    <2>6. QED
      BY <1>1, <2>1, <2>3, <2>5 DEF Inv, InFlight
  <1>5. CASE /\ \E code \in {"provenance_base_advanced", "refused"} :
                  gate' = WithProvenance(gate, RefusedWith(gate.provenance, code))
             /\ projected' = projected
    <2>1. PICK code \in {"provenance_base_advanced", "refused"} :
                  gate' = WithProvenance(gate, RefusedWith(gate.provenance, code))
      BY <1>5
    <2>2. code \in Refusals
      BY DEF Refusals
    <2>3. PICK r : r = RefusedWith(gate.provenance, code)
      OBVIOUS
    <2>4. /\ r \in ProvenanceType /\ r.status = gate.provenance.status
          /\ r.disposition = gate.provenance.disposition /\ r.entry = gate.provenance.entry
      BY ZenonT(60), <1>2, <2>2, <2>3, ProvenanceOps
    <2>5. /\ GateInv(gate', outcome) /\ gate'.provenance = r
          /\ gate'.unitIds = gate.unitIds /\ gate'.uncommitted = gate.uncommitted
      BY <1>1, <1>2, <2>1, <2>3, <2>4, ProvenanceAttemptStep
    <2>6. QED
      BY <1>1, <1>5, <2>4, <2>5, StepKeeps DEF InFlight
  <1>6. QED
    BY <1>1, <1>4, <1>5

LEMMA VerificationIntentKeeps ==
  ASSUME Inv, VerificationIntent
  PROVE  Inv'
  <1>1. /\ gate.verify.entry /\ Pending(gate.verify) /\ gate.verify.refusal = "none"
        /\ gate' = gate /\ effect' = <<"verify">> /\ UNCHANGED <<wave, handoff, outcome, projected>>
    BY DEF VerificationIntent, Intend, Commit
  <1>2. InFlight(gate', effect')
    BY <1>1 DEF InFlight
  <1>3. QED
    BY <1>1, <1>2, StepKeeps DEF Inv

LEMMA VerificationObservedKeeps ==
  ASSUME Inv, VerificationObserved
  PROVE  Inv'
  <1>1. /\ effect = <<"verify">> /\ GateInvariantHolds(gate')
        /\ effect' = None /\ UNCHANGED <<wave, handoff, outcome, projected>>
        /\ \/ gate' = Verified(gate)
           \/ gate' = WithVerify(gate, RefusedWith(gate.verify, "verification_failed"))
    BY DEF VerificationObserved, Record, Commit, WithVerify
  <1>2. GateInv(gate, outcome)
    BY DEF Inv
  <1>3. gate.verify.entry /\ Pending(gate.verify)
    BY <1>1, FlightFacts DEF Inv
  <1>4. /\ GateInv(gate', outcome) /\ gate'.unitIds = gate.unitIds
        /\ gate'.uncommitted = gate.uncommitted /\ gate'.provenance = gate.provenance
    BY <1>1, <1>2, <1>3, VerifiedStep, VerifyRefusedStep
  <1>5. QED
    BY <1>1, <1>4, StepKeeps DEF InFlight

LEMMA GateEntryDeferredKeeps ==
  ASSUME Inv, GateEntryDeferred
  PROVE  Inv'
  <1>1. GateInvariantHolds(gate') /\ UNCHANGED <<wave, handoff, outcome, effect, projected>>
    BY DEF GateEntryDeferred, Commit
  <1>2. GateInv(gate, outcome) /\ InFlight(gate, effect)
    BY DEF Inv
  <1>3. /\ GateInv(gate', outcome) /\ InFlight(gate', effect)
        /\ gate'.unitIds = gate.unitIds /\ gate'.uncommitted = gate.uncommitted
        /\ gate'.provenance.disposition = "handoff_boundary" =>
             gate.provenance.disposition = "handoff_boundary"
    <2>1. CASE \E t \in DOMAIN gate.targets :
                 Refused(gate.resolutions[t]) /\ gate' = DeferResolution(gate, t)
      BY <1>1, <1>2, <2>1, DeferResolutionStep DEF WaveKept
    <2>2. CASE \E p \in DOMAIN gate.probes : Refused(gate.probes[p]) /\ gate' = DeferProbe(gate, p)
      BY <1>1, <1>2, <2>2, DeferProbeStep DEF WaveKept
    <2>3. CASE \E i \in DOMAIN gate.items : Refused(gate.items[i]) /\ gate' = DeferItem(gate, i)
      BY <1>1, <1>2, <2>3, DeferItemStep DEF WaveKept
    <2>4. CASE /\ gate.provenance.entry /\ Refused(gate.provenance)
               /\ gate' = DeferProvenance(gate)
      BY <1>1, <1>2, <2>4, DeferProvenanceStep
    <2>5. CASE gate.verify.entry /\ Refused(gate.verify) /\ gate' = DeferVerify(gate)
      BY <1>1, <1>2, <2>5, DeferVerifyStep
    <2>6. QED
      BY <2>1, <2>2, <2>3, <2>4, <2>5 DEF GateEntryDeferred, Commit
  <1>4. QED
    BY <1>1, <1>3, StepKeeps

LEMMA IntegrateKeeps ==
  ASSUME Inv, NEW u \in Units, IntegrateObserved(u)
  PROVE  Inv'
  <1>1. PICK S \in SUBSET Targets : S = {t \in Targets : Origin[t] = u}
    OBVIOUS
  <1>2. /\ u \in gate.unitIds /\ outcome[u] = "none" /\ ~handoff
        /\ GateInvariantHolds(gate') /\ gate' = AttachSource(gate, S)
        /\ outcome' = [outcome EXCEPT ![u] = "landed"]
        /\ UNCHANGED <<wave, handoff, effect, projected>>
    BY <1>1 DEF IntegrateObserved, Commit
  <1>0. u \in gate.unitIds
    BY <1>2
  <1>3. /\ GateInv(gate, outcome) /\ outcome \in [Units -> {"none", "landed", "not_landed"}]
        /\ \A t \in Targets : t \in S <=> Origin[t] = u
    BY <1>1 DEF Inv
  <1>4. /\ GateInv(gate', outcome') /\ gate'.unitIds = gate.unitIds
        /\ gate'.uncommitted = gate.uncommitted /\ gate'.provenance = gate.provenance
    <2>1. PICK h, later : h = gate' /\ later = outcome'
      OBVIOUS
    <2>2. /\ h = AttachSource(gate, S) /\ GateInvariantHolds(h)
          /\ \A v \in Units : v # u => later[v] = outcome[v]
      BY <1>2, <1>3, <2>1
    <2>3. /\ GateInv(h, later) /\ h.unitIds = gate.unitIds
          /\ h.uncommitted = gate.uncommitted /\ h.provenance = gate.provenance
      BY <1>0, <1>3, <2>2, IntegratedStep
    <2>4. QED
      BY <2>1, <2>3
  <1>5. effect = None
    BY <1>2, <1>3, OpenWaveIsQuiet DEF Inv
  <1>6. /\ outcome' \in [Units -> {"none", "landed", "not_landed"}] /\ outcome'[u] = "landed"
        /\ \A v \in Units : v # u => outcome'[v] = outcome[v]
    BY <1>2, <1>3
  <1>7. \A w \in DOMAIN WaveUnits : w > wave => u \notin WaveUnits[w]
    BY <1>2, WavesInOrder, GateAssumption DEF Inv, Accounted
  <1>8. Accounted'
    <2>1. \A v \in Units :
            /\ v \in gate.uncommitted => outcome'[v] = "landed" /\ v \notin gate.unitIds
            /\ outcome'[v] = "landed" =>
                 projected[v] = IF v \in gate.uncommitted \cup gate.unitIds THEN 0 ELSE 1
            /\ outcome'[v] # "landed" => projected[v] = 0
            /\ v \in gate.unitIds => v \in WaveUnits[wave]
      <3> TAKE v \in Units
      <3>1. CASE v = u
        BY <1>2, <1>6, <3>1 DEF Inv, Accounted
      <3>2. CASE v # u
        BY <1>6, <3>2 DEF Inv, Accounted
      <3>3. QED
        BY <3>1, <3>2
    <2>2. \A w \in DOMAIN WaveUnits : w > wave => \A v \in WaveUnits[w] : outcome'[v] = "none"
      BY <1>6, <1>7, WavesInOrder DEF Inv, Accounted
    <2>3. QED
      BY <1>2, <1>4, <2>1, <2>2 DEF Inv, Accounted
  <1>9. QED
    BY <1>2, <1>4, <1>5, <1>6, <1>8 DEF Inv, InFlight

LEMMA TerminalKeeps ==
  ASSUME Inv, NEW u \in Units, TerminalWithoutLanding(u)
  PROVE  Inv'
  <1>1. PICK why \in Dispositions : gate' = VoidUnitTargets(gate, u, why) /\ GateInvariantHolds(gate')
    BY DEF TerminalWithoutLanding, Commit, Dispositions
  <1>2. /\ u \in gate.unitIds /\ outcome[u] = "none"
        /\ outcome' = [outcome EXCEPT ![u] = "not_landed"]
        /\ UNCHANGED <<wave, handoff, effect, projected>>
    BY DEF TerminalWithoutLanding
  <1>0. u \in gate.unitIds
    BY <1>2
  <1>3. GateInv(gate, outcome) /\ outcome \in [Units -> {"none", "landed", "not_landed"}]
    BY DEF Inv
  <1>4. /\ GateInv(gate', outcome') /\ gate'.unitIds = gate.unitIds
        /\ gate'.uncommitted = gate.uncommitted /\ gate'.provenance = gate.provenance
    <2>1. PICK h, later : h = gate' /\ later = outcome'
      OBVIOUS
    <2>2. /\ h = VoidUnitTargets(gate, u, why) /\ GateInvariantHolds(h)
          /\ \A v \in Units : v # u => later[v] = outcome[v]
      BY <1>1, <1>2, <1>3, <2>1
    <2>3. /\ GateInv(h, later) /\ h.unitIds = gate.unitIds
          /\ h.uncommitted = gate.uncommitted /\ h.provenance = gate.provenance
      BY <1>0, <1>3, <2>2, TerminalStep
    <2>4. QED
      BY <2>1, <2>3
  <1>5. effect = None
    BY <1>2, <1>3, OpenWaveIsQuiet DEF Inv
  <1>6. /\ outcome' \in [Units -> {"none", "landed", "not_landed"}] /\ outcome'[u] = "not_landed"
        /\ \A v \in Units : v # u => outcome'[v] = outcome[v]
    BY <1>2, <1>3
  <1>7. \A w \in DOMAIN WaveUnits : w > wave => u \notin WaveUnits[w]
    BY <1>2, WavesInOrder, GateAssumption DEF Inv, Accounted
  <1>8. Accounted'
    <2>1. \A v \in Units :
            /\ v \in gate.uncommitted => outcome'[v] = "landed" /\ v \notin gate.unitIds
            /\ outcome'[v] = "landed" =>
                 projected[v] = IF v \in gate.uncommitted \cup gate.unitIds THEN 0 ELSE 1
            /\ outcome'[v] # "landed" => projected[v] = 0
            /\ handoff => outcome'[v] # "landed"
            /\ v \in gate.unitIds => v \in WaveUnits[wave]
      <3> TAKE v \in Units
      <3>1. CASE v = u
        BY <1>2, <1>6, <3>1 DEF Inv, Accounted
      <3>2. CASE v # u
        BY <1>6, <3>2 DEF Inv, Accounted
      <3>3. QED
        BY <3>1, <3>2
    <2>2. \A w \in DOMAIN WaveUnits : w > wave => \A v \in WaveUnits[w] : outcome'[v] = "none"
      BY <1>6, <1>7, WavesInOrder DEF Inv, Accounted
    <2>3. QED
      BY <1>2, <1>4, <2>1, <2>2 DEF Inv, Accounted
  <1>9. QED
    BY <1>2, <1>4, <1>5, <1>6, <1>8 DEF Inv, InFlight

LEMMA ReleasedKeeps ==
  ASSUME Inv, NEW u \in Units, ReservationReleased(u)
  PROVE  Inv'
  <1>1. /\ u \in gate.unitIds /\ outcome[u] # "none" /\ GateInvariantHolds(gate')
        /\ gate' = MaybeCreateProvenance(CloseUnitAfterRelease(gate, u))
        /\ UNCHANGED <<wave, handoff, outcome, effect, projected>>
    BY DEF ReservationReleased, Commit
  <1>2. GateInv(gate, outcome)
    BY DEF Inv
  <1>3. PICK h : h = gate'
    OBVIOUS
  <1>4. /\ GateInv(h, outcome) /\ h.unitIds = gate.unitIds \ {u}
        /\ h.uncommitted = IF outcome[u] = "landed" THEN gate.uncommitted \cup {u} ELSE gate.uncommitted
        /\ h.provenance.disposition = "handoff_boundary" =>
             gate.provenance.disposition = "handoff_boundary"
    BY <1>1, <1>2, <1>3, ReleasedStep
  <1>5. effect = None
    BY <1>1, <1>2, OpenWaveIsQuiet DEF Inv
  <1>6. Accounted'
    <2>1. \A v \in Units :
            /\ v \in h.uncommitted => outcome[v] = "landed" /\ v \notin h.unitIds
            /\ outcome[v] = "landed" =>
                 projected[v] = IF v \in h.uncommitted \cup h.unitIds THEN 0 ELSE 1
            /\ v \in h.unitIds => v \in WaveUnits[wave]
      <3> TAKE v \in Units
      <3>1. CASE v = u /\ outcome[u] = "landed"
        BY <1>1, <1>4, <3>1 DEF Inv, Accounted
      <3>2. CASE v # u \/ outcome[u] # "landed"
        BY <1>4, <3>2 DEF Inv, Accounted
      <3>3. QED
        BY <3>1, <3>2
    <2>2. QED
      BY <1>1, <1>3, <1>4, <2>1 DEF Inv, Accounted
  <1>7. QED
    BY <1>1, <1>3, <1>4, <1>5, <1>6 DEF Inv, InFlight

(* What is carried into the next wave is what is owed.                     *)
LEMMA CarriedIsOwed ==
  ASSUME Inv, GateIsGreen(gate)
  PROVE  CarriedUnits(gate) = gate.uncommitted
  <1>1. /\ ProvenanceKnown(gate) /\ ProvenanceIsCoherent(gate) /\ AccountingIsCoherent(gate)
        /\ gate.uncommitted \subseteq Units
    BY GateFields DEF Inv, GateInv, ProvenanceInv, GateInvariantHolds
  <1>2. CASE gate.provenance.disposition = "deferred_by_controller"
    BY <1>1, <1>2 DEF ProvenanceKnown, AccountingIsCoherent, CarriedUnits
  <1>3. CASE gate.provenance.status = "observed"
    BY <1>1, <1>3 DEF ProvenanceKnown, AccountingIsCoherent, CarriedUnits
  <1>4. CASE gate.provenance.disposition = "no_landed_units"
    BY <1>1, <1>4 DEF ProvenanceIsCoherent, CarriedUnits
  <1>5. CASE gate.provenance.disposition = "handoff_boundary"
    <2>1. gate.uncommitted = {}
      BY <1>1, <1>5 DEF Inv, Accounted
    <2>2. QED
      BY <1>5, <2>1 DEF CarriedUnits
  <1>6. QED
    BY <1>1, <1>2, <1>3, <1>4, <1>5 DEF GateIsGreen, ProvenanceKnown

LEMMA WavePlannedKeeps ==
  ASSUME Inv, WavePlanned
  PROVE  Inv'
  <1>1. /\ wave < Len(WaveUnits) /\ gate.unitIds = {} /\ effect = None /\ GateIsGreen(gate)
        /\ GateInvariantHolds(gate') /\ gate' = NewGate(wave + 1, CarriedUnits(gate))
        /\ wave' = wave + 1 /\ UNCHANGED <<handoff, outcome, effect, projected>>
    BY DEF WavePlanned, Commit
  <1>2. wave + 1 \in DOMAIN WaveUnits /\ wave \in Nat
    BY <1>1, WavesInOrder DEF Inv
  <1>3. CarriedUnits(gate) = gate.uncommitted /\ gate.uncommitted \in SUBSET Units
    BY <1>1, CarriedIsOwed, GateFields DEF Inv, GateInv
  <1>4. \A u \in WaveUnits[wave + 1] : outcome[u] = "none"
    BY <1>2 DEF Inv, Accounted
  <1>5. PICK h, w : h = gate' /\ w = wave + 1
    OBVIOUS
  <1>6. /\ GateInv(h, outcome)
        /\ h.unitIds = WaveUnits[w] /\ h.uncommitted = gate.uncommitted
        /\ h.provenance.disposition = "handoff_boundary" => handoff
    <2>1. h = NewGate(w, gate.uncommitted) /\ GateInvariantHolds(h) /\ w \in DOMAIN WaveUnits
      BY <1>1, <1>2, <1>3, <1>5
    <2>2. QED
      BY <1>3, <1>4, <1>5, <2>1, NewGateKeeps DEF Inv
  <1>7. Accounted'
    <2>1. \A u \in Units :
            /\ u \in gate.uncommitted => outcome[u] = "landed" /\ u \notin WaveUnits[w]
            /\ outcome[u] = "landed" =>
                 projected[u] = IF u \in gate.uncommitted \cup WaveUnits[w] THEN 0 ELSE 1
      <3> TAKE u \in Units
      <3>1. u \in WaveUnits[w] => outcome[u] # "landed"
        BY <1>4, <1>5
      <3>2. QED
        BY <1>1, <3>1 DEF Inv, Accounted
    <2>2. \A v \in DOMAIN WaveUnits : v > w => \A u \in WaveUnits[v] : outcome[u] = "none"
      BY <1>2, <1>5, WavesInOrder DEF Inv, Accounted
    <2>3. QED
      BY <1>1, <1>5, <1>6, <2>1, <2>2 DEF Inv, Accounted
  <1>8. QED
    BY <1>1, <1>2, <1>5, <1>6, <1>7 DEF Inv, InFlight

LEMMA NextKeeps ==
  ASSUME Inv, [Next]_vars
  PROVE  Inv'
  <1>1. CASE WavePlanned
    BY <1>1, WavePlannedKeeps
  <1>2. CASE \E u \in Units : IntegrateObserved(u) \/ TerminalWithoutLanding(u) \/ ReservationReleased(u)
    BY <1>2, IntegrateKeeps, TerminalKeeps, ReleasedKeeps
  <1>3. CASE \E t \in Targets : ResolveIntent(t) \/ SourcesObserved(t)
    BY <1>3, ResolveIntentKeeps, SourcesObservedKeeps
  <1>4. CASE \E p \in Stages \X Destinations : ProbeIntent(p) \/ DestinationProbeObserved(p)
    BY <1>4, ProbeIntentKeeps, ProbeObservedKeeps
  <1>5. CASE \E i \in Items : ClockObserved(i) \/ MaterialiseIntent(i) \/ MaterialiseObserved(i)
    BY <1>5, ClockObservedKeeps, MaterialiseIntentKeeps, MaterialiseObservedKeeps
  <1>6. CASE ProvenanceClockObserved
    BY <1>6, ProvenanceClockKeeps
  <1>7. CASE ProvenanceCommitIntent
    BY <1>7, ProvenanceIntentKeeps
  <1>8. CASE ProvenanceCommitObserved
    BY <1>8, ProvenanceObservedKeeps
  <1>9. CASE VerificationIntent
    BY <1>9, VerificationIntentKeeps
  <1>10. CASE VerificationObserved
    BY <1>10, VerificationObservedKeeps
  <1>11. CASE GateEntryDeferred
    BY <1>11, GateEntryDeferredKeeps
  <1>12. CASE Finished
    BY <1>12 DEF Finished, vars, Inv, Accounted
  <1>13. CASE UNCHANGED vars
    BY <1>13 DEF vars, Inv, Accounted
  <1>14. QED
    BY <1>1, <1>2, <1>3, <1>4, <1>5, <1>6, <1>7, <1>8, <1>9, <1>10, <1>11, <1>12, <1>13 DEF Next

(* The invariant holds throughout: no event reduceGate admits leaves it, whatever the    *)
(* waves, targets, outputs, aliases and clocks. *)
THEOREM InvHolds == Spec => []Inv
  <1>1. Init => Inv
    BY InitInv
  <1>2. Inv /\ [Next]_vars => Inv'
    BY NextKeeps
  <1>3. QED
    BY <1>1, <1>2, PTL DEF Spec

(* The gate's records keep their types, and no target is both promised and attached *)
(* (attachUnitTargetSource, attachGateTargetSource). *)
THEOREM TypeCorrect == Spec => []TypeOK
  <1>1. Inv => TypeOK
    <2> SUFFICES ASSUME Inv PROVE TypeOK
      OBVIOUS
    <2>1. Typed(gate) /\ outcome \in [Units -> {"none", "landed", "not_landed"}]
      BY DEF Inv, GateInv
    <2>2. QED
      BY <2>1, GateFields DEF TypeOK
  <1>2. QED
    BY <1>1, InvHolds, PTL

(* Every unit that landed is recorded by exactly one provenance commit, or is still owed *)
(* one: by this gate, by the commit that is pending, or by the carry of a deferred one.   *)
(* (integrate_observed, provenance_commit_observed, deferGateEntry, reduceWavePlan)       *)
THEOREM LandingsAccounted == Spec => []LandingsAccountedOnce
  <1>1. Inv => LandingsAccountedOnce
    BY DEF Inv, Accounted, LandingsAccountedOnce
  <1>2. QED
    BY <1>1, InvHolds, PTL

-----------------------------------------------------------------------------
(* The gate is never silently stuck *)

LEMMA NothingAdvertised ==
  ASSUME NEW g, Advertised(g) = {}
  PROVE  /\ \A t \in DOMAIN g.targets : StageOpen(g, Stage(t)) => ~Pending(g.resolutions[t])
         /\ \A p \in DOMAIN g.probes : StageOpen(g, p[1]) => ~Pending(g.probes[p])
         /\ \A i \in DOMAIN g.items : ~Pending(g.items[i])
         /\ ~(g.provenance.entry /\ Pending(g.provenance))
         /\ ~(g.verify.entry /\ Pending(g.verify))
  <1>1. PICK resolutions :
          resolutions = {t \in DOMAIN g.targets : Pending(g.resolutions[t]) /\ StageOpen(g, Stage(t))}
    OBVIOUS
  <1>2. PICK probes : probes = {p \in DOMAIN g.probes : Pending(g.probes[p]) /\ StageOpen(g, p[1])}
    OBVIOUS
  <1>3. PICK open : open = {i \in DOMAIN g.items : Pending(g.items[i])}
    OBVIOUS
  <1>4. PICK unnamed : unnamed = {i \in open : g.items[i].name = NoName}
    OBVIOUS
  <1>5. PICK refused : refused = {i \in open : g.items[i].refusal # "none"}
    OBVIOUS
  <1>6. resolutions = {}
    BY <1>1 DEF Advertised
  <1>7. probes = {}
    BY <1>1, <1>2, <1>6 DEF Advertised
  <1>8. unnamed = {}
    BY <1>1, <1>2, <1>3, <1>4, <1>6, <1>7 DEF Advertised
  <1>9. refused = {}
    BY <1>1, <1>2, <1>3, <1>4, <1>5, <1>6, <1>7, <1>8 DEF Advertised
  <1>10. open = {}
    BY <1>1, <1>2, <1>3, <1>4, <1>5, <1>6, <1>7, <1>8, <1>9 DEF Advertised
  <1>11. ~(g.provenance.entry /\ Pending(g.provenance))
    BY <1>1, <1>2, <1>3, <1>4, <1>5, <1>6, <1>7, <1>8, <1>9, <1>10 DEF Advertised
  <1>12. ~(g.verify.entry /\ Pending(g.verify))
    BY <1>1, <1>2, <1>3, <1>4, <1>5, <1>6, <1>7, <1>8, <1>9, <1>10, <1>11 DEF Advertised
  <1>13. QED
    BY <1>1, <1>2, <1>3, <1>6, <1>7, <1>10, <1>11, <1>12

LEMMA QuietGateIsGreen ==
  ASSUME NEW g, NEW evidence, GateInv(g, evidence), g.unitIds = {}, Advertised(g) = {}
  PROVE  GateIsGreen(g)
  <1>1. /\ Typed(g) /\ GateInvariantHolds(g)
        /\ \A s \in Stages : StageInv(g, s) /\ Sourced(g, s) /\ StageClosed(g, s)
        /\ \A t \in DOMAIN g.targets : Stage(t) \in Stages /\ t \in StageTargets(g, Stage(t))
    BY GateParts
  <1>2. /\ \A t \in DOMAIN g.targets : StageOpen(g, Stage(t)) => ~Pending(g.resolutions[t])
        /\ \A p \in DOMAIN g.probes : StageOpen(g, p[1]) => ~Pending(g.probes[p])
        /\ \A i \in DOMAIN g.items : ~Pending(g.items[i])
        /\ ~(g.provenance.entry /\ Pending(g.provenance))
        /\ ~(g.verify.entry /\ Pending(g.verify))
    BY NothingAdvertised
  <1>3. \A t \in DOMAIN g.targets : StageOpen(g, Stage(t))
    <2> SUFFICES ASSUME NEW t \in DOMAIN g.targets PROVE StageOpen(g, Stage(t))
      OBVIOUS
    <2>1. CASE Stage(t) = "unit"
      BY <2>1 DEF StageOpen
    <2>2. CASE Stage(t) = "gate"
      BY <1>1, <2>2 DEF GateInvariantHolds, StagesAreOrdered
    <2>3. QED
      BY <1>1, <2>1, <2>2 DEF Stages
  <1>4. \A p \in DOMAIN g.probes : ~Pending(g.probes[p])
    <2> SUFFICES ASSUME NEW p \in DOMAIN g.probes, ~StageOpen(g, p[1]) PROVE FALSE
      BY <1>2
    <2>1. p[1] \in Stages /\ p \in StageProbes(g, p[1])
      BY <1>1, GateFields DEF StageProbes
    <2>2. QED
      BY <1>1, <2>1 DEF StageClosed
  <1>5. \A t \in DOMAIN g.targets : TargetIsSettled(g, t)
    <2> SUFFICES ASSUME NEW t \in DOMAIN g.targets PROVE TargetIsSettled(g, t)
      OBVIOUS
    <2>1. ~Pending(g.resolutions[t]) /\ \A i \in ItemsOf(g, t) : ~Pending(g.items[i])
      BY <1>2, <1>3 DEF ItemsOf
    <2>2. g.resolutions[t].status = "voided" => g.targets[t].status = "voided"
      BY <1>1 DEF StageInv, Settling
    <2>3. g.resolutions[t].status \in {"pending", "observed", "voided"} /\ t \in Targets
      BY <1>1, GateFields DEF RecordType
    <2>4. g.resolutions[t].status = "observed" => ItemsOf(g, t) # {}
      BY <1>1, <2>3, StageFacts DEF Sourced, ItemsOf
    <2>5. QED
      BY <2>1, <2>2, <2>3, <2>4 DEF TargetIsSettled, Pending
  <1>6. \A t \in DOMAIN g.promises : Stage(t) = "unit" => ~Pending(g.promises[t])
    BY DEF GateInv, PromisesInv
  <1>7. UnitProjectionStageSettled(g)
    BY <1>4, <1>5, <1>6 DEF UnitProjectionStageSettled, StageTargets, StageProbes
  <1>8. /\ g.provenance.status \in {"pending", "observed", "voided"}
        /\ g.verify.status \in {"pending", "observed", "voided"}
    BY <1>1, GateFields DEF ProvenanceType, VerifyType, Statuses
  <1>9. g.provenance.status = "voided" \/ (g.provenance.entry /\ g.provenance.status = "observed")
    BY <1>2, <1>7, <1>8 DEF GateInv, ProvenanceInv, Pending
  <1>10. g.verify.status = "voided" \/ (g.verify.entry /\ g.verify.status = "observed")
    BY <1>2, <1>8, <1>9 DEF GateInv, ProvenanceInv, ProvenanceKnown, Pending
  <1>11. \A t \in DOMAIN g.promises : g.promises[t].status = "voided"
    <2> SUFFICES ASSUME NEW t \in DOMAIN g.promises PROVE g.promises[t].status = "voided"
      OBVIOUS
    <2>1. /\ g.promises[t].status \in {"pending", "observed", "voided"} /\ t \in Targets
          /\ g.promises[t].status # "observed"
      BY <1>1, GateFields DEF RecordType, GateInv, PromisesInv
    <2>2. CASE Stage(t) = "unit"
      BY <1>6, <2>1, <2>2 DEF Pending
    <2>3. CASE Stage(t) = "gate"
      BY <1>10, <2>3 DEF GateInv, PromisesInv
    <2>4. QED
      BY <2>1, <2>2, <2>3, StageFacts DEF Stages
  <1>12. QED
    BY <1>4, <1>5, <1>9, <1>10, <1>11 DEF GateIsGreen

(* A gate that offers no action while its wave has ended is green: no deferral and no     *)
(* void leaves an entry pending that actionsForGate has nothing for.                      *)
THEOREM QuietIsGreen == Spec => []QuietMeansGreen
  <1>1. Inv => QuietMeansGreen
    BY QuietGateIsGreen DEF Inv, QuietMeansGreen
  <1>2. QED
    BY <1>1, InvHolds, PTL

-----------------------------------------------------------------------------
(* A second invariant: nothing is owed before the provenance entry exists *)

(* Before its provenance entry a gate owes no follow-up, and no pending     *)
(* target was ever refused.                                                *)
Unowed(g) ==
  /\ ~g.provenance.entry =>
       ~g.verify.followUp /\ \A t \in DOMAIN g.promises : ~g.promises[t].followUp
  /\ \A t \in DOMAIN g.targets : Pending(g.targets[t]) => g.targets[t].refusal = "none"

(* h owes no more than g where Unowed looks. *)
OwesLess(g, h) ==
  /\ ~h.provenance.entry =>
       /\ ~g.provenance.entry /\ h.verify.followUp = g.verify.followUp
       /\ \A t \in DOMAIN h.promises :
            t \in DOMAIN g.promises /\ h.promises[t].followUp = g.promises[t].followUp
  /\ \A t \in DOMAIN h.targets : Pending(h.targets[t]) =>
       \/ h.targets[t].refusal = "none"
       \/ t \in DOMAIN g.targets /\ h.targets[t] = g.targets[t]

LEMMA UnowedKept ==
  ASSUME NEW g, NEW h, Unowed(g), OwesLess(g, h)
  PROVE  Unowed(h)
  BY DEF Unowed, OwesLess

LEMMA OwesLessThrough ==
  ASSUME NEW g, NEW f, NEW h, OwesLess(g, f), OwesLess(f, h)
  PROVE  OwesLess(g, h)
  <1>1. ASSUME ~h.provenance.entry
        PROVE  /\ ~g.provenance.entry /\ h.verify.followUp = g.verify.followUp
               /\ \A t \in DOMAIN h.promises :
                    t \in DOMAIN g.promises /\ h.promises[t].followUp = g.promises[t].followUp
    BY <1>1 DEF OwesLess
  <1>2. ASSUME NEW t \in DOMAIN h.targets, Pending(h.targets[t])
        PROVE  \/ h.targets[t].refusal = "none"
               \/ t \in DOMAIN g.targets /\ h.targets[t] = g.targets[t]
    BY <1>2 DEF OwesLess
  <1>3. QED
    BY <1>1, <1>2 DEF OwesLess

LEMMA FrameOwes ==
  ASSUME NEW g, NEW h, Frame(g, h),
         \A t \in DOMAIN h.targets : Pending(h.targets[t]) =>
           t \in DOMAIN g.targets /\ h.targets[t] = g.targets[t]
  PROVE  OwesLess(g, h)
  BY DEF Frame, OwesLess

LEMMA SettleOwes ==
  ASSUME NEW g, Typed(g), NEW t \in DOMAIN g.targets, NEW h, h = SettleTargetPromise(g, t)
  PROVE  OwesLess(g, h)
  <1>1. /\ Frame(g, h) /\ DOMAIN h.targets = DOMAIN g.targets
        /\ \A u \in DOMAIN g.targets : u # t => h.targets[u] = g.targets[u]
        /\ \/ h.targets[t] = g.targets[t]
           \/ h.targets[t] = CascadeVoid(g.targets[t]) \/ h.targets[t] = Observed(g.targets[t])
    BY SettleFields
  <1>2. g.targets[t] \in RecordType /\ "none" \in Dispositions /\ "none" \in Refusals
    BY GateFields DEF Dispositions, Refusals
  <1>3. ~Pending(CascadeVoid(g.targets[t])) /\ ~Pending(Observed(g.targets[t]))
    BY <1>2, RecordOps DEF Pending
  <1>4. QED
    BY <1>1, <1>3, FrameOwes

(* The gate's promises are voided with the provenance; what they owe stays. *)
LEMMA PromisesVoided ==
  ASSUME NEW g, Typed(g), CreatesProvenance(g), ProvenanceUnits(g) = {},
         NEW h, h = MaybeCreateProvenance(g)
  PROVE  /\ DOMAIN h.promises = DOMAIN g.promises
         /\ \A t \in DOMAIN g.promises :
              h.promises[t] = IF Stage(t) = "gate" THEN Voided(g.promises[t], "no_landed_units")
                              ELSE g.promises[t]
  <1>1. PICK p, v : p = Voided(g.provenance, "no_landed_units") /\ v = Voided(g.verify, "no_landed_units")
    OBVIOUS
  <1>2. PICK f : f = [t \in DOMAIN g.promises |->
                        IF t \in {u \in DOMAIN g.promises : Stage(u) = "gate"}
                        THEN Voided(g.promises[t], "no_landed_units") ELSE g.promises[t]]
    OBVIOUS
  <1>3. h = [g EXCEPT !.provenance = p, !.verify = v, !.promises = f]
    BY <1>1, <1>2 DEF MaybeCreateProvenance, CreatesProvenance, Update
  <1>4. g \in GateType
    BY DEF Typed
  <1>5. h.promises = f
    BY <1>3, <1>4 DEF GateType
  <1>6. QED
    BY <1>2, <1>5

LEMMA MaybeCreateOwes ==
  ASSUME NEW g, Typed(g), NEW h, h = MaybeCreateProvenance(g)
  PROVE  OwesLess(g, h)
  <1>1. SameTables(g, h)
    BY MaybeCreateFields
  <1>2. CASE ~CreatesProvenance(g)
    <2>1. h = g
      BY <1>2, MaybeCreateFields
    <2>2. QED
      BY <2>1 DEF OwesLess
  <1>3. CASE CreatesProvenance(g) /\ ProvenanceUnits(g) = {}
    <2>1. /\ h.provenance = Voided(g.provenance, "no_landed_units")
          /\ h.verify = Voided(g.verify, "no_landed_units")
      BY <1>3, MaybeCreateFields
    <2>2. "no_landed_units" \in Dispositions
      BY DEF Dispositions
    <2>3. /\ g.provenance \in ProvenanceType /\ g.verify \in VerifyType
          /\ \A t \in DOMAIN g.promises : g.promises[t] \in RecordType
      BY GateFields
    <2>4. h.verify.followUp = g.verify.followUp
      BY <2>1, <2>3 DEF Voided, VerifyType
    <2>5. ~g.provenance.entry
      BY <1>3 DEF CreatesProvenance
    <2>6. \A t \in DOMAIN g.promises : Voided(g.promises[t], "no_landed_units").followUp = g.promises[t].followUp
      BY <2>3 DEF Voided, RecordType
    <2>7. \A t \in DOMAIN h.promises :
            t \in DOMAIN g.promises /\ h.promises[t].followUp = g.promises[t].followUp
      BY <1>3, <2>6, PromisesVoided
    <2>8. QED
      BY <1>1, <2>4, <2>5, <2>7 DEF OwesLess, SameTables
  <1>4. CASE CreatesProvenance(g) /\ ProvenanceUnits(g) # {}
    <2>1. h.provenance = [g.provenance EXCEPT !.entry = TRUE, !.units = ProvenanceUnits(g)]
      BY <1>4, MaybeCreateFields
    <2>2. h.provenance.entry
      BY <2>1, GateFields DEF ProvenanceType
    <2>3. QED
      BY <1>1, <2>2 DEF OwesLess, SameTables
  <1>5. QED
    BY <1>2, <1>3, <1>4

LEMMA VoidUnitOwes ==
  ASSUME NEW g, Typed(g), NEW u \in Units, NEW why \in Dispositions,
         NEW h, h = VoidUnitTargets(g, u, why)
  PROVE  OwesLess(g, h)
  <1>1. /\ SameTables(g, h) /\ h.provenance = g.provenance /\ h.verify = g.verify
        /\ DOMAIN h.promises = DOMAIN g.promises
    BY UnitVoidFields
  <1>2. PICK f : f = [t \in DOMAIN g.promises |->
                        IF t \in {v \in DOMAIN g.promises : Origin[v] = u}
                        THEN Voided(g.promises[t], why) ELSE g.promises[t]]
    OBVIOUS
  <1>3. h = [g EXCEPT !.promises = f]
    BY <1>2 DEF VoidUnitTargets, Update
  <1>4. h.promises = f
    BY <1>3 DEF Typed, GateType
  <1>5. \A t \in DOMAIN g.promises : g.promises[t] \in RecordType
    BY GateFields
  <1>6. \A t \in DOMAIN g.promises : Voided(g.promises[t], why).followUp = g.promises[t].followUp
    BY <1>5 DEF Voided, RecordType
  <1>7. \A t \in DOMAIN g.promises : f[t].followUp = g.promises[t].followUp
    BY <1>2, <1>6
  <1>8. QED
    BY <1>1, <1>4, <1>7 DEF OwesLess, SameTables

LEMMA AttachOwes ==
  ASSUME NEW g, Typed(g), NEW S, NEW h, h = AttachSource(g, S)
  PROVE  OwesLess(g, h)
  <1>1. PICK due : due = {t \in S \cap DOMAIN g.promises : Pending(g.promises[t])}
    OBVIOUS
  <1>2. /\ h.provenance = g.provenance /\ h.verify = g.verify
        /\ DOMAIN h.promises = DOMAIN g.promises \ due
        /\ \A t \in DOMAIN h.promises : h.promises[t] = g.promises[t]
        /\ DOMAIN h.targets = DOMAIN g.targets \cup due
        /\ \A t \in DOMAIN g.targets : h.targets[t] = g.targets[t]
        /\ \A t \in due : h.targets[t] = Fresh
    BY <1>1, AttachFields
  <1>3. QED
    BY <1>2, FreshTyped DEF OwesLess

(* A change of one table of a typed gate, then what follows from it. *)
LEMMA TableOwes ==
  ASSUME NEW g, NEW f, Typed(f), Frame(g, f),
         \A t \in DOMAIN f.targets : Pending(f.targets[t]) =>
           t \in DOMAIN g.targets /\ f.targets[t] = g.targets[t],
         NEW h, \/ h = f \/ h = MaybeCreateProvenance(f)
                \/ \E t \in DOMAIN f.targets :
                     h = SettleTargetPromise(f, t) \/ h = MaybeCreateProvenance(SettleTargetPromise(f, t))
  PROVE  OwesLess(g, h)
  <1>1. OwesLess(g, f)
    BY FrameOwes
  <1>2. ASSUME NEW e, Typed(e), OwesLess(g, e)
        PROVE  OwesLess(g, MaybeCreateProvenance(e))
    BY <1>2, MaybeCreateOwes, OwesLessThrough
  <1>3. ASSUME NEW t \in DOMAIN f.targets
        PROVE  Typed(SettleTargetPromise(f, t)) /\ OwesLess(g, SettleTargetPromise(f, t))
    <2>1. PICK e : e = SettleTargetPromise(f, t)
      OBVIOUS
    <2>2. Typed(e) /\ OwesLess(f, e)
      BY <2>1, SettleFields, SettleOwes
    <2>3. QED
      BY <1>1, <2>1, <2>2, OwesLessThrough
  <1>4. QED
    BY <1>1, <1>2, <1>3

LEMMA ItemOwes ==
  ASSUME NEW g, Typed(g), NEW i \in DOMAIN g.items, NEW r \in ItemType,
         TargetOf[i] \in DOMAIN g.targets,
         NEW h, h = MaybeCreateProvenance(SettleTargetPromise(WithItem(g, i, r), TargetOf[i]))
  PROVE  OwesLess(g, h)
  <1>1. PICK f : f = WithItem(g, i, r)
    OBVIOUS
  <1>2. Typed(f) /\ Frame(g, f) /\ f.targets = g.targets
    BY <1>1, ItemSet DEF WithItem
  <1>3. QED
    BY <1>1, <1>2, TableOwes

LEMMA ResolutionOwes ==
  ASSUME Inv, NEW t \in Targets, ResolveIntent(t) \/ SourcesObserved(t)
  PROVE  OwesLess(gate, gate')
  <1>1. PICK r, q : r = Attempted(gate.resolutions[t]) /\ q = RefusedWith(gate.resolutions[t], "refused")
    OBVIOUS
  <1>2. /\ t \in DOMAIN gate.targets
        /\ \/ gate' = [gate EXCEPT !.resolutions[t] = r]
           \/ gate' = [gate EXCEPT !.resolutions[t] = q]
           \/ gate' = Resolved(gate, t) /\ effect = <<"resolution", t>>
    BY <1>1 DEF ResolveIntent, SourcesObserved, Intend, Record, Commit, ResolveRefused
  <1>3. /\ Typed(gate) /\ gate.resolutions[t] \in RecordType /\ GateInv(gate, outcome)
        /\ "none" \in Dispositions /\ "refused" \in Refusals
    BY <1>2, GateFields DEF Inv, GateInv, Dispositions, Refusals
  <1>4. r \in RecordType /\ q \in RecordType
    BY <1>1, <1>3, RecordOps
  <1>5. ASSUME NEW v \in RecordType, gate' = [gate EXCEPT !.resolutions[t] = v]
        PROVE  OwesLess(gate, gate')
    <2>1. PICK h : h = gate'
      OBVIOUS
    <2>2. h = [gate EXCEPT !.resolutions[t] = v]
      BY <1>5, <2>1
    <2>3. Frame(gate, h) /\ h.targets = gate.targets
      BY <1>2, <1>3, <2>2, ResolutionSet
    <2>4. QED
      BY <2>1, <2>3, FrameOwes
  <1>6. CASE gate' = Resolved(gate, t) /\ effect = <<"resolution", t>>
    <2>1. Pending(gate.resolutions[t])
      BY <1>2, <1>6, FlightFacts DEF Inv
    <2>2. Pending(gate.targets[t]) /\ StageInv(gate, Stage(t))
          /\ \A i \in DOMAIN gate.items : gate.items[i].refusal # "none" => IsNamed(gate, i)
      BY <1>2, <1>3, <2>1, GateParts
    <2>3. PICK h : h = gate'
      OBVIOUS
    <2>4. h = Resolved(gate, t)
      BY <1>6, <2>3
    <2>5. Frame(gate, h) /\ h.targets = gate.targets
      BY <1>2, <1>3, <2>1, <2>2, <2>4, ResolvedKeeps
    <2>6. QED
      BY <2>3, <2>5, FrameOwes
  <1>7. QED
    BY <1>2, <1>4, <1>5, <1>6

LEMMA ProbeOwes ==
  ASSUME Inv, NEW p \in Stages \X Destinations, ProbeIntent(p) \/ DestinationProbeObserved(p)
  PROVE  OwesLess(gate, gate')
  <1>1. PICK r, q, o : /\ r = Attempted(gate.probes[p]) /\ q = RefusedWith(gate.probes[p], "refused")
                       /\ o = Observed(gate.probes[p])
    OBVIOUS
  <1>2. /\ p \in DOMAIN gate.probes
        /\ \/ gate' = [gate EXCEPT !.probes[p] = r]
           \/ gate' = MaybeCreateProvenance([gate EXCEPT !.probes[p] = q])
           \/ gate' = MaybeCreateProvenance([gate EXCEPT !.probes[p] = o])
           \/ gate' = MaybeCreateProvenance(Unmounted(gate, p))
    BY <1>1 DEF ProbeIntent, DestinationProbeObserved, Intend, Record, Commit, ProbeRefused, Probed,
                ProbeUnmounted, Unmounted
  <1>3. /\ Typed(gate) /\ gate.probes[p] \in RecordType
        /\ "none" \in Dispositions /\ "refused" \in Refusals
    BY <1>2, GateFields DEF Inv, GateInv, Dispositions, Refusals
  <1>4. r \in RecordType /\ q \in RecordType /\ o \in RecordType
    BY <1>1, <1>3, RecordOps
  <1>5. ASSUME NEW v \in RecordType, NEW f, f = [gate EXCEPT !.probes[p] = v]
        PROVE  Typed(f) /\ Frame(gate, f) /\ f.targets = gate.targets
    BY <1>2, <1>3, <1>5, ProbeSet
  <1>6. PICK f : f = Unmounted(gate, p)
    OBVIOUS
  <1>7. ProbeVoids(gate, f, p)
    BY <1>2, <1>3, <1>6, UnmountedFields
  <1>8. /\ Typed(f) /\ Frame(gate, f)
        /\ \A t \in DOMAIN f.targets : Pending(f.targets[t]) =>
             t \in DOMAIN gate.targets /\ f.targets[t] = gate.targets[t]
    BY <1>7 DEF ProbeVoids, Pending
  <1>9. ASSUME NEW v \in RecordType,
               \/ gate' = [gate EXCEPT !.probes[p] = v]
               \/ gate' = MaybeCreateProvenance([gate EXCEPT !.probes[p] = v])
        PROVE  OwesLess(gate, gate')
    <2>1. PICK e : e = [gate EXCEPT !.probes[p] = v]
      OBVIOUS
    <2>2. Typed(e) /\ Frame(gate, e) /\ e.targets = gate.targets
      BY <1>5, <2>1
    <2>3. gate' = e \/ gate' = MaybeCreateProvenance(e)
      BY <1>9, <2>1
    <2>4. QED
      BY <2>2, <2>3, TableOwes
  <1>10. CASE gate' = MaybeCreateProvenance(Unmounted(gate, p))
    BY <1>6, <1>8, <1>10, TableOwes
  <1>11. QED
    BY <1>2, <1>4, <1>9, <1>10

LEMMA OutputOwes ==
  ASSUME Inv, NEW i \in Items, ClockObserved(i) \/ MaterialiseIntent(i) \/ MaterialiseObserved(i)
  PROVE  OwesLess(gate, gate')
  <1>1. GateInv(gate, outcome) /\ Typed(gate)
    BY DEF Inv, GateInv
  <1>2. i \in DOMAIN gate.items
    BY DEF ClockObserved, MaterialiseIntent, MaterialiseObserved
  <1>3. /\ TargetOf[i] \in DOMAIN gate.targets /\ gate.items[i] \in ItemType
        /\ Stage(TargetOf[i]) \in Stages /\ StageInv(gate, Stage(TargetOf[i]))
        /\ "none" \in Dispositions /\ "refused" \in Refusals
    BY <1>1, <1>2, GateParts, GateFields DEF Dispositions, Refusals
  <1>4. CASE ClockObserved(i)
    <2>1. PICK c \in Clocks : ClockReads(gate, i, c) /\ gate' = Named(gate, i, c)
      BY <1>4 DEF ClockObserved, Commit
    <2>2. ClockDue(gate, i)
      BY <1>4 DEF ClockObserved
    <2>3. PICK h : h = gate'
      OBVIOUS
    <2>4. \A j \in DOMAIN gate.items :
            /\ gate.items[j].refusal # "none" => IsNamed(gate, j)
            /\ Pending(gate.items[j]) => gate.targets[TargetOf[j]].status # "voided"
      BY <1>1, GateParts DEF Pending
    <2>5. h = Named(gate, i, c)
      BY <2>1, <2>3
    <2>6. Frame(gate, h) /\ h.targets = gate.targets
      BY <1>1, <1>2, <1>3, <2>1, <2>2, <2>4, <2>5, NamedKeeps
    <2>7. QED
      BY <2>3, <2>6, FrameOwes
  <1>5. CASE MaterialiseIntent(i)
    <2>1. PICK h : h = gate'
      OBVIOUS
    <2>2. PICK r : r = Attempted(gate.items[i])
      OBVIOUS
    <2>3. r \in ItemType
      BY <1>3, <2>2, ItemOps DEF Refusals
    <2>4. h = [gate EXCEPT !.items[i] = r]
      BY <1>5, <2>1, <2>2 DEF MaterialiseIntent, Intend, Commit
    <2>5. Frame(gate, h) /\ h.targets = gate.targets
      BY <1>1, <1>2, <2>3, <2>4, ItemSet
    <2>6. QED
      BY <2>1, <2>5, FrameOwes
  <1>6. CASE MaterialiseObserved(i)
    <2>1. PICK r, q : r = Observed(gate.items[i]) /\ q = RefusedWith(gate.items[i], "refused")
      OBVIOUS
    <2>2. r \in ItemType /\ q \in ItemType
      BY <1>3, <2>1, ItemOps
    <2>3. \E v \in {r, q} :
            gate' = MaybeCreateProvenance(SettleTargetPromise(WithItem(gate, i, v), TargetOf[i]))
      BY <1>6, <2>1 DEF MaterialiseObserved, Record, Commit, Materialised, MaterialiseRefused, WithItem
    <2>4. QED
      BY <1>1, <1>2, <1>3, <2>2, <2>3, ItemOwes
  <1>7. QED
    BY <1>4, <1>5, <1>6

(* A provenance record that keeps its entry. *)
LEMMA ProvenanceRecordOwes ==
  ASSUME NEW g, Typed(g), NEW r \in ProvenanceType, r.entry = g.provenance.entry,
         NEW h, h = WithProvenance(g, r)
  PROVE  OwesLess(g, h)
  BY WithProvenanceFields DEF OwesLess, SameTables

LEMMA ProvenanceOwes ==
  ASSUME Inv, \/ ProvenanceClockObserved \/ ProvenanceCommitIntent \/ ProvenanceCommitObserved
  PROVE  OwesLess(gate, gate')
  <1>1. /\ Typed(gate) /\ gate.provenance \in ProvenanceType
        /\ "none" \in Dispositions /\ "none" \in Refusals
        /\ {"provenance_base_advanced", "refused"} \subseteq Refusals
    BY GateFields DEF Inv, GateInv, Dispositions, Refusals
  <1>2. ASSUME NEW r \in ProvenanceType, r.entry = gate.provenance.entry,
               gate' = WithProvenance(gate, r)
        PROVE  OwesLess(gate, gate')
    <2>1. PICK h : h = gate'
      OBVIOUS
    <2>2. h = WithProvenance(gate, r)
      BY <1>2, <2>1
    <2>3. OwesLess(gate, h)
      BY <1>1, <1>2, <2>2, ProvenanceRecordOwes
    <2>4. QED
      BY <2>1, <2>3
  <1>3. CASE ProvenanceClockObserved
    <2>1. PICK r : r = [gate.provenance EXCEPT !.clocked = TRUE]
      OBVIOUS
    <2>2. r \in ProvenanceType /\ r.entry = gate.provenance.entry
      BY <1>1, <2>1 DEF ProvenanceType
    <2>3. gate' = WithProvenance(gate, r)
      BY <1>3, <2>1 DEF ProvenanceClockObserved, Commit, WithProvenance
    <2>4. QED
      BY <1>2, <2>2, <2>3
  <1>4. CASE ProvenanceCommitIntent
    <2>1. PICK r : r = Attempted(gate.provenance)
      OBVIOUS
    <2>2. r \in ProvenanceType /\ r.entry = gate.provenance.entry
      BY <1>1, <2>1, ProvenanceOps
    <2>3. gate' = WithProvenance(gate, r)
      BY <1>4, <2>1 DEF ProvenanceCommitIntent, Intend, Commit, WithProvenance
    <2>4. QED
      BY <1>2, <2>2, <2>3
  <1>5. CASE ProvenanceCommitObserved /\ gate' = ProvenanceCommitted(gate)
    <2>1. PICK h : h = gate'
      OBVIOUS
    <2>2. /\ gate.provenance.entry /\ Pending(gate.provenance)
      BY <1>5, FlightFacts DEF Inv, ProvenanceCommitObserved, Record
    <2>3. h.provenance = Observed(gate.provenance) /\ h.targets = gate.targets
      <3>1. h = [gate EXCEPT !.provenance = Observed(gate.provenance),
                             !.verify.entry = TRUE, !.uncommitted = {}]
        BY <1>5, <2>1 DEF ProvenanceCommitted
      <3>2. gate \in GateType
        BY <1>1 DEF Typed
      <3>3. QED
        BY <3>1, <3>2 DEF GateType
    <2>4. Observed(gate.provenance).entry
      BY <1>1, <2>2, ProvenanceOps
    <2>5. QED
      BY <2>1, <2>3, <2>4 DEF OwesLess
  <1>6. CASE ProvenanceCommitObserved /\ gate' # ProvenanceCommitted(gate)
    <2>1. PICK code \in {"provenance_base_advanced", "refused"} :
            gate' = WithProvenance(gate, RefusedWith(gate.provenance, code))
      BY <1>6 DEF ProvenanceCommitObserved, Record, Commit, WithProvenance
    <2>2. PICK r : r = RefusedWith(gate.provenance, code)
      OBVIOUS
    <2>3. r \in ProvenanceType /\ r.entry = gate.provenance.entry
      <3>1. code \in Refusals
        BY <1>1
      <3>2. QED
        BY ZenonT(60), <1>1, <2>2, <3>1, ProvenanceOps
    <2>4. QED
      BY <1>2, <2>1, <2>2, <2>3
  <1>7. QED
    BY <1>3, <1>4, <1>5, <1>6

LEMMA VerificationOwes ==
  ASSUME Inv, VerificationIntent \/ VerificationObserved
  PROVE  OwesLess(gate, gate')
  <1>1. GateInv(gate, outcome) /\ Typed(gate)
    BY DEF Inv, GateInv
  <1>2. CASE VerificationIntent
    BY <1>2 DEF VerificationIntent, Intend, Commit, OwesLess
  <1>3. CASE VerificationObserved
    <2>1. gate.verify.entry
      BY <1>3, FlightFacts DEF Inv, VerificationObserved, Record
    <2>2. gate.provenance.entry
      BY <1>1, <2>1 DEF GateInv, ProvenanceInv, ProvenanceKnown
    <2>3. PICK r, q : r = Observed(gate.verify) /\ q = RefusedWith(gate.verify, "verification_failed")
      OBVIOUS
    <2>4. r \in VerifyType /\ q \in VerifyType
      <3>1. gate.verify \in VerifyType /\ "verification_failed" \in Refusals
        BY <1>1, GateFields DEF Refusals
      <3>2. QED
        BY <2>3, <3>1, VerifyOps
    <2>5. PICK S : S = {t \in Targets : Stage(t) = "gate"}
      OBVIOUS
    <2>6. gate' = AttachSource(WithVerify(gate, r), S) \/ gate' = WithVerify(gate, q)
      BY <1>3, <2>3, <2>5 DEF VerificationObserved, Record, Commit, Verified, WithVerify
    <2>7. ASSUME NEW v \in VerifyType, NEW f, f = WithVerify(gate, v)
          PROVE  Typed(f) /\ OwesLess(gate, f)
      BY <1>1, <2>2, <2>7, WithVerifyFields DEF OwesLess, SameTables
    <2>8. PICK f, e : f = WithVerify(gate, r) /\ e = WithVerify(gate, q)
      OBVIOUS
    <2>9. Typed(f) /\ OwesLess(gate, f) /\ OwesLess(gate, e)
      BY <2>4, <2>7, <2>8
    <2>10. OwesLess(f, AttachSource(f, S))
      BY <2>9, AttachOwes
    <2>11. OwesLess(gate, AttachSource(f, S))
      BY <2>9, <2>10, OwesLessThrough
    <2>12. QED
      BY <2>6, <2>8, <2>9, <2>11
  <1>4. QED
    BY <1>2, <1>3

LEMMA DeferredOwes ==
  ASSUME Inv, GateEntryDeferred
  PROVE  OwesLess(gate, gate')
  <1>1. GateInv(gate, outcome) /\ Typed(gate)
    BY DEF Inv, GateInv
  <1>2. CASE \E t \in DOMAIN gate.targets :
               Refused(gate.resolutions[t]) /\ gate' = DeferResolution(gate, t)
    <2>1. PICK t \in DOMAIN gate.targets :
            Refused(gate.resolutions[t]) /\ gate' = DeferResolution(gate, t)
      BY <1>2
    <2>2. /\ Pending(gate.resolutions[t]) /\ Pending(gate.targets[t])
          /\ StageInv(gate, Stage(t)) /\ Stage(t) \in Stages
          /\ \A i \in DOMAIN gate.items : gate.items[i].refusal # "none" => IsNamed(gate, i)
      BY <1>1, <2>1, GateParts DEF Refused, Pending
    <2>3. ItemsOf(gate, t) = {}
      BY <1>1, <2>2, UnresolvedIsBlank
    <2>4. PICK f : f = ResolutionDeferred(gate, t)
      OBVIOUS
    <2>5. /\ Typed(f) /\ Frame(gate, f) /\ DOMAIN f.targets = DOMAIN gate.targets
          /\ f.targets[t].status = "voided"
          /\ \A u \in DOMAIN gate.targets : u # t => f.targets[u] = gate.targets[u]
      BY <1>1, <2>3, <2>4, ResolutionDeferredFields
    <2>6. PICK e : e = EnsureDestinationProbes(f, Stage(t))
      OBVIOUS
    <2>7. Typed(e) /\ Frame(f, e) /\ e.targets = f.targets
      BY <2>2, <2>5, <2>6, EnsureFields
    <2>8. Frame(gate, e)
      BY <2>5, <2>7 DEF Frame
    <2>9. \A u \in DOMAIN e.targets : Pending(e.targets[u]) =>
            u \in DOMAIN gate.targets /\ e.targets[u] = gate.targets[u]
      BY <2>5, <2>7 DEF Pending
    <2>10. gate' = MaybeCreateProvenance(e)
      BY <2>1, <2>4, <2>6 DEF DeferResolution, ResolutionDeferred
    <2>11. QED
      BY <2>7, <2>8, <2>9, <2>10, TableOwes
  <1>3. CASE \E p \in DOMAIN gate.probes : gate' = DeferProbe(gate, p)
    <2>1. PICK p \in DOMAIN gate.probes : gate' = DeferProbe(gate, p)
      BY <1>3
    <2>2. PICK f : f = ProbeDeferred(gate, p)
      OBVIOUS
    <2>3. ProbeVoids(gate, f, p)
      BY <1>1, <2>2, ProbeDeferredFields
    <2>4. /\ Typed(f) /\ Frame(gate, f)
          /\ \A t \in DOMAIN f.targets : Pending(f.targets[t]) =>
               t \in DOMAIN gate.targets /\ f.targets[t] = gate.targets[t]
      BY <2>3 DEF ProbeVoids, Pending
    <2>5. gate' = MaybeCreateProvenance(f)
      BY <2>1, <2>2 DEF DeferProbe, ProbeDeferred
    <2>6. QED
      BY <2>4, <2>5, TableOwes
  <1>4. CASE \E i \in DOMAIN gate.items : gate' = DeferItem(gate, i)
    <2>1. PICK i \in DOMAIN gate.items : gate' = DeferItem(gate, i)
      BY <1>4
    <2>2. PICK r : r = Deferred(gate.items[i])
      OBVIOUS
    <2>3. r \in ItemType
      <3>1. gate.items[i] \in ItemType /\ "none" \in Refusals /\ "none" \in Dispositions
        BY <1>1, GateFields DEF Refusals, Dispositions
      <3>2. QED
        BY <2>2, <3>1, ItemOps
    <2>4. gate' = MaybeCreateProvenance(SettleTargetPromise(WithItem(gate, i, r), TargetOf[i]))
      BY <2>1, <2>2 DEF DeferItem, WithItem
    <2>5. TargetOf[i] \in DOMAIN gate.targets
      BY <1>1, GateParts
    <2>6. QED
      BY <1>1, <2>3, <2>4, <2>5, ItemOwes
  <1>5. CASE gate.provenance.entry /\ Refused(gate.provenance) /\ gate' = DeferProvenance(gate)
    <2>1. PICK r, v : r = Deferred(gate.provenance) /\ v = CascadeVoid(gate.verify)
      OBVIOUS
    <2>2. /\ r \in ProvenanceType /\ r.entry
      <3>1. gate.provenance \in ProvenanceType /\ "none" \in Refusals /\ "none" \in Dispositions
        BY <1>1, GateFields DEF Refusals, Dispositions
      <3>2. QED
        BY <1>5, <2>1, <3>1, ProvenanceOps
    <2>3. v \in VerifyType
      <3>1. gate.verify \in VerifyType /\ "none" \in Refusals
        BY <1>1, GateFields DEF Refusals
      <3>2. QED
        BY <2>1, <3>1, VerifyOps
    <2>4. PICK f : f = WithVerify(WithProvenance(gate, r), v)
      OBVIOUS
    <2>5. Typed(f) /\ SameTables(gate, f) /\ f.provenance = r
      <3>1. PICK e : e = WithProvenance(gate, r)
        OBVIOUS
      <3>2. Typed(e) /\ SameTables(gate, e) /\ e.provenance = r
        BY <1>1, <2>2, <3>1, WithProvenanceFields
      <3>3. Typed(f) /\ SameTables(e, f) /\ f.provenance = e.provenance
        BY <2>3, <2>4, <3>1, <3>2, WithVerifyFields
      <3>4. QED
        BY <3>2, <3>3 DEF SameTables
    <2>6. PICK h : h = CascadeGatePromises(f)
      OBVIOUS
    <2>7. SameTables(f, h) /\ h.provenance = r
      BY <2>5, <2>6, CascadeFields
    <2>8. gate' = h
      <3>1. f = [gate EXCEPT !.provenance = r, !.verify = v]
        BY <2>4 DEF WithProvenance, WithVerify
      <3>2. QED
        BY <1>5, <2>1, <2>6, <3>1 DEF DeferProvenance
    <2>9. OwesLess(gate, h)
      BY <2>2, <2>5, <2>7 DEF OwesLess, SameTables
    <2>10. QED
      BY <2>8, <2>9
  <1>6. CASE gate.verify.entry /\ Refused(gate.verify) /\ gate' = DeferVerify(gate)
    <2>1. PICK v : v = Deferred(gate.verify)
      OBVIOUS
    <2>2. v \in VerifyType
      <3>1. gate.verify \in VerifyType /\ "none" \in Refusals
        BY <1>1, GateFields DEF Refusals
      <3>2. QED
        BY <2>1, <3>1, VerifyOps
    <2>3. gate.provenance.entry
      BY <1>1, <1>6 DEF GateInv, ProvenanceInv, ProvenanceKnown
    <2>4. PICK f : f = WithVerify(gate, v)
      OBVIOUS
    <2>5. Typed(f) /\ SameTables(gate, f) /\ f.provenance = gate.provenance
      BY <1>1, <2>2, <2>4, WithVerifyFields
    <2>6. PICK h : h = CascadeGatePromises(f)
      OBVIOUS
    <2>7. SameTables(f, h) /\ h.provenance = gate.provenance
      BY <2>5, <2>6, CascadeFields
    <2>8. gate' = h
      BY <1>6, <2>1, <2>4, <2>6 DEF DeferVerify, WithVerify
    <2>9. OwesLess(gate, h)
      BY <2>3, <2>5, <2>7 DEF OwesLess, SameTables
    <2>10. QED
      BY <2>8, <2>9
  <1>7. QED
    BY <1>2, <1>3, <1>4, <1>5, <1>6 DEF GateEntryDeferred, Commit

LEMMA UnitOwes ==
  ASSUME Inv, NEW u \in Units,
         IntegrateObserved(u) \/ TerminalWithoutLanding(u) \/ ReservationReleased(u)
  PROVE  OwesLess(gate, gate')
  <1>1. Typed(gate)
    BY DEF Inv, GateInv
  <1>2. CASE IntegrateObserved(u)
    <2>1. PICK S : S = {t \in Targets : Origin[t] = u}
      OBVIOUS
    <2>2. gate' = AttachSource(gate, S)
      BY <1>2, <2>1 DEF IntegrateObserved, Commit
    <2>3. OwesLess(gate, AttachSource(gate, S))
      BY <1>1, AttachOwes
    <2>4. QED
      BY <2>2, <2>3
  <1>3. CASE TerminalWithoutLanding(u)
    <2>1. PICK why \in Dispositions : gate' = VoidUnitTargets(gate, u, why)
      BY <1>3 DEF TerminalWithoutLanding, Commit, Dispositions
    <2>2. OwesLess(gate, VoidUnitTargets(gate, u, why))
      BY <1>1, VoidUnitOwes
    <2>3. QED
      BY <2>1, <2>2
  <1>4. CASE ReservationReleased(u)
    <2>1. PICK f : f = CloseUnitAfterRelease(gate, u)
      OBVIOUS
    <2>2. /\ Typed(f) /\ f.promises = gate.promises /\ f.targets = gate.targets
          /\ f.provenance = gate.provenance /\ f.verify = gate.verify
      <3>1. PICK U, O \in SUBSET Units : f = [gate EXCEPT !.unitIds = U, !.uncommitted = O]
        <4>1. gate.unitIds \ {u} \in SUBSET Units /\ gate.uncommitted \in SUBSET Units
          BY <1>1, GateFields
        <4>2. QED
          BY <2>1, <4>1 DEF CloseUnitAfterRelease
      <3>2. QED
        BY <1>1, <3>1 DEF Typed, GateType
    <2>3. OwesLess(gate, f)
      BY <2>2 DEF OwesLess
    <2>4. OwesLess(f, MaybeCreateProvenance(f))
      BY <2>2, MaybeCreateOwes
    <2>5. gate' = MaybeCreateProvenance(f)
      BY <1>4, <2>1 DEF ReservationReleased, Commit
    <2>6. QED
      BY <2>3, <2>4, <2>5, OwesLessThrough
  <1>5. QED
    BY <1>2, <1>3, <1>4

(* A new gate owes nothing. *)
LEMMA NewGateUnowed ==
  ASSUME handoff \in BOOLEAN, NEW w \in DOMAIN WaveUnits, NEW carried \in SUBSET Units,
         NEW h, h = NewGate(w, carried)
  PROVE  Unowed(h)
  <1>1. /\ h.targets = <<>>
        /\ h.verify = IF handoff THEN Voided(NullVerify, "handoff_boundary") ELSE NullVerify
        /\ \A t \in DOMAIN h.promises :
              h.promises[t] = IF Stage(t) = "gate" /\ handoff
                              THEN Voided(Fresh, "handoff_boundary") ELSE Fresh
    BY NewGateFields
  <1>2. /\ Voided(NullVerify, "handoff_boundary").followUp = FALSE /\ NullVerify.followUp = FALSE
        /\ Voided(Fresh, "handoff_boundary").followUp = FALSE /\ Fresh.followUp = FALSE
    BY DEF Voided, NullVerify, Fresh
  <1>3. h.verify.followUp = FALSE
    BY <1>1, <1>2
  <1>4. \A t \in DOMAIN h.promises : h.promises[t].followUp = FALSE
    BY <1>1, <1>2
  <1>5. DOMAIN h.targets = {}
    BY <1>1
  <1>6. QED
    BY <1>3, <1>4, <1>5 DEF Unowed

LEMMA NextUnowed ==
  ASSUME Inv, Unowed(gate), [Next]_vars
  PROVE  Unowed(gate')
  <1>1. CASE WavePlanned
    <2>1. /\ wave < Len(WaveUnits) /\ GateIsGreen(gate)
          /\ gate' = NewGate(wave + 1, CarriedUnits(gate))
      BY <1>1 DEF WavePlanned, Commit
    <2>2. wave + 1 \in DOMAIN WaveUnits /\ handoff \in BOOLEAN
      BY <2>1, WavesInOrder DEF Inv
    <2>3. CarriedUnits(gate) = gate.uncommitted /\ gate.uncommitted \in SUBSET Units
      BY <2>1, CarriedIsOwed, GateFields DEF Inv, GateInv
    <2>4. PICK h, w, c : h = gate' /\ w = wave + 1 /\ c = gate.uncommitted
      OBVIOUS
    <2>5. h = NewGate(w, c) /\ w \in DOMAIN WaveUnits /\ c \in SUBSET Units
      BY <2>1, <2>2, <2>3, <2>4
    <2>6. Unowed(h)
      BY <2>2, <2>5, NewGateUnowed
    <2>7. QED
      BY <2>4, <2>6
  <1>2. CASE /\ \/ \E u \in Units : IntegrateObserved(u) \/ TerminalWithoutLanding(u) \/ ReservationReleased(u)
                \/ \E t \in Targets : ResolveIntent(t) \/ SourcesObserved(t)
                \/ \E p \in Stages \X Destinations : ProbeIntent(p) \/ DestinationProbeObserved(p)
                \/ \E i \in Items : ClockObserved(i) \/ MaterialiseIntent(i) \/ MaterialiseObserved(i)
                \/ ProvenanceClockObserved \/ ProvenanceCommitIntent \/ ProvenanceCommitObserved
                \/ VerificationIntent \/ VerificationObserved
                \/ GateEntryDeferred
    <2>1. OwesLess(gate, gate')
      BY <1>2, UnitOwes, ResolutionOwes, ProbeOwes, OutputOwes, ProvenanceOwes, VerificationOwes, DeferredOwes
    <2>2. QED
      BY <2>1, UnowedKept
  <1>3. CASE Finished \/ UNCHANGED vars
    BY <1>3 DEF Finished, vars
  <1>4. QED
    BY <1>1, <1>2, <1>3 DEF Next

(* Before a gate's provenance entry exists neither its verification nor one *)
(* of its promises owes a follow-up, since only the deferral of provenance  *)
(* or of the verification makes them owe one; and a pending target was      *)
(* never refused, since refusals stay with its resolution, probe and        *)
(* outputs.  The first provenance entry (MaybeCreateProvenance) therefore   *)
(* starts from a blank account, which the sweep of gateInvariantErrors asks. *)
THEOREM UnowedHolds == Spec => [](Inv /\ Unowed(gate))
  <1>1. Init => Inv /\ Unowed(gate)
    <2> SUFFICES ASSUME Init PROVE Inv /\ Unowed(gate)
      OBVIOUS
    <2>1. PICK h, c : h = gate /\ c = {}
      OBVIOUS
    <2>2. h = NewGate(1, c) /\ handoff \in BOOLEAN /\ 1 \in DOMAIN WaveUnits /\ c \in SUBSET Units
      BY <2>1, WavesInOrder DEF Init
    <2>3. Unowed(h)
      BY <2>2, NewGateUnowed
    <2>4. QED
      BY <2>1, <2>3, InitInv
  <1>2. Inv /\ Unowed(gate) /\ [Next]_vars => (Inv /\ Unowed(gate))'
    BY NextKeeps, NextUnowed
  <1>3. QED
    BY <1>1, <1>2, PTL DEF Spec

-----------------------------------------------------------------------------
(* The aggregate invariant in parts *)

RecordsHold(g) ==
  /\ \A t \in DOMAIN g.promises : SettlementMetadataIsCoherent(g.promises[t])
  /\ \A t \in DOMAIN g.targets : SettlementMetadataIsCoherent(g.targets[t])
                                 /\ SettlementMetadataIsCoherent(g.resolutions[t])
  /\ \A i \in DOMAIN g.items : SettlementMetadataIsCoherent(g.items[i])
  /\ \A p \in DOMAIN g.probes : SettlementMetadataIsCoherent(g.probes[p])
  /\ SettlementMetadataIsCoherent(g.provenance) /\ SettlementMetadataIsCoherent(g.verify)

TargetsHold(g) == \A t \in DOMAIN g.targets : TargetRecordIsCoherent(g, t)

OutputsHold(g) ==
  /\ \A i \in DOMAIN g.items : /\ g.items[i].refusal # "none" => IsNamed(g, i)
                               /\ CollisionWitnessIsCoherent(g, i)
  /\ ObservedFinalNamesAreUnique(g)

StagesHold(g) == ProvenanceIsCoherent(g) /\ AccountingIsCoherent(g) /\ StagesAreOrdered(g)

LEMMA HeldInParts ==
  ASSUME NEW g, Typed(g)
  PROVE  GateInvariantHolds(g) <=>
           RecordsHold(g) /\ TargetsHold(g) /\ OutputsHold(g) /\ StagesHold(g)
  <1>1. (\A r \in SettlementRecords(g) : SettlementMetadataIsCoherent(r)) <=> RecordsHold(g)
    <2>1. DOMAIN g.resolutions = DOMAIN g.targets
      BY GateFields
    <2>2. \A f : Range(f) = {f[x] : x \in DOMAIN f}
      BY DEF Range
    <2>3. \A f : (\A r \in Range(f) : SettlementMetadataIsCoherent(r))
                   <=> \A x \in DOMAIN f : SettlementMetadataIsCoherent(f[x])
      BY <2>2
    <2>4. (\A r \in SettlementRecords(g) : SettlementMetadataIsCoherent(r)) <=>
            /\ \A r \in Range(g.promises) : SettlementMetadataIsCoherent(r)
            /\ \A r \in Range(g.targets) : SettlementMetadataIsCoherent(r)
            /\ \A r \in Range(g.resolutions) : SettlementMetadataIsCoherent(r)
            /\ \A r \in Range(g.items) : SettlementMetadataIsCoherent(r)
            /\ \A r \in Range(g.probes) : SettlementMetadataIsCoherent(r)
            /\ SettlementMetadataIsCoherent(g.provenance) /\ SettlementMetadataIsCoherent(g.verify)
      BY DEF SettlementRecords
    <2>5. QED
      BY <2>1, <2>3, <2>4 DEF RecordsHold
  <1>2. QED
    BY <1>1 DEF GateInvariantHolds, TargetsHold, OutputsHold, StagesHold, IsNamed

(* The outputs and targets of a gate are held by its four tables. *)
LEMMA SameTablesHold ==
  ASSUME NEW g, NEW h, SameTables(g, h)
  PROVE  /\ TargetsHold(g) => TargetsHold(h)
         /\ OutputsHold(g) => OutputsHold(h)
         /\ StageMaterialisationsSettled(h, "unit") = StageMaterialisationsSettled(g, "unit")
         /\ ProjectionInputFits(h) = ProjectionInputFits(g)
         /\ \A s \in Stages : StageTargets(h, s) = StageTargets(g, s)
  <1>1. /\ \A s : /\ StageTargets(h, s) = StageTargets(g, s) /\ StageItems(h, s) = StageItems(g, s)
                  /\ StageProbes(h, s) = StageProbes(g, s)
        /\ \A t : ItemsOf(h, t) = ItemsOf(g, t)
        /\ \A s, i : Identity(h, s, i) = Identity(g, s, i)
        /\ \A i : FinalName(h, i) = FinalName(g, i)
    BY DEF SameTables, StageTargets, StageItems, StageProbes, ItemsOf, Identity, FinalName
  <1>2. \A s : StageNamesReady(h, s) = StageNamesReady(g, s)
    BY <1>1 DEF SameTables, StageNamesReady, StageResolutionsSettled
  <1>3. \A s, open, i : CandidatePlace(h, s, open, i) = CandidatePlace(g, s, open, i)
    BY <1>1 DEF CandidatePlace
  <1>4. \A s, v, i : NameCollisionWitness(h, s, v, i) = NameCollisionWitness(g, s, v, i)
    <2> TAKE s, v, i
    <2>1. /\ h.items = g.items /\ StageItems(h, s) = StageItems(g, s)
          /\ StageItems(h, "unit") = StageItems(g, "unit")
      BY <1>1 DEF SameTables
    <2>2. PICK open : open = {j \in StageItems(g, s) :
                                \/ Pending(g.items[j])
                                \/ /\ v
                                   /\ g.items[j].status = "voided"
                                   /\ g.items[j].refusal = "output_name_collision"}
      OBVIOUS
    <2>3. open = {j \in StageItems(h, s) :
                                \/ Pending(h.items[j])
                                \/ /\ v
                                   /\ h.items[j].status = "voided"
                                   /\ h.items[j].refusal = "output_name_collision"}
      BY <2>1, <2>2
    <2>4. PICK done : done = {j \in StageItems(g, s) \cup (IF s = "gate" THEN StageItems(g, "unit") ELSE {}) :
                                g.items[j].status = "observed"}
      OBVIOUS
    <2>5. done = {j \in StageItems(h, s) \cup (IF s = "gate" THEN StageItems(h, "unit") ELSE {}) :
                                h.items[j].status = "observed"}
      BY <2>1, <2>4
    <2>6. PICK rivals : rivals = {j \in (open \cup done) \ {i} :
                   /\ g.items[j].name # NoName
                   /\ FinalName(g, j) = FinalName(g, i)
                   /\ CandidatePlace(g, s, open, j) # {}
                   /\ CandidatePlace(g, s, open, j) = CandidatePlace(g, s, open, i)}
      OBVIOUS
    <2>7. rivals = {j \in (open \cup done) \ {i} :
                   /\ h.items[j].name # NoName
                   /\ FinalName(h, j) = FinalName(h, i)
                   /\ CandidatePlace(h, s, open, j) # {}
                   /\ CandidatePlace(h, s, open, j) = CandidatePlace(h, s, open, i)}
      BY <1>1, <1>3, <2>1, <2>6
    <2>8. NameCollisionWitness(g, s, v, i) =
            IF i \in open /\ g.items[i].name # NoName /\ rivals # {} THEN Min(rivals) ELSE NoEntry
      BY <2>2, <2>4, <2>6 DEF NameCollisionWitness
    <2>9. NameCollisionWitness(h, s, v, i) =
            IF i \in open /\ h.items[i].name # NoName /\ rivals # {} THEN Min(rivals) ELSE NoEntry
      BY <2>3, <2>5, <2>7 DEF NameCollisionWitness
    <2>10. QED
      BY <2>1, <2>8, <2>9
  <1>5. TargetsHold(g) => TargetsHold(h)
    BY <1>1 DEF SameTables, TargetsHold, TargetRecordIsCoherent, TargetIsSettled, TargetVoidOrigin
  <1>6. OutputsHold(g) => OutputsHold(h)
    <2>1. \A i : CollisionWitnessIsCoherent(h, i) = CollisionWitnessIsCoherent(g, i)
      BY <1>2, <1>4 DEF SameTables, CollisionWitnessIsCoherent
    <2>2. ObservedFinalNamesAreUnique(h) = ObservedFinalNamesAreUnique(g)
      BY <1>1 DEF SameTables, ObservedFinalNamesAreUnique
    <2>3. QED
      BY <2>1, <2>2 DEF SameTables, OutputsHold, IsNamed
  <1>7. StageMaterialisationsSettled(h, "unit") = StageMaterialisationsSettled(g, "unit")
    BY <1>1, <1>2 DEF SameTables, StageMaterialisationsSettled
  <1>8. ProjectionInputFits(h) = ProjectionInputFits(g)
    <2>1. h.items = g.items /\ StageItems(h, "unit") = StageItems(g, "unit")
      BY <1>1 DEF SameTables
    <2>2. PICK named : named = {i \in StageItems(g, "unit") :
                                  g.items[i].name # NoName /\ Identity(g, "unit", i) # {}}
      OBVIOUS
    <2>3. named = {i \in StageItems(h, "unit") :
                                  h.items[i].name # NoName /\ Identity(h, "unit", i) # {}}
      BY <1>1, <2>1, <2>2
    <2>4. PICK rivals : rivals = [i \in StageItems(g, "unit") |->
                            {j \in named \ {i} : /\ FinalName(g, j) = FinalName(g, i)
                                               /\ Identity(g, "unit", j) = Identity(g, "unit", i)}]
      OBVIOUS
    <2>5. \A i \in StageItems(g, "unit") :
            /\ rivals[i] = {j \in named \ {i} : /\ FinalName(g, j) = FinalName(g, i)
                                               /\ Identity(g, "unit", j) = Identity(g, "unit", i)}
            /\ rivals[i] = {j \in named \ {i} : /\ FinalName(h, j) = FinalName(h, i)
                                               /\ Identity(h, "unit", j) = Identity(h, "unit", i)}
      BY <1>1, <2>4
    <2>6. ProjectionInputFits(g) <=>
            \A i \in StageItems(g, "unit") :
              IF i \in named /\ rivals[i] # {}
              THEN g.items[i].refusal = "output_name_collision" /\ g.items[i].witness = Min(rivals[i])
              ELSE g.items[i].refusal # "output_name_collision"
      BY <2>2, <2>5 DEF ProjectionInputFits
    <2>7. ProjectionInputFits(h) <=>
            \A i \in StageItems(h, "unit") :
              IF i \in named /\ rivals[i] # {}
              THEN h.items[i].refusal = "output_name_collision" /\ h.items[i].witness = Min(rivals[i])
              ELSE h.items[i].refusal # "output_name_collision"
      BY <2>1, <2>3, <2>5 DEF ProjectionInputFits
    <2>8. QED
      BY <2>1, <2>6, <2>7 DEF ProjectionInputFits
  <1>9. QED
    BY <1>1, <1>5, <1>6, <1>7, <1>8

(* A unit stage whose targets and probes are settled has been materialised. *)
LEMMA SettledUnitStage ==
  ASSUME NEW g, Typed(g), StageInv(g, "unit"), UnitProjectionStageSettled(g)
  PROVE  StageMaterialisationsSettled(g, "unit")
  <1>1. \A t \in StageTargets(g, "unit") : TargetIsSettled(g, t)
    BY DEF UnitProjectionStageSettled
  <1>2. StageResolutionsSettled(g, "unit")
    BY <1>1 DEF StageResolutionsSettled, TargetIsSettled
  <1>3. \A p \in StageProbes(g, "unit") : ~Pending(g.probes[p])
    BY DEF UnitProjectionStageSettled
  <1>4. \A i \in StageItems(g, "unit") :
          /\ TargetOf[i] \in StageTargets(g, "unit") /\ i \in ItemsOf(g, TargetOf[i])
    BY DEF StageInv, Sourced, StageItems, StageTargets, ItemsOf
  <1>5. \A i \in StageItems(g, "unit") : ~Pending(g.items[i])
    BY <1>1, <1>4 DEF TargetIsSettled
  <1>6. ASSUME NEW i \in StageItems(g, "unit"), g.targets[TargetOf[i]].status # "voided"
        PROVE  g.probes[ProbeOf(TargetOf[i])].status = "observed"
    <2>1. PICK t : t = TargetOf[i]
      OBVIOUS
    <2>2. t \in StageTargets(g, "unit") /\ t \in DOMAIN g.targets /\ t \in Targets
      BY <1>4, <2>1, GateFields DEF StageTargets
    <2>3. ProbeOf(t) \in DOMAIN g.probes
      BY <1>2, <1>6, <2>1, <2>2 DEF StageInv, Probing
    <2>4. ProbeOf(t) \in StageProbes(g, "unit") /\ t \in Dependents(g, ProbeOf(t))
      BY <2>2, <2>3, StageFacts DEF StageProbes, StageTargets, Dependents
    <2>5. g.probes[ProbeOf(t)].status # "voided"
      BY <1>6, <2>1, <2>4 DEF StageInv, Probing
    <2>6. g.probes[ProbeOf(t)] \in RecordType
      BY <2>3, GateFields
    <2>7. QED
      BY <1>3, <2>1, <2>4, <2>5, <2>6 DEF Pending, RecordType
  <1>7. QED
    BY <1>2, <1>3, <1>5, <1>6 DEF StageMaterialisationsSettled, StageNamesReady

(* The outputs a collision is looked for among, voided ones included. *)
Contenders(g, s) ==
  {j \in StageItems(g, s) : Pending(g.items[j]) \/ (g.items[j].status = "voided" /\ HasCollided(g, j))}
Published(g, s) ==
  {j \in StageItems(g, s) \cup (IF s = "gate" THEN StageItems(g, "unit") ELSE {}) :
     g.items[j].status = "observed"}
Rivals(g, s, i) ==
  {j \in (Contenders(g, s) \cup Published(g, s)) \ {i} :
     /\ IsNamed(g, j) /\ FinalName(g, j) = FinalName(g, i)
     /\ CandidatePlace(g, s, Contenders(g, s), j) # {}
     /\ CandidatePlace(g, s, Contenders(g, s), j) = CandidatePlace(g, s, Contenders(g, s), i)}

LEMMA WitnessIs ==
  ASSUME NEW g, NEW s, NEW i
  PROVE  NameCollisionWitness(g, s, TRUE, i) =
           IF i \in Contenders(g, s) /\ IsNamed(g, i) /\ Rivals(g, s, i) # {}
           THEN Min(Rivals(g, s, i)) ELSE NoEntry
  <1>1. PICK open : open = Contenders(g, s)
    OBVIOUS
  <1>2. open = {j \in StageItems(g, s) :
                  \/ Pending(g.items[j])
                  \/ /\ TRUE
                     /\ g.items[j].status = "voided"
                     /\ g.items[j].refusal = "output_name_collision"}
    BY <1>1 DEF Contenders, HasCollided
  <1>3. PICK done : done = Published(g, s)
    OBVIOUS
  <1>4. done = {j \in StageItems(g, s) \cup (IF s = "gate" THEN StageItems(g, "unit") ELSE {}) :
                  g.items[j].status = "observed"}
    BY <1>3 DEF Published
  <1>5. PICK rivals : rivals = Rivals(g, s, i)
    OBVIOUS
  <1>6. rivals = {j \in (open \cup done) \ {i} :
                   /\ g.items[j].name # NoName
                   /\ FinalName(g, j) = FinalName(g, i)
                   /\ CandidatePlace(g, s, open, j) # {}
                   /\ CandidatePlace(g, s, open, j) = CandidatePlace(g, s, open, i)}
    BY <1>1, <1>3, <1>5 DEF Rivals, IsNamed
  <1>7. NameCollisionWitness(g, s, TRUE, i) =
          IF i \in open /\ g.items[i].name # NoName /\ rivals # {} THEN Min(rivals) ELSE NoEntry
    BY <1>2, <1>4, <1>6 DEF NameCollisionWitness
  <1>8. QED
    BY <1>1, <1>5, <1>7 DEF IsNamed

LEMMA NoWitness ==
  ASSUME NEW g, Typed(g), NEW s, NEW i
  PROVE  NameCollisionWitness(g, s, TRUE, i) = NoEntry <=>
           ~(i \in Contenders(g, s) /\ IsNamed(g, i) /\ Rivals(g, s, i) # {})
  <1>1. Rivals(g, s, i) \subseteq Items
    BY GateFields DEF Rivals, Contenders, Published, StageItems
  <1>2. Rivals(g, s, i) # {} => Min(Rivals(g, s, i)) \in Items
    BY <1>1, GateAssumption, MinFacts
  <1>3. NoEntry \notin Items
    BY GateAssumption DEF NoEntry
  <1>4. QED
    BY <1>2, <1>3, WitnessIs

(* When the unit stage has settled, the evidence of its projection names    *)
(* every collision, and only collisions.                                    *)
LEMMA FitsWhenSettled ==
  ASSUME NEW g, Typed(g), StageInv(g, "unit"), OutputsHold(g), RecordsHold(g),
         \A i \in StageItems(g, "unit") : ~Pending(g.items[i])
  PROVE  ProjectionInputFits(g)
  <1>1. PICK named : named = {i \in StageItems(g, "unit") :
                                g.items[i].name # NoName /\ Identity(g, "unit", i) # {}}
    OBVIOUS
  <1>2. ASSUME NEW i \in StageItems(g, "unit"),
               NEW rivals, rivals = {j \in named \ {i} : /\ FinalName(g, j) = FinalName(g, i)
                                                          /\ Identity(g, "unit", j) = Identity(g, "unit", i)}
        PROVE  IF i \in named /\ rivals # {}
               THEN g.items[i].refusal = "output_name_collision" /\ g.items[i].witness = Min(rivals)
               ELSE g.items[i].refusal # "output_name_collision"
    <2>1. i \in DOMAIN g.items /\ Stage(TargetOf[i]) = "unit"
      BY DEF StageItems
    <2>2. \A j \in StageItems(g, "unit") :
            /\ g.items[j].status \in {"observed", "voided"}
            /\ HasCollided(g, j) => g.items[j].status = "voided"
      <3> TAKE j \in StageItems(g, "unit")
      <3>1. g.items[j] \in ItemType /\ j \in DOMAIN g.items
        BY GateFields DEF StageItems
      <3>2. g.items[j].status \in Statuses
        BY <3>1 DEF ItemType
      <3>3. g.items[j].status = "observed" => g.items[j].refusal = "none"
        BY <3>1 DEF RecordsHold, SettlementMetadataIsCoherent
      <3>4. QED
        BY <3>2, <3>3 DEF Pending, Statuses, HasCollided
    <2>3. \A open : \A j \in StageItems(g, "unit") :
            CandidatePlace(g, "unit", open, j) = Identity(g, "unit", j)
      BY DEF CandidatePlace
    <2>4. Contenders(g, "unit") \cup Published(g, "unit") =
            {j \in StageItems(g, "unit") : g.items[j].status = "observed" \/ HasCollided(g, j)}
      BY <2>2 DEF Contenders, Published, Pending
    <2>5. \A j \in StageItems(g, "unit") : i # j /\ Meets(g, "unit", i, j) => HasCollided(g, i) /\ HasCollided(g, j)
      BY DEF StageInv, NamesInv, NamesDistinct
    <2>6. i \in named => rivals \subseteq Rivals(g, "unit", i)
      <3> SUFFICES ASSUME i \in named, NEW j \in rivals PROVE j \in Rivals(g, "unit", i)
        OBVIOUS
      <3>1. /\ j \in StageItems(g, "unit") /\ j # i /\ IsNamed(g, j) /\ IsNamed(g, i)
            /\ FinalName(g, j) = FinalName(g, i)
            /\ Identity(g, "unit", j) = Identity(g, "unit", i) /\ Identity(g, "unit", i) # {}
        BY <1>1, <1>2 DEF IsNamed
      <3>2. HasCollided(g, j)
        BY <2>5, <3>1 DEF Meets
      <3>3. j \in (Contenders(g, "unit") \cup Published(g, "unit")) \ {i}
        BY <2>4, <3>1, <3>2
      <3>4. /\ CandidatePlace(g, "unit", Contenders(g, "unit"), j) = Identity(g, "unit", j)
            /\ CandidatePlace(g, "unit", Contenders(g, "unit"), i) = Identity(g, "unit", i)
        BY <2>3, <3>1
      <3>5. QED
        BY <3>1, <3>3, <3>4 DEF Rivals
    <2>7. Rivals(g, "unit", i) \subseteq rivals /\ (Rivals(g, "unit", i) # {} => Identity(g, "unit", i) # {})
      <3> SUFFICES ASSUME NEW j \in Rivals(g, "unit", i)
                   PROVE  j \in rivals /\ Identity(g, "unit", i) # {}
        OBVIOUS
      <3>1. /\ j \in (Contenders(g, "unit") \cup Published(g, "unit")) \ {i}
            /\ IsNamed(g, j) /\ FinalName(g, j) = FinalName(g, i)
            /\ CandidatePlace(g, "unit", Contenders(g, "unit"), j) # {}
            /\ CandidatePlace(g, "unit", Contenders(g, "unit"), j)
                 = CandidatePlace(g, "unit", Contenders(g, "unit"), i)
        BY DEF Rivals
      <3>2. j \in StageItems(g, "unit") /\ j # i
        BY <2>4, <3>1
      <3>3. Identity(g, "unit", j) # {} /\ Identity(g, "unit", j) = Identity(g, "unit", i)
        BY <2>3, <3>1, <3>2
      <3>4. QED
        BY <1>1, <1>2, <3>1, <3>2, <3>3 DEF IsNamed
    <2>8. CollisionWitnessIsCoherent(g, i) /\ (HasCollided(g, i) => IsNamed(g, i) /\ g.items[i].witness # NoEntry)
      <3>1. HasCollided(g, i) => g.items[i].refusal # "none"
        BY DEF HasCollided
      <3>2. QED
        BY <2>1, <3>1 DEF OutputsHold, StageInv, NamesInv, Witnessed
    <2>9. HasCollided(g, i) => g.items[i].witness = NameCollisionWitness(g, "unit", TRUE, i)
      BY <2>1, <2>8 DEF CollisionWitnessIsCoherent, HasCollided
    <2>10. CASE i \in named /\ rivals # {}
      <3>1. Rivals(g, "unit", i) = rivals
        BY <2>6, <2>7, <2>10
      <3>2. PICK j \in rivals : TRUE
        BY <2>10
      <3>3. /\ j \in StageItems(g, "unit") /\ j # i /\ Meets(g, "unit", i, j)
        BY <1>1, <1>2, <2>10, <3>2 DEF Meets, IsNamed
      <3>4. HasCollided(g, i)
        BY <2>5, <3>3
      <3>5. i \in Contenders(g, "unit") /\ IsNamed(g, i)
        BY <2>2, <2>8, <3>4 DEF Contenders
      <3>6. g.items[i].witness = Min(rivals)
        BY <2>9, <2>10, <3>1, <3>4, <3>5, WitnessIs
      <3>7. QED
        BY <2>10, <3>4, <3>6 DEF HasCollided
    <2>11. CASE ~(i \in named /\ rivals # {})
      <3> SUFFICES ASSUME HasCollided(g, i) PROVE FALSE
        BY <2>11 DEF HasCollided
      <3>1. NameCollisionWitness(g, "unit", TRUE, i) # NoEntry
        BY <2>8, <2>9
      <3>2. IsNamed(g, i) /\ Rivals(g, "unit", i) # {}
        BY <3>1, NoWitness
      <3>3. QED
        BY <1>1, <2>7, <2>11, <3>2 DEF IsNamed
    <2>12. QED
      BY <2>10, <2>11
  <1>3. QED
    BY <1>1, <1>2 DEF ProjectionInputFits

(* The provenance entry that follows a settlement, or the end of a wave     *)
(* without landings, is one the aggregate can hold.                         *)
LEMMA CreatedHolds ==
  ASSUME NEW g, Typed(g), RecordsHold(g), TargetsHold(g), OutputsHold(g), StagesHold(g),
         ProvenanceKnown(g), Unowed(g), StageInv(g, "unit"),
         NEW h, h = MaybeCreateProvenance(g)
  PROVE  GateInvariantHolds(h)
  <1>1. /\ Typed(h) /\ SameTables(g, h)
        /\ h.unitIds = g.unitIds /\ h.uncommitted = g.uncommitted
    BY MaybeCreateFields
  <1>2. CASE ~CreatesProvenance(g)
    <2>1. h = g
      BY <1>2, MaybeCreateFields
    <2>2. QED
      BY <2>1, HeldInParts
  <1>3. ASSUME CreatesProvenance(g)
        PROVE  /\ ~g.provenance.entry /\ UnitProjectionStageSettled(g) /\ ~g.verify.entry
               /\ g.provenance.status # "observed" /\ g.provenance.followUp = FALSE
               /\ g.carried \subseteq g.uncommitted /\ StageTargets(g, "gate") = {}
               /\ g.verify.followUp = FALSE
               /\ \A t \in DOMAIN g.promises : g.promises[t].followUp = FALSE
    <2>1. ~g.provenance.entry /\ UnitProjectionStageSettled(g)
      BY <1>3 DEF CreatesProvenance
    <2>2. /\ g.provenance.status # "observed" /\ ~g.verify.entry
          /\ g.carried \subseteq g.uncommitted /\ g.provenance.disposition # "deferred_by_controller"
          /\ g.provenance.disposition \in
               {"none", "no_landed_units", "handoff_boundary", "deferred_by_controller"}
      BY <2>1 DEF ProvenanceKnown
    <2>3. g.provenance \in ProvenanceType /\ g.verify \in VerifyType
          /\ \A t \in DOMAIN g.promises : g.promises[t] \in RecordType
      BY GateFields
    <2>4. SettlementMetadataIsCoherent(g.provenance) /\ g.provenance.followUp \in BOOLEAN
      BY <2>3 DEF RecordsHold, ProvenanceType
    <2>5. ~g.provenance.followUp
      <3>1. (g.provenance.disposition \in {"deferred_by_controller", "deferral_cascade"}) = FALSE
        BY <2>2
      <3>2. QED
        BY <2>4, <3>1 DEF SettlementMetadataIsCoherent
    <2>6. StageTargets(g, "gate") = {}
      BY <2>2 DEF StagesHold, StagesAreOrdered, StageOpen
    <2>7. /\ ~g.verify.followUp /\ g.verify.followUp \in BOOLEAN
          /\ \A t \in DOMAIN g.promises : ~g.promises[t].followUp /\ g.promises[t].followUp \in BOOLEAN
      BY <2>1, <2>3 DEF Unowed, VerifyType, RecordType
    <2>8. QED
      BY <2>1, <2>2, <2>4, <2>5, <2>6, <2>7
  <1>4. CASE CreatesProvenance(g) /\ ProvenanceUnits(g) = {}
    <2>1. /\ h.carried = g.carried
          /\ h.provenance = Voided(g.provenance, "no_landed_units")
          /\ h.verify = Voided(g.verify, "no_landed_units")
      BY <1>4, MaybeCreateFields
    <2>2. /\ DOMAIN h.promises = DOMAIN g.promises
          /\ \A t \in DOMAIN g.promises :
               h.promises[t] = IF Stage(t) = "gate" THEN Voided(g.promises[t], "no_landed_units")
                               ELSE g.promises[t]
      BY <1>4, PromisesVoided
    <2>3. "no_landed_units" \in Dispositions
      BY DEF Dispositions
    <2>4. /\ g.provenance \in ProvenanceType /\ g.verify \in VerifyType
          /\ \A t \in DOMAIN g.promises : g.promises[t] \in RecordType
      BY GateFields
    <2>5. ASSUME NEW r, r.status = "voided", r.disposition = "no_landed_units", r.followUp = FALSE
          PROVE  SettlementMetadataIsCoherent(r)
      <3>1. (r.disposition \in {"deferred_by_controller", "deferral_cascade"}) = FALSE
        BY <2>5
      <3>2. QED
        BY <2>5, <3>1 DEF SettlementMetadataIsCoherent
    <2>6. /\ h.provenance.status = "voided" /\ h.provenance.disposition = "no_landed_units"
          /\ h.provenance.followUp = FALSE /\ h.provenance.entry = FALSE
      <3>1. g.provenance.entry \in BOOLEAN
        BY <2>4 DEF ProvenanceType
      <3>2. QED
        BY <1>3, <1>4, <2>1, <2>4, <3>1 DEF Voided, ProvenanceType
    <2>7. /\ h.verify.status = "voided" /\ h.verify.disposition = "no_landed_units"
          /\ h.verify.followUp = FALSE /\ ~h.verify.entry
      BY <1>3, <1>4, <2>1, <2>4 DEF Voided, VerifyType
    <2>8. ASSUME NEW t \in DOMAIN h.promises
          PROVE  SettlementMetadataIsCoherent(h.promises[t])
      <3>1. PICK r \in RecordType : r = g.promises[t]
        BY <2>2, <2>4
      <3>2. /\ Voided(r, "no_landed_units").status = "voided"
            /\ Voided(r, "no_landed_units").disposition = "no_landed_units"
            /\ Voided(r, "no_landed_units").followUp = r.followUp
        BY <2>3 DEF Voided, RecordType
      <3>3. r.followUp = FALSE
        BY <1>3, <1>4, <2>2, <3>1
      <3>4. SettlementMetadataIsCoherent(Voided(r, "no_landed_units"))
        BY <2>5, <3>2, <3>3
      <3>5. SettlementMetadataIsCoherent(g.promises[t])
        BY <2>2 DEF RecordsHold
      <3>6. QED
        BY <2>2, <3>1, <3>4, <3>5
    <2>9. RecordsHold(h)
      BY <1>1, <2>5, <2>6, <2>7, <2>8 DEF RecordsHold, SameTables
    <2>10. ProvenanceIsCoherent(h)
      BY <1>1, <1>4, <2>1, <2>6 DEF ProvenanceIsCoherent, ProvenanceUnits
    <2>11. StageTargets(h, "gate") = {}
      BY <1>1, <1>3, <1>4, SameTablesHold DEF Stages
    <2>12. StagesHold(h)
      BY <2>6, <2>7, <2>10, <2>11 DEF StagesHold, AccountingIsCoherent, StagesAreOrdered
    <2>13. TargetsHold(h) /\ OutputsHold(h)
      BY <1>1, SameTablesHold
    <2>14. QED
      BY <1>1, <2>9, <2>12, <2>13, HeldInParts
  <1>5. CASE CreatesProvenance(g) /\ ProvenanceUnits(g) # {}
    <2>1. /\ h.carried = {} /\ h.promises = g.promises /\ h.verify = g.verify
          /\ h.provenance = [g.provenance EXCEPT !.entry = TRUE, !.units = ProvenanceUnits(g)]
      BY <1>5, MaybeCreateFields
    <2>2. g.provenance \in ProvenanceType
      BY GateFields
    <2>3. /\ h.provenance.status = g.provenance.status
          /\ h.provenance.disposition = g.provenance.disposition
          /\ h.provenance.followUp = g.provenance.followUp
          /\ h.provenance.refusal = g.provenance.refusal
          /\ h.provenance.units = ProvenanceUnits(g)
      BY <2>1, <2>2 DEF ProvenanceType
    <2>4. RecordsHold(h)
      <3>1. SettlementMetadataIsCoherent(g.provenance)
        BY DEF RecordsHold
      <3>2. SettlementMetadataIsCoherent(h.provenance)
        BY <2>3, <3>1 DEF SettlementMetadataIsCoherent
      <3>3. QED
        BY <1>1, <2>1, <3>2 DEF RecordsHold, SameTables
    <2>5. UnitProjectionStageSettled(h) /\ StageMaterialisationsSettled(h, "unit")
      <3>1. UnitProjectionStageSettled(h) = UnitProjectionStageSettled(g)
        BY <1>1, <2>1, SettledFrame
      <3>2. StageMaterialisationsSettled(g, "unit")
        BY <1>3, <1>5, SettledUnitStage
      <3>3. QED
        BY <1>1, <1>3, <1>5, <3>1, <3>2, SameTablesHold
    <2>6. ProjectionInputFits(h)
      <3>1. \A i \in StageItems(g, "unit") : ~Pending(g.items[i])
        BY <1>3, <1>5, SettledUnitStage DEF StageMaterialisationsSettled
      <3>2. ProjectionInputFits(g)
        BY <3>1, FitsWhenSettled
      <3>3. QED
        BY <1>1, <3>2, SameTablesHold
    <2>7. h.provenance.disposition # "no_landed_units"
      BY <1>5, <2>3 DEF StagesHold, ProvenanceIsCoherent, ProvenanceUnits
    <2>8. h.uncommitted = h.provenance.units /\ h.provenance.status # "observed"
      BY <1>1, <1>3, <1>5, <2>3 DEF ProvenanceUnits
    <2>9. StageTargets(h, "gate") = {} /\ ~h.verify.entry
      BY <1>1, <1>3, <1>5, <2>1, SameTablesHold DEF Stages
    <2>10. StagesHold(h)
      BY <2>5, <2>6, <2>7, <2>8, <2>9
         DEF StagesHold, ProvenanceIsCoherent, AccountingIsCoherent, StagesAreOrdered
    <2>11. TargetsHold(h) /\ OutputsHold(h)
      BY <1>1, SameTablesHold
    <2>12. QED
      BY <1>1, <2>4, <2>10, <2>11, HeldInParts
  <1>6. QED
    BY <1>2, <1>4, <1>5

-----------------------------------------------------------------------------
(* What a step leaves alone stays held *)

LEMMA SameStageBack ==
  ASSUME NEW g, NEW h, NEW s, SameStage(g, h, s)
  PROVE  SameStage(h, g, s)
  BY DEF SameStage

LEMMA IdentityKept ==
  ASSUME NEW g, NEW h, NEW s, SameStage(g, h, s)
  PROVE  \A i : Identity(h, s, i) = Identity(g, s, i)
  <1> TAKE i
  <1>1. PICK p : p = <<s, Destination[TargetOf[i]]>>
    OBVIOUS
  <1>2. p[1] = s
    BY <1>1
  <1>3. /\ p \in DOMAIN h.probes <=> p \in DOMAIN g.probes
        /\ p \in DOMAIN g.probes => h.probes[p].status = g.probes[p].status
    BY <1>2 DEF SameStage, StageProbes
  <1>4. \A k \in {g, h} : Identity(k, s, i) = IF p \in DOMAIN k.probes /\ k.probes[p].status = "observed"
                                              THEN {Physical[p[2]]} ELSE {}
    BY <1>1 DEF Identity
  <1>5. QED
    BY <1>3, <1>4

LEMMA ReadyKept ==
  ASSUME NEW g, NEW h, Typed(g), Typed(h), NEW s \in Stages, SameStage(g, h, s), StageInv(g, s),
         StageNamesReady(g, s)
  PROVE  StageNamesReady(h, s)
  <1>1. StageResolutionsSettled(h, s) = StageResolutionsSettled(g, s)
    BY SameStageOps
  <1>2. \A p \in StageProbes(g, s) : ~Pending(h.probes[p])
    BY DEF StageNamesReady, SameStage, Pending
  <1>3. ASSUME NEW i \in StageItems(g, s)
        PROVE  /\ h.targets[TargetOf[i]].status # "voided" =>
                    h.probes[ProbeOf(TargetOf[i])].status = "observed"
               /\ Pending(h.items[i]) => h.items[i].name # NoName
    <2>1. TargetOf[i] \in StageTargets(g, s)
      BY DEF StageInv, Sourced, StageItems, StageTargets
    <2>2. g.targets[TargetOf[i]].status # "voided" => ProbeOf(TargetOf[i]) \in DOMAIN g.probes
      BY <2>1 DEF StageInv, Probing, StageNamesReady
    <2>3. ProbeOf(TargetOf[i]) \in DOMAIN g.probes => ProbeOf(TargetOf[i]) \in StageProbes(g, s)
      BY SameStageOps
    <2>4. QED
      BY <2>1, <2>2, <2>3 DEF SameStage, StageNamesReady
  <1>4. QED
    BY <1>1, <1>2, <1>3 DEF StageNamesReady, SameStage

(* A collision of the unit stage is judged by the unit stage alone. *)
LEMMA UnitWitnessKept ==
  ASSUME NEW g, NEW h, Typed(g), Typed(h), SameStage(g, h, "unit"), StageInv(g, "unit"),
         NEW i \in StageItems(g, "unit"), CollisionWitnessIsCoherent(g, i)
  PROVE  CollisionWitnessIsCoherent(h, i)
  <1>0. "unit" \in Stages
    BY DEF Stages
  <1>1. /\ StageItems(h, "unit") = StageItems(g, "unit")
        /\ \A j \in StageItems(g, "unit") :
             /\ h.items[j] = g.items[j] /\ FinalName(h, j) = FinalName(g, j)
             /\ IsNamed(h, j) = IsNamed(g, j) /\ HasCollided(h, j) = HasCollided(g, j)
    <2>1. /\ StageItems(h, "unit") = StageItems(g, "unit")
          /\ \A j \in StageItems(g, "unit") : h.items[j] = g.items[j]
      BY DEF SameStage
    <2>2. QED
      BY <2>1 DEF FinalName, IsNamed, HasCollided
  <1>2. \A j : Identity(h, "unit", j) = Identity(g, "unit", j)
    BY IdentityKept
  <1>3. \A k \in {g, h} : \A open, j : CandidatePlace(k, "unit", open, j) = Identity(k, "unit", j)
    BY DEF CandidatePlace
  <1>4. Contenders(h, "unit") = Contenders(g, "unit") /\ Published(h, "unit") = Published(g, "unit")
    BY <1>1 DEF Contenders, Published
  <1>5. Contenders(g, "unit") \cup Published(g, "unit") \subseteq StageItems(g, "unit")
    BY DEF Contenders, Published
  <1>6. Rivals(h, "unit", i) = Rivals(g, "unit", i)
    <2>1. \A j : j \in Rivals(g, "unit", i) <=>
                   /\ j \in (Contenders(g, "unit") \cup Published(g, "unit")) \ {i}
                   /\ IsNamed(g, j) /\ FinalName(g, j) = FinalName(g, i)
                   /\ Identity(g, "unit", j) # {} /\ Identity(g, "unit", j) = Identity(g, "unit", i)
      BY <1>3 DEF Rivals
    <2>2. \A j : j \in Rivals(h, "unit", i) <=>
                   /\ j \in (Contenders(h, "unit") \cup Published(h, "unit")) \ {i}
                   /\ IsNamed(h, j) /\ FinalName(h, j) = FinalName(h, i)
                   /\ Identity(h, "unit", j) # {} /\ Identity(h, "unit", j) = Identity(h, "unit", i)
      BY <1>3 DEF Rivals
    <2>3. \A j : j \in Rivals(h, "unit", i) <=> j \in Rivals(g, "unit", i)
      BY <1>1, <1>2, <1>4, <1>5, <2>1, <2>2
    <2>4. QED
      BY <2>3 DEF Rivals
  <1>7. NameCollisionWitness(h, "unit", TRUE, i) = NameCollisionWitness(g, "unit", TRUE, i)
    BY <1>1, <1>4, <1>6, WitnessIs
  <1>8. StageNamesReady(h, "unit") => StageNamesReady(g, "unit")
    BY <1>0, SameStageBack, SameStageInv, ReadyKept
  <1>9. Stage(TargetOf[i]) = "unit" /\ h.items[i] = g.items[i]
    BY <1>1 DEF StageItems
  <1>10. QED
    BY <1>7, <1>8, <1>9 DEF CollisionWitnessIsCoherent

LEMMA TargetKept ==
  ASSUME NEW g, NEW h, NEW t, TargetRecordIsCoherent(g, t),
         h.targets[t] = g.targets[t], h.resolutions[t] = g.resolutions[t],
         ItemsOf(h, t) = ItemsOf(g, t), \A i \in ItemsOf(g, t) : h.items[i] = g.items[i],
         \A p \in DOMAIN g.probes :
           p \in DOMAIN h.probes /\ h.probes[p].disposition = g.probes[p].disposition
  PROVE  TargetRecordIsCoherent(h, t)
  <1>1. TargetIsSettled(h, t) = TargetIsSettled(g, t)
    BY DEF TargetIsSettled
  <1>2. TargetVoidOrigin(g, t) => TargetVoidOrigin(h, t)
    BY DEF TargetVoidOrigin
  <1>3. QED
    BY <1>1, <1>2 DEF TargetRecordIsCoherent

(* The order of the stages holds where the unit stage is left alone, or the *)
(* provenance has no entry yet.                                             *)
LEMMA StagesKept ==
  ASSUME NEW g, NEW h, Typed(g), Typed(h), Frame(g, h), StagesHold(g), StageInv(g, "unit"),
         SameStage(g, h, "unit") \/ ~g.provenance.entry,
         RecordsHold(h), OutputsHold(h), StageTargets(h, "gate") = StageTargets(g, "gate")
  PROVE  StagesHold(h)
  <1>0. "unit" \in Stages
    BY DEF Stages
  <1>1. StageOpen(h, "gate") = StageOpen(g, "gate")
    BY DEF StageOpen, Frame
  <1>2. CASE ~g.provenance.entry
    BY <1>1, <1>2 DEF StagesHold, ProvenanceIsCoherent, AccountingIsCoherent, StagesAreOrdered, Frame
  <1>3. CASE SameStage(g, h, "unit") /\ g.provenance.entry
    <2>1. StageInv(h, "unit")
      BY <1>0, <1>3, SameStageInv
    <2>2. UnitProjectionStageSettled(g)
      BY <1>3 DEF StagesHold, ProvenanceIsCoherent
    <2>3. \A t \in StageTargets(h, "unit") : TargetIsSettled(h, t)
      <3>1. \A t \in StageTargets(g, "unit") :
              ItemsOf(h, t) = ItemsOf(g, t) /\ ItemsOf(g, t) \subseteq StageItems(g, "unit")
        BY <1>0, <1>3, SameStageOps
      <3>2. ASSUME NEW t \in StageTargets(g, "unit") PROVE TargetIsSettled(h, t)
        <4>1. TargetIsSettled(g, t)
          BY <2>2 DEF UnitProjectionStageSettled
        <4>2. /\ ItemsOf(h, t) = ItemsOf(g, t) /\ \A i \in ItemsOf(g, t) : h.items[i] = g.items[i]
              /\ h.targets[t].status = g.targets[t].status
              /\ h.resolutions[t].status = g.resolutions[t].status
          BY <1>3, <3>1 DEF SameStage
        <4>3. QED
          BY <4>1, <4>2 DEF TargetIsSettled, Pending
      <3>3. QED
        BY <1>3, <3>2 DEF SameStage
    <2>4. UnitProjectionStageSettled(h)
      BY <1>3, <2>2, <2>3 DEF UnitProjectionStageSettled, SameStage, Frame, Pending
    <2>5. StageMaterialisationsSettled(h, "unit")
      BY <2>1, <2>4, SettledUnitStage
    <2>6. ProjectionInputFits(h)
      BY <2>1, <2>5, FitsWhenSettled DEF StageMaterialisationsSettled
    <2>7. QED
      BY <1>1, <2>4, <2>5, <2>6
         DEF StagesHold, ProvenanceIsCoherent, AccountingIsCoherent, StagesAreOrdered, Frame
  <1>4. QED
    BY <1>2, <1>3

(* While the unit stage has something pending there is no provenance entry. *)
LEMMA UnprojectedWave ==
  ASSUME NEW g, NEW evidence, GateInv(g, evidence),
         \/ \E t \in StageTargets(g, "unit") : Pending(g.resolutions[t])
         \/ \E p \in StageProbes(g, "unit") : Pending(g.probes[p])
         \/ \E i \in StageItems(g, "unit") : Pending(g.items[i])
  PROVE  ~g.provenance.entry /\ StageItems(g, "gate") = {}
  <1>1. Typed(g) /\ StageInv(g, "unit") /\ StagesHold(g)
    BY GateParts DEF GateInvariantHolds, StagesHold, Stages
  <1>2. ~UnitProjectionStageSettled(g)
    <2> SUFFICES ASSUME UnitProjectionStageSettled(g) PROVE FALSE
      OBVIOUS
    <2>1. StageMaterialisationsSettled(g, "unit")
      BY <1>1, SettledUnitStage
    <2>2. \A t \in StageTargets(g, "unit") : TargetIsSettled(g, t)
      BY DEF UnitProjectionStageSettled
    <2>3. \A t \in StageTargets(g, "unit") : ~Pending(g.resolutions[t])
      BY <2>2 DEF TargetIsSettled, Pending
    <2>4. QED
      BY <2>1, <2>3 DEF StageMaterialisationsSettled, StageNamesReady
  <1>3. ~g.provenance.entry
    BY <1>1, <1>2 DEF StagesHold, ProvenanceIsCoherent
  <1>4. StageItems(g, "gate") = {}
    <2> SUFFICES ASSUME NEW i \in StageItems(g, "gate") PROVE FALSE
      OBVIOUS
    <2>1. StageOpen(g, "gate") /\ "gate" \in Stages
      BY GateParts DEF StageItems, Stages
    <2>2. QED
      BY <1>3, <2>1, OpenStageSettles
  <1>5. QED
    BY <1>3, <1>4

(* A stage none of whose outputs is named disturbs no name. *)
LEMMA BlankStageOutputs ==
  ASSUME NEW g, NEW evidence, GateInv(g, evidence), NEW h, Typed(h), NEW s \in Stages,
         OtherStages(g, h, s), Blank(h, s), s = "unit" => StageItems(g, "gate") = {}
  PROVE  OutputsHold(h)
  <1>1. Typed(g) /\ StageInv(g, "unit") /\ OutputsHold(g)
    BY GateParts, HeldInParts DEF Stages
  <1>2. ASSUME NEW i \in DOMAIN h.items
        PROVE  \/ i \in StageItems(h, s)
               \/ /\ s = "gate" /\ i \in StageItems(g, "unit")
                  /\ SameStage(g, h, "unit") /\ h.items[i] = g.items[i]
    <2>1. Stage(TargetOf[i]) \in Stages /\ i \in StageItems(h, Stage(TargetOf[i]))
      BY GateFields, StageFacts DEF StageItems
    <2>2. CASE Stage(TargetOf[i]) = s
      BY <2>1, <2>2
    <2>3. CASE Stage(TargetOf[i]) # s
      <3>1. SameStage(g, h, Stage(TargetOf[i]))
        BY <2>1, <2>3 DEF OtherStages
      <3>2. i \in StageItems(g, Stage(TargetOf[i])) /\ h.items[i] = g.items[i]
        BY <2>1, <3>1 DEF SameStage
      <3>3. Stage(TargetOf[i]) = "unit" /\ s = "gate"
        BY <2>1, <2>3, <3>2 DEF Stages
      <3>4. QED
        BY <3>1, <3>2, <3>3
    <2>4. QED
      BY <2>2, <2>3
  <1>3. ASSUME NEW i \in DOMAIN h.items
        PROVE  (h.items[i].refusal # "none" => IsNamed(h, i)) /\ CollisionWitnessIsCoherent(h, i)
    <2>1. CASE i \in StageItems(h, s)
      <3>1. ~IsNamed(h, i) /\ h.items[i].refusal = "none" /\ Stage(TargetOf[i]) = s
        BY <2>1 DEF Blank, StageItems
      <3>2. NameCollisionWitness(h, s, TRUE, i) = NoEntry
        BY <3>1, NoWitness
      <3>3. QED
        BY <3>1, <3>2 DEF CollisionWitnessIsCoherent
    <2>2. CASE i \in StageItems(g, "unit") /\ SameStage(g, h, "unit") /\ h.items[i] = g.items[i]
      <3>1. CollisionWitnessIsCoherent(g, i) /\ (g.items[i].refusal # "none" => IsNamed(g, i))
        BY <1>1, <2>2 DEF OutputsHold, StageItems
      <3>2. CollisionWitnessIsCoherent(h, i)
        BY <1>1, <2>2, <3>1, UnitWitnessKept
      <3>3. QED
        BY <2>2, <3>1, <3>2 DEF IsNamed
    <2>3. QED
      BY <1>2, <2>1, <2>2
  <1>4. ObservedFinalNamesAreUnique(h)
    <2> SUFFICES ASSUME NEW i \in DOMAIN h.items, NEW j \in DOMAIN h.items, i # j,
                        h.items[i].status = "observed", h.items[j].status = "observed",
                        Identity(h, Stage(TargetOf[i]), i) = Identity(h, Stage(TargetOf[j]), j),
                        FinalName(h, i) = FinalName(h, j)
                 PROVE  FALSE
      BY DEF ObservedFinalNamesAreUnique
    <2>1. \A k \in {i, j} : /\ k \in StageItems(g, "unit") /\ SameStage(g, h, "unit")
                            /\ h.items[k] = g.items[k]
      BY <1>2 DEF Blank
    <2>2. \A k \in {i, j} : /\ k \in DOMAIN g.items /\ Stage(TargetOf[k]) = "unit"
                            /\ g.items[k].status = "observed"
                            /\ FinalName(h, k) = FinalName(g, k)
      BY <2>1 DEF StageItems, FinalName
    <2>3. \A k : Identity(h, "unit", k) = Identity(g, "unit", k)
      BY <2>1, IdentityKept
    <2>4. /\ Identity(g, Stage(TargetOf[i]), i) = Identity(g, Stage(TargetOf[j]), j)
          /\ FinalName(g, i) = FinalName(g, j)
      BY <2>2, <2>3
    <2>5. ObservedFinalNamesAreUnique(g)
      BY <1>1 DEF OutputsHold
    <2>6. QED
      BY <2>2, <2>4, <2>5 DEF ObservedFinalNamesAreUnique
  <1>5. QED
    BY <1>3, <1>4 DEF OutputsHold

(* A pending record's answer is coherent. *)
LEMMA PendingAnswered ==
  ASSUME NEW r, SettlementMetadataIsCoherent(r), Pending(r)
  PROVE  r.disposition = "none" /\ ~r.followUp
  BY DEF SettlementMetadataIsCoherent, Pending

-----------------------------------------------------------------------------
(* Every positive answer can be recorded *)

(* The sources of a target were found. *)
LEMMA ResolvedHolds ==
  ASSUME NEW g, NEW evidence, GateInv(g, evidence), NEW t \in DOMAIN g.targets,
         StageOpen(g, Stage(t)), Pending(g.resolutions[t]), NEW h, h = Resolved(g, t)
  PROVE  GateInvariantHolds(h)
  <1>1. PICK s \in Stages : s = Stage(t)
    BY GateParts
  <1>2. /\ Typed(g) /\ StageInv(g, s) /\ StageInv(g, "unit") /\ Pending(g.targets[t])
        /\ \A i \in DOMAIN g.items : g.items[i].refusal # "none" => IsNamed(g, i)
        /\ t \in StageTargets(g, s)
    BY <1>1, GateParts DEF Stages
  <1>3. RecordsHold(g) /\ TargetsHold(g) /\ OutputsHold(g) /\ StagesHold(g)
    BY GateParts, HeldInParts
  <1>4. /\ Typed(h) /\ Frame(g, h) /\ h.targets = g.targets
        /\ StageInv(h, s) /\ OtherStages(g, h, s) /\ Blank(h, s)
    BY <1>1, <1>2, ResolvedKeeps
  <1>5. /\ ~StageResolutionsSettled(g, s) /\ StageProbes(g, s) = {} /\ ItemsOf(g, t) = {}
    BY <1>1, <1>2, UnresolvedIsBlank
  <1>6. s = "unit" => ~g.provenance.entry /\ StageItems(g, "gate") = {}
    BY <1>2, UnprojectedWave
  <1>7. OutputsHold(h)
    BY <1>4, <1>6, BlankStageOutputs
  <1>8. PICK f : f = Found(g, t)
    OBVIOUS
  <1>9. h = EnsureDestinationProbes(f, s)
    BY <1>1, <1>8 DEF Resolved, Found
  <1>10. /\ Typed(f) /\ f.probes = g.probes
         /\ f.resolutions[t] = Observed(g.resolutions[t])
         /\ \A u \in DOMAIN g.targets : u # t => f.resolutions[u] = g.resolutions[u]
         /\ DOMAIN f.items = DOMAIN g.items \cup {j \in Items : TargetOf[j] = t}
         /\ \A i \in DOMAIN f.items :
              f.items[i] = IF TargetOf[i] = t THEN FreshItem ELSE g.items[i]
    BY <1>2, <1>8, FoundFields
  <1>11. /\ h.resolutions = f.resolutions /\ h.items = f.items
         /\ DOMAIN f.probes \subseteq DOMAIN h.probes
         /\ \A p \in DOMAIN f.probes : h.probes[p] = f.probes[p]
         /\ \A p \in DOMAIN h.probes \ DOMAIN f.probes : h.probes[p] = Fresh
    BY <1>9, <1>10, EnsureFields
  <1>12. SettlementMetadataIsCoherent(Fresh) /\ SettlementMetadataIsCoherent(FreshItem)
    BY DEF SettlementMetadataIsCoherent, Fresh, FreshItem
  <1>13. PICK r : r = Observed(g.resolutions[t])
    OBVIOUS
  <1>14. r.status = "observed" /\ SettlementMetadataIsCoherent(r)
    <2>1. g.resolutions[t] \in RecordType /\ "none" \in Dispositions /\ "none" \in Refusals
      BY <1>2, GateFields DEF Dispositions, Refusals
    <2>2. /\ r.status = "observed" /\ r.disposition = g.resolutions[t].disposition
          /\ r.followUp = g.resolutions[t].followUp /\ r.refusal = "none"
      BY <1>13, <2>1, RecordOps
    <2>3. g.resolutions[t].disposition = "none" /\ ~g.resolutions[t].followUp
      BY <1>3, PendingAnswered DEF RecordsHold
    <2>4. QED
      BY <2>2, <2>3 DEF SettlementMetadataIsCoherent
  <1>15. RecordsHold(h)
    <2>1. \A u \in DOMAIN h.targets : SettlementMetadataIsCoherent(h.resolutions[u])
      BY <1>3, <1>4, <1>10, <1>11, <1>13, <1>14 DEF RecordsHold
    <2>2. \A i \in DOMAIN h.items : SettlementMetadataIsCoherent(h.items[i])
      <3> TAKE i \in DOMAIN h.items
      <3>1. h.items[i] = FreshItem \/ (i \in DOMAIN g.items /\ h.items[i] = g.items[i])
        BY <1>10, <1>11
      <3>2. QED
        BY <1>3, <1>12, <3>1 DEF RecordsHold
    <2>3. \A p \in DOMAIN h.probes : SettlementMetadataIsCoherent(h.probes[p])
      <3> TAKE p \in DOMAIN h.probes
      <3>1. h.probes[p] = Fresh \/ (p \in DOMAIN g.probes /\ h.probes[p] = g.probes[p])
        BY <1>10, <1>11
      <3>2. QED
        BY <1>3, <1>12, <3>1 DEF RecordsHold
    <2>4. QED
      BY <1>3, <1>4, <2>1, <2>2, <2>3 DEF RecordsHold, Frame
  <1>16. TargetsHold(h)
    <2> SUFFICES ASSUME NEW u \in DOMAIN g.targets PROVE TargetRecordIsCoherent(h, u)
      BY <1>4 DEF TargetsHold
    <2>1. CASE u = t
      BY <1>2, <1>4, <1>10, <1>11, <1>13, <1>14, <2>1 DEF TargetRecordIsCoherent, Pending
    <2>2. CASE u # t
      <3>1. h.resolutions[u] = g.resolutions[u]
        BY <1>10, <1>11, <2>2
      <3>2. ItemsOf(h, u) = ItemsOf(g, u)
        BY <1>10, <1>11, <2>2 DEF ItemsOf
      <3>3. \A i \in ItemsOf(g, u) : h.items[i] = g.items[i]
        BY <1>10, <1>11, <2>2 DEF ItemsOf
      <3>4. \A p \in DOMAIN g.probes :
              p \in DOMAIN h.probes /\ h.probes[p].disposition = g.probes[p].disposition
        BY <1>10, <1>11
      <3>5. TargetRecordIsCoherent(g, u)
        BY <1>3 DEF TargetsHold
      <3>6. QED
        BY <1>4, <3>1, <3>2, <3>3, <3>4, <3>5, TargetKept
    <2>3. QED
      BY <2>1, <2>2
  <1>17. SameStage(g, h, "unit") \/ ~g.provenance.entry
    <2>1. CASE s = "unit"
      BY <1>6, <2>1
    <2>2. CASE s # "unit"
      BY <1>4, <2>2 DEF OtherStages, Stages
    <2>3. QED
      BY <2>1, <2>2
  <1>18. StageTargets(h, "gate") = StageTargets(g, "gate")
    BY <1>4 DEF StageTargets
  <1>19. StagesHold(h)
    BY <1>2, <1>3, <1>4, <1>7, <1>15, <1>17, <1>18, StagesKept
  <1>20. QED
    BY <1>4, <1>7, <1>15, <1>16, <1>19, HeldInParts

(* A destination was seen. *)
LEMMA ProbedHolds ==
  ASSUME NEW g, NEW evidence, GateInv(g, evidence), Unowed(g), NEW p \in DOMAIN g.probes,
         Pending(g.probes[p]), NEW h, h = Probed(g, p)
  PROVE  GateInvariantHolds(h)
  <1>1. PICK s \in Stages : s = p[1]
    BY GateParts
  <1>2. /\ Typed(g) /\ StageInv(g, s) /\ StageInv(g, "unit")
        /\ \A i \in DOMAIN g.items : g.items[i].refusal # "none" => IsNamed(g, i)
        /\ p \in StageProbes(g, s)
    BY <1>1, GateParts DEF Stages
  <1>3. RecordsHold(g) /\ TargetsHold(g) /\ OutputsHold(g) /\ StagesHold(g)
    BY GateParts, HeldInParts
  <1>4. PICK r : r = Observed(g.probes[p])
    OBVIOUS
  <1>5. /\ r \in RecordType /\ r.status = "observed" /\ SettlementMetadataIsCoherent(r)
        /\ r.disposition = g.probes[p].disposition
    <2>1. g.probes[p] \in RecordType /\ "none" \in Dispositions /\ "none" \in Refusals
      BY <1>2, GateFields DEF Dispositions, Refusals
    <2>2. /\ r \in RecordType /\ r.status = "observed" /\ r.disposition = g.probes[p].disposition
          /\ r.followUp = g.probes[p].followUp /\ r.refusal = "none"
      BY <1>4, <2>1, RecordOps
    <2>3. g.probes[p].disposition = "none" /\ ~g.probes[p].followUp
      BY <1>3, PendingAnswered DEF RecordsHold
    <2>4. QED
      BY <2>2, <2>3 DEF SettlementMetadataIsCoherent
  <1>6. PICK f : f = [g EXCEPT !.probes[p] = r]
    OBVIOUS
  <1>7. h = MaybeCreateProvenance(f)
    BY <1>4, <1>6 DEF Probed
  <1>8. /\ Typed(f) /\ Frame(g, f)
        /\ f.targets = g.targets /\ f.resolutions = g.resolutions /\ f.items = g.items
        /\ DOMAIN f.probes = DOMAIN g.probes /\ f.probes[p] = r
        /\ \A q \in DOMAIN g.probes : q # p => f.probes[q] = g.probes[q]
    BY <1>2, <1>5, <1>6, ProbeSet
  <1>9. StageInv(f, s) /\ OtherStages(g, f, s) /\ Blank(f, s)
    BY <1>1, <1>2, <1>5, <1>8, ProbedKeeps
  <1>10. s = "unit" => ~g.provenance.entry /\ StageItems(g, "gate") = {}
    BY <1>2, UnprojectedWave
  <1>11. OutputsHold(f)
    BY <1>8, <1>9, <1>10, BlankStageOutputs
  <1>12. RecordsHold(f)
    BY <1>3, <1>5, <1>8 DEF RecordsHold, Frame
  <1>13. TargetsHold(f)
    <2> SUFFICES ASSUME NEW u \in DOMAIN g.targets PROVE TargetRecordIsCoherent(f, u)
      BY <1>8 DEF TargetsHold
    <2>1. TargetRecordIsCoherent(g, u) /\ ItemsOf(f, u) = ItemsOf(g, u)
      BY <1>3, <1>8 DEF TargetsHold, ItemsOf
    <2>2. \A q \in DOMAIN g.probes :
            q \in DOMAIN f.probes /\ f.probes[q].disposition = g.probes[q].disposition
      BY <1>5, <1>8
    <2>3. QED
      BY <1>8, <2>1, <2>2, TargetKept
  <1>14. SameStage(g, f, "unit") \/ ~g.provenance.entry
    <2>1. CASE s = "unit"
      BY <1>10, <2>1
    <2>2. CASE s # "unit"
      BY <1>9, <2>2 DEF OtherStages, Stages
    <2>3. QED
      BY <2>1, <2>2
  <1>15. StageTargets(f, "gate") = StageTargets(g, "gate")
    BY <1>8 DEF StageTargets
  <1>16. StagesHold(f)
    BY <1>2, <1>3, <1>8, <1>11, <1>12, <1>14, <1>15, StagesKept
  <1>17. Unowed(f)
    BY <1>8 DEF Unowed, Frame
  <1>18. ProvenanceKnown(f) /\ StageInv(f, "unit")
    <2>1. ProvenanceKnown(f)
      BY <1>8 DEF GateInv, ProvenanceInv, ProvenanceKnown, Frame
    <2>2. CASE s = "unit"
      BY <1>9, <2>1, <2>2
    <2>3. CASE s # "unit"
      <3>1. SameStage(g, f, "unit") /\ "unit" \in Stages
        BY <1>9, <2>3 DEF OtherStages, Stages
      <3>2. QED
        BY <1>2, <1>8, <2>1, <3>1, SameStageInv
    <2>4. QED
      BY <2>2, <2>3
  <1>19. QED
    BY <1>7, <1>8, <1>11, <1>12, <1>13, <1>16, <1>17, <1>18, CreatedHolds

(* The projection of the landed units was committed. *)
LEMMA ProvenanceCommittedHolds ==
  ASSUME NEW g, NEW evidence, GateInv(g, evidence), g.provenance.entry, Pending(g.provenance),
         NEW h, h = ProvenanceCommitted(g)
  PROVE  GateInvariantHolds(h)
  <1>1. PICK p, v : p = Observed(g.provenance) /\ v = [g.verify EXCEPT !.entry = TRUE]
    OBVIOUS
  <1>2. Typed(g) /\ g.provenance \in ProvenanceType /\ g.verify \in VerifyType
    BY GateFields DEF GateInv
  <1>3. RecordsHold(g) /\ TargetsHold(g) /\ OutputsHold(g) /\ StagesHold(g) /\ StageInv(g, "unit")
    BY GateParts, HeldInParts DEF Stages
  <1>4. /\ p \in ProvenanceType /\ p.status = "observed" /\ p.entry = g.provenance.entry
        /\ p.disposition = g.provenance.disposition /\ p.followUp = g.provenance.followUp
        /\ p.refusal = "none"
    BY <1>1, <1>2 DEF Observed, ProvenanceType, Statuses, Refusals
  <1>5. /\ v \in VerifyType /\ v.status = g.verify.status /\ v.entry = TRUE
        /\ v.disposition = g.verify.disposition /\ v.followUp = g.verify.followUp
        /\ v.refusal = g.verify.refusal
    BY <1>1, <1>2 DEF VerifyType
  <1>6. h = [g EXCEPT !.provenance = p, !.verify = v, !.uncommitted = {}]
    BY <1>1 DEF ProvenanceCommitted
  <1>7. /\ Typed(h) /\ SameTables(g, h) /\ h.unitIds = g.unitIds
        /\ h.uncommitted = {} /\ h.promises = g.promises /\ h.verify = v /\ h.provenance = p
    BY <1>2, <1>4, <1>5, <1>6 DEF Typed, GateType, SameTables
  <1>8. g.provenance.disposition = "none" /\ ~g.provenance.followUp
    BY <1>3, PendingAnswered DEF RecordsHold
  <1>9. RecordsHold(h)
    <2>1. SettlementMetadataIsCoherent(p)
      BY <1>4, <1>8 DEF SettlementMetadataIsCoherent
    <2>2. SettlementMetadataIsCoherent(g.verify)
      BY <1>3 DEF RecordsHold
    <2>3. SettlementMetadataIsCoherent(v)
      BY <1>5, <2>2 DEF SettlementMetadataIsCoherent
    <2>4. QED
      BY <1>3, <1>7, <2>1, <2>3 DEF RecordsHold, SameTables
  <1>10. TargetsHold(h) /\ OutputsHold(h)
    BY <1>3, <1>7, SameTablesHold
  <1>11. UnitProjectionStageSettled(h) /\ ProjectionInputFits(h) /\ StageMaterialisationsSettled(h, "unit")
    <2>1. UnitProjectionStageSettled(g) /\ ProjectionInputFits(g)
      BY <1>3 DEF StagesHold, ProvenanceIsCoherent
    <2>2. StageMaterialisationsSettled(g, "unit")
      BY <1>2, <1>3, <2>1, SettledUnitStage
    <2>3. QED
      BY <1>7, <2>1, <2>2, SettledFrame, SameTablesHold
  <1>12. StageTargets(h, "gate") # {} => StageOpen(h, "gate")
    <2>1. StageTargets(h, "gate") = StageTargets(g, "gate")
      BY <1>7, SameTablesHold DEF Stages
    <2>2. StageTargets(g, "gate") # {} => StageOpen(g, "gate")
      BY <1>3 DEF StagesHold, StagesAreOrdered
    <2>3. QED
      BY <1>5, <1>7, <2>1, <2>2 DEF StageOpen
  <1>13. StagesHold(h)
    BY <1>4, <1>7, <1>8, <1>11, <1>12
       DEF StagesHold, ProvenanceIsCoherent, AccountingIsCoherent, StagesAreOrdered
  <1>14. QED
    BY <1>7, <1>9, <1>10, <1>13, HeldInParts

(* The aggregate was verified: the gate's promises become targets. *)
LEMMA VerifiedHolds ==
  ASSUME NEW g, NEW evidence, GateInv(g, evidence), g.verify.entry, Pending(g.verify),
         NEW h, h = Verified(g)
  PROVE  GateInvariantHolds(h)
  <1>1. PICK v : v = Observed(g.verify)
    OBVIOUS
  <1>2. /\ Typed(g) /\ g.verify \in VerifyType /\ "none" \in Refusals /\ "none" \in Dispositions
        /\ \A s \in Stages : StageInv(g, s) /\ StageClosed(g, s)
    BY GateFields DEF GateInv, Refusals, Dispositions
  <1>3. RecordsHold(g) /\ TargetsHold(g) /\ StagesHold(g)
    BY GateParts, HeldInParts
  <1>4. /\ v \in VerifyType /\ v.status = "observed" /\ v.entry = g.verify.entry
        /\ v.disposition = g.verify.disposition /\ v.followUp = g.verify.followUp /\ v.refusal = "none"
    BY <1>1, <1>2 DEF Observed, VerifyType, Statuses, Refusals
  <1>5. PICK f : f = WithVerify(g, v)
    OBVIOUS
  <1>6. PICK S \in SUBSET Targets : S = {t \in Targets : Stage(t) = "gate"}
    OBVIOUS
  <1>7. h = AttachSource(f, S)
    BY <1>1, <1>5, <1>6 DEF Verified, WithVerify
  <1>8. /\ Typed(f) /\ SameTables(g, f) /\ f.unitIds = g.unitIds /\ f.carried = g.carried
        /\ f.uncommitted = g.uncommitted /\ f.promises = g.promises
        /\ f.provenance = g.provenance /\ f.verify = v
    BY <1>2, <1>4, <1>5, WithVerifyFields
  <1>9. PICK due : due = {t \in S \cap DOMAIN f.promises : Pending(f.promises[t])}
    OBVIOUS
  <1>10. /\ Typed(h)
         /\ h.unitIds = f.unitIds /\ h.carried = f.carried /\ h.uncommitted = f.uncommitted
         /\ h.provenance = f.provenance /\ h.verify = f.verify
         /\ h.items = f.items /\ h.probes = f.probes /\ due \cap DOMAIN f.targets = {}
         /\ DOMAIN h.promises = DOMAIN f.promises \ due
         /\ \A t \in DOMAIN h.promises : h.promises[t] = f.promises[t]
         /\ DOMAIN h.targets = DOMAIN f.targets \cup due
         /\ \A t \in DOMAIN f.targets :
              h.targets[t] = f.targets[t] /\ h.resolutions[t] = f.resolutions[t]
         /\ \A t \in due : h.targets[t] = Fresh /\ h.resolutions[t] = Fresh
    BY <1>7, <1>8, <1>9, AttachFields
  <1>11. ~StageOpen(g, "gate")
    BY DEF StageOpen, Pending
  <1>12. StageItems(h, "gate") = {}
    <2>1. h.items = g.items
      BY <1>8, <1>10 DEF SameTables
    <2>2. \A i \in DOMAIN g.items : Stage(TargetOf[i]) # "gate"
      BY <1>11, GateParts
    <2>3. QED
      BY <2>1, <2>2 DEF StageItems
  <1>13. \A t \in due : Stage(t) = "gate"
    BY <1>6, <1>9
  <1>14. SameStage(g, h, "unit")
    <2>1. StageTargets(h, "unit") = StageTargets(g, "unit")
      BY <1>8, <1>10, <1>13 DEF StageTargets, SameTables
    <2>2. QED
      BY <1>8, <1>10, <2>1 DEF SameStage, StageTargets, StageItems, StageProbes, SameTables
  <1>15. OutputsHold(h)
    <2>1. OtherStages(g, h, "gate") /\ Blank(h, "gate")
      BY <1>12, <1>14 DEF OtherStages, Blank, Stages
    <2>2. QED
      BY <1>10, <2>1, BlankStageOutputs DEF Stages
  <1>16. RecordsHold(h)
    <2>1. SettlementMetadataIsCoherent(Fresh)
      BY DEF SettlementMetadataIsCoherent, Fresh
    <2>2. g.verify.disposition = "none" /\ ~g.verify.followUp
      BY <1>3, PendingAnswered DEF RecordsHold
    <2>3. SettlementMetadataIsCoherent(v)
      BY <1>4, <2>2 DEF SettlementMetadataIsCoherent
    <2>4. \A t \in DOMAIN h.targets : /\ SettlementMetadataIsCoherent(h.targets[t])
                                      /\ SettlementMetadataIsCoherent(h.resolutions[t])
      BY <1>3, <1>8, <1>10, <2>1 DEF RecordsHold, SameTables
    <2>5. \A t \in DOMAIN h.promises : SettlementMetadataIsCoherent(h.promises[t])
      BY <1>3, <1>8, <1>10 DEF RecordsHold
    <2>6. QED
      BY <1>3, <1>8, <1>10, <2>3, <2>4, <2>5 DEF RecordsHold, SameTables
  <1>17. TargetsHold(h)
    <2> SUFFICES ASSUME NEW t \in DOMAIN h.targets PROVE TargetRecordIsCoherent(h, t)
      BY DEF TargetsHold
    <2>1. CASE t \in due
      BY <1>10, <2>1, FreshTyped DEF TargetRecordIsCoherent
    <2>2. CASE t \in DOMAIN g.targets
      <3>1. TargetRecordIsCoherent(g, t)
        BY <1>3, <2>2 DEF TargetsHold
      <3>2. h.items = g.items /\ h.probes = g.probes /\ ItemsOf(h, t) = ItemsOf(g, t)
        BY <1>8, <1>10 DEF SameTables, ItemsOf
      <3>3. h.targets[t] = g.targets[t] /\ h.resolutions[t] = g.resolutions[t]
        BY <1>8, <1>10, <2>2 DEF SameTables
      <3>4. QED
        BY <3>1, <3>2, <3>3, TargetKept
    <2>3. QED
      BY <1>8, <1>10, <2>1, <2>2 DEF SameTables
  <1>18. StageInv(h, "unit")
    BY <1>2, <1>10, <1>14, SameStageInv DEF Stages
  <1>19. g.provenance.entry /\ g.provenance.status = "observed" /\ UnitProjectionStageSettled(g)
    BY <1>3 DEF GateInv, ProvenanceInv, ProvenanceKnown, StagesHold, ProvenanceIsCoherent
  <1>20. UnitProjectionStageSettled(h)
    <2>1. \A t \in StageTargets(g, "unit") : TargetIsSettled(h, t)
      <3> TAKE t \in StageTargets(g, "unit")
      <3>1. h.targets[t] = g.targets[t] /\ h.resolutions[t] = g.resolutions[t]
        BY <1>8, <1>10 DEF SameTables, StageTargets
      <3>2. h.items = g.items /\ ItemsOf(h, t) = ItemsOf(g, t)
        BY <1>8, <1>10 DEF SameTables, ItemsOf
      <3>3. TargetIsSettled(g, t)
        BY <1>19 DEF UnitProjectionStageSettled
      <3>4. QED
        BY <3>1, <3>2, <3>3 DEF TargetIsSettled
    <2>2. \A t \in DOMAIN h.promises : Stage(t) = "unit" => ~Pending(h.promises[t])
      BY <1>8, <1>10, <1>19 DEF UnitProjectionStageSettled
    <2>3. \A p \in StageProbes(h, "unit") : ~Pending(h.probes[p])
      BY <1>8, <1>10, <1>19 DEF UnitProjectionStageSettled, StageProbes, SameTables
    <2>4. QED
      BY <1>8, <1>10, <1>14, <1>19, <2>1, <2>2, <2>3 DEF UnitProjectionStageSettled, SameStage
  <1>21. StageMaterialisationsSettled(h, "unit")
    BY <1>10, <1>18, <1>20, SettledUnitStage
  <1>22. ProjectionInputFits(h)
    BY <1>10, <1>15, <1>16, <1>18, <1>21, FitsWhenSettled DEF StageMaterialisationsSettled
  <1>23. StageOpen(h, "gate")
    BY <1>4, <1>8, <1>10 DEF StageOpen
  <1>24. StagesHold(h)
    <2>1. h.provenance.disposition = g.provenance.disposition /\ h.uncommitted = g.uncommitted
          /\ h.carried = g.carried /\ h.provenance = g.provenance
      BY <1>8, <1>10
    <2>2. QED
      BY <1>3, <1>19, <1>20, <1>21, <1>22, <1>23, <2>1
         DEF StagesHold, ProvenanceIsCoherent, AccountingIsCoherent, StagesAreOrdered
  <1>25. QED
    BY <1>10, <1>15, <1>16, <1>17, <1>24, HeldInParts

(* Publishing an output makes no new collision, and hides none. *)
LEMMA PublishedWitness ==
  ASSUME NEW g, Typed(g), NEW s \in Stages, StageInv(g, s), NEW i \in StageItems(g, s),
         Pending(g.items[i]), IsNamed(g, i), ~HasCollided(g, i), ~Naming(g, s),
         NEW h, Typed(h), h.probes = g.probes, DOMAIN h.items = DOMAIN g.items,
         h.items[i].status = "observed", h.items[i].name = g.items[i].name,
         \A j \in DOMAIN g.items : j # i => h.items[j] = g.items[j],
         NEW j \in StageItems(g, s), j # i
  PROVE  NameCollisionWitness(h, s, TRUE, j) = NameCollisionWitness(g, s, TRUE, j)
  <1>1. /\ \A r : StageItems(h, r) = StageItems(g, r)
        /\ i \in DOMAIN g.items /\ j \in DOMAIN g.items
        /\ \A r, k : Identity(h, r, k) = Identity(g, r, k)
        /\ \A k \in DOMAIN g.items : FinalName(h, k) = FinalName(g, k) /\ IsNamed(h, k) = IsNamed(g, k)
        /\ \A k \in DOMAIN g.items : k # i => HasCollided(h, k) = HasCollided(g, k)
    <2>1. \A k \in DOMAIN g.items : h.items[k].name = g.items[k].name
      OBVIOUS
    <2>2. i \in DOMAIN g.items /\ j \in DOMAIN g.items
      BY DEF StageItems
    <2>3. QED
      BY <2>1, <2>2 DEF StageItems, Identity, FinalName, IsNamed, HasCollided
  <1>2. PICK C, P : C = Contenders(g, s) /\ P = Published(g, s)
    OBVIOUS
  <1>3. i \in C /\ i \notin P
    BY <1>1, <1>2 DEF Contenders, Published, Pending
  <1>4. PICK D, Q : D = Contenders(h, s) /\ Q = Published(h, s)
    OBVIOUS
  <1>5. D = C \ {i}
    <2>1. i \notin D
      BY <1>4 DEF Contenders, Pending
    <2>2. \A k : k # i => (k \in D <=> k \in C)
      <3> TAKE k
      <3>1. k \in C <=> k \in StageItems(g, s) /\ (Pending(g.items[k]) \/ (g.items[k].status = "voided" /\ HasCollided(g, k)))
        BY <1>2 DEF Contenders
      <3>2. k \in D <=> k \in StageItems(h, s) /\ (Pending(h.items[k]) \/ (h.items[k].status = "voided" /\ HasCollided(h, k)))
        BY <1>4 DEF Contenders
      <3>3. k # i /\ k \in StageItems(g, s) => h.items[k] = g.items[k] /\ HasCollided(h, k) = HasCollided(g, k)
        BY <1>1 DEF StageItems
      <3>4. QED
        BY <1>1, <3>1, <3>2, <3>3
    <2>3. \A k : k \in D <=> k \in C /\ k # i
      BY <2>1, <2>2
    <2>4. QED
      BY <2>3
  <1>6. Q = P \cup {i}
    <2>1. i \in Q
      BY <1>1, <1>4 DEF Published
    <2>2. \A k : k # i => (k \in Q <=> k \in P)
      BY <1>1, <1>2, <1>4 DEF Published, StageItems
    <2>3. \A k : k \in Q <=> k \in P \/ k = i
      BY <2>1, <2>2
    <2>4. QED
      BY <2>3
  <1>7. D \cup Q = C \cup P
    BY <1>3, <1>5, <1>6
  <1>8. C \cup P \subseteq DOMAIN g.items
    BY <1>2 DEF Contenders, Published, StageItems
  <1>9. PICK x : x = Identity(g, s, i)
    OBVIOUS
  <1>10. x # {} /\ (Identity(g, "unit", i) # {} => Identity(g, "unit", i) = x)
    <2>1. PICK p : p = <<s, Destination[TargetOf[i]]>>
      OBVIOUS
    <2>2. p = ProbeOf(TargetOf[i])
      BY <2>1 DEF ProbeOf, StageItems
    <2>3. p \in DOMAIN g.probes /\ g.probes[p].status = "observed"
      BY <2>2 DEF StageInv, NamesInv, NamedLate
    <2>4. x = {Physical[Destination[TargetOf[i]]]}
      BY <1>9, <2>1, <2>3 DEF Identity
    <2>5. Identity(g, "unit", i) \in {{}, {Physical[Destination[TargetOf[i]]]}}
      BY DEF Identity
    <2>6. QED
      BY <2>4, <2>5
  <1>11. ASSUME j \in C, FinalName(g, i) = FinalName(g, j)
         PROVE  Identity(g, s, j) # x
    <2> SUFFICES ASSUME Identity(g, s, j) = x PROVE FALSE
      OBVIOUS
    <2>1. IsNamed(g, j)
      <3>1. g.items[i].name = g.items[j].name
        BY <1>11 DEF FinalName
      <3>2. QED
        BY <3>1 DEF IsNamed
    <2>2. Meets(g, s, i, j)
      BY <1>9, <1>10, <1>11, <2>1 DEF Meets
    <2>3. HasCollided(g, i) \/ Naming(g, s)
      BY <2>2 DEF StageInv, NamesInv, NamesDistinct
    <2>4. QED
      BY <2>3
  <1>12. ASSUME j \in C
         PROVE  Rivals(h, s, j) = Rivals(g, s, j)
    <2>1. j \in D
      BY <1>5, <1>12
    <2>2. /\ CandidatePlace(g, s, C, j) = Identity(g, s, j)
          /\ CandidatePlace(h, s, D, j) = Identity(g, s, j)
      BY <1>1, <1>12, <2>1 DEF CandidatePlace
    <2>3. \A k : k # i => CandidatePlace(h, s, D, k) = CandidatePlace(g, s, C, k)
      BY <1>1, <1>5 DEF CandidatePlace
    <2>4. CandidatePlace(g, s, C, i) = x /\ CandidatePlace(h, s, D, i) = Identity(g, "unit", i)
      BY <1>1, <1>3, <1>5, <1>9 DEF CandidatePlace
    <2>5. \A k : k \in Rivals(g, s, j) <=>
             /\ k \in C \cup P /\ k # j /\ IsNamed(g, k) /\ FinalName(g, k) = FinalName(g, j)
             /\ CandidatePlace(g, s, C, k) # {} /\ CandidatePlace(g, s, C, k) = Identity(g, s, j)
      BY <1>2, <2>2 DEF Rivals
    <2>6. \A k : k \in Rivals(h, s, j) <=>
             /\ k \in D \cup Q /\ k # j /\ IsNamed(h, k) /\ FinalName(h, k) = FinalName(h, j)
             /\ CandidatePlace(h, s, D, k) # {} /\ CandidatePlace(h, s, D, k) = Identity(g, s, j)
      BY <1>4, <2>2 DEF Rivals
    <2>7. i \notin Rivals(g, s, j)
      BY <1>11, <1>12, <2>4, <2>5
    <2>8. i \notin Rivals(h, s, j)
      <3> SUFFICES ASSUME i \in Rivals(h, s, j) PROVE FALSE
        OBVIOUS
      <3>1. /\ FinalName(g, i) = FinalName(g, j)
            /\ Identity(g, "unit", i) # {} /\ Identity(g, "unit", i) = Identity(g, s, j)
        BY <1>1, <2>4, <2>6
      <3>2. Identity(g, s, j) = x
        BY <1>10, <3>1
      <3>3. QED
        BY <1>11, <1>12, <3>1, <3>2
    <2>9. ASSUME NEW k, k # i
          PROVE  k \in Rivals(h, s, j) <=> k \in Rivals(g, s, j)
      <3>1. CASE k \in C \cup P
        <4>1. k \in DOMAIN g.items
          BY <1>8, <3>1
        <4>2. FinalName(h, k) = FinalName(g, k) /\ IsNamed(h, k) = IsNamed(g, k) /\ FinalName(h, j) = FinalName(g, j)
          BY <1>1, <4>1
        <4>3. QED
          BY <1>7, <2>3, <2>5, <2>6, <2>9, <3>1, <4>2
      <3>2. CASE k \notin C \cup P
        BY <1>7, <2>5, <2>6, <3>2
      <3>3. QED
        BY <3>1, <3>2
    <2>10. \A k : k \in Rivals(h, s, j) <=> k \in Rivals(g, s, j)
      BY <2>7, <2>8, <2>9
    <2>11. QED
      BY <2>10 DEF Rivals
  <1>13. IsNamed(h, j) = IsNamed(g, j) /\ (j \in D <=> j \in C)
    BY <1>1, <1>5
  <1>14. QED
    <2>1. CASE j \in C
      BY <1>2, <1>4, <1>12, <1>13, <2>1, WitnessIs
    <2>2. CASE j \notin C
      BY <1>2, <1>4, <1>13, <2>2, WitnessIs
    <2>3. QED
      BY <2>1, <2>2

(* The names of a gate stay coherent when an output is published. *)
LEMMA PublishedOutputs ==
  ASSUME NEW g, NEW evidence, GateInv(g, evidence), NEW s \in Stages, NEW i \in StageItems(g, s),
         Pending(g.items[i]), g.items[i].refusal = "none", IsNamed(g, i),
         StageNamesReady(g, s), ~Naming(g, s),
         NEW h, Typed(h), h.probes = g.probes, DOMAIN h.items = DOMAIN g.items,
         h.items[i].status = "observed", h.items[i].name = g.items[i].name,
         h.items[i].refusal = "none",
         \A j \in DOMAIN g.items : j # i => h.items[j] = g.items[j],
         OtherStages(g, h, s)
  PROVE  OutputsHold(h)
  <1>1. /\ Typed(g) /\ StageInv(g, s) /\ StageInv(g, "unit") /\ OutputsHold(g)
        /\ i \in DOMAIN g.items /\ Stage(TargetOf[i]) = s
    BY GateParts, HeldInParts DEF StageItems, Stages
  <1>2. s = "unit" => StageItems(g, "gate") = {}
    BY UnprojectedWave
  <1>3. /\ \A r, k : Identity(h, r, k) = Identity(g, r, k)
        /\ \A k \in DOMAIN g.items : FinalName(h, k) = FinalName(g, k) /\ IsNamed(h, k) = IsNamed(g, k)
    <2>1. \A k \in DOMAIN g.items : h.items[k].name = g.items[k].name
      OBVIOUS
    <2>2. QED
      BY <2>1 DEF Identity, FinalName, IsNamed
  <1>4. ~HasCollided(g, i)
    BY DEF HasCollided
  <1>5. ASSUME NEW j \in DOMAIN g.items
        PROVE  j \in StageItems(g, s) \/ (s = "gate" /\ j \in StageItems(g, "unit"))
    <2>1. Stage(TargetOf[j]) \in Stages /\ j \in StageItems(g, Stage(TargetOf[j]))
      BY GateParts
    <2>2. QED
      BY <1>2, <2>1 DEF Stages
  <1>6. ASSUME NEW j \in DOMAIN g.items
        PROVE  (h.items[j].refusal # "none" => IsNamed(h, j)) /\ CollisionWitnessIsCoherent(h, j)
    <2>1. CollisionWitnessIsCoherent(g, j) /\ (g.items[j].refusal # "none" => IsNamed(g, j))
      BY <1>1 DEF OutputsHold
    <2>2. CASE j = i
      BY <2>2 DEF CollisionWitnessIsCoherent, Pending
    <2>3. CASE j # i /\ j \in StageItems(g, s)
      <3>1. NameCollisionWitness(h, s, TRUE, j) = NameCollisionWitness(g, s, TRUE, j)
        BY <1>1, <1>4, <2>3, PublishedWitness
      <3>2. h.items[j] = g.items[j] /\ Stage(TargetOf[j]) = s
        BY <2>3 DEF StageItems
      <3>3. CollisionWitnessIsCoherent(h, j)
        BY <2>1, <3>1, <3>2 DEF CollisionWitnessIsCoherent
      <3>4. QED
        BY <1>3, <2>1, <3>2, <3>3
    <2>4. CASE s = "gate" /\ j \in StageItems(g, "unit")
      <3>1. SameStage(g, h, "unit")
        BY <2>4 DEF OtherStages, Stages
      <3>2. CollisionWitnessIsCoherent(h, j)
        BY <1>1, <2>1, <2>4, <3>1, UnitWitnessKept
      <3>3. j # i
        BY <1>1, <2>4 DEF StageItems
      <3>4. QED
        BY <1>3, <2>1, <3>2, <3>3
    <2>5. QED
      BY <1>5, <2>2, <2>3, <2>4
  <1>7. Identity(g, s, i) # {}
    <2>1. PICK p : p = ProbeOf(TargetOf[i])
      OBVIOUS
    <2>2. p = <<s, Destination[TargetOf[i]]>>
      BY <1>1, <2>1 DEF ProbeOf
    <2>3. p \in DOMAIN g.probes /\ g.probes[p].status = "observed"
      BY <1>1, <2>1 DEF StageInv, NamesInv, NamedLate
    <2>4. QED
      BY <2>2, <2>3 DEF Identity
  <1>8. ASSUME NEW j \in DOMAIN g.items, j # i, g.items[j].status = "observed",
               FinalName(g, i) = FinalName(g, j),
               Identity(g, s, i) = Identity(g, Stage(TargetOf[j]), j)
        PROVE  FALSE
    <2>1. IsNamed(g, j)
      <3>1. g.items[i].name = g.items[j].name
        BY <1>8 DEF FinalName
      <3>2. QED
        BY <3>1 DEF IsNamed
    <2>2. CASE j \in StageItems(g, s)
      <3>1. Stage(TargetOf[j]) = s
        BY <2>2 DEF StageItems
      <3>2. Meets(g, s, i, j)
        BY <1>7, <1>8, <2>1, <3>1 DEF Meets
      <3>3. HasCollided(g, i) \/ Naming(g, s)
        BY <1>1, <1>8, <2>2, <3>2 DEF StageInv, NamesInv, NamesDistinct
      <3>4. QED
        BY <1>4, <3>3
    <2>3. CASE s = "gate" /\ j \in StageItems(g, "unit")
      <3>1. PICK C, P : C = Contenders(g, s) /\ P = Published(g, s)
        OBVIOUS
      <3>2. i \in C /\ j \in P /\ j \notin C
        <4>1. i \in C
          BY <3>1 DEF Contenders
        <4>2. j \in P
          BY <1>8, <2>3, <3>1 DEF Published
        <4>3. j \notin C
          BY <2>3, <3>1 DEF Contenders, StageItems
        <4>4. QED
          BY <4>1, <4>2, <4>3
      <3>3. Stage(TargetOf[j]) = "unit"
        BY <2>3 DEF StageItems
      <3>4. /\ CandidatePlace(g, s, C, i) = Identity(g, s, i)
            /\ CandidatePlace(g, s, C, j) = Identity(g, s, i)
        BY <1>8, <3>2, <3>3 DEF CandidatePlace
      <3>5. j \in Rivals(g, s, i)
        BY <1>7, <1>8, <2>1, <3>1, <3>2, <3>4 DEF Rivals
      <3>6. NameCollisionWitness(g, s, TRUE, i) # NoEntry
        BY <1>1, <3>1, <3>2, <3>5, NoWitness
      <3>7. CollisionWitnessIsCoherent(g, i)
        BY <1>1 DEF OutputsHold
      <3>8. QED
        BY <1>1, <3>6, <3>7 DEF CollisionWitnessIsCoherent
    <2>4. QED
      BY <1>5, <2>2, <2>3
  <1>9. ObservedFinalNamesAreUnique(h)
    <2> SUFFICES ASSUME NEW a \in DOMAIN g.items, NEW b \in DOMAIN g.items, a # b,
                        h.items[a].status = "observed", h.items[b].status = "observed",
                        Identity(h, Stage(TargetOf[a]), a) = Identity(h, Stage(TargetOf[b]), b),
                        FinalName(h, a) = FinalName(h, b)
                 PROVE  FALSE
      BY DEF ObservedFinalNamesAreUnique
    <2>1. /\ Identity(g, Stage(TargetOf[a]), a) = Identity(g, Stage(TargetOf[b]), b)
          /\ FinalName(g, a) = FinalName(g, b)
      BY <1>3
    <2>2. CASE a = i
      BY <1>1, <1>8, <2>1, <2>2
    <2>3. CASE b = i
      BY <1>1, <1>8, <2>1, <2>3
    <2>4. CASE a # i /\ b # i
      <3>1. g.items[a].status = "observed" /\ g.items[b].status = "observed"
        BY <2>4
      <3>2. QED
        BY <1>1, <2>1, <3>1 DEF OutputsHold, ObservedFinalNamesAreUnique
    <2>5. QED
      BY <2>2, <2>3, <2>4
  <1>10. QED
    BY <1>6, <1>9 DEF OutputsHold

(* An output was published. *)
LEMMA MaterialisedHolds ==
  ASSUME NEW g, NEW evidence, GateInv(g, evidence), Unowed(g), NEW i \in DOMAIN g.items,
         StageNamesReady(g, Stage(TargetOf[i])),
         \A j \in StageItems(g, Stage(TargetOf[i])) : ~Collided(g, j),
         Pending(g.items[i]), g.items[i].refusal = "none", NEW h, h = Materialised(g, i)
  PROVE  GateInvariantHolds(h)
  <1>1. PICK s \in Stages, t \in DOMAIN g.targets : s = Stage(TargetOf[i]) /\ t = TargetOf[i]
    BY GateParts
  <1>2. /\ Typed(g) /\ StageInv(g, s) /\ StageInv(g, "unit") /\ t \in DOMAIN g.targets
        /\ i \in StageItems(g, s) /\ Pending(g.targets[t]) /\ StageNamesReady(g, s)
        /\ \A j \in StageItems(g, s) : ~Collided(g, j)
    BY <1>1, GateParts DEF Stages
  <1>3. RecordsHold(g) /\ TargetsHold(g) /\ StagesHold(g)
    BY GateParts, HeldInParts
  <1>4. ~Naming(g, s) /\ IsNamed(g, i)
    BY <1>2 DEF StageNamesReady, Naming, IsNamed
  <1>5. PICK r : r = Observed(g.items[i])
    OBVIOUS
  <1>6. /\ r \in ItemType /\ r.status = "observed" /\ r.refusal = "none"
        /\ r.name = g.items[i].name /\ r.witness = g.items[i].witness
        /\ SettlementMetadataIsCoherent(r)
    <2>1. g.items[i] \in ItemType /\ "none" \in Dispositions /\ "none" \in Refusals
      BY <1>2, GateFields DEF Dispositions, Refusals
    <2>2. /\ r \in ItemType /\ r.status = "observed" /\ r.refusal = "none"
          /\ r.name = g.items[i].name /\ r.witness = g.items[i].witness
          /\ r.disposition = g.items[i].disposition /\ r.followUp = g.items[i].followUp
      BY ZenonT(60), <1>5, <2>1, ItemOps
    <2>3. g.items[i].disposition = "none" /\ ~g.items[i].followUp
      BY <1>3, PendingAnswered DEF RecordsHold
    <2>4. QED
      BY <2>2, <2>3 DEF SettlementMetadataIsCoherent
  <1>7. PICK f : f = WithItem(g, i, r)
    OBVIOUS
  <1>8. /\ Typed(f) /\ Frame(g, f) /\ f.targets = g.targets /\ f.resolutions = g.resolutions
        /\ f.probes = g.probes /\ DOMAIN f.items = DOMAIN g.items /\ f.items[i] = r
        /\ \A j \in DOMAIN g.items : j # i => f.items[j] = g.items[j]
        /\ OtherStages(g, f, s) /\ Sourced(f, s) /\ Probing(f, s) /\ NamesInv(f, s)
        /\ SettlingBut(f, s, t)
    <2>1. ~HasCollided(g, i) /\ r.refusal # "output_name_collision" /\ r.status # "voided"
      BY <1>6 DEF HasCollided
    <2>2. QED
      BY <1>1, <1>2, <1>4, <1>6, <1>7, <2>1, ItemKeeps
  <1>9. PICK e : e = SettleTargetPromise(f, t)
    OBVIOUS
  <1>10. h = MaybeCreateProvenance(e)
    BY <1>1, <1>5, <1>7, <1>9 DEF Materialised, WithItem
  <1>11. t \in DOMAIN f.targets /\ t \in StageTargets(f, s)
    BY <1>1, <1>2, <1>8 DEF StageTargets
  <1>12. /\ Typed(e) /\ Frame(f, e)
         /\ e.resolutions = f.resolutions /\ e.items = f.items /\ e.probes = f.probes
         /\ DOMAIN e.targets = DOMAIN f.targets
         /\ StageInv(e, s) /\ OtherStages(f, e, s)
    BY <1>8, <1>9, <1>11, SettleKeeps
  <1>13. /\ \A u \in DOMAIN f.targets : u # t => e.targets[u] = f.targets[u]
         /\ IF /\ Pending(f.targets[t]) /\ f.resolutions[t].status = "observed"
               /\ ItemsOf(f, t) # {} /\ \A j \in ItemsOf(f, t) : ~Pending(f.items[j])
            THEN e.targets[t] = IF \E j \in ItemsOf(f, t) : f.items[j].status = "voided"
                                THEN CascadeVoid(f.targets[t]) ELSE Observed(f.targets[t])
            ELSE e.targets[t] = f.targets[t]
    BY <1>8, <1>9, <1>11, SettleFields
  <1>14. Frame(g, e) /\ OtherStages(g, e, s)
    BY <1>8, <1>12 DEF Frame, OtherStages, SameStage
  <1>15. OutputsHold(e)
    <2>1. /\ e.probes = g.probes /\ DOMAIN e.items = DOMAIN g.items
          /\ e.items[i].status = "observed" /\ e.items[i].name = g.items[i].name
          /\ e.items[i].refusal = "none"
          /\ \A j \in DOMAIN g.items : j # i => e.items[j] = g.items[j]
      BY <1>6, <1>8, <1>12
    <2>2. QED
      BY <1>2, <1>4, <1>12, <1>14, <2>1, PublishedOutputs
  <1>16. g.targets[t] \in RecordType /\ g.targets[t].refusal = "none"
         /\ g.targets[t].disposition = "none" /\ ~g.targets[t].followUp
    BY <1>2, <1>3, GateFields, PendingAnswered DEF Unowed, RecordsHold
  <1>17. PICK settled : settled = (/\ f.resolutions[t].status = "observed" /\ ItemsOf(f, t) # {}
                                   /\ \A j \in ItemsOf(f, t) : ~Pending(f.items[j]))
    OBVIOUS
  <1>18. PICK dropped : dropped = (\E j \in ItemsOf(f, t) : f.items[j].status = "voided")
    OBVIOUS
  <1>19. /\ (settled /\ dropped) => e.targets[t] = CascadeVoid(g.targets[t])
         /\ (settled /\ ~dropped) => e.targets[t] = Observed(g.targets[t])
         /\ ~settled => e.targets[t] = g.targets[t]
    BY <1>2, <1>8, <1>13, <1>17, <1>18
  <1>20. /\ CascadeVoid(g.targets[t]).status = "voided"
         /\ CascadeVoid(g.targets[t]).disposition = "deferral_cascade"
         /\ SettlementMetadataIsCoherent(CascadeVoid(g.targets[t]))
         /\ Observed(g.targets[t]).status = "observed"
         /\ SettlementMetadataIsCoherent(Observed(g.targets[t]))
    <2>1. PICK c, o : c = CascadeVoid(g.targets[t]) /\ o = Observed(g.targets[t])
      OBVIOUS
    <2>2. /\ c.status = "voided" /\ c.disposition = "deferral_cascade" /\ c.followUp = TRUE
          /\ c.refusal = g.targets[t].refusal
          /\ o.status = "observed" /\ o.disposition = g.targets[t].disposition
          /\ o.followUp = g.targets[t].followUp /\ o.refusal = "none"
      <3>1. "none" \in Dispositions /\ "none" \in Refusals
        BY DEF Dispositions, Refusals
      <3>2. QED
        BY ZenonT(60), <1>16, <2>1, <3>1, RecordOps
    <2>3. (c.disposition \in {"deferred_by_controller", "deferral_cascade"}) = TRUE
      BY <2>2
    <2>4. SettlementMetadataIsCoherent(c)
      BY <1>16, <2>2, <2>3 DEF SettlementMetadataIsCoherent
    <2>5. SettlementMetadataIsCoherent(o)
      BY <1>16, <2>2 DEF SettlementMetadataIsCoherent
    <2>6. QED
      BY <2>1, <2>2, <2>4, <2>5
  <1>21. RecordsHold(e)
    <2>1. SettlementMetadataIsCoherent(e.targets[t])
      BY <1>2, <1>3, <1>19, <1>20 DEF RecordsHold
    <2>2. \A u \in DOMAIN e.targets : SettlementMetadataIsCoherent(e.targets[u])
                                      /\ SettlementMetadataIsCoherent(e.resolutions[u])
      BY <1>3, <1>8, <1>12, <1>13, <2>1 DEF RecordsHold
    <2>3. \A j \in DOMAIN e.items : SettlementMetadataIsCoherent(e.items[j])
      BY <1>3, <1>6, <1>8, <1>12 DEF RecordsHold
    <2>4. QED
      BY <1>3, <1>8, <1>12, <1>14, <2>2, <2>3 DEF RecordsHold, Frame
  <1>22. TargetsHold(e)
    <2> SUFFICES ASSUME NEW u \in DOMAIN g.targets PROVE TargetRecordIsCoherent(e, u)
      BY <1>8, <1>12 DEF TargetsHold
    <2>1. TargetRecordIsCoherent(g, u) /\ e.resolutions[u] = g.resolutions[u]
      BY <1>3, <1>8, <1>12 DEF TargetsHold
    <2>2. CASE u # t
      <3>1. ItemsOf(e, u) = ItemsOf(g, u)
        BY <1>8, <1>12 DEF ItemsOf
      <3>2. \A j \in ItemsOf(g, u) : e.items[j] = g.items[j]
        BY <1>1, <1>8, <1>12, <2>2 DEF ItemsOf
      <3>3. e.targets[u] = g.targets[u] /\ e.probes = g.probes
        BY <1>8, <1>12, <1>13, <2>2
      <3>4. QED
        BY <2>1, <3>1, <3>2, <3>3, TargetKept
    <2>3. CASE u = t
      <3>1. ItemsOf(e, t) = ItemsOf(f, t) /\ e.items = f.items
        BY <1>12 DEF ItemsOf
      <3>2. g.resolutions[t].status = "voided" => g.resolutions[t].disposition = "deferred_by_controller"
        BY <2>1, <2>3 DEF TargetRecordIsCoherent
      <3>3. CASE settled /\ dropped
        <4>1. e.targets[t].status = "voided" /\ e.targets[t].disposition = "deferral_cascade"
          BY <1>19, <1>20, <3>3
        <4>2. \A j \in ItemsOf(e, t) : ~Pending(e.items[j])
          BY <1>17, <3>1, <3>3
        <4>3. e.resolutions[t].status = "observed"
          BY <1>12, <1>17, <3>3
        <4>4. \E j \in ItemsOf(e, t) : e.items[j].disposition = "deferred_by_controller"
          <5>1. PICK j \in ItemsOf(f, t) : f.items[j].status = "voided"
            BY <1>18, <3>3
          <5>2. f.targets[t].status = "pending"
            BY <1>2, <1>8 DEF Pending
          <5>3. f.items[j].disposition = "deferred_by_controller"
            BY <1>8, <1>11, <5>1, <5>2 DEF SettlingBut
          <5>4. QED
            BY <3>1, <5>1, <5>3
        <4>5. TargetIsSettled(e, t)
          BY <4>1, <4>2, <4>3 DEF TargetIsSettled, Pending
        <4>6. TargetVoidOrigin(e, t)
          BY <4>1, <4>4 DEF TargetVoidOrigin
        <4>7. QED
          BY <2>3, <4>1, <4>3, <4>5, <4>6 DEF TargetRecordIsCoherent
      <3>4. CASE settled /\ ~dropped
        <4>1. e.targets[t].status = "observed"
          BY <1>19, <1>20, <3>4
        <4>2. e.resolutions[t].status = "observed" /\ ItemsOf(e, t) # {}
          BY <1>12, <1>17, <3>1, <3>4
        <4>3. \A j \in ItemsOf(e, t) : e.items[j].status = "observed"
          <5> TAKE j \in ItemsOf(e, t)
          <5>1. ~Pending(e.items[j]) /\ e.items[j].status # "voided"
            BY <1>17, <1>18, <3>1, <3>4
          <5>2. e.items[j] \in ItemType
            BY <1>12, GateFields DEF ItemsOf
          <5>3. QED
            BY <5>1, <5>2 DEF ItemType, Statuses, Pending
        <4>4. QED
          BY <2>3, <4>1, <4>2, <4>3 DEF TargetRecordIsCoherent
      <3>5. CASE ~settled
        <4>1. e.targets[t].status = "pending"
          BY <1>2, <1>19, <3>5 DEF Pending
        <4>2. QED
          BY <2>1, <2>3, <3>2, <4>1 DEF TargetRecordIsCoherent
      <3>6. QED
        BY <3>3, <3>4, <3>5
    <2>4. QED
      BY <2>2, <2>3
  <1>23. SameStage(g, e, "unit") \/ ~g.provenance.entry
    <2>1. CASE s = "unit"
      BY <1>2, <2>1, UnprojectedWave
    <2>2. CASE s # "unit"
      BY <1>14, <2>2 DEF OtherStages, Stages
    <2>3. QED
      BY <2>1, <2>2
  <1>24. StageTargets(e, "gate") = StageTargets(g, "gate")
    BY <1>8, <1>12 DEF StageTargets
  <1>25. StagesHold(e)
    BY <1>2, <1>3, <1>12, <1>14, <1>15, <1>21, <1>23, <1>24, StagesKept
  <1>26. Unowed(e)
    <2>1. OwesLess(g, f)
      BY <1>8, FrameOwes
    <2>2. OwesLess(f, e)
      BY <1>8, <1>9, <1>11, SettleOwes
    <2>3. QED
      BY <2>1, <2>2, OwesLessThrough, UnowedKept
  <1>27. ProvenanceKnown(e) /\ StageInv(e, "unit")
    <2>1. ProvenanceKnown(e)
      BY <1>14 DEF GateInv, ProvenanceInv, ProvenanceKnown, Frame
    <2>2. CASE s = "unit"
      BY <1>12, <2>1, <2>2
    <2>3. CASE s # "unit"
      <3>1. SameStage(g, e, "unit") /\ "unit" \in Stages
        BY <1>14, <2>3 DEF OtherStages, Stages
      <3>2. QED
        BY <1>2, <1>12, <2>1, <3>1, SameStageInv
    <2>4. QED
      BY <2>2, <2>3
  <1>28. QED
    BY <1>10, <1>12, <1>15, <1>21, <1>22, <1>25, <1>26, <1>27, CreatedHolds

(* Whatever effect is in flight, its positive answer gives a gate the reducer can hold: a *)
(* published file, a commit or a resolution is never refused by the aggregate invariant   *)
(* because of an earlier naming, deferral or cascade (commit, reducer.ts:9805).           *)
THEOREM ActsRecordable == Spec => []ActsAreRecordable
  <1>1. Inv /\ Unowed(gate) => ActsAreRecordable
    <2> SUFFICES ASSUME Inv, Unowed(gate), effect # None PROVE ActsAreRecordable
      BY DEF ActsAreRecordable
    <2>1. GateInv(gate, outcome) /\ InFlight(gate, effect)
      BY DEF Inv
    <2>2. ASSUME NEW t \in DOMAIN gate.targets, effect = <<"resolution", t>>,
                 StageOpen(gate, Stage(t)), Pending(gate.resolutions[t])
          PROVE  ActsAreRecordable
      <3>1. GateInvariantHolds(Resolved(gate, t))
        BY <2>1, <2>2, ResolvedHolds
      <3>2. effect[1] = "resolution" /\ effect[2] = t
        BY <2>2
      <3>3. QED
        BY <3>1, <3>2 DEF ActsAreRecordable
    <2>3. ASSUME NEW p \in DOMAIN gate.probes, effect = <<"probe", p>>, Pending(gate.probes[p])
          PROVE  ActsAreRecordable
      <3>1. GateInvariantHolds(Probed(gate, p))
        BY <2>1, <2>3, ProbedHolds
      <3>2. effect[1] = "probe" /\ effect[2] = p
        BY <2>3
      <3>3. QED
        BY <3>1, <3>2 DEF ActsAreRecordable
    <2>4. ASSUME NEW i \in DOMAIN gate.items, effect = <<"item", i>>,
                 StageNamesReady(gate, Stage(TargetOf[i])),
                 \A j \in StageItems(gate, Stage(TargetOf[i])) : ~Collided(gate, j),
                 Pending(gate.items[i]), gate.items[i].refusal = "none"
          PROVE  ActsAreRecordable
      <3>1. GateInvariantHolds(Materialised(gate, i))
        BY <2>1, <2>4, MaterialisedHolds
      <3>2. effect[1] = "item" /\ effect[2] = i
        BY <2>4
      <3>3. QED
        BY <3>1, <3>2 DEF ActsAreRecordable
    <2>5. ASSUME effect = <<"provenance">>, gate.provenance.entry, Pending(gate.provenance)
          PROVE  ActsAreRecordable
      <3>1. GateInvariantHolds(ProvenanceCommitted(gate))
        BY <2>1, <2>5, ProvenanceCommittedHolds
      <3>2. effect[1] = "provenance"
        BY <2>5
      <3>3. QED
        BY <3>1, <3>2 DEF ActsAreRecordable
    <2>6. ASSUME effect = <<"verify">>, gate.verify.entry, Pending(gate.verify)
          PROVE  ActsAreRecordable
      <3>1. GateInvariantHolds(Verified(gate))
        BY <2>1, <2>6, VerifiedHolds
      <3>2. effect[1] = "verify"
        BY <2>6
      <3>3. QED
        BY <3>1, <3>2 DEF ActsAreRecordable
    <2>7. QED
      BY <2>1, <2>2, <2>3, <2>4, <2>5, <2>6 DEF InFlight
  <1>2. QED
    BY <1>1, UnowedHolds, PTL

=============================================================================

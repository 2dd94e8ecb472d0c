------------------------ MODULE RecoveryCoordinator ------------------------
(***************************************************************************)
(* One CLI invocation of the engine, src/src/commands/recovery.ts: take the *)
(* operation lock, load the durable run, reconcile every unresolved effect  *)
(* with the outside world, persist the intent of the requested event, act,  *)
(* persist what was observed.  Several processes invoke it, each may crash   *)
(* between any two steps, an external act may outlive the process that      *)
(* started it, and the store is a compare-and-set on the whole projection.   *)
(*                                                                          *)
(* The run is abstracted to its revision and its effect journal; what the   *)
(* reducer admits is abstracted by Admits (the reducer itself is RunReducer).*)
(* An effect's Profile stands for the readback the production adapter has    *)
(* for its kind.                                                            *)
(***************************************************************************)
EXTENDS Naturals, Sequences, FiniteSets

CONSTANTS
    Processes,     \* CLI processes
    Effects,       \* effects the run can journal
    Boot,          \* the first of them, the controller_acquire
    Profile,       \* how the adapter reads each effect back
    Releases,      \* the controller_release effects
    Refreshes,     \* the candidate_refresh effects
    Reviews,       \* the review_dispatch and review_collect effects
    Refused,       \* effects whose unit no longer admits their success
    Embedded,      \* is the store the embedded one, or the server's?
    Exclusive,     \* does the operation lock exclude a second holder?
    OrphanedActs,  \* can an act outlive the process that started it?
    MaxCrashes,    \* bound: crashes of all processes together
    MaxPlain,      \* bound: events that emit no effect
    None

Profiles == {"git", "reservation", "verify", "launch", "session"}

ASSUME CoordinatorAssumption ==
    /\ IsFiniteSet(Processes) /\ IsFiniteSet(Effects)
    /\ Profile \in [Effects -> Profiles]
    /\ Boot \in Effects /\ Profile[Boot] = "git"
    /\ Releases \cup Refreshes \subseteq {e \in Effects : Profile[e] = "git"} \ {Boot}
    /\ Releases \cap Refreshes = {}
    /\ Reviews \subseteq {e \in Effects : Profile[e] \in {"launch", "session"}}
    /\ Refused \subseteq Effects \ (Releases \cup {Boot})
    /\ Embedded \in BOOLEAN
    /\ Exclusive \in BOOLEAN /\ OrphanedActs \in BOOLEAN
    /\ MaxCrashes \in Nat /\ MaxPlain \in Nat
    /\ None \notin Effects

VARIABLES
    store,      \* the durable projection; revision 0 stands for absent rows
    proc,       \* the invocation each process is in
    applied,    \* git acts that took place in the world
    inflight,   \* acts started and not yet over, with the process they belong to
    wedged,     \* slot transitions of which nothing can be told any more
    delivered,  \* tool requests handed to the host, per effect
    claimed,    \* effects some invocation reported as applied
    crashes, plain

world == <<applied, inflight, wedged, delivered>>
bounds == <<crashes, plain>>
vars == <<store, proc, world, claimed, bounds>>

Statuses == {"none", "intended", "ambiguous", "observed"}

(* The two effects that move the run's merge slot. *)
Slots == {Boot} \cup Releases

Projections == [rev : Nat, journal : [Effects -> Statuses], order : Seq(Effects)]

Absent == [rev |-> 0, journal |-> [e \in Effects |-> "none"], order |-> <<>>]

(* A state query, a bare resume, an event (plain, or one that emits an       *)
(* effect) built on a revision its caller saw, a host acknowledgement.       *)
Requests ==
    [kind : {"query", "resume", "event", "ack"}, effect : Effects \cup {None}, rev : Nat]

Request(kind, e, rev) == [kind |-> kind, effect |-> e, rev |-> rev]

ProcessStates == {"idle", "load", "create", "acknowledge", "reconcile",
                  "replay", "request", "act", "acting", "persist", "readback"}

(* Why a projection is being persisted, hence where the invocation goes on. *)
Purposes == {"reconcile", "deliver", "plain", "intent", "record"}

Invocations == [
    pc      : ProcessStates,
    req     : Requests,
    ready   : BOOLEAN,           \* is a harness configured in this invocation?
    view    : Projections,       \* the projection it loaded or last persisted
    todo    : SUBSET Effects,    \* unresolved entries still to reconcile
    effect  : Effects \cup {None},
    event   : Statuses \cup {"plain"},  \* the status the event gives the effect
    purpose : Purposes]

Idle == [pc |-> "idle", req |-> Request("resume", None, 0), ready |-> FALSE,
         view |-> Absent, todo |-> {}, effect |-> None, event |-> "plain",
         purpose |-> "plain"]

TypeOK ==
    /\ store \in Projections
    /\ proc \in [Processes -> Invocations]
    /\ applied \subseteq Effects
    /\ inflight \subseteq Processes \X Effects
    /\ wedged \subseteq Slots
    /\ delivered \in [Effects -> Nat]
    /\ claimed \subseteq Effects
    /\ crashes \in 0..MaxCrashes /\ plain \in 0..MaxPlain

Init ==
    /\ store = Absent
    /\ proc = [p \in Processes |-> Idle]
    /\ applied = {} /\ inflight = {} /\ wedged = {}
    /\ delivered = [e \in Effects |-> 0]
    /\ claimed = {}
    /\ crashes = 0 /\ plain = 0

-----------------------------------------------------------------------------
(* The reducer, as far as the coordinator depends on it *)

Unresolved(j) == {e \in Effects : j[e] \in {"intended", "ambiguous"}}

(* The run's owner can go on: it has the slot, has not begun to give it up,   *)
(* and no outcome is unknown.                                                *)
Running(j) ==
    /\ j[Boot] = "observed"
    /\ \A f \in Releases : j[f] = "none"
    /\ \A f \in Effects : j[f] # "ambiguous"

(* An effect is intended once, by a running owner, and the release when the   *)
(* work is closed.  The sweep refuses a review's ambiguity, and a blocked     *)
(* aggregate every observation of a refresh.                                 *)
Admits(j, e, event) ==
    CASE event = "plain"     -> Running(j)
      [] event = "intended"  -> /\ j[e] = "none"
                                /\ e # Boot => Running(j)
                                /\ e \in Releases => Unresolved(j) = {}
      [] event = "ambiguous" -> j[e] = "intended" /\ e \notin Reviews
      [] event = "observed"  -> /\ e \in Unresolved(j) /\ e \notin Refused
                                /\ e \in Refreshes => \A f \in Effects : j[f] # "ambiguous"
      [] OTHER -> FALSE

(* Mutant of Reduce: an event without an effect is journalled all the same. *)
ReduceJournalsPlain(v, e, event) ==
    [rev     |-> v.rev + 1,
     journal |-> [f \in Effects |-> IF f = e THEN event ELSE v.journal[f]],
     order   |-> IF event \in {"intended", "plain"} THEN Append(v.order, e) ELSE v.order]

Reduce(v, e, event) ==
    IF event = "plain" THEN [v EXCEPT !.rev = @ + 1]
    ELSE [rev     |-> v.rev + 1,
          journal |-> [v.journal EXCEPT ![e] = event],
          order   |-> IF event = "intended" THEN Append(v.order, e) ELSE v.order]

-----------------------------------------------------------------------------
(* The production adapter *)

(* Reservations, verification and the recoverable kinds are always            *)
(* reconcilable; harness work only when the invocation has a harness.         *)
Reconcilable(p, e) == Profile[e] \in {"launch", "session"} => proc[p].ready

(* A slot transition is found done, or found not begun; one left halfway, or *)
(* planned on a slot that has moved since, is neither.                       *)
SlotFound(e) ==
    {"ambiguous", "unavailable"} \cup
        (IF e \in wedged THEN {} ELSE IF e \in applied THEN {"observed"} ELSE {"absent"})

(* Mutant of Discovered: a launch that left no trace is requested again. *)
DiscoveredRelaunches(e, status) ==
    CASE e \in Slots -> SlotFound(e)
      [] Profile[e] = "git" /\ e \notin Slots ->
            {"observed", "ambiguous", "unavailable"}
                \cup (IF e \in applied THEN {} ELSE {"absent"})
      [] Profile[e] = "reservation" -> {"absent"}
      [] Profile[e] = "verify" ->
            IF status = "intended" THEN {"deliver", "ambiguous"} ELSE {"ambiguous"}
      [] Profile[e] = "launch" -> {"tool_request", "ambiguous"}
      [] Profile[e] = "session" -> {"tool_request", "ambiguous"}

(* What the readback of an effect can answer.  Only an act on git or on the   *)
(* slot leaves a trace whose absence is positive; an act refused by git is an *)
(* observation too, and collecting a candidate has some of these answers.  A  *)
(* reservation has no trace outside the run; a manual launch cannot be looked *)
(* up again; a verification is requested once, while its entry is intended; a *)
(* session's work can always be polled.                                      *)
Discovered(e, status) ==
    CASE e \in Slots -> SlotFound(e)
      [] Profile[e] = "git" /\ e \notin Slots ->
            {"observed", "ambiguous", "unavailable"}
                \cup (IF e \in applied THEN {} ELSE {"absent"})
      [] Profile[e] = "reservation" -> {"absent"}
      [] Profile[e] = "verify" ->
            IF status = "intended" THEN {"deliver", "ambiguous"} ELSE {"ambiguous"}
      [] Profile[e] = "launch" -> {"ambiguous"}
      [] Profile[e] = "session" -> {"tool_request", "ambiguous"}

(* What performing it can answer, once the act is over. *)
Executed(e) ==
    CASE e \in Slots ->
            {"ambiguous", "unavailable"} \cup (IF e \in applied THEN {"observed"} ELSE {})
      [] Profile[e] = "git" /\ e \notin Slots ->
            {"observed", "ambiguous", "unavailable"}
      [] Profile[e] = "reservation" -> {"observed"}
      [] Profile[e] = "verify" -> {"deliver", "ambiguous"}
      [] Profile[e] \in {"launch", "session"} -> {"tool_request", "ambiguous"}

(* What a host acknowledgement is worth: a verification only settles the      *)
(* ambiguity its delivery recorded, harness work any unresolved entry; where   *)
(* a session can be looked up, reporting a launch asks for its inspection.    *)
Acknowledged(p, e, status) ==
    IF Profile[e] = "verify"
    THEN {"ambiguous"} \cup (IF status = "ambiguous" THEN {"observed"} ELSE {})
    ELSE IF ~ proc[p].ready THEN {"unavailable"}
    ELSE {"ambiguous"} \cup
         (IF status \notin {"intended", "ambiguous"} THEN {}
          ELSE {"observed"} \cup (IF Profile[e] = "session" THEN {"tool_request"} ELSE {}))

(* An act under way takes place or comes to nothing. *)
ActEnds(p, e) ==
    /\ <<p, e>> \in inflight
    /\ inflight' = inflight \ {<<p, e>>}
    /\ applied' \in {applied, applied \cup ({e} \ wedged)}
    /\ UNCHANGED <<store, proc, wedged, delivered, claimed, bounds>>

(* The embedded store is a clone: a slot transition can stop between its      *)
(* write, its commit and its push, and an acquire can be overtaken by another *)
(* run's.                                                                    *)
SlotWedged(e) ==
    /\ Embedded
    /\ e \in Slots \ (applied \cup wedged)
    /\ \/ e = Boot /\ store.journal[e] \in {"intended", "ambiguous"}
       \/ \E p \in Processes : <<p, e>> \in inflight
    /\ wedged' = wedged \cup {e}
    /\ UNCHANGED <<store, proc, applied, inflight, delivered, claimed, bounds>>

-----------------------------------------------------------------------------
(* Steps of an invocation *)

Holders == {p \in Processes : proc[p].pc # "idle"}

Goto(p, changed) ==
    /\ proc' = [proc EXCEPT ![p] = changed]
    /\ UNCHANGED claimed

(* Every return passes through the release of the lock; a lease that was      *)
(* taken over turns any outcome into blocked.  Of the outcomes only the claim *)
(* of success is kept.                                                       *)
Finish(p, status) ==
    /\ proc' = [proc EXCEPT ![p] = Idle]
    /\ \/ claimed' = claimed \cup (IF status = "applied" THEN {proc[p].req.effect} \ {None}
                                   ELSE {})
       \/ ~ Exclusive /\ status = "applied" /\ UNCHANGED claimed

(* A revision the caller can have seen: every older one is as stale as the    *)
(* last.                                                                     *)
SeenRevisions == {store.rev} \cup {n \in {store.rev - 1} : store.rev > 0}

(* What the host is asked to do, and acknowledges. *)
HostWork == {e \in Effects : Profile[e] \in {"verify", "launch", "session"}}

(* What a process can be invoked with. *)
Asked ==
    {Request("query", None, 0), Request("resume", None, 0)}
    \cup {Request("event", e, n) : e \in Effects \cup {None}, n \in SeenRevisions}
    \cup {Request("ack", e, 0) : e \in HostWork}

(* An invocation gets the operation lock; one that finds it held ends without *)
(* having done anything.                                                     *)
Invoke(p) ==
    /\ proc[p].pc = "idle"
    /\ Exclusive => Holders = {}
    /\ \E r \in Asked, ready \in BOOLEAN :
           /\ Goto(p, [Idle EXCEPT !.pc = "load", !.req = r, !.ready = ready])
           /\ plain' = IF r.kind = "event" /\ r.effect = None THEN plain + 1 ELSE plain
    /\ plain' <= MaxPlain
    /\ UNCHANGED <<store, world, crashes>>


(* The run an invocation goes on with: an acknowledgement is not reconciled   *)
(* first, everything else is.                                                *)
Loaded(p, v) ==
    [proc[p] EXCEPT
        !.pc = IF proc[p].req.kind = "ack" THEN "acknowledge" ELSE "reconcile",
        !.view = v,
        !.todo = Unresolved(v.journal)]

(* Absent rows are created by one event only, the first controller_acquire,   *)
(* under a predicate of their absence.                                       *)
Load(p) ==
    /\ proc[p].pc = "load"
    /\ \/ Finish(p, "unavailable")
       \/ /\ store.rev > 0
          /\ Goto(p, Loaded(p, store))
       \/ /\ store.rev = 0
          /\ IF proc[p].req = Request("event", Boot, 0)
             THEN Goto(p, [proc[p] EXCEPT !.pc = "create"])
             ELSE Finish(p, "uninitialized")
    /\ UNCHANGED <<store, world, bounds>>

(* The created intent is reconciled by the same invocation, which has no      *)
(* further request; the answer to the creation may be lost.                  *)
CreateControllerAcquireIntent(p) ==
    LET created == Reduce(Absent, Boot, "intended") IN
    /\ proc[p].pc = "create"
    /\ \/ /\ store = Absent
          /\ store' = created
          /\ \/ Goto(p, [Loaded(p, created) EXCEPT !.req = Request("resume", None, 0)])
             \/ Finish(p, "unavailable")
       \/ /\ Finish(p, IF store = Absent THEN "unavailable" ELSE "stale")
          /\ UNCHANGED store
    /\ UNCHANGED <<world, bounds>>

(* Persist the event that gives effect e a status, then go on as `purpose`.   *)
ToPersist(p, e, event, purpose) ==
    Goto(p, [proc[p] EXCEPT !.pc = "persist", !.effect = e, !.event = event,
                            !.purpose = purpose])

Skip(p, e) == Goto(p, [proc[p] EXCEPT !.todo = @ \ {e}])

(* A tool request is handed to the host.  Polling a session is repeatable and *)
(* not counted.                                                              *)
Deliver(e) ==
    delivered' = IF Profile[e] = "session" THEN delivered
                 ELSE [delivered EXCEPT ![e] = @ + 1]

(* The acts an effect's profile performs in the world itself. *)
StartAct(p, e, next) ==
    /\ inflight' = IF Profile[e] = "git" THEN inflight \cup {<<p, e>>} ELSE inflight
    /\ Goto(p, [proc[p] EXCEPT !.pc = next, !.effect = e])

(* Mutant of ReconcileAnswer: discovery that saw nothing is taken for absence. *)
ReconcileAnswerRetries(p, e, answer) ==
    IF answer \in {"absent", "ambiguous"}
    THEN StartAct(p, e, "replay") /\ UNCHANGED delivered
    ELSE /\ IF answer = "observed" THEN ToPersist(p, e, "observed", "reconcile")
            ELSE Finish(p, "unavailable")
         /\ UNCHANGED <<inflight, delivered>>

(* One answer of the readback.  Positive absence is the only licence to act   *)
(* again; an ambiguity already recorded stops the invocation; a state query   *)
(* leaves undelivered and undiscoverable work as it is.                       *)
ReconcileAnswer(p, e, answer) ==
    LET query == proc[p].req.kind = "query"
        known == proc[p].view.journal[e] = "ambiguous"
    IN  \/ /\ answer = "absent"
           /\ StartAct(p, e, "replay")
           /\ UNCHANGED delivered
        \/ /\ answer = "tool_request"
           /\ Finish(p, "tool_request") /\ Deliver(e)
           /\ UNCHANGED inflight
        \/ /\ \/ /\ answer = "unavailable"
                 /\ Finish(p, "unavailable")
              \/ /\ answer = "observed"
                 /\ ToPersist(p, e, "observed", "reconcile")
              \/ /\ answer = "ambiguous" /\ known
                 /\ Finish(p, "ambiguous")
              \/ /\ answer \in {"ambiguous", "deliver"} /\ ~ known
                 /\ IF query THEN Skip(p, e)
                    ELSE ToPersist(p, e, "ambiguous",
                                   IF answer = "deliver" THEN "deliver" ELSE "reconcile")
           /\ UNCHANGED <<inflight, delivered>>

(* The entries are reconciled in the order of the journal. *)
NextEntry(q, e) ==
    \E i \in DOMAIN q.view.order :
        /\ q.view.order[i] = e /\ e \in q.todo
        /\ \A j \in 1..(i - 1) : q.view.order[j] \notin q.todo

Reconcile(p) ==
    /\ proc[p].pc = "reconcile"
    /\ \/ /\ proc[p].todo = {}
          /\ Goto(p, [proc[p] EXCEPT !.pc = "request"])
          /\ UNCHANGED <<inflight, delivered>>
       \/ \E e \in Effects :
             /\ NextEntry(proc[p], e)
             /\ IF Reconcilable(p, e)
                THEN \E answer \in Discovered(e, proc[p].view.journal[e]) :
                        ReconcileAnswer(p, e, answer)
                ELSE Finish(p, "blocked") /\ UNCHANGED <<inflight, delivered>>
    /\ UNCHANGED <<store, applied, wedged, bounds>>

(* The act a readback proved absent is over: its answer, or its exception,    *)
(* is persisted.                                                             *)
Replay(p) ==
    LET e == proc[p].effect IN
    /\ proc[p].pc = "replay"
    /\ <<p, e>> \notin inflight
    /\ \E answer \in Executed(e) :
           IF answer = "unavailable" THEN Finish(p, "unavailable")
           ELSE ToPersist(p, e, answer, "reconcile")
    /\ UNCHANGED <<store, world, bounds>>

(* Mutant of HandleRequest: the act is started beside its intent. *)
HandleRequestActsFirst(p) ==
    LET q == proc[p]  e == q.req.effect IN
    /\ q.pc = "request"
    /\ \/ /\ q.req.kind # "event" /\ Finish(p, "idle") /\ UNCHANGED inflight
       \/ /\ q.req.kind = "event" /\ e # None /\ Admits(q.view.journal, e, "intended")
          /\ inflight' = inflight \cup {<<p, e>>}
          /\ ToPersist(p, e, "intended", "intent")
    /\ UNCHANGED <<store, applied, wedged, delivered, bounds>>

(* The request is only looked at once everything unresolved is settled, and   *)
(* only against the revision its caller saw.  A planner or a validator of the *)
(* event may refuse it whatever the run.                                     *)
HandleRequest(p) ==
    LET q == proc[p]  e == q.req.effect IN
    /\ q.pc = "request"
    /\ \/ q.req.kind # "event" /\ Finish(p, "idle")
       \/ q.req.kind = "event"
          /\ Finish(p, IF q.req.rev = q.view.rev THEN "blocked" ELSE "stale")
       \/ /\ q.req.kind = "event" /\ q.req.rev = q.view.rev
          /\ \/ /\ e = None /\ Admits(q.view.journal, e, "plain")
                /\ ToPersist(p, e, "plain", "plain")
             \/ /\ e # None /\ Admits(q.view.journal, e, "intended")
                /\ Reconcilable(p, e)
                /\ ToPersist(p, e, "intended", "intent")
    /\ UNCHANGED <<store, world, bounds>>

Act(p) ==
    /\ proc[p].pc = "act"
    /\ StartAct(p, proc[p].effect, "acting")
    /\ UNCHANGED <<store, applied, wedged, delivered, bounds>>

(* A tool request is handed to the host; one that must be delivered at most   *)
(* once is persisted as ambiguous before it is handed over.                  *)
ActAnswer(p) ==
    LET e == proc[p].effect IN
    /\ proc[p].pc = "acting"
    /\ <<p, e>> \notin inflight
    /\ \E answer \in Executed(e) :
           \/ /\ answer = "tool_request" /\ Finish(p, "tool_request")
              /\ Deliver(e)
           \/ /\ \/ answer = "unavailable" /\ Finish(p, "unavailable")
                 \/ answer = "deliver" /\ ToPersist(p, e, "ambiguous", "deliver")
                 \/ answer \in {"observed", "ambiguous"} /\ ToPersist(p, e, answer, "record")
              /\ UNCHANGED delivered
    /\ UNCHANGED <<store, applied, inflight, wedged, bounds>>

Acknowledge(p) ==
    LET e == proc[p].req.effect IN
    /\ proc[p].pc = "acknowledge"
    /\ \E answer \in Acknowledged(p, e, proc[p].view.journal[e]) :
           \/ answer \in {"unavailable", "tool_request"} /\ Finish(p, answer)
           \/ answer = "ambiguous" /\ Finish(p, "blocked")
           \/ answer = "observed" /\ ToPersist(p, e, "observed", "record")
    /\ UNCHANGED <<store, world, bounds>>

(* Mutant of CompareAndSet: the expected projection is not compared. *)
CompareAndSetBlind(p, next) ==
    /\ store' = next
    /\ Goto(p, [proc[p] EXCEPT !.pc = "readback", !.view = next])

(* A write needs the run's own slot.  The embedded store alone makes an        *)
(* exception of the last one, that the run's own release landed.             *)
SlotAdmits(e, event) ==
    IF Embedded /\ e \in Releases /\ event = "observed" THEN e \in applied
    ELSE Boot \in applied /\ applied \cap Releases = {} /\ wedged = {}

(* The store applies the batch to the projection it was built on, or not at   *)
(* all; its answer may be lost either way.                                   *)
CompareAndSet(p, next) ==
    \/ /\ store = proc[p].view /\ SlotAdmits(proc[p].effect, proc[p].event)
       /\ store' = next
       /\ \/ Goto(p, [proc[p] EXCEPT !.pc = "readback", !.view = next])
          \/ Finish(p, "unavailable")
    \/ /\ Finish(p, IF store = proc[p].view THEN "unavailable" ELSE "stale")
       /\ UNCHANGED store

Persist(p) ==
    LET q == proc[p] IN
    /\ q.pc = "persist"
    /\ IF Admits(q.view.journal, q.effect, q.event)
       THEN CompareAndSet(p, Reduce(q.view, q.effect, q.event))
       ELSE Finish(p, "corrupt") /\ UNCHANGED store
    /\ UNCHANGED <<world, bounds>>

(* Mutant of Readback: a durable intent is reported as success. *)
ReadbackClaimsIntent(p) ==
    /\ proc[p].pc = "readback"
    /\ IF proc[p].purpose = "reconcile" /\ proc[p].event = "observed"
       THEN Goto(p, [proc[p] EXCEPT !.pc = "reconcile", !.todo = @ \ {proc[p].effect}])
       ELSE Finish(p, "applied")
    /\ UNCHANGED <<store, world, bounds>>

(* The written projection is loaded again before anything rests on it; a      *)
(* load that fails or shows another one quarantines the invocation.          *)
Readback(p) ==
    LET q == proc[p] IN
    /\ q.pc = "readback"
    /\ \/ /\ Finish(p, "quarantined")
          /\ UNCHANGED delivered
       \/ /\ store = q.view
          /\ \/ /\ q.purpose = "deliver"
                /\ Finish(p, "tool_request")
                /\ Deliver(q.effect)
             \/ /\ \/ /\ q.purpose = "reconcile" /\ q.event = "observed"
                      /\ Goto(p, [q EXCEPT !.pc = "reconcile", !.todo = @ \ {q.effect},
                                         !.effect = None, !.event = "plain",
                                         !.purpose = "plain"])
                   \/ /\ q.purpose \in {"reconcile", "record"} /\ q.event = "ambiguous"
                      /\ Finish(p, "ambiguous")
                   \/ /\ q.purpose = "intent"
                      /\ Goto(p, [q EXCEPT !.pc = "act"])
                   \/ /\ \/ q.purpose = "plain"
                         \/ q.purpose = "record" /\ q.event = "observed"
                      /\ Finish(p, "applied")
                /\ UNCHANGED delivered
    /\ UNCHANGED <<store, applied, inflight, wedged, bounds>>

(* The process dies; its lock goes with it.  An act under way may go on. *)
Crash(p) ==
    /\ proc[p].pc # "idle"
    /\ crashes < MaxCrashes /\ crashes' = crashes + 1
    /\ proc' = [proc EXCEPT ![p] = Idle]
    /\ inflight' = IF OrphanedActs THEN inflight
                   ELSE {a \in inflight : a[1] # p}
    /\ UNCHANGED <<store, applied, wedged, delivered, claimed, plain>>

-----------------------------------------------------------------------------

Step(p) ==
    \/ Load(p) \/ CreateControllerAcquireIntent(p)
    \/ Reconcile(p) \/ Replay(p) \/ HandleRequest(p)
    \/ Act(p) \/ ActAnswer(p) \/ Acknowledge(p) \/ Persist(p) \/ Readback(p)

Next ==
    \/ \E p \in Processes : Invoke(p) \/ Step(p) \/ Crash(p)
    \/ \E p \in Processes, e \in Effects : ActEnds(p, e)
    \/ \E e \in Slots : SlotWedged(e)

Spec == Init /\ [][Next]_vars

-----------------------------------------------------------------------------
(* Properties *)

Journalled == {e \in Effects : store.journal[e] # "none"}

(* No external act is started, takes place or is handed to the host before    *)
(* its intent is durable, whichever process crashed where.                   *)
ActsAreIntended ==
    applied \cup {a[2] : a \in inflight} \cup {e \in Effects : delivered[e] > 0}
        \subseteq Journalled

(* A manual launch and a verification are handed to the host at most once:    *)
(* neither a crash, a resume nor a second process that got past the lock      *)
(* requests them again.                                                      *)
HandedOverOnce ==
    \A e \in Effects : Profile[e] \in {"launch", "verify"} => delivered[e] <= 1

(* An act that took place is not attempted again, and none is attempted twice *)
(* at a time.                                                                *)
ActsNotRepeated ==
    [][\A a \in inflight' \ inflight :
          /\ a[2] \notin applied
          /\ \A b \in inflight : b[2] # a[2]]_vars

(* The coordinator keeps the promise of the ledger, whoever holds the lock,   *)
(* whatever crashes and however stale a process's view: each step is one      *)
(* change of the ledger or none.  An intent is never journalled beside an     *)
(* ambiguity, no status is taken back or skipped, a launch is handed over on   *)
(* its intent and a verification on its recorded ambiguity, once, and no      *)
(* event but the controller_acquire founds a run.                            *)
Profiled(kind) == {e \in Effects : Profile[e] = kind}

Ledger == INSTANCE EffectLedger WITH
            Performed <- Profiled("git"), Launched <- Profiled("launch"),
            Verified <- Profiled("verify"),
            revision <- store.rev, status <- store.journal, happened <- applied,
            handed <- delivered, reported <- claimed

LedgerImplemented == Ledger!Spec

(* An invocation that claims success left its effect observed. *)
SuccessIsDurable ==
    \A e \in claimed : store.journal[e] = "observed"

(* A step in which neither the store, git nor the host fails or loses its      *)
(* answer.                                                                   *)
Succeeds(p) ==
    LET q == proc[p]  r == proc'[p] IN
    /\ q.pc = "load" /\ store.rev > 0 => r.pc # "idle"
    /\ q.pc = "reconcile" =>
          \A e \in Effects : NextEntry(q, e) /\ Profile[e] = "git" =>
              IF "observed" \in Discovered(e, "intended") /\ e \in applied
              THEN r.event = "observed"
              ELSE "absent" \in Discovered(e, "intended") =>
                       r.pc = "replay" \/ r.event = "observed"
    /\ q.pc \in {"replay", "acting"} /\ q.effect \in applied => r.event = "observed"
    /\ q.pc = "acknowledge" /\ "observed" \in Acknowledged(p, q.req.effect,
                                                q.view.journal[q.req.effect]) =>
          r.event = "observed"
    /\ /\ q.pc = "persist" /\ Admits(q.view.journal, q.effect, q.event)
       /\ store = q.view /\ SlotAdmits(q.effect, q.event)
       => r.pc = "readback"
    /\ q.pc = "readback" /\ q.purpose = "reconcile" /\ q.event = "observed" =>
          r.pc = "reconcile"

(* What a run can count on: processes keep running, are invoked again to      *)
(* resume it and with the host's acknowledgements, with a harness, and from   *)
(* some point on the store, git and the host work.                           *)
Fairness ==
    /\ \A p \in Processes :
        /\ WF_vars(Step(p))
        /\ SF_vars(Invoke(p) /\ proc'[p].req.kind = "resume" /\ proc'[p].ready)
        /\ \A e \in HostWork :
            SF_vars(Invoke(p) /\ proc'[p].req.kind = "ack" /\ proc'[p].req.effect = e
                              /\ proc'[p].ready)
        /\ \A e \in Effects \ HostWork : WF_vars(ActEnds(p, e))
    /\ <>[][\A p \in Processes :
               /\ proc'[p] # proc[p] => Succeeds(p)
               /\ \A e \in Effects :
                     <<p, e>> \in inflight \ inflight' => e \in applied' \cup wedged']_vars

FairSpec == Spec /\ Fairness

(* The entries that nothing settles: a refresh recorded as ambiguous, a        *)
(* transition of the embedded slot that nothing can be told of, the server's   *)
(* release once it took place, and what the reducer refuses of the unit.      *)
Stuck ==
    {e \in Refreshes : store.journal[e] = "ambiguous"}
        \cup wedged \cup Refused
        \cup (IF Embedded THEN {} ELSE Releases \cap applied)


=============================================================================

--------------------- MODULE RecoveryCoordinatorProofs ---------------------
(***************************************************************************)
(* The recovery coordinator for any number of processes and effects, any     *)
(* profiles, crashes and lost answers.  Without the operation lock: the       *)
(* journal only advances, every act follows its durable intent, manual work   *)
(* is handed over once and reported success is durable.  With the lock, and   *)
(* with children that do not outlive their process: no act is repeated.       *)
(*                                                                          *)
(* The argument.  What a process holds is a projection the store once had     *)
(* (Views), so a write that is admitted is the one step from the present      *)
(* projection that its view allows.  What it is about to do rests on that     *)
(* view (Legit): it acts on, delivers and reports only effects its view has   *)
(* journalled, and statuses never go back.  The write that journals an        *)
(* intent, or the ambiguity of a delivery, succeeds for one process only,     *)
(* and that process alone may hand the work over (HandOvers).                *)
(*                                                                          *)
(* The refinement.  With Foundations (a run begins with its                  *)
(* controller_acquire) the same facts give every step its change of the       *)
(* EffectLedger: one lemma per action (...Sound) names it.                   *)
(***************************************************************************)
EXTENDS RecoveryCoordinator, TLAPS

(* How far an effect has come. *)
Rank(status) == CASE status = "none" -> 0 [] status = "intended" -> 1
                  [] status = "ambiguous" -> 2 [] status = "observed" -> 3

Entered(v) == {e \in Effects : v.journal[e] # "none"}

(* A projection v the store, now s, may once have had. *)
Past(v, s) ==
    /\ v.rev <= s.rev
    /\ v.rev = s.rev => v = s
    /\ \A e \in Effects : Rank(v.journal[e]) <= Rank(s.journal[e])

Views ==
    /\ store.rev = 0 => store = Absent
    /\ \A p \in Processes : Past(proc[p].view, store)

(* What an invocation may be about to do, given what it holds. *)
Legit(q) ==
    /\ q.req.kind = "ack" => q.req.effect \in Effects
    /\ q.todo \subseteq Entered(q.view)
    /\ q.pc = "create" => q.req.kind = "event"
    /\ q.pc = "acknowledge" => q.req.kind = "ack"
    /\ q.pc \in {"replay", "act", "acting"} => q.effect \in Entered(q.view)
    /\ q.pc = "replay" => Profile[q.effect] \in {"git", "reservation"}
    /\ q.pc \in {"act", "acting"} => q.purpose = "intent" /\ q.req.effect = q.effect
    /\ q.pc \in {"persist", "readback"} =>
          /\ q.event # "plain" => q.effect \in Effects
          /\ q.event = "plain" => q.purpose = "plain" /\ q.req.effect = None
          /\ q.event = "intended" <=> q.purpose = "intent"
          /\ q.purpose = "plain" => q.event = "plain"
          /\ q.purpose = "intent" => q.req.effect = q.effect
          /\ q.purpose = "record" /\ q.event = "observed" => q.req.effect = q.effect
          /\ q.purpose = "deliver" => q.event = "ambiguous" /\ Profile[q.effect] = "verify"
    /\ q.pc = "readback" /\ q.event # "plain" => q.view.journal[q.effect] = q.event

Stages == \A p \in Processes : Legit(proc[p])

(* The process whose write entitles it to hand e over: the intent of a        *)
(* launch, the ambiguity of a verification.                                  *)
Entitled(p, e) ==
    /\ proc[p].effect = e
    /\ \/ /\ Profile[e] = "launch" /\ proc[p].purpose = "intent"
          /\ proc[p].pc \in {"readback", "act", "acting"}
       \/ /\ Profile[e] = "verify" /\ proc[p].purpose = "deliver"
          /\ proc[p].pc = "readback"

HandOvers ==
    \A e \in Effects : Profile[e] \in {"launch", "verify"} =>
        /\ delivered[e] <= 1
        /\ \A p \in Processes : Entitled(p, e) => delivered[e] = 0
        /\ \A p, q \in Processes : Entitled(p, e) /\ Entitled(q, e) => p = q
        /\ Profile[e] = "verify" /\ store.journal[e] = "intended" => delivered[e] = 0

IInv == TypeOK /\ Views /\ Stages /\ ActsAreIntended /\ SuccessIsDurable /\ HandOvers

(* With the lock and without orphans: one process at a time, whose children   *)
(* are the only ones, and which acts first on an effect it journalled itself. *)
Alone == \A p, q \in Holders : p = q

Children ==
    \A a \in inflight :
        proc[a[1]].pc \in {"replay", "acting"} /\ proc[a[1]].effect = a[2]

FirstAct ==
    \A p \in Processes :
        proc[p].pc \in {"readback", "act"} /\ proc[p].purpose = "intent" =>
            proc[p].effect \notin applied

LockedInv == Alone /\ Children /\ FirstAct

-----------------------------------------------------------------------------
(* Statuses and projections. *)

LEMMA RankTyped == \A s \in Statuses : Rank(s) \in 0..3
  BY DEF Statuses, Rank

LEMMA AbsentTyped == Absent \in Projections
  BY DEF Absent, Projections, Statuses

LEMMA IdleTyped == Idle \in Invocations /\ Legit(Idle)
  <1>1. Idle \in Invocations
    BY AbsentTyped DEF Idle, Invocations, Requests, Request, ProcessStates, Purposes
  <1>2. Legit(Idle)
    BY DEF Legit, Idle, Request
  <1>3. QED BY <1>1, <1>2

(* What the reducer returns for an event it admits. *)
LEMMA ReduceTyped ==
    ASSUME NEW v \in Projections, NEW e \in Effects, NEW event \in Statuses
    PROVE  /\ Reduce(v, e, event) \in Projections
           /\ Reduce(v, e, event).rev = v.rev + 1
           /\ Reduce(v, e, event).journal = [v.journal EXCEPT ![e] = event]
  BY DEF Reduce, Projections, Statuses

LEMMA ReducePlain ==
    ASSUME NEW v \in Projections, NEW e
    PROVE  /\ Reduce(v, e, "plain") \in Projections
           /\ Reduce(v, e, "plain").rev = v.rev + 1
           /\ Reduce(v, e, "plain").journal = v.journal
  BY DEF Reduce, Projections

(* How the store may change: not at all, or one revision forward with no      *)
(* status going back.                                                        *)
Advances ==
    /\ store' \in Projections
    /\ \/ store' = store
       \/ /\ store'.rev = store.rev + 1
          /\ \A e \in Effects : Rank(store.journal[e]) <= Rank(store'.journal[e])

LEMMA PastStays ==
    ASSUME store \in Projections, Advances, NEW v \in Projections, Past(v, store)
    PROVE  Past(v, store')
  <1>1. CASE store' = store
    BY <1>1
  <1>2. CASE /\ store'.rev = store.rev + 1
             /\ \A e \in Effects : Rank(store.journal[e]) <= Rank(store'.journal[e])
    <2>1. \A e \in Effects : /\ Rank(v.journal[e]) \in 0..3
                             /\ Rank(store.journal[e]) \in 0..3
                             /\ Rank(store'.journal[e]) \in 0..3
      BY RankTyped DEF Projections, Advances
    <2>2. v.rev \in Nat /\ store.rev \in Nat
      BY DEF Projections
    <2>3. \A e \in Effects : Rank(v.journal[e]) <= Rank(store.journal[e])
      BY DEF Past
    <2>4. \A e \in Effects : Rank(v.journal[e]) <= Rank(store'.journal[e])
      BY <1>2, <2>1, <2>3
    <2>5. v.rev < store'.rev
      BY <1>2, <2>2 DEF Past
    <2>6. QED BY <2>2, <2>4, <2>5, <1>2 DEF Past
  <1>3. QED BY <1>1, <1>2 DEF Advances

LEMMA StoreIsPast ==
    ASSUME NEW v \in Projections
    PROVE  Past(v, v)
  BY RankTyped DEF Past, Projections

LEMMA RankZero == \A s \in Statuses : Rank(s) = 0 <=> s = "none"
  BY DEF Statuses, Rank

LEMMA RankThree == \A s \in Statuses : Rank(s) >= 3 <=> s = "observed"
  BY DEF Statuses, Rank

(* What a past projection has journalled, the store has. *)
LEMMA EnteredStays ==
    ASSUME NEW v \in Projections, NEW s \in Projections, Past(v, s)
    PROVE  Entered(v) \subseteq Entered(s)
  <1> SUFFICES ASSUME NEW e \in Effects, v.journal[e] # "none"
               PROVE  s.journal[e] # "none"
    BY DEF Entered
  <1>1. v.journal[e] \in Statuses /\ s.journal[e] \in Statuses
    BY DEF Projections
  <1>2. Rank(v.journal[e]) <= Rank(s.journal[e])
    BY DEF Past
  <1>3. QED BY <1>1, <1>2, RankZero, RankTyped

(* A write that is admitted advances the store. *)
LEMMA ReduceAdvances ==
    ASSUME store \in Projections, NEW e, NEW event,
           event # "plain" => e \in Effects,
           Admits(store.journal, e, event), store' = Reduce(store, e, event)
    PROVE  Advances
  <1>1. CASE event = "plain"
    BY <1>1, ReducePlain, RankTyped DEF Advances, Projections
  <1>2. CASE event # "plain"
    <2>1. e \in Effects /\ event \in Statuses
      BY <1>2 DEF Admits, Statuses
    <2>2. /\ store' \in Projections /\ store'.rev = store.rev + 1
          /\ store'.journal = [store.journal EXCEPT ![e] = event]
      BY <2>1, ReduceTyped
    <2>3. Rank(store.journal[e]) <= Rank(event)
      BY <1>2 DEF Admits, Unresolved, Rank
    <2>4. \A f \in Effects : /\ Rank(store.journal[f]) \in 0..3
                             /\ f # e => store'.journal[f] = store.journal[f]
                             /\ store'.journal[e] = event
      BY <2>1, <2>2, RankTyped DEF Projections
    <2>5. QED BY <2>2, <2>3, <2>4 DEF Advances
  <1>3. QED BY <1>1, <1>2

-----------------------------------------------------------------------------
(* What a step of process p may do. *)

(* It leaves p in a legitimate stage, with a view that the store had or has. *)
Moved(p) ==
    \E r \in Invocations :
        /\ proc' = [proc EXCEPT ![p] = r]
        /\ Legit(r)
        /\ r.view \in {proc[p].view, Absent, store'}

Bounded == crashes' \in 0..MaxCrashes /\ plain' \in 0..MaxPlain

(* It reports only what is observed, and acts on and hands over only what its *)
(* view has journalled.                                                      *)
Safe(p) ==
    /\ Moved(p) /\ Advances /\ Bounded
    /\ claimed \subseteq claimed'
    /\ claimed' \subseteq claimed \cup {e \in Effects : store'.journal[e] = "observed"}
    /\ applied' = applied /\ wedged' = wedged
    /\ inflight' \subseteq inflight \cup ({p} \X Entered(proc[p].view))
    /\ delivered' \in [Effects -> Nat]
    /\ \A e \in Effects : delivered'[e] # delivered[e] => e \in Entered(proc[p].view)

LEMMA SafeStep ==
    ASSUME IInv, NEW p \in Processes, Safe(p)
    PROVE  TypeOK' /\ Views' /\ Stages' /\ ActsAreIntended' /\ SuccessIsDurable'
  <1> PICK r \in Invocations : /\ proc' = [proc EXCEPT ![p] = r]
                               /\ Legit(r)
                               /\ r.view \in {proc[p].view, Absent, store'}
    BY DEF Safe, Moved
  <1>0. /\ TypeOK /\ Views /\ Stages /\ ActsAreIntended /\ SuccessIsDurable
        /\ store \in Projections /\ store' \in Projections /\ Advances
        /\ \A q \in Processes : proc[q] \in Invocations /\ proc[q].view \in Projections
    BY DEF IInv, TypeOK, Safe, Advances, Invocations
  <1>1. TypeOK'
    <2>1. proc' \in [Processes -> Invocations]
      BY <1>0 DEF TypeOK
    <2>2. Entered(proc[p].view) \subseteq Effects
      BY DEF Entered
    <2>3. inflight' \subseteq Processes \X Effects
      BY <1>0, <2>2 DEF TypeOK, Safe
    <2>4. claimed' \subseteq Effects /\ applied' \subseteq Effects
      BY <1>0 DEF TypeOK, Safe
    <2>5. QED BY <1>0, <2>1, <2>3, <2>4 DEF TypeOK, Safe, Bounded
  <1>2. Past(store, store')
    BY <1>0, StoreIsPast, PastStays
  <1>3. Entered(store) \subseteq Entered(store')
    BY <1>0, <1>2, EnteredStays
  <1>4. Entered(proc[p].view) \subseteq Entered(store)
    BY <1>0, EnteredStays DEF Views
  <1>5. Views'
    <2>1. store'.rev = 0 => store' = Absent
      BY <1>0 DEF Advances, Projections, Views
    <2>2. ASSUME NEW q \in Processes, q # p
          PROVE  Past(proc'[q].view, store')
      BY <1>0, <2>2, PastStays DEF Views, TypeOK
    <2>3. Past(proc[p].view, store')
      BY <1>0, PastStays DEF Views
    <2>4. Past(Absent, store')
      <3>1. Absent.rev = 0 /\ \A e \in Effects : Absent.journal[e] = "none"
        BY DEF Absent
      <3>2. store'.rev \in Nat /\ \A e \in Effects : store'.journal[e] \in Statuses
        BY <1>0 DEF Projections
      <3>3. \A e \in Effects : Rank(Absent.journal[e]) <= Rank(store'.journal[e])
        BY <3>1, <3>2, RankZero, RankTyped DEF Statuses
      <3>4. QED BY <2>1, <3>1, <3>2, <3>3 DEF Past
    <2>5. Past(store', store')
      BY <1>0, StoreIsPast
    <2>6. proc'[p] = r /\ \A q \in Processes : q # p => proc'[q] = proc[q]
      BY <1>0 DEF TypeOK
    <2>7. Past(proc'[p].view, store')
      BY <2>3, <2>4, <2>5, <2>6
    <2>8. QED BY <2>1, <2>2, <2>7 DEF Views
  <1>6. Stages'
    BY <1>0 DEF Stages, TypeOK
  <1>7. ActsAreIntended'
    <2>1. Journalled = Entered(store) /\ Journalled' = Entered(store')
      BY DEF Journalled, Entered
    <2>2. applied' \subseteq Entered(store')
      BY <1>0, <1>3, <2>1 DEF ActsAreIntended, Safe
    <2>3. \A a \in inflight' : a[2] \in Entered(store')
      <3> SUFFICES ASSUME NEW a \in inflight' PROVE a[2] \in Entered(store')
        OBVIOUS
      <3>1. CASE a \in inflight
        BY <1>0, <1>3, <2>1, <3>1 DEF ActsAreIntended
      <3>2. CASE a \in {p} \X Entered(proc[p].view)
        BY <1>3, <1>4, <3>2
      <3>3. QED BY <3>1, <3>2 DEF Safe
    <2>4. \A e \in Effects : delivered'[e] > 0 => e \in Entered(store')
      BY <1>0, <1>3, <1>4, <2>1 DEF ActsAreIntended, Safe
    <2>5. QED BY <2>1, <2>2, <2>3, <2>4 DEF ActsAreIntended
  <1>8. SuccessIsDurable'
    <2> SUFFICES ASSUME NEW e \in claimed' PROVE store'.journal[e] = "observed"
      BY DEF SuccessIsDurable
    <2>1. CASE e \in claimed
      <3>1. e \in Effects /\ store.journal[e] = "observed"
        BY <1>0, <2>1 DEF SuccessIsDurable, TypeOK
      <3>2. store'.journal[e] \in Statuses /\ Rank(store.journal[e]) <= Rank(store'.journal[e])
        BY <1>0, <1>2, <3>1 DEF Past, Projections
      <3>3. Rank(store.journal[e]) = 3
        BY <3>1 DEF Rank
      <3>4. QED BY <3>2, <3>3, RankThree
    <2>2. CASE e \notin claimed
      BY <2>2 DEF Safe
    <2>3. QED BY <2>1, <2>2
  <1>9. QED BY <1>1, <1>5, <1>6, <1>7, <1>8

(* Where the invocation of p goes. *)
LEMMA GotoMoves ==
    ASSUME NEW p \in Processes, NEW r \in Invocations, Goto(p, r), Legit(r),
           r.view \in {proc[p].view, store'}
    PROVE  Moved(p) /\ claimed' = claimed
  BY DEF Goto, Moved

LEMMA FinishMoves ==
    ASSUME TypeOK, NEW p \in Processes, NEW status, Finish(p, status)
    PROVE  /\ Moved(p) /\ proc' = [proc EXCEPT ![p] = Idle]
           /\ status # "applied" => claimed' = claimed
           /\ claimed' \in {claimed, claimed \cup ({proc[p].req.effect} \ {None})}
  <1>1. Moved(p)
    BY IdleTyped DEF Finish, Moved, Idle
  <1>2. QED BY <1>1 DEF Finish

(* What holds of p before any of its steps, unfolded once. *)
LEMMA Before ==
    ASSUME IInv, NEW p \in Processes
    PROVE  /\ proc[p] \in Invocations /\ Legit(proc[p])
           /\ proc[p].view \in Projections /\ Past(proc[p].view, store)
           /\ store \in Projections /\ inflight \subseteq Processes \X Effects
           /\ delivered \in [Effects -> Nat] /\ claimed \subseteq Effects
           /\ crashes \in 0..MaxCrashes /\ plain \in 0..MaxPlain
           /\ MaxCrashes \in Nat /\ MaxPlain \in Nat
           /\ \A e \in Effects : Profile[e] \in Profiles
  BY CoordinatorAssumption DEF IInv, TypeOK, Stages, Views, Invocations

(* The acquire and the releases of the slot are acts of the git profile, so    *)
(* what the readback and an act may answer is told by the profile.           *)
LEMMA SlotsAreGit == \A e \in Slots : e \in Effects /\ Profile[e] = "git"
  BY CoordinatorAssumption DEF Slots

LEMMA Answers ==
    ASSUME NEW e \in Effects, NEW status, NEW answer \in Discovered(e, status)
    PROVE  /\ answer = "absent" =>
                  Profile[e] \in {"git", "reservation"} /\ (Profile[e] = "git" => e \notin applied)
           /\ answer = "tool_request" => Profile[e] = "session"
           /\ answer = "deliver" => Profile[e] = "verify"
  <1>0. Profile[e] \in Profiles
    BY CoordinatorAssumption
  <1>1. CASE e \in Slots
    BY <1>1, SlotsAreGit DEF Discovered, SlotFound
  <1>2. CASE e \notin Slots
    BY <1>0, <1>2 DEF Discovered, Profiles
  <1>3. QED BY <1>1, <1>2

LEMMA Performances ==
    ASSUME NEW e \in Effects, NEW answer \in Executed(e)
    PROVE  /\ answer = "tool_request" => Profile[e] \in {"launch", "session"}
           /\ answer = "deliver" => Profile[e] = "verify"
           /\ Profile[e] \in {"git", "reservation"} =>
                 answer \in {"observed", "ambiguous", "unavailable"}
  <1>0. Profile[e] \in Profiles
    BY CoordinatorAssumption
  <1>1. CASE e \in Slots
    BY <1>1, SlotsAreGit DEF Executed
  <1>2. CASE e \notin Slots
    BY <1>0, <1>2 DEF Executed, Profiles
  <1>3. QED BY <1>1, <1>2

LEMMA Unchanged ==
    ASSUME IInv, NEW p \in Processes
    PROVE  store' = store => Advances
  BY Before DEF Advances

LEMMA ToPersistMoves ==
    ASSUME NEW p \in Processes, proc[p] \in Invocations, Legit(proc[p]),
           NEW e \in Effects \cup {None}, NEW event \in Statuses \cup {"plain"},
           NEW purpose \in Purposes,
           event # "plain" => e \in Effects,
           event = "plain" <=> purpose = "plain",
           event = "plain" => proc[p].req.effect = None,
           event = "intended" <=> purpose = "intent",
           purpose \in {"intent", "record"} => proc[p].req.effect = e,
           purpose = "deliver" => event = "ambiguous" /\ Profile[e] = "verify",
           ToPersist(p, e, event, purpose)
    PROVE  Moved(p) /\ claimed' = claimed
  <1> DEFINE r == [proc[p] EXCEPT !.pc = "persist", !.effect = e, !.event = event,
                                  !.purpose = purpose]
  <1>1. r \in Invocations /\ r.view = proc[p].view
    BY DEF Invocations, ProcessStates
  <1>2. Legit(r)
    BY DEF Invocations, Legit
  <1>3. QED BY <1>1, <1>2, GotoMoves DEF ToPersist

LEMMA InvokeSafe ==
    ASSUME IInv, NEW p \in Processes, Invoke(p)
    PROVE  Safe(p)
  <1>0. PICK q \in Asked, ready \in BOOLEAN :
            /\ Goto(p, [Idle EXCEPT !.pc = "load", !.req = q, !.ready = ready])
            /\ plain' = IF q.kind = "event" /\ q.effect = None THEN plain + 1 ELSE plain
    BY DEF Invoke
  <1> USE Before
  <1>1. q \in Requests /\ (q.kind = "ack" => q.effect \in Effects)
    <2>1. SeenRevisions \subseteq Nat
      BY DEF SeenRevisions, Projections
    <2>2. QED BY <2>1 DEF Asked, HostWork, Requests, Request
  <1> DEFINE r == [Idle EXCEPT !.pc = "load", !.req = q, !.ready = ready]
  <1>2. r \in Invocations
    BY <1>1, IdleTyped DEF Invocations, ProcessStates
  <1>3. Legit(r) /\ r.view = Absent
    BY <1>1 DEF Legit, Idle, Request
  <1>4. Moved(p) /\ claimed' = claimed
    BY <1>0, <1>2, <1>3 DEF Moved, Goto
  <1>5. Bounded
    BY <1>0 DEF Invoke, Bounded
  <1>6. QED BY <1>4, <1>5, Unchanged DEF Invoke, world, Safe

LEMMA LoadSafe ==
    ASSUME IInv, NEW p \in Processes, Load(p)
    PROVE  Safe(p)
  <1> USE Before
  <1>1. CASE Finish(p, "unavailable") \/ Finish(p, "uninitialized")
    BY <1>1, FinishMoves, Unchanged DEF Load, world, bounds, Safe, Bounded, IInv
  <1>2. CASE Goto(p, Loaded(p, store))
    <2>1. Loaded(p, store) \in Invocations /\ Loaded(p, store).view = store
      BY DEF Loaded, Invocations, ProcessStates, Unresolved
    <2>2. Legit(Loaded(p, store))
      BY DEF Legit, Loaded, Load, Invocations, Unresolved, Entered
    <2>3. QED BY <1>2, <2>1, <2>2, GotoMoves, Unchanged
              DEF Load, world, bounds, Safe, Bounded
  <1>3. CASE /\ proc[p].req = Request("event", Boot, 0)
             /\ Goto(p, [proc[p] EXCEPT !.pc = "create"])
    <2> DEFINE r == [proc[p] EXCEPT !.pc = "create"]
    <2>1. r \in Invocations /\ r.view = proc[p].view
      BY DEF Invocations, ProcessStates
    <2>2. Legit(r)
      BY <1>3 DEF Legit, Invocations, Request
    <2>3. QED BY <1>3, <2>1, <2>2, GotoMoves, Unchanged
              DEF Load, world, bounds, Safe, Bounded
  <1>4. QED BY <1>1, <1>2, <1>3 DEF Load

LEMMA CreateSafe ==
    ASSUME IInv, NEW p \in Processes, CreateControllerAcquireIntent(p)
    PROVE  Safe(p)
  <1> USE Before
  <1> DEFINE created == Reduce(Absent, Boot, "intended")
             r == [Loaded(p, created) EXCEPT !.req = Request("resume", None, 0)]
  <1>0. /\ Boot \in Effects /\ "intended" \in Statuses /\ Absent \in Projections
        /\ Absent.journal = [e \in Effects |-> "none"]
    BY CoordinatorAssumption, AbsentTyped DEF Statuses, Absent
  <1>1. /\ created \in Projections
        /\ created.journal = [Absent.journal EXCEPT ![Boot] = "intended"]
    BY <1>0, ReduceTyped
  <1> HIDE DEF created
  <1>2. CASE \E status : status # "applied" /\ Finish(p, status) /\ UNCHANGED store
    BY <1>2, FinishMoves, Unchanged
       DEF CreateControllerAcquireIntent, world, bounds, Safe, Bounded, IInv
  <1>3. CASE store = Absent /\ store' = created
    <2>1. Advances
      <3>1. Admits(store.journal, Boot, "intended")
        BY <1>0, <1>3, CoordinatorAssumption DEF Admits
      <3>2. QED BY <1>0, <1>3, <3>1, ReduceAdvances DEF created
    <2>2. CASE Finish(p, "unavailable")
      BY <2>1, <2>2, FinishMoves
         DEF CreateControllerAcquireIntent, world, bounds, Safe, Bounded, IInv
    <2>3. CASE Goto(p, r)
      <3>1. r \in Invocations /\ r.view = store'
        BY ZenonT(60), <1>1, <1>3
           DEF Loaded, Invocations, ProcessStates, Unresolved, Requests, Request
      <3>2. proc[p].pc = "create" /\ proc[p].req.kind = "event"
        BY DEF CreateControllerAcquireIntent, Legit
      <3>3. Legit(r)
        BY <3>2 DEF Legit, Loaded, Invocations, Unresolved, Entered, Request
      <3>4. QED BY <2>1, <2>3, <3>1, <3>3, GotoMoves
                DEF CreateControllerAcquireIntent, world, bounds, Safe, Bounded
    <2>4. QED BY <1>2, <1>3, <2>2, <2>3 DEF CreateControllerAcquireIntent, created
  <1>4. QED BY <1>2, <1>3 DEF CreateControllerAcquireIntent, created

(* What starting an act, or leaving an entry for later, does. *)
LEMMA StartActMoves ==
    ASSUME NEW p \in Processes, proc[p] \in Invocations, Legit(proc[p]),
           NEW e \in Entered(proc[p].view), NEW next \in {"replay", "acting"},
           next = "replay" => Profile[e] \in {"git", "reservation"},
           next = "acting" => proc[p].purpose = "intent" /\ proc[p].req.effect = e,
           StartAct(p, e, next)
    PROVE  /\ Moved(p) /\ claimed' = claimed
           /\ inflight' \subseteq inflight \cup ({p} \X Entered(proc[p].view))
  <1> DEFINE r == [proc[p] EXCEPT !.pc = next, !.effect = e]
  <1>0. Goto(p, r) /\ inflight' \subseteq inflight \cup {<<p, e>>}
    BY DEF StartAct
  <1>1. r \in Invocations /\ r.view = proc[p].view
    BY DEF Invocations, ProcessStates, Entered
  <1>2. Legit(r)
    BY DEF Invocations, Legit
  <1>3. Moved(p) /\ claimed' = claimed
    BY <1>0, <1>1, <1>2, GotoMoves
  <1>4. <<p, e>> \in {p} \X Entered(proc[p].view)
    OBVIOUS
  <1>5. QED BY <1>0, <1>3, <1>4

LEMMA ReconcileAnswerSafe ==
    ASSUME IInv, NEW p \in Processes, NEW e \in Entered(proc[p].view),
           NEW answer \in Discovered(e, proc[p].view.journal[e]),
           proc[p].pc = "reconcile", ReconcileAnswer(p, e, answer),
           UNCHANGED <<store, applied, wedged, bounds>>
    PROVE  Safe(p)
  <1> USE Before, Unchanged
  <1>0. e \in Effects /\ Profile[e] \in Profiles
    BY DEF Entered
  <1>1. CASE answer = "absent" /\ StartAct(p, e, "replay") /\ UNCHANGED delivered
    <2>1. Profile[e] \in {"git", "reservation"}
      BY <1>0, <1>1, Answers
    <2>2. QED BY <1>1, <2>1, StartActMoves DEF bounds, Safe, Bounded
  <1>2. CASE answer = "tool_request" /\ Finish(p, "tool_request") /\ Deliver(e)
             /\ UNCHANGED inflight
    BY <1>0, <1>2, FinishMoves DEF bounds, Safe, Bounded, IInv, Deliver
  <1>3. CASE (\E status : status # "applied" /\ Finish(p, status))
             /\ UNCHANGED <<inflight, delivered>>
    BY <1>3, FinishMoves DEF bounds, Safe, Bounded, IInv
  <1>4. CASE answer = "observed" /\ ToPersist(p, e, "observed", "reconcile")
             /\ UNCHANGED <<inflight, delivered>>
    BY <1>0, <1>4, ToPersistMoves DEF bounds, Safe, Bounded, Statuses, Purposes
  <1>5. CASE Skip(p, e) /\ UNCHANGED <<inflight, delivered>>
    <2> DEFINE r == [proc[p] EXCEPT !.todo = @ \ {e}]
    <2>1. r \in Invocations /\ r.view = proc[p].view /\ Legit(r)
      BY DEF Invocations, Legit
    <2>2. QED BY <1>5, <2>1, GotoMoves DEF Skip, bounds, Safe, Bounded
  <1>6. CASE /\ answer \in {"ambiguous", "deliver"}
             /\ ToPersist(p, e, "ambiguous",
                          IF answer = "deliver" THEN "deliver" ELSE "reconcile")
             /\ UNCHANGED <<inflight, delivered>>
    <2>1. answer = "deliver" => Profile[e] = "verify"
      BY <1>0, Answers
    <2>2. Moved(p) /\ claimed' = claimed
      <3>1. CASE answer = "deliver"
        BY <1>0, <1>6, <2>1, <3>1, ToPersistMoves DEF Statuses, Purposes
      <3>2. CASE answer # "deliver"
        BY <1>0, <1>6, <3>2, ToPersistMoves DEF Statuses, Purposes
      <3>3. QED BY <3>1, <3>2
    <2>3. QED BY <1>6, <2>2 DEF bounds, Safe, Bounded
  <1>7. QED BY <1>1, <1>2, <1>3, <1>4, <1>5, <1>6 DEF ReconcileAnswer

LEMMA ReconcileSafe ==
    ASSUME IInv, NEW p \in Processes, Reconcile(p)
    PROVE  Safe(p)
  <1> USE Before, Unchanged
  <1>1. CASE Goto(p, [proc[p] EXCEPT !.pc = "request"]) /\ UNCHANGED <<inflight, delivered>>
    <2> DEFINE r == [proc[p] EXCEPT !.pc = "request"]
    <2>1. r \in Invocations /\ r.view = proc[p].view /\ Legit(r)
      BY DEF Invocations, ProcessStates, Legit
    <2>2. QED BY <1>1, <2>1, GotoMoves DEF Reconcile, bounds, Safe, Bounded
  <1>2. ASSUME NEW e \in Effects, NextEntry(proc[p], e),
               NEW answer \in Discovered(e, proc[p].view.journal[e]),
               ReconcileAnswer(p, e, answer)
        PROVE  Safe(p)
    <2>1. e \in Entered(proc[p].view)
      BY <1>2 DEF NextEntry, Legit
    <2>2. QED BY <1>2, <2>1, ReconcileAnswerSafe DEF Reconcile
  <1>3. CASE Finish(p, "blocked") /\ UNCHANGED <<inflight, delivered>>
    BY <1>3, FinishMoves DEF Reconcile, bounds, Safe, Bounded, IInv
  <1>4. QED BY <1>1, <1>2, <1>3 DEF Reconcile

LEMMA ReplaySafe ==
    ASSUME IInv, NEW p \in Processes, Replay(p)
    PROVE  Safe(p)
  <1> USE Before, Unchanged
  <1> DEFINE e == proc[p].effect
  <1>0. e \in Effects /\ Profile[e] \in {"git", "reservation"}
    BY DEF Replay, Legit, Entered
  <1>1. CASE Finish(p, "unavailable")
    BY <1>1, FinishMoves DEF Replay, world, bounds, Safe, Bounded, IInv
  <1>2. ASSUME NEW answer \in Executed(e), answer # "unavailable",
               ToPersist(p, e, answer, "reconcile")
        PROVE  Safe(p)
    <2>1. answer \in {"observed", "ambiguous"}
      BY <1>0, <1>2, Performances
    <2>2. QED BY <1>0, <1>2, <2>1, ToPersistMoves
              DEF Replay, world, bounds, Safe, Bounded, Statuses, Purposes
  <1>3. QED BY <1>1, <1>2 DEF Replay

LEMMA HandleRequestSafe ==
    ASSUME IInv, NEW p \in Processes, HandleRequest(p)
    PROVE  Safe(p)
  <1> USE Before, Unchanged
  <1> DEFINE e == proc[p].req.effect
  <1>1. CASE \E status : status # "applied" /\ Finish(p, status)
    BY <1>1, FinishMoves DEF HandleRequest, world, bounds, Safe, Bounded, IInv
  <1>2. CASE e = None /\ ToPersist(p, e, "plain", "plain")
    BY <1>2, ToPersistMoves
       DEF HandleRequest, world, bounds, Safe, Bounded, Statuses, Purposes
  <1>3. CASE e # None /\ ToPersist(p, e, "intended", "intent")
    <2>1. e \in Effects
      BY <1>3 DEF Invocations, Requests
    <2>2. QED BY <1>3, <2>1, ToPersistMoves
              DEF HandleRequest, world, bounds, Safe, Bounded, Statuses, Purposes
  <1>4. QED BY <1>1, <1>2, <1>3 DEF HandleRequest

LEMMA ActSafe ==
    ASSUME IInv, NEW p \in Processes, Act(p)
    PROVE  Safe(p)
  <1> USE Before, Unchanged
  <1> DEFINE e == proc[p].effect
  <1>1. /\ e \in Entered(proc[p].view) /\ proc[p].purpose = "intent"
        /\ proc[p].req.effect = e
    BY DEF Act, Legit
  <1>2. QED BY <1>1, StartActMoves DEF Act, bounds, Safe, Bounded

LEMMA ActAnswerSafe ==
    ASSUME IInv, NEW p \in Processes, ActAnswer(p)
    PROVE  Safe(p)
  <1> USE Before, Unchanged
  <1> DEFINE e == proc[p].effect
  <1>0. /\ e \in Entered(proc[p].view) /\ e \in Effects /\ Profile[e] \in Profiles
        /\ proc[p].req.effect = e
    BY DEF ActAnswer, Legit, Entered
  <1>1. CASE (\E status : status # "applied" /\ Finish(p, status))
             /\ (Deliver(e) \/ UNCHANGED delivered)
    BY <1>0, <1>1, FinishMoves DEF ActAnswer, bounds, Safe, Bounded, IInv, Deliver
  <1>2. CASE /\ "deliver" \in Executed(e) /\ UNCHANGED delivered
             /\ ToPersist(p, e, "ambiguous", "deliver")
    <2>1. Profile[e] = "verify"
      BY <1>0, <1>2, Performances
    <2>2. QED BY <1>0, <1>2, <2>1, ToPersistMoves
              DEF ActAnswer, bounds, Safe, Bounded, Statuses, Purposes
  <1>3. ASSUME NEW answer \in {"observed", "ambiguous"}, UNCHANGED delivered,
               ToPersist(p, e, answer, "record")
        PROVE  Safe(p)
    BY <1>0, <1>3, ToPersistMoves
       DEF ActAnswer, bounds, Safe, Bounded, Statuses, Purposes
  <1>4. QED BY <1>1, <1>2, <1>3 DEF ActAnswer

LEMMA AcknowledgeSafe ==
    ASSUME IInv, NEW p \in Processes, Acknowledge(p)
    PROVE  Safe(p)
  <1> USE Before, Unchanged
  <1> DEFINE e == proc[p].req.effect
  <1>0. e \in Effects
    BY DEF Acknowledge, Legit
  <1>1. CASE \E status : status # "applied" /\ Finish(p, status)
    BY <1>1, FinishMoves DEF Acknowledge, world, bounds, Safe, Bounded, IInv
  <1>2. CASE ToPersist(p, e, "observed", "record")
    BY <1>0, <1>2, ToPersistMoves
       DEF Acknowledge, world, bounds, Safe, Bounded, Statuses, Purposes
  <1>3. QED BY <1>1, <1>2 DEF Acknowledge

(* The only write: it applies to the very projection the event was reduced    *)
(* from.                                                                     *)
LEMMA PersistSafe ==
    ASSUME IInv, NEW p \in Processes, Persist(p)
    PROVE  Safe(p)
  <1> USE Before, Unchanged
  <1> DEFINE q == proc[p]
             next == Reduce(q.view, q.effect, q.event)
             r == [q EXCEPT !.pc = "readback", !.view = next]
  <1>0. q.pc = "persist"
    BY DEF Persist
  <1>1. CASE \E status : status # "applied" /\ Finish(p, status) /\ UNCHANGED store
    BY <1>1, FinishMoves DEF Persist, world, bounds, Safe, Bounded, IInv
  <1>2. CASE /\ Admits(q.view.journal, q.effect, q.event)
             /\ store = q.view /\ store' = next
             /\ Goto(p, r) \/ Finish(p, "unavailable")
    <2>1. q.event # "plain" => q.effect \in Effects
      BY <1>0 DEF Legit
    <2>2. Advances /\ next \in Projections
      BY <1>2, <2>1, ReduceAdvances DEF Advances
    <2>3. CASE Finish(p, "unavailable")
      BY <2>2, <2>3, FinishMoves DEF Persist, world, bounds, Safe, Bounded, IInv
    <2>4. CASE Goto(p, r)
      <3>1. r \in Invocations /\ r.view = store'
        BY <1>2, <2>2 DEF Invocations, ProcessStates
      <3>2. q.event # "plain" => next.journal[q.effect] = q.event
        <4> SUFFICES ASSUME q.event # "plain" PROVE next.journal[q.effect] = q.event
          OBVIOUS
        <4>1. q.event \in Statuses /\ q.effect \in Effects
          BY <2>1 DEF Invocations
        <4>2. next.journal = [q.view.journal EXCEPT ![q.effect] = q.event]
          BY <4>1, ReduceTyped
        <4>3. q.view.journal \in [Effects -> Statuses]
          BY DEF Projections
        <4>4. QED BY <4>1, <4>2, <4>3
      <3>3. q.event \in Statuses \cup {"plain"}
        BY DEF Invocations
      <3>4. Legit(r)
        <4> HIDE DEF next
        <4>1. /\ r.pc = "readback" /\ r.req = q.req /\ r.effect = q.effect
              /\ r.event = q.event /\ r.purpose = q.purpose /\ r.view = next
              /\ r.todo = q.todo
          BY DEF Invocations
        <4>2. q.todo \subseteq Entered(next)
          <5>1. Entered(q.view) \subseteq Entered(next)
            BY <1>2, <2>2, StoreIsPast, PastStays, EnteredStays DEF next
          <5>2. QED BY <5>1 DEF Legit
        <4>3. QED BY <1>0, <3>2, <4>1, <4>2 DEF Legit
      <3>5. QED BY <2>2, <2>4, <3>1, <3>4, GotoMoves
                DEF Persist, world, bounds, Safe, Bounded
    <2>5. QED BY <1>2, <2>3, <2>4
  <1>3. QED BY <1>1, <1>2 DEF Persist, CompareAndSet

LEMMA ReadbackSafe ==
    ASSUME IInv, NEW p \in Processes, Readback(p)
    PROVE  Safe(p)
  <1> DEFINE q == proc[p]
             r == [q EXCEPT !.pc = "reconcile", !.todo = @ \ {q.effect},
                            !.effect = None, !.event = "plain", !.purpose = "plain"]
             a == [q EXCEPT !.pc = "act"]
  <1>a. \/ (Finish(p, "quarantined") \/ Finish(p, "ambiguous")) /\ UNCHANGED delivered
        \/ q.purpose = "deliver" /\ Finish(p, "tool_request") /\ Deliver(q.effect)
        \/ UNCHANGED delivered /\ Goto(p, r)
        \/ q.purpose = "intent" /\ UNCHANGED delivered /\ Goto(p, a)
        \/ /\ store = q.view /\ Finish(p, "applied") /\ UNCHANGED delivered
           /\ q.purpose = "plain" \/ (q.purpose = "record" /\ q.event = "observed")
    BY DEF Readback
  <1> USE Before, Unchanged
  <1>0. /\ q.pc = "readback" /\ store' = store /\ Advances /\ Bounded
        /\ applied' = applied /\ inflight' = inflight /\ wedged' = wedged
    BY DEF Readback, bounds, Bounded
  <1>1. CASE (Finish(p, "quarantined") \/ Finish(p, "ambiguous")) /\ UNCHANGED delivered
    BY <1>0, <1>1, FinishMoves DEF Safe, IInv
  <1>2. CASE q.purpose = "deliver" /\ Finish(p, "tool_request") /\ Deliver(q.effect)
    <2>1. q.effect \in Entered(q.view) /\ q.effect \in Effects
      BY <1>0, <1>2 DEF Legit, Entered
    <2>2. /\ delivered' \in [Effects -> Nat]
          /\ \A e \in Effects : delivered'[e] # delivered[e] => e \in Entered(q.view)
      BY <1>2, <2>1 DEF Deliver
    <2>3. Moved(p) /\ claimed' = claimed
      BY <1>2, FinishMoves DEF IInv
    <2>4. QED BY <1>0, <2>2, <2>3 DEF Safe
  <1>3. CASE UNCHANGED delivered /\ Goto(p, r)
    <2>1. r \in Invocations /\ r.view = q.view /\ Legit(r)
      BY ZenonT(60) DEF Invocations, ProcessStates, Purposes, Legit
    <2>2. QED BY <1>0, <1>3, <2>1, GotoMoves DEF Safe
  <1>4. CASE q.purpose = "intent" /\ UNCHANGED delivered /\ Goto(p, a)
    <2>1. q.effect \in Entered(q.view)
      BY <1>0, <1>4 DEF Legit, Entered
    <2>2. a \in Invocations /\ a.view = q.view /\ Legit(a)
      BY <1>0, <1>4, <2>1 DEF Invocations, ProcessStates, Purposes, Legit
    <2>3. QED BY <1>0, <1>4, <2>2, GotoMoves DEF Safe
  <1>5. CASE /\ store = q.view /\ Finish(p, "applied") /\ UNCHANGED delivered
             /\ q.purpose = "plain" \/ (q.purpose = "record" /\ q.event = "observed")
    <2>1. claimed' \subseteq claimed \cup {e \in Effects : store'.journal[e] = "observed"}
      <3>1. CASE q.purpose = "plain"
        BY <1>0, <1>5, <3>1, FinishMoves DEF Legit, IInv
      <3>2. CASE q.purpose = "record" /\ q.event = "observed"
        <4>1. q.req.effect \in Effects /\ store'.journal[q.req.effect] = "observed"
          BY <1>0, <1>5, <3>2 DEF Legit
        <4>2. QED BY <1>5, <4>1, FinishMoves DEF IInv
      <3>3. QED BY <1>5, <3>1, <3>2
    <2>2. QED BY <1>0, <1>5, <2>1, FinishMoves DEF Safe, IInv
  <1>6. QED BY <1>a, <1>1, <1>2, <1>3, <1>4, <1>5

LEMMA CrashSafe ==
    ASSUME IInv, NEW p \in Processes, Crash(p)
    PROVE  Safe(p)
  <1> USE Before, Unchanged
  <1>1. Moved(p)
    BY IdleTyped DEF Crash, Moved, Idle
  <1>2. inflight' \subseteq inflight
    BY DEF Crash
  <1>3. QED BY <1>1, <1>2 DEF Crash, Safe, Bounded

-----------------------------------------------------------------------------
(* Work is handed over once. *)

HandedOnce == {e \in Effects : Profile[e] \in {"launch", "verify"}}

(* A step of p hands over only what p was entitled to, and entitles it to      *)
(* nothing that was handed over or that another process is entitled to.      *)
Cedes(p) ==
    \A e \in HandedOnce :
        /\ delivered'[e] # delivered[e] =>
              /\ Entitled(p, e) /\ delivered'[e] = delivered[e] + 1
              /\ ~ Entitled(p, e)'
              /\ Profile[e] = "verify" => store'.journal[e] # "intended"
        /\ Entitled(p, e)' =>
              \/ Entitled(p, e)
              \/ delivered[e] = 0 /\ \A q \in Processes : ~ Entitled(q, e)
        /\ Profile[e] = "verify" /\ store'.journal[e] = "intended" =>
              store.journal[e] = "intended" \/ delivered[e] = 0

LEMMA Elsewhere ==
    ASSUME IInv, NEW p \in Processes, Safe(p)
    PROVE  \A q \in Processes : q # p => proc'[q] = proc[q]
  BY DEF Safe, Moved, IInv, TypeOK

LEMMA CedesKeeps ==
    ASSUME IInv, NEW p \in Processes, Safe(p), Cedes(p)
    PROVE  HandOvers'
  <1> SUFFICES ASSUME NEW e \in HandedOnce
               PROVE  /\ delivered'[e] <= 1
                      /\ \A q \in Processes : Entitled(q, e)' => delivered'[e] = 0
                      /\ \A q, r \in Processes : Entitled(q, e)' /\ Entitled(r, e)' => q = r
                      /\ Profile[e] = "verify" /\ store'.journal[e] = "intended" =>
                            delivered'[e] = 0
    BY DEF HandOvers, HandedOnce
  <1>1. /\ delivered[e] \in Nat /\ delivered'[e] \in Nat /\ delivered[e] <= 1
        /\ \A q \in Processes : Entitled(q, e) => delivered[e] = 0
        /\ \A q, r \in Processes : Entitled(q, e) /\ Entitled(r, e) => q = r
        /\ Profile[e] = "verify" /\ store.journal[e] = "intended" => delivered[e] = 0
    BY DEF IInv, TypeOK, HandOvers, Safe, HandedOnce
  <1>2. \A q \in Processes : q # p => (Entitled(q, e)' <=> Entitled(q, e))
    BY Elsewhere DEF Entitled
  <1>3. QED BY <1>1, <1>2 DEF Cedes

(* A step that neither writes nor hands over, and leaves p entitled to nothing. *)
Quiet(p) ==
    /\ store' = store
    /\ \A e \in HandedOnce : delivered'[e] = delivered[e]
    /\ proc'[p].pc \notin {"readback", "act", "acting"}

LEMMA QuietCedes ==
    ASSUME NEW p \in Processes, Quiet(p)
    PROVE  Cedes(p)
  <1>1. \A e : ~ Entitled(p, e)'
    BY DEF Quiet, Entitled
  <1>2. QED BY <1>1 DEF Quiet, Cedes

LEMMA FinishIdles ==
    ASSUME IInv, NEW p \in Processes, NEW status, Finish(p, status)
    PROVE  proc'[p] = Idle /\ Idle.pc = "idle"
  BY DEF Finish, IInv, TypeOK, Idle

LEMMA GotoGoes ==
    ASSUME IInv, NEW p \in Processes, NEW r, Goto(p, r)
    PROVE  proc'[p] = r
  BY DEF Goto, IInv, TypeOK

LEMMA ToPersistGoes ==
    ASSUME IInv, NEW p \in Processes, NEW e, NEW event, NEW purpose,
           ToPersist(p, e, event, purpose)
    PROVE  proc'[p].pc = "persist"
  BY Before, GotoGoes DEF ToPersist, Invocations

LEMMA StartActGoes ==
    ASSUME IInv, NEW p \in Processes, NEW e, NEW next, StartAct(p, e, next)
    PROVE  /\ proc'[p].pc = next /\ proc'[p].effect = e
           /\ proc'[p].purpose = proc[p].purpose
  BY ZenonT(60), Before, GotoGoes DEF StartAct, Invocations

LEMMA InvokeQuiet ==
    ASSUME IInv, NEW p \in Processes, Invoke(p)
    PROVE  Quiet(p) /\ inflight' = inflight
  <1>1. PICK q \in Asked, ready \in BOOLEAN :
            Goto(p, [Idle EXCEPT !.pc = "load", !.req = q, !.ready = ready])
    BY DEF Invoke
  <1>2. proc'[p].pc = "load"
    BY <1>1, GotoGoes DEF Idle
  <1>3. QED BY <1>2 DEF Quiet, Invoke, world

LEMMA LoadQuiet ==
    ASSUME IInv, NEW p \in Processes, Load(p)
    PROVE  Quiet(p) /\ inflight' = inflight
  <1>1. CASE Finish(p, "unavailable") \/ Finish(p, "uninitialized")
    BY <1>1, FinishIdles DEF Quiet, Load, world
  <1>2. CASE Goto(p, Loaded(p, store))
    <2>1. Loaded(p, store).pc \in {"acknowledge", "reconcile"}
      BY Before DEF Loaded, Invocations
    <2>2. QED BY <1>2, <2>1, GotoGoes DEF Quiet, Load, world
  <1>3. CASE Goto(p, [proc[p] EXCEPT !.pc = "create"])
    <2>1. proc'[p].pc = "create"
      BY <1>3, Before, GotoGoes DEF Invocations
    <2>2. QED BY <2>1 DEF Quiet, Load, world
  <1>4. QED BY <1>1, <1>2, <1>3 DEF Load

(* The first intent is a git act, which nobody is entitled to hand over. *)
LEMMA CreateCedes ==
    ASSUME IInv, NEW p \in Processes, CreateControllerAcquireIntent(p)
    PROVE  Cedes(p) /\ inflight' = inflight /\ proc'[p].pc \notin {"readback", "act", "acting"}
  <1> DEFINE created == Reduce(Absent, Boot, "intended")
             r == [Loaded(p, created) EXCEPT !.req = Request("resume", None, 0)]
  <1>0. UNCHANGED world
    BY DEF CreateControllerAcquireIntent
  <1>1. proc'[p].pc \notin {"readback", "act", "acting"}
    <2>1. CASE \E status : Finish(p, status)
      BY <2>1, FinishIdles
    <2>2. CASE Goto(p, r)
      <3>1. r.pc \in {"acknowledge", "reconcile"}
        BY Before DEF Loaded, Invocations
      <3>2. QED BY <2>2, <3>1, GotoGoes
    <2>3. QED BY <2>1, <2>2 DEF CreateControllerAcquireIntent
  <1>2. CASE store' = store
    BY <1>0, <1>1, <1>2, QuietCedes DEF Quiet, world
  <1>3. CASE store = Absent /\ store' = created
    <2>1. store'.journal = [Absent.journal EXCEPT ![Boot] = "intended"]
      BY <1>3, AbsentTyped, ReduceTyped, CoordinatorAssumption DEF Statuses
    <2>2. \A e \in HandedOnce : e \in Effects /\ store'.journal[e] # "intended"
      BY <2>1, CoordinatorAssumption DEF HandedOnce, Absent
    <2>3. \A e : ~ Entitled(p, e)'
      BY <1>1 DEF Entitled
    <2>4. delivered' = delivered
      BY <1>0 DEF world
    <2>5. QED BY <1>0, <1>1, <2>2, <2>3, <2>4 DEF Cedes, world
  <1>4. QED BY <1>0, <1>1, <1>2, <1>3 DEF CreateControllerAcquireIntent, world

(* An act is started where the readback saw none, or after its own intent. *)
Starts(p) ==
    \/ inflight' = inflight
    \/ \E e \in Effects :
          /\ inflight' = inflight \cup {<<p, e>>}
          /\ proc'[p].pc \in {"replay", "acting"} /\ proc'[p].effect = e
          /\ e \notin applied \/ (proc[p].pc = "act" /\ proc[p].effect = e)

LEMMA ReconcileQuiet ==
    ASSUME IInv, NEW p \in Processes, Reconcile(p)
    PROVE  Quiet(p) /\ Starts(p)
  <1> USE Before
  <1>0. proc[p].pc = "reconcile" /\ store' = store
    BY DEF Reconcile
  <1>1. CASE Goto(p, [proc[p] EXCEPT !.pc = "request"]) /\ UNCHANGED <<inflight, delivered>>
    <2>1. proc'[p].pc = "request"
      BY <1>1, GotoGoes DEF Invocations
    <2>2. QED BY <1>0, <1>1, <2>1 DEF Quiet, Starts
  <1>2. CASE Finish(p, "blocked") /\ UNCHANGED <<inflight, delivered>>
    BY <1>0, <1>2, FinishIdles DEF Quiet, Starts
  <1>3. ASSUME NEW e \in Effects, NEW answer \in Discovered(e, proc[p].view.journal[e]),
               ReconcileAnswer(p, e, answer)
        PROVE  Quiet(p) /\ Starts(p)
    <2>1. CASE answer = "absent" /\ StartAct(p, e, "replay") /\ UNCHANGED delivered
      <3>1. Profile[e] = "git" => e \notin applied
        BY <2>1, <1>3, Answers
      <3>2. proc'[p].pc = "replay" /\ proc'[p].effect = e
        BY <2>1, StartActGoes
      <3>3. QED BY <1>0, <2>1, <3>1, <3>2 DEF Quiet, Starts, StartAct
    <2>2. CASE answer = "tool_request" /\ Finish(p, "tool_request") /\ Deliver(e)
               /\ UNCHANGED inflight
      <3>1. Profile[e] = "session"
        BY <2>2, <1>3, Answers
      <3>2. QED BY <1>0, <2>2, <3>1, FinishIdles DEF Quiet, Starts, Deliver
    <2>3. CASE (\E status : Finish(p, status)) /\ UNCHANGED <<inflight, delivered>>
      BY <1>0, <2>3, FinishIdles DEF Quiet, Starts
    <2>4. CASE (\E event, purpose : ToPersist(p, e, event, purpose))
               /\ UNCHANGED <<inflight, delivered>>
      BY <1>0, <2>4, ToPersistGoes DEF Quiet, Starts
    <2>5. CASE Skip(p, e) /\ UNCHANGED <<inflight, delivered>>
      <3>1. proc'[p].pc = "reconcile"
        BY <1>0, <2>5, GotoGoes DEF Skip, Invocations
      <3>2. QED BY <1>0, <2>5, <3>1 DEF Quiet, Starts
    <2>6. QED BY <1>3, <2>1, <2>2, <2>3, <2>4, <2>5 DEF ReconcileAnswer
  <1>4. QED BY <1>1, <1>2, <1>3 DEF Reconcile

LEMMA ReplayQuiet ==
    ASSUME IInv, NEW p \in Processes, Replay(p)
    PROVE  Quiet(p) /\ inflight' = inflight
  <1>1. proc'[p].pc \in {"idle", "persist"}
    BY FinishIdles, ToPersistGoes DEF Replay
  <1>2. QED BY <1>1 DEF Quiet, Replay, world

LEMMA HandleRequestQuiet ==
    ASSUME IInv, NEW p \in Processes, HandleRequest(p)
    PROVE  Quiet(p) /\ inflight' = inflight
  <1>1. proc'[p].pc \in {"idle", "persist"}
    BY FinishIdles, ToPersistGoes DEF HandleRequest
  <1>2. QED BY <1>1 DEF Quiet, HandleRequest, world

LEMMA AcknowledgeQuiet ==
    ASSUME IInv, NEW p \in Processes, Acknowledge(p)
    PROVE  Quiet(p) /\ inflight' = inflight
  <1>1. proc'[p].pc \in {"idle", "persist"}
    BY FinishIdles, ToPersistGoes DEF Acknowledge
  <1>2. QED BY <1>1 DEF Quiet, Acknowledge, world

LEMMA CrashQuiet ==
    ASSUME IInv, NEW p \in Processes, Crash(p)
    PROVE  Quiet(p)
  <1>1. proc'[p].pc = "idle"
    BY DEF Crash, IInv, TypeOK, Idle
  <1>2. QED BY <1>1 DEF Quiet, Crash

LEMMA ActCedes ==
    ASSUME IInv, NEW p \in Processes, Act(p)
    PROVE  Cedes(p) /\ Starts(p) /\ proc'[p].pc = "acting"
  <1>1. /\ proc'[p].pc = "acting" /\ proc'[p].effect = proc[p].effect
        /\ proc'[p].purpose = proc[p].purpose
    BY StartActGoes DEF Act
  <1>2. proc[p].pc = "act" /\ proc[p].effect \in Effects
    BY Before DEF Act, Legit, Entered
  <1>3. \A e \in Effects : Entitled(p, e)' => Entitled(p, e)
    BY <1>1, <1>2 DEF Entitled
  <1>4. Cedes(p)
    BY <1>3 DEF Cedes, Act, HandedOnce
  <1>5. Starts(p)
    BY <1>1, <1>2 DEF Starts, Act, StartAct
  <1>6. QED BY <1>1, <1>4, <1>5

(* A launch is requested by the process that made its intent durable. *)
LEMMA ActAnswerCedes ==
    ASSUME IInv, NEW p \in Processes, ActAnswer(p)
    PROVE  /\ Cedes(p) /\ inflight' = inflight
           /\ proc'[p].pc \notin {"readback", "act", "acting"}
  <1> DEFINE e == proc[p].effect
  <1>0. /\ proc[p].pc = "acting" /\ proc[p].purpose = "intent" /\ e \in Effects
        /\ store' = store /\ inflight' = inflight
    BY Before DEF ActAnswer, Legit, Entered
  <1>1. proc'[p].pc \in {"idle", "persist"}
    BY FinishIdles, ToPersistGoes DEF ActAnswer
  <1>2. CASE UNCHANGED delivered
    BY <1>0, <1>1, <1>2, QuietCedes DEF Quiet
  <1>3. CASE "tool_request" \in Executed(e) /\ Deliver(e)
    <2>1. Profile[e] # "verify"
      BY <1>0, <1>3, Performances
    <2>2. \A f : ~ Entitled(p, f)'
      BY <1>1 DEF Entitled
    <2>3. Profile[e] = "launch" => Entitled(p, e)
      BY <1>0 DEF Entitled
    <2>4. \A f \in HandedOnce : delivered'[f] # delivered[f] =>
             f = e /\ delivered'[f] = delivered[f] + 1
      BY <1>0, <1>3, Before DEF Deliver, HandedOnce
    <2>5. QED BY <1>0, <1>1, <2>1, <2>2, <2>3, <2>4 DEF Cedes, HandedOnce
  <1>4. QED BY <1>0, <1>1, <1>2, <1>3 DEF ActAnswer

(* The write that journals an intent, or the ambiguity of a delivery, is the   *)
(* only one of its kind: it needs the status before it.                      *)
LEMMA PersistCedes ==
    ASSUME IInv, NEW p \in Processes, Persist(p)
    PROVE  /\ Cedes(p) /\ inflight' = inflight
           /\ proc'[p].pc \in {"idle", "readback"}
           /\ proc'[p].pc = "readback" /\ proc'[p].purpose = "intent" =>
                 proc'[p].effect \notin applied
  <1> USE Before
  <1> DEFINE q == proc[p]
             next == Reduce(q.view, q.effect, q.event)
             r == [q EXCEPT !.pc = "readback", !.view = next]
  <1>0. q.pc = "persist" /\ inflight' = inflight /\ delivered' = delivered
    BY DEF Persist, world
  <1>1. CASE (\E status : Finish(p, status)) /\ UNCHANGED store
    BY <1>0, <1>1, FinishIdles, QuietCedes DEF Quiet
  <1>2. CASE /\ Admits(q.view.journal, q.effect, q.event)
             /\ store = q.view /\ store' = next
             /\ Goto(p, r) \/ Finish(p, "unavailable")
    <2>1. q.event # "plain" => q.effect \in Effects /\ q.event \in Statuses
      BY <1>0 DEF Legit, Invocations
    <2>2. q.event = "plain" => store'.journal = store.journal
      BY <1>2, ReducePlain
    <2>3. q.event # "plain" => store'.journal = [store.journal EXCEPT ![q.effect] = q.event]
      BY <1>2, <2>1, ReduceTyped
    <2>4. /\ proc'[p].pc \in {"idle", "readback"}
          /\ proc'[p].pc = "readback" =>
                proc'[p].effect = q.effect /\ proc'[p].purpose = q.purpose
      <3>1. r.pc = "readback" /\ r.effect = q.effect /\ r.purpose = q.purpose
        BY DEF Invocations
      <3>2. QED BY <1>2, <3>1, FinishIdles, GotoGoes
    <2>5. ASSUME NEW e \in Effects, store.journal[e] = "none"
          PROVE  /\ delivered[e] = 0 /\ e \notin applied
                 /\ \A x \in Processes : ~ Entitled(x, e)
      <3>1. e \notin Journalled
        BY <2>5 DEF Journalled
      <3>2. delivered[e] = 0 /\ e \notin applied
        BY <3>1, <2>5 DEF IInv, ActsAreIntended
      <3>3. ASSUME NEW x \in Processes, Entitled(x, e) PROVE FALSE
        <4>1. e \in Entered(proc[x].view)
          BY <3>3, Before DEF Entitled, Legit, Entered
        <4>2. e \in Entered(store)
          BY <4>1, Before, EnteredStays
        <4>3. QED BY <2>5, <4>2 DEF Entered
      <3>4. QED BY <3>2, <3>3
    <2>6. ASSUME NEW e \in Effects, Profile[e] = "verify", store.journal[e] = "intended"
          PROVE  /\ delivered[e] = 0 /\ \A x \in Processes : ~ Entitled(x, e)
      <3>1. delivered[e] = 0
        BY <2>6 DEF IInv, HandOvers
      <3>2. ASSUME NEW x \in Processes, Entitled(x, e) PROVE FALSE
        <4>1. proc[x].view.journal[e] = "ambiguous"
          BY <2>6, <3>2, Before DEF Entitled, Legit
        <4>2. Rank(proc[x].view.journal[e]) <= Rank(store.journal[e])
          BY Before DEF Past
        <4>3. Rank("ambiguous") = 2 /\ Rank("intended") = 1
          BY DEF Rank
        <4>4. QED BY <2>6, <4>1, <4>2, <4>3
      <3>3. QED BY <3>1, <3>2
    <2>7. /\ q.purpose = "intent" => q.event = "intended"
          /\ q.purpose = "deliver" => q.event = "ambiguous"
      BY <1>0 DEF Legit
    <2>8. /\ q.event = "intended" => store.journal[q.effect] = "none"
          /\ q.event = "ambiguous" => store.journal[q.effect] = "intended"
      BY <1>2 DEF Admits
    <2>9. Cedes(p)
      <3> SUFFICES ASSUME NEW e \in HandedOnce
                   PROVE  /\ Entitled(p, e)' =>
                                \/ Entitled(p, e)
                                \/ /\ delivered[e] = 0
                                   /\ \A x \in Processes : ~ Entitled(x, e)
                          /\ Profile[e] = "verify" /\ store'.journal[e] = "intended" =>
                                store.journal[e] = "intended" \/ delivered[e] = 0
        BY <1>0 DEF Cedes
      <3>0. e \in Effects
        BY DEF HandedOnce
      <3>1. Entitled(p, e)' => /\ q.effect = e
                               /\ \/ q.purpose = "intent"
                                  \/ q.purpose = "deliver" /\ Profile[e] = "verify"
        BY <2>4 DEF Entitled
      <3>2. Entitled(p, e)' => delivered[e] = 0 /\ \A x \in Processes : ~ Entitled(x, e)
        BY <3>0, <3>1, <2>5, <2>6, <2>7, <2>8
      <3>3. store'.journal[e] = "intended" => store.journal[e] \in {"none", "intended"}
        BY <2>1, <2>2, <2>3, <2>8, <3>0 DEF Projections
      <3>4. QED BY <3>0, <3>2, <3>3, <2>5
    <2>10. QED BY <1>0, <2>1, <2>4, <2>5, <2>7, <2>8, <2>9
  <1>3. QED BY <1>1, <1>2 DEF Persist, CompareAndSet

(* A verification is requested by the process that recorded its ambiguity. *)
LEMMA ReadbackCedes ==
    ASSUME IInv, NEW p \in Processes, Readback(p)
    PROVE  /\ Cedes(p) /\ inflight' = inflight
           /\ proc'[p].pc \in {"idle", "reconcile", "act"}
           /\ proc'[p].pc = "act" =>
                 proc[p].purpose = "intent" /\ proc'[p].effect = proc[p].effect
  <1> DEFINE q == proc[p]
             r == [q EXCEPT !.pc = "reconcile", !.todo = @ \ {q.effect},
                            !.effect = None, !.event = "plain", !.purpose = "plain"]
             a == [q EXCEPT !.pc = "act"]
  <1>a. \/ (\E status : Finish(p, status)) /\ UNCHANGED delivered
        \/ /\ store = q.view /\ q.purpose = "deliver"
           /\ Finish(p, "tool_request") /\ Deliver(q.effect)
        \/ UNCHANGED delivered /\ Goto(p, r)
        \/ q.purpose = "intent" /\ UNCHANGED delivered /\ Goto(p, a)
    BY DEF Readback
  <1> USE Before
  <1>0. /\ q.pc = "readback" /\ store' = store /\ inflight' = inflight
    BY DEF Readback
  <1>1. CASE (\E status : Finish(p, status)) /\ UNCHANGED delivered
    BY <1>0, <1>1, FinishIdles, QuietCedes DEF Quiet
  <1>2. CASE /\ store = q.view /\ q.purpose = "deliver"
             /\ Finish(p, "tool_request") /\ Deliver(q.effect)
    <2>1. /\ q.effect \in Effects /\ Profile[q.effect] = "verify"
          /\ store.journal[q.effect] = "ambiguous"
      BY <1>0, <1>2 DEF Legit
    <2>2. Entitled(p, q.effect)
      BY <1>0, <1>2, <2>1 DEF Entitled
    <2>3. proc'[p].pc = "idle" /\ \A e : ~ Entitled(p, e)'
      BY <1>2, FinishIdles DEF Entitled
    <2>4. \A e \in HandedOnce : delivered'[e] # delivered[e] =>
             e = q.effect /\ delivered'[e] = delivered[e] + 1
      BY <1>2, <2>1 DEF Deliver, HandedOnce
    <2>5. QED BY <1>0, <2>1, <2>2, <2>3, <2>4 DEF Cedes
  <1>3. CASE UNCHANGED delivered /\ Goto(p, r)
    <2>1. proc'[p].pc = "reconcile"
      BY <1>3, GotoGoes DEF Invocations
    <2>2. QED BY <1>0, <1>3, <2>1, QuietCedes DEF Quiet
  <1>4. CASE q.purpose = "intent" /\ UNCHANGED delivered /\ Goto(p, a)
    <2>1. /\ proc'[p].pc = "act" /\ proc'[p].effect = q.effect
          /\ proc'[p].purpose = q.purpose
      BY <1>4, GotoGoes DEF Invocations
    <2>2. \A e \in HandedOnce : Entitled(p, e)' => Entitled(p, e)
      BY <1>0, <1>4, <2>1 DEF Entitled
    <2>3. QED BY <1>0, <1>4, <2>1, <2>2 DEF Cedes
  <1>5. QED BY <1>a, <1>1, <1>2, <1>3, <1>4

-----------------------------------------------------------------------------
(* Every step. *)

LEMMA StepSafe ==
    ASSUME IInv, NEW p \in Processes, Invoke(p) \/ Step(p) \/ Crash(p)
    PROVE  Safe(p) /\ Cedes(p)
  <1>1. CASE Invoke(p)
    BY <1>1, InvokeSafe, InvokeQuiet, QuietCedes
  <1>2. CASE Load(p)
    BY <1>2, LoadSafe, LoadQuiet, QuietCedes
  <1>3. CASE CreateControllerAcquireIntent(p)
    BY <1>3, CreateSafe, CreateCedes
  <1>4. CASE Reconcile(p)
    BY <1>4, ReconcileSafe, ReconcileQuiet, QuietCedes
  <1>5. CASE Replay(p)
    BY <1>5, ReplaySafe, ReplayQuiet, QuietCedes
  <1>6. CASE HandleRequest(p)
    BY <1>6, HandleRequestSafe, HandleRequestQuiet, QuietCedes
  <1>7. CASE Act(p)
    BY <1>7, ActSafe, ActCedes
  <1>8. CASE ActAnswer(p)
    BY <1>8, ActAnswerSafe, ActAnswerCedes
  <1>9. CASE Acknowledge(p)
    BY <1>9, AcknowledgeSafe, AcknowledgeQuiet, QuietCedes
  <1>10. CASE Persist(p)
    BY <1>10, PersistSafe, PersistCedes
  <1>11. CASE Readback(p)
    BY <1>11, ReadbackSafe, ReadbackCedes
  <1>12. CASE Crash(p)
    BY <1>12, CrashSafe, CrashQuiet, QuietCedes
  <1>13. QED BY <1>1, <1>2, <1>3, <1>4, <1>5, <1>6, <1>7, <1>8, <1>9, <1>10, <1>11, <1>12
             DEF Step

LEMMA ActEndsKeeps ==
    ASSUME IInv, NEW p \in Processes, NEW e \in Effects, ActEnds(p, e)
    PROVE  IInv'
  <1> USE DEF ActEnds
  <1>1. TypeOK'
    BY DEF IInv, TypeOK, bounds
  <1>2. Views' /\ Stages' /\ SuccessIsDurable'
    BY DEF IInv, Views, Stages, SuccessIsDurable
  <1>3. ActsAreIntended'
    <2>1. e \in Journalled
      BY DEF IInv, ActsAreIntended
    <2>2. QED BY <2>1 DEF IInv, ActsAreIntended, Journalled
  <1>4. HandOvers'
    BY DEF IInv, HandOvers, Entitled
  <1>5. QED BY <1>1, <1>2, <1>3, <1>4 DEF IInv

LEMMA SlotWedgedKeeps ==
    ASSUME IInv, NEW e \in Slots, SlotWedged(e)
    PROVE  IInv'
  <1> USE DEF SlotWedged
  <1>1. TypeOK'
    BY DEF IInv, TypeOK, bounds
  <1>2. Views' /\ Stages' /\ SuccessIsDurable' /\ ActsAreIntended' /\ HandOvers'
    BY DEF IInv, Views, Stages, SuccessIsDurable, ActsAreIntended, Journalled, HandOvers,
           Entitled
  <1>3. QED BY <1>1, <1>2 DEF IInv

LEMMA InitIInv == Init => IInv
  <1> SUFFICES ASSUME Init PROVE IInv
    OBVIOUS
  <1>1. TypeOK
    BY AbsentTyped, IdleTyped, CoordinatorAssumption DEF Init, TypeOK
  <1>2. Views
    BY AbsentTyped, StoreIsPast DEF Init, Views, Idle
  <1>3. Stages
    BY IdleTyped DEF Init, Stages
  <1>4. ActsAreIntended /\ SuccessIsDurable
    BY DEF Init, ActsAreIntended, SuccessIsDurable
  <1>5. HandOvers
    BY DEF Init, HandOvers, Entitled, Idle
  <1>6. QED BY <1>1, <1>2, <1>3, <1>4, <1>5 DEF IInv

LEMMA NextIInv == IInv /\ [Next]_vars => IInv'
  <1> SUFFICES ASSUME IInv, [Next]_vars PROVE IInv'
    OBVIOUS
  <1>1. CASE Next
    <2>1. ASSUME NEW p \in Processes, Invoke(p) \/ Step(p) \/ Crash(p)
          PROVE  IInv'
      BY <2>1, StepSafe, SafeStep, CedesKeeps DEF IInv
    <2>2. QED BY <1>1, <2>1, ActEndsKeeps, SlotWedgedKeeps DEF Next
  <1>2. CASE UNCHANGED vars
    BY <1>2 DEF vars, world, bounds, IInv, TypeOK, Views, Stages, ActsAreIntended,
                SuccessIsDurable, HandOvers, Journalled, Entitled
  <1>3. QED BY <1>1, <1>2

(* The inductive invariant holds throughout every behaviour. *)
THEOREM Inductive == Spec => []IInv
  BY InitIInv, NextIInv, PTL DEF Spec

(* Every variable keeps its type: an invocation is always in one of the        *)
(* stages of recovery.ts, with a well-formed projection in hand.             *)
THEOREM TypeCorrect == Spec => []TypeOK
  BY Inductive, PTL DEF IInv

(* The intent comes first: whatever crashes, whoever holds the lock, no act is *)
(* started, takes place or is handed to the host before its intent is durable.*)
THEOREM IntentsComeFirst == Spec => []ActsAreIntended
  BY Inductive, PTL DEF IInv

(* What an invocation reported as applied is, and stays, observed in the      *)
(* durable journal.                                                          *)
THEOREM ReportsAreDurable == Spec => []SuccessIsDurable
  BY Inductive, PTL DEF IInv

(* The compare-and-set alone, without the lock, makes the hand-over of a       *)
(* launch or a verification happen at most once.                             *)
THEOREM HandedOverAtMostOnce == Spec => []HandedOverOnce
  <1>1. IInv => HandedOverOnce
    BY DEF IInv, HandOvers, HandedOverOnce
  <1>2. QED BY <1>1, Inductive, PTL

(* The durable journal only moves forward, one revision at a time. *)
JournalAdvances ==
    [][/\ store'.rev \in {store.rev, store.rev + 1}
       /\ \A e \in Effects :
             Rank(store'.journal[e]) >= Rank(store.journal[e])]_vars

(* No process, however stale its view, takes a status back: the compare-and-   *)
(* set applies an event to the very projection it was reduced from.          *)
THEOREM JournalOnlyAdvances == Spec => JournalAdvances
  <1> DEFINE Forward == /\ store'.rev \in {store.rev, store.rev + 1}
                        /\ \A e \in Effects :
                              Rank(store'.journal[e]) >= Rank(store.journal[e])
  <1>1. IInv /\ [Next]_vars => [Forward]_vars
    <2> SUFFICES ASSUME IInv, Next PROVE Forward
      BY DEF vars
    <2>0. store \in Projections
      BY DEF IInv, TypeOK
    <2>1. Advances
      <3>1. ASSUME NEW p \in Processes, Invoke(p) \/ Step(p) \/ Crash(p) PROVE Advances
        BY <3>1, StepSafe DEF Safe
      <3>2. ASSUME NEW p \in Processes, NEW e \in Effects, ActEnds(p, e) PROVE Advances
        BY <2>0, <3>2 DEF ActEnds, Advances
      <3>3. ASSUME NEW e \in Slots, SlotWedged(e) PROVE Advances
        BY <2>0, <3>3 DEF SlotWedged, Advances
      <3>4. QED BY <3>1, <3>2, <3>3 DEF Next
    <2>2. \A e \in Effects : /\ Rank(store.journal[e]) \in 0..3
                             /\ Rank(store'.journal[e]) \in 0..3
      BY <2>0, <2>1, RankTyped DEF Advances, Projections
    <2>3. QED BY <2>1, <2>2 DEF Advances
  <1>2. QED BY <1>1, Inductive, PTL DEF Spec, JournalAdvances

-----------------------------------------------------------------------------
(* The ledger. *)

(* What the ledger rests on besides IInv: a run begins with its              *)
(* controller_acquire, an invocation past its load works on a run that has    *)
(* begun, and only acts on git and the slot are under way.                   *)
Started(q) == q.pc \notin {"idle", "load", "create"} => q.view.rev > 0

Foundations ==
    /\ store.rev > 0 => store.journal[Boot] # "none"
    /\ \A p \in Processes : Started(proc[p])
    /\ \A a \in inflight : Profile[a[2]] = "git"

(* A step of p the ledger does not see, and one it does. *)
Still ==
    store' = store /\ applied' = applied /\ delivered' = delivered /\ claimed' = claimed

Sound(p) ==
    /\ Ledger!Next \/ Still
    /\ Started(proc'[p])
    /\ \A a \in inflight' : a \in inflight \/ Profile[a[2]] = "git"

LEMMA FinishStarted ==
    ASSUME IInv, NEW p \in Processes, NEW status, Finish(p, status)
    PROVE  Started(proc'[p])
  BY FinishIdles DEF Started

LEMMA ToPersistStarted ==
    ASSUME IInv, NEW p \in Processes, NEW e, NEW event, NEW purpose,
           proc[p].view.rev > 0, ToPersist(p, e, event, purpose)
    PROVE  Started(proc'[p]) /\ claimed' = claimed
  <1>1. proc'[p].view = proc[p].view
    BY Before, GotoGoes DEF ToPersist, Invocations
  <1>2. QED BY <1>1 DEF Started, ToPersist, Goto

LEMMA StartActStarted ==
    ASSUME IInv, NEW p \in Processes, NEW e, NEW next,
           proc[p].view.rev > 0, StartAct(p, e, next)
    PROVE  /\ Started(proc'[p]) /\ claimed' = claimed
           /\ \A a \in inflight' : a \in inflight \/ Profile[a[2]] = "git"
  <1>1. proc'[p].view = proc[p].view
    BY Before, GotoGoes DEF StartAct, Invocations
  <1>2. QED BY <1>1 DEF Started, StartAct, Goto

(* A write the ledger sees: the event the reducer admitted. *)
LEMMA WriteSeen ==
    ASSUME store \in Projections, Foundations, NEW e, NEW event,
           event # "plain" => e \in Effects, store.rev > 0,
           Admits(store.journal, e, event), store' = Reduce(store, e, event),
           applied' = applied, delivered' = delivered, claimed' = claimed
    PROVE  Ledger!Next
  <1>1. CASE event = "plain"
    <2>1. store'.rev = store.rev + 1 /\ store'.journal = store.journal
      BY <1>1, ReducePlain
    <2>2. \A f \in Effects : store.journal[f] # "ambiguous"
      BY <1>1 DEF Admits, Running
    <2>3. Ledger!Advance
      BY <2>1, <2>2 DEF Ledger!Advance, Ledger!Unblocked
    <2>4. QED BY <2>3 DEF Ledger!Next
  <1>2. CASE event # "plain"
    <2>1. e \in Effects /\ event \in Statuses
      BY <1>2 DEF Admits, Statuses
    <2>2. Ledger!Become(e, event)
      BY <2>1, ReduceTyped DEF Ledger!Become
    <2>3. CASE event = "intended"
      <3>1. store.journal[e] = "none" /\ (e # Boot => Running(store.journal))
        BY <2>3 DEF Admits
      <3>2. Running(store.journal)
        BY <3>1 DEF Foundations
      <3>3. Ledger!Unblocked
        BY <3>2 DEF Ledger!Unblocked, Running
      <3>4. Ledger!Intend(e)
        BY <2>2, <2>3, <3>1, <3>2, <3>3 DEF Ledger!Intend, Running
      <3>5. QED BY <2>1, <3>4 DEF Ledger!Next
    <2>4. CASE event = "ambiguous"
      <3>1. store.journal[e] = "intended"
        BY <2>4 DEF Admits
      <3>2. Ledger!Doubt(e)
        BY <2>2, <2>4, <3>1 DEF Ledger!Doubt
      <3>3. QED BY <2>1, <3>2 DEF Ledger!Next
    <2>5. CASE event = "observed"
      <3>1. store.journal[e] \in {"intended", "ambiguous"}
        BY <2>5 DEF Admits, Unresolved
      <3>2. Ledger!Settle(e)
        BY <2>2, <2>5, <3>1 DEF Ledger!Settle
      <3>3. QED BY <2>1, <3>2 DEF Ledger!Next
    <2>6. QED BY <1>2, <2>3, <2>4, <2>5 DEF Admits
  <1>3. QED BY <1>1, <1>2

(* A hand-over the ledger sees: p was entitled to it. *)
LEMMA HandOverSeen ==
    ASSUME IInv, NEW p \in Processes, NEW e \in Effects, Entitled(p, e),
           Profile[e] = "launch" \/ store.journal[e] = "ambiguous",
           proc[p].pc \in {"acting", "readback"},
           Deliver(e), store' = store, applied' = applied, claimed' = claimed
    PROVE  Ledger!Next
  <1>1. Profile[e] \in {"launch", "verify"}
    BY DEF Entitled
  <1>2. delivered[e] = 0 /\ delivered \in [Effects -> Nat]
    BY <1>1 DEF IInv, HandOvers, TypeOK
  <1>3. delivered' = [delivered EXCEPT ![e] = 1]
    BY <1>1, <1>2 DEF Deliver
  <1>4. Profile[e] = "launch" => store.journal[e] # "none"
    <2> SUFFICES ASSUME Profile[e] = "launch" PROVE store.journal[e] # "none"
      OBVIOUS
    <2>1. e \in Entered(proc[p].view)
      BY Before DEF Entitled, Legit, Entered
    <2>2. QED BY <2>1, Before, EnteredStays DEF Entered
  <1>5. \/ e \in Profiled("launch") /\ store.journal[e] # "none"
        \/ e \in Profiled("verify") /\ store.journal[e] = "ambiguous"
    BY <1>1, <1>4 DEF Profiled
  <1>6. Ledger!HandOver(e)
    BY <1>2, <1>3, <1>5 DEF Ledger!HandOver
  <1>7. QED BY <1>6 DEF Ledger!Next

(* The steps that only move an invocation on. *)
LEMMA QuietSound ==
    ASSUME IInv, NEW p \in Processes, Started(proc'[p]), claimed' = claimed,
           store' = store, applied' = applied, delivered' = delivered, inflight' \subseteq inflight
    PROVE  Sound(p)
  BY DEF Sound, Still

LEMMA InvokeSound ==
    ASSUME IInv, NEW p \in Processes, Invoke(p)
    PROVE  Sound(p)
  <1>1. PICK q \in Asked, ready \in BOOLEAN :
            Goto(p, [Idle EXCEPT !.pc = "load", !.req = q, !.ready = ready])
    BY DEF Invoke
  <1>2. proc'[p].pc = "load"
    BY <1>1, GotoGoes DEF Idle
  <1>3. QED BY <1>1, <1>2, QuietSound DEF Started, Invoke, world, Goto

LEMMA LoadSound ==
    ASSUME IInv, NEW p \in Processes, Load(p)
    PROVE  Sound(p)
  <1>1. CASE Finish(p, "unavailable") \/ Finish(p, "uninitialized")
    BY <1>1, FinishMoves, FinishStarted, QuietSound DEF Load, world, IInv
  <1>2. CASE store.rev > 0 /\ Goto(p, Loaded(p, store))
    <2>1. Loaded(p, store).view = store
      BY Before DEF Loaded, Invocations
    <2>2. Started(proc'[p])
      BY <1>2, <2>1, GotoGoes DEF Started
    <2>3. QED BY <1>2, <2>2, QuietSound DEF Load, world, Goto
  <1>3. CASE Goto(p, [proc[p] EXCEPT !.pc = "create"])
    <2>1. proc'[p].pc = "create"
      BY <1>3, Before, GotoGoes DEF Invocations
    <2>2. QED BY <1>3, <2>1, QuietSound DEF Started, Load, world, Goto
  <1>4. QED BY <1>1, <1>2, <1>3 DEF Load

(* The only event that founds a run. *)
LEMMA CreateSound ==
    ASSUME IInv, NEW p \in Processes, CreateControllerAcquireIntent(p)
    PROVE  Sound(p)
  <1> DEFINE created == Reduce(Absent, Boot, "intended")
             r == [Loaded(p, created) EXCEPT !.req = Request("resume", None, 0)]
  <1>0. applied' = applied /\ delivered' = delivered /\ inflight' = inflight
    BY DEF CreateControllerAcquireIntent, world
  <1>1. CASE \E status : status # "applied" /\ Finish(p, status) /\ UNCHANGED store
    BY <1>0, <1>1, FinishMoves, FinishStarted, QuietSound DEF IInv
  <1>2. CASE store = Absent /\ store' = created /\ (Goto(p, r) \/ Finish(p, "unavailable"))
    <2>1. Boot \in Effects /\ Absent \in Projections /\ Absent.rev = 0 /\ "intended" \in Statuses
      BY CoordinatorAssumption, AbsentTyped DEF Absent, Statuses
    <2>2. /\ created.rev = 1 /\ created.journal = [Absent.journal EXCEPT ![Boot] = "intended"]
      BY <2>1, ReduceTyped
    <2>3. claimed' = claimed
      BY <1>2, FinishMoves DEF IInv, Goto
    <2> HIDE DEF created
    <2>4. Ledger!Found
      BY <1>0, <1>2, <2>1, <2>2, <2>3 DEF Ledger!Found, Ledger!Become
    <2>5. Started(proc'[p])
      <3>1. CASE Goto(p, r)
        <4>1. r.view = created
          BY Before DEF Loaded, Invocations
        <4>2. proc'[p] = r
          BY <3>1, GotoGoes
        <4> HIDE DEF r
        <4>3. QED BY <2>2, <4>1, <4>2 DEF Started
      <3>2. QED BY <1>2, <3>1, FinishStarted
    <2>6. QED BY <1>0, <2>4, <2>5 DEF Sound, Ledger!Next
  <1>3. QED BY <1>1, <1>2 DEF CreateControllerAcquireIntent

LEMMA ReconcileSound ==
    ASSUME IInv, Foundations, NEW p \in Processes, Reconcile(p)
    PROVE  Sound(p)
  <1>0. /\ store' = store /\ applied' = applied
        /\ proc[p].view.rev > 0 /\ proc[p] \in Invocations
    BY Before DEF Reconcile, Foundations, Started
  <1>1. CASE Goto(p, [proc[p] EXCEPT !.pc = "request"]) /\ UNCHANGED <<inflight, delivered>>
    <2>1. proc'[p].view = proc[p].view
      BY <1>0, <1>1, GotoGoes DEF Invocations
    <2>2. QED BY <1>0, <1>1, <2>1, QuietSound DEF Started, Goto
  <1>2. CASE (\E status : status # "applied" /\ Finish(p, status))
             /\ UNCHANGED <<inflight, delivered>>
    BY <1>0, <1>2, FinishMoves, FinishStarted, QuietSound DEF IInv
  <1>3. ASSUME NEW e \in Effects, NEW answer \in Discovered(e, proc[p].view.journal[e]),
               ReconcileAnswer(p, e, answer)
        PROVE  Sound(p)
    <2>1. CASE StartAct(p, e, "replay") /\ UNCHANGED delivered
      BY <1>0, <2>1, StartActStarted DEF Sound, Still
    <2>2. CASE answer = "tool_request" /\ Finish(p, "tool_request") /\ Deliver(e)
               /\ UNCHANGED inflight
      <3>1. Profile[e] = "session"
        BY <1>3, <2>2, Answers
      <3>2. QED BY <1>0, <2>2, <3>1, FinishMoves, FinishStarted, QuietSound DEF Deliver, IInv
    <2>3. CASE (\E event, purpose : ToPersist(p, e, event, purpose))
               /\ UNCHANGED <<inflight, delivered>>
      BY <1>0, <2>3, ToPersistStarted, QuietSound
    <2>4. CASE Skip(p, e) /\ UNCHANGED <<inflight, delivered>>
      <3>1. proc'[p].view = proc[p].view /\ claimed' = claimed
        BY <1>0, <2>4, GotoGoes DEF Invocations, Skip, Goto
      <3>2. QED BY <1>0, <2>4, <3>1, QuietSound DEF Started
    <2>5. QED BY <1>2, <1>3, <2>1, <2>2, <2>3, <2>4 DEF ReconcileAnswer
  <1>4. QED BY <1>1, <1>2, <1>3 DEF Reconcile

LEMMA ReplaySound ==
    ASSUME IInv, Foundations, NEW p \in Processes, Replay(p)
    PROVE  Sound(p)
  <1>0. /\ store' = store /\ applied' = applied /\ delivered' = delivered /\ inflight' = inflight
        /\ proc[p].view.rev > 0
    BY DEF Replay, world, Foundations, Started
  <1>1. CASE Finish(p, "unavailable")
    BY <1>0, <1>1, FinishMoves, FinishStarted, QuietSound DEF IInv
  <1>2. CASE \E event : ToPersist(p, proc[p].effect, event, "reconcile")
    BY <1>0, <1>2, ToPersistStarted, QuietSound
  <1>3. QED BY <1>1, <1>2 DEF Replay

LEMMA HandleRequestSound ==
    ASSUME IInv, Foundations, NEW p \in Processes, HandleRequest(p)
    PROVE  Sound(p)
  <1>0. /\ store' = store /\ applied' = applied /\ delivered' = delivered /\ inflight' = inflight
        /\ proc[p].view.rev > 0
    BY DEF HandleRequest, world, Foundations, Started
  <1>1. CASE \E status : status # "applied" /\ Finish(p, status)
    BY <1>0, <1>1, FinishMoves, FinishStarted, QuietSound DEF IInv
  <1>2. CASE \E event, purpose : ToPersist(p, proc[p].req.effect, event, purpose)
    BY <1>0, <1>2, ToPersistStarted, QuietSound
  <1>3. QED BY <1>1, <1>2 DEF HandleRequest

LEMMA ActSound ==
    ASSUME IInv, Foundations, NEW p \in Processes, Act(p)
    PROVE  Sound(p)
  <1>1. proc[p].view.rev > 0
    BY DEF Act, Foundations, Started
  <1>2. QED BY <1>1, StartActStarted DEF Act, Sound, Still

(* A launch is handed over by the process that journalled its intent. *)
LEMMA ActAnswerSound ==
    ASSUME IInv, Foundations, NEW p \in Processes, ActAnswer(p)
    PROVE  Sound(p)
  <1> DEFINE e == proc[p].effect
  <1>0. /\ store' = store /\ applied' = applied /\ inflight' = inflight
        /\ proc[p].view.rev > 0 /\ proc[p].pc = "acting" /\ proc[p].purpose = "intent"
        /\ e \in Effects /\ Profile[e] \in Profiles
    BY Before DEF ActAnswer, Foundations, Started, Legit, Entered
  <1>1. CASE "tool_request" \in Executed(e) /\ Finish(p, "tool_request") /\ Deliver(e)
    <2>1. Profile[e] \in {"launch", "session"} /\ claimed' = claimed /\ Started(proc'[p])
      BY <1>0, <1>1, Performances, FinishMoves, FinishStarted DEF IInv
    <2>2. CASE Profile[e] = "session"
      BY <1>0, <1>1, <2>1, <2>2, QuietSound DEF Deliver
    <2>3. CASE Profile[e] = "launch"
      <3>1. Entitled(p, e)
        BY <1>0, <2>3 DEF Entitled
      <3>2. Ledger!Next
        BY <1>0, <1>1, <2>1, <2>3, <3>1, HandOverSeen
      <3>3. QED BY <1>0, <2>1, <3>2 DEF Sound
    <2>4. QED BY <2>1, <2>2, <2>3
  <1>2. CASE (\E status : status # "applied" /\ Finish(p, status)) /\ UNCHANGED delivered
    BY <1>0, <1>2, FinishMoves, FinishStarted, QuietSound DEF IInv
  <1>3. CASE (\E event, purpose : ToPersist(p, e, event, purpose)) /\ UNCHANGED delivered
    BY <1>0, <1>3, ToPersistStarted, QuietSound
  <1>4. QED BY <1>1, <1>2, <1>3 DEF ActAnswer

LEMMA AcknowledgeSound ==
    ASSUME IInv, Foundations, NEW p \in Processes, Acknowledge(p)
    PROVE  Sound(p)
  <1>0. /\ store' = store /\ applied' = applied /\ delivered' = delivered /\ inflight' = inflight
        /\ proc[p].view.rev > 0
    BY DEF Acknowledge, world, Foundations, Started
  <1>1. CASE \E status : status # "applied" /\ Finish(p, status)
    BY <1>0, <1>1, FinishMoves, FinishStarted, QuietSound DEF IInv
  <1>2. CASE \E event, purpose : ToPersist(p, proc[p].req.effect, event, purpose)
    BY <1>0, <1>2, ToPersistStarted, QuietSound
  <1>3. QED BY <1>1, <1>2 DEF Acknowledge

LEMMA PersistSound ==
    ASSUME IInv, Foundations, NEW p \in Processes, Persist(p)
    PROVE  Sound(p)
  <1> DEFINE q == proc[p]
             next == Reduce(q.view, q.effect, q.event)
             r == [q EXCEPT !.pc = "readback", !.view = next]
  <1>0. /\ applied' = applied /\ delivered' = delivered /\ inflight' = inflight
        /\ q.pc = "persist" /\ q.view.rev > 0 /\ q.view \in Projections /\ q \in Invocations
        /\ q.event # "plain" => q.effect \in Effects
    BY Before DEF Persist, world, Foundations, Started, Legit
  <1>1. CASE \E status : status # "applied" /\ Finish(p, status) /\ UNCHANGED store
    BY <1>0, <1>1, FinishMoves, FinishStarted, QuietSound DEF IInv
  <1>2. CASE /\ Admits(q.view.journal, q.effect, q.event)
             /\ store = q.view /\ store' = next
             /\ Goto(p, r) \/ Finish(p, "unavailable")
    <2>1. claimed' = claimed
      BY <1>2, FinishMoves DEF IInv, Goto
    <2>2. Ledger!Next
      BY <1>0, <1>2, <2>1, WriteSeen
    <2>3. next.rev > 0
      <3>1. next.rev = q.view.rev + 1
        <4>1. CASE q.event = "plain"
          BY <1>0, <4>1, ReducePlain
        <4>2. CASE q.event # "plain"
          <5>1. q.event \in Statuses
            BY <1>0, <4>2 DEF Invocations
          <5>2. QED BY ZenonT(60), <1>0, <4>2, <5>1, ReduceTyped
        <4>3. QED BY <4>1, <4>2
      <3>2. QED BY <1>0, <3>1 DEF Projections
    <2>4. Started(proc'[p])
      <3>1. CASE Goto(p, r)
        <4>1. r.view = next
          BY <1>0 DEF Invocations
        <4>2. proc'[p] = r
          BY <3>1, GotoGoes
        <4> HIDE DEF r, next
        <4>3. QED BY <2>3, <4>1, <4>2 DEF Started
      <3>2. QED BY <1>2, <3>1, FinishStarted
    <2>5. QED BY <1>0, <2>2, <2>4 DEF Sound
  <1>3. QED BY <1>1, <1>2 DEF Persist, CompareAndSet

(* A verification is handed over on its ambiguity, success is reported on an   *)
(* observation, both read back from the store.                               *)
LEMMA ReadbackSound ==
    ASSUME IInv, Foundations, NEW p \in Processes, Readback(p)
    PROVE  Sound(p)
  <1> DEFINE q == proc[p]
             r == [q EXCEPT !.pc = "reconcile", !.todo = @ \ {q.effect},
                            !.effect = None, !.event = "plain", !.purpose = "plain"]
             a == [q EXCEPT !.pc = "act"]
  <1>0. /\ store' = store /\ applied' = applied /\ inflight' = inflight
        /\ q.pc = "readback" /\ q.view.rev > 0 /\ q \in Invocations /\ Legit(q)
    BY Before DEF Readback, Foundations, Started
  <1>1. CASE (Finish(p, "quarantined") \/ Finish(p, "ambiguous")) /\ UNCHANGED delivered
    BY <1>0, <1>1, FinishMoves, FinishStarted, QuietSound DEF IInv
  <1>2. CASE /\ store = q.view /\ q.purpose = "deliver"
             /\ Finish(p, "tool_request") /\ Deliver(q.effect)
    <2>1. /\ q.effect \in Effects /\ Profile[q.effect] = "verify"
          /\ store.journal[q.effect] = "ambiguous"
      BY <1>0, <1>2 DEF Legit
    <2>2. Entitled(p, q.effect)
      BY <1>0, <1>2, <2>1 DEF Entitled
    <2>3. claimed' = claimed /\ Started(proc'[p])
      BY <1>2, FinishMoves, FinishStarted DEF IInv
    <2>4. Ledger!Next
      BY <1>0, <1>2, <2>1, <2>2, <2>3, HandOverSeen
    <2>5. QED BY <1>0, <2>3, <2>4 DEF Sound
  <1>3. CASE UNCHANGED delivered /\ (Goto(p, r) \/ Goto(p, a))
    <2>1. r.view = q.view /\ a.view = q.view
      BY <1>0 DEF Invocations
    <2>2. proc'[p] \in {r, a} /\ claimed' = claimed
      BY <1>3, GotoGoes DEF Goto
    <2> HIDE DEF r, a
    <2>3. Started(proc'[p])
      BY <1>0, <2>1, <2>2 DEF Started
    <2>4. QED BY <1>0, <1>3, <2>2, <2>3, QuietSound
  <1>4. CASE /\ store = q.view /\ Finish(p, "applied") /\ UNCHANGED delivered
             /\ q.purpose = "plain" \/ (q.purpose = "record" /\ q.event = "observed")
    <2>1. Started(proc'[p])
      BY <1>4, FinishStarted
    <2>2. claimed' = claimed \/ claimed' = claimed \cup ({q.req.effect} \ {None})
      BY <1>4, FinishMoves DEF IInv
    <2>3. CASE claimed' = claimed
      BY <1>0, <1>4, <2>1, <2>3, QuietSound
    <2>4. CASE claimed' # claimed
      <3>1. q.purpose = "record" /\ q.event = "observed"
        BY <1>0, <1>4, <2>2, <2>4 DEF Legit
      <3>2. q.req.effect \in Effects /\ store.journal[q.req.effect] = "observed"
        BY <1>0, <1>4, <3>1 DEF Legit
      <3>3. claimed' = claimed \cup {q.req.effect}
        BY <2>2, <2>4, <3>2
      <3>4. Ledger!Report(q.req.effect)
        BY <1>0, <1>4, <3>2, <3>3 DEF Ledger!Report
      <3>5. Ledger!Next
        BY <3>2, <3>4 DEF Ledger!Next
      <3>6. QED BY <1>0, <2>1, <3>5 DEF Sound
    <2>5. QED BY <2>3, <2>4
  <1>5. QED BY <1>1, <1>2, <1>3, <1>4 DEF Readback

LEMMA CrashSound ==
    ASSUME IInv, NEW p \in Processes, Crash(p)
    PROVE  Sound(p)
  <1>1. proc'[p].pc = "idle" /\ inflight' \subseteq inflight
    BY DEF Crash, IInv, TypeOK, Idle
  <1>2. QED BY <1>1, QuietSound DEF Crash, Started

LEMMA StepSound ==
    ASSUME IInv, Foundations, NEW p \in Processes, Invoke(p) \/ Step(p) \/ Crash(p)
    PROVE  Sound(p)
  BY InvokeSound, LoadSound, CreateSound, ReconcileSound, ReplaySound, HandleRequestSound,
     ActSound, ActAnswerSound, AcknowledgeSound, PersistSound, ReadbackSound, CrashSound
     DEF Step

(* A child's act is seen when it takes place. *)
LEMMA ActEndsSound ==
    ASSUME IInv, Foundations, NEW p \in Processes, NEW e \in Effects, ActEnds(p, e)
    PROVE  Ledger!Next \/ Still
  <1>1. /\ <<p, e>> \in inflight /\ applied' \in {applied, applied \cup {e}}
        /\ store' = store /\ delivered' = delivered /\ claimed' = claimed
    BY DEF ActEnds
  <1>2. e \in Profiled("git") /\ store.journal[e] # "none"
    BY <1>1 DEF IInv, ActsAreIntended, Journalled, Foundations, Profiled
  <1>3. CASE applied' = applied \cup {e}
    BY <1>1, <1>2, <1>3 DEF Ledger!Next, Ledger!Happen
  <1>4. QED BY <1>1, <1>3 DEF Still

(* A run that has begun goes on: whatever the ledger records, its             *)
(* controller_acquire stays journalled.                                      *)
LEMMA BegunStays ==
    ASSUME IInv, Foundations, Ledger!Next \/ Still, store' \in Projections
    PROVE  store'.rev > 0 => store'.journal[Boot] # "none"
  <1>0. /\ Boot \in Effects /\ store \in Projections
        /\ store.rev = 0 => \A e \in Effects : store.journal[e] = "none"
    BY CoordinatorAssumption DEF IInv, TypeOK, Views, Absent
  <1>1. ASSUME NEW e \in Effects, NEW s \in {"intended", "ambiguous", "observed"},
               Ledger!Become(e, s), store.journal[Boot] # "none" \/ e = Boot
        PROVE  store'.journal[Boot] # "none"
    BY <1>0, <1>1 DEF Ledger!Become, Projections
  <1>2. ASSUME NEW e \in Effects, Ledger!Intend(e) \/ Ledger!Doubt(e) \/ Ledger!Settle(e)
        PROVE  store'.journal[Boot] # "none"
    <2>1. store.journal[Boot] # "none"
      BY <1>0, <1>2 DEF Ledger!Intend, Ledger!Doubt, Ledger!Settle, Foundations, Projections
    <2>2. QED BY <1>1, <1>2, <2>1 DEF Ledger!Intend, Ledger!Doubt, Ledger!Settle
  <1>3. CASE Ledger!Found
    BY <1>0, <1>1, <1>3 DEF Ledger!Found
  <1>4. CASE Ledger!Advance \/ Still
    BY <1>4 DEF Ledger!Advance, Still, Foundations
  <1>5. ASSUME NEW e \in Effects, Ledger!Happen(e) \/ Ledger!HandOver(e) \/ Ledger!Report(e)
        PROVE  store'.rev = store.rev /\ store'.journal = store.journal
    BY <1>5 DEF Ledger!Happen, Ledger!HandOver, Ledger!Report
  <1>6. QED BY <1>2, <1>3, <1>4, <1>5 DEF Ledger!Next, Foundations

LEMMA NextSound ==
    ASSUME IInv, IInv', Foundations, [Next]_vars
    PROVE  Foundations' /\ (Ledger!Next \/ UNCHANGED Ledger!vars)
  <1>0. store' \in Projections
    BY DEF IInv, TypeOK
  <1>1. Still => UNCHANGED Ledger!vars
    BY DEF Still, Ledger!vars
  <1>2. ASSUME NEW p \in Processes, Invoke(p) \/ Step(p) \/ Crash(p)
        PROVE  Foundations' /\ (Ledger!Next \/ Still)
    <2>1. Sound(p) /\ \A q \in Processes : q # p => proc'[q] = proc[q]
      BY <1>2, StepSound, StepSafe, Elsewhere
    <2>2. store'.rev > 0 => store'.journal[Boot] # "none"
      BY <1>0, <2>1, BegunStays DEF Sound
    <2>3. \A q \in Processes : Started(proc'[q])
      BY <2>1 DEF Sound, Foundations
    <2>4. \A a \in inflight' : Profile[a[2]] = "git"
      BY <2>1 DEF Sound, Foundations
    <2>5. QED BY <2>1, <2>2, <2>3, <2>4 DEF Foundations, Sound, Started
  <1>3. ASSUME NEW p \in Processes, NEW e \in Effects, ActEnds(p, e)
        PROVE  Foundations' /\ (Ledger!Next \/ Still)
    BY <1>3, ActEndsSound DEF ActEnds, Foundations, Started
  <1>4. ASSUME NEW e \in Slots, SlotWedged(e)
        PROVE  Foundations' /\ Still
    BY <1>4 DEF SlotWedged, Foundations, Started, Still
  <1>5. CASE UNCHANGED vars
    <2>1. /\ store' = store /\ proc' = proc /\ inflight' = inflight
          /\ applied' = applied /\ delivered' = delivered /\ claimed' = claimed
      BY <1>5 DEF vars, world
    <2>2. Foundations'
      BY <2>1 DEF Foundations, Started
    <2>3. QED BY <1>1, <2>1, <2>2 DEF Still
  <1>6. QED BY <1>1, <1>2, <1>3, <1>4, <1>5 DEF Next

(* The coordinator keeps the promise of the ledger, for any processes and      *)
(* effects, with or without the lock, with and without orphaned acts: every    *)
(* step of recoverAndRun is one change of the ledger or none.                *)
THEOREM CoordinatorImplementsLedger == Spec => LedgerImplemented
  <1>1. Init => Foundations /\ Ledger!Init
    BY DEF Init, Foundations, Started, Idle, Absent, Ledger!Init
  <1>2. IInv /\ IInv' /\ Foundations /\ [Next]_vars => Foundations' /\ [Ledger!Next]_(Ledger!vars)
    BY NextSound
  <1>3. QED BY <1>1, <1>2, Inductive, PTL DEF Spec, LedgerImplemented, Ledger!Spec

-----------------------------------------------------------------------------
(* With the lock, and children that die with their process. *)

NoChild(p) == \A a \in inflight : a[1] # p

(* An invocation under way that is not waiting for a child has none. *)
LEMMA Childless ==
    ASSUME IInv, Children, NEW p \in Processes,
           \/ proc[p].pc \notin {"replay", "acting"}
           \/ <<p, proc[p].effect>> \notin inflight
    PROVE  NoChild(p)
  <1> SUFFICES ASSUME NEW a \in inflight, a[1] = p PROVE FALSE
    BY DEF NoChild
  <1>1. a = <<a[1], a[2]>>
    BY DEF IInv, TypeOK
  <1>2. proc[p].pc \in {"replay", "acting"} /\ proc[p].effect = a[2]
    BY DEF Children
  <1>3. QED BY <1>1, <1>2

(* What a step of p must respect for its effects not to be repeated. *)
Orderly(p) ==
    /\ NoChild(p) /\ Starts(p)
    /\ proc[p].pc # "idle"
    /\ proc'[p].pc \in {"readback", "act"} /\ proc'[p].purpose = "intent" =>
          proc'[p].effect \notin applied

LEMMA StepOrderly ==
    ASSUME IInv, Children, FirstAct, NEW p \in Processes, Step(p)
    PROVE  Orderly(p)
  <1>1. CASE Load(p)
    BY <1>1, Childless, LoadQuiet DEF Load, Orderly, Quiet, Starts
  <1>2. CASE CreateControllerAcquireIntent(p)
    BY <1>2, Childless, CreateCedes DEF CreateControllerAcquireIntent, Orderly, Starts
  <1>3. CASE Reconcile(p)
    BY <1>3, Childless, ReconcileQuiet DEF Reconcile, Orderly, Quiet
  <1>4. CASE Replay(p)
    BY <1>4, Childless, ReplayQuiet DEF Replay, Orderly, Quiet, Starts
  <1>5. CASE HandleRequest(p)
    BY <1>5, Childless, HandleRequestQuiet DEF HandleRequest, Orderly, Quiet, Starts
  <1>6. CASE Act(p)
    BY <1>6, Childless, ActCedes DEF Act, Orderly
  <1>7. CASE ActAnswer(p)
    BY <1>7, Childless, ActAnswerCedes DEF ActAnswer, Orderly, Starts
  <1>8. CASE Acknowledge(p)
    BY <1>8, Childless, AcknowledgeQuiet DEF Acknowledge, Orderly, Quiet, Starts
  <1>9. CASE Persist(p)
    BY <1>9, Childless, PersistCedes DEF Persist, Orderly, Starts
  <1>10. CASE Readback(p)
    <2>1. proc[p].pc = "readback" /\ NoChild(p)
      BY <1>10, Childless DEF Readback
    <2>2. QED BY <1>10, <2>1, ReadbackCedes DEF Orderly, Starts, FirstAct
  <1>11. QED BY <1>1, <1>2, <1>3, <1>4, <1>5, <1>6, <1>7, <1>8, <1>9, <1>10 DEF Step

LEMMA OrderlyKeeps ==
    ASSUME IInv, LockedInv, NEW p \in Processes, Safe(p), Orderly(p)
    PROVE  LockedInv'
  <1>0. /\ \A q \in Processes : q # p => proc'[q] = proc[q]
        /\ applied' = applied /\ inflight \subseteq Processes \X Effects
    BY Elsewhere DEF Safe, IInv, TypeOK
  <1>1. Alone'
    BY <1>0 DEF LockedInv, Alone, Holders, Orderly
  <1>2. Children'
    <2> SUFFICES ASSUME NEW a \in inflight'
                 PROVE  proc'[a[1]].pc \in {"replay", "acting"} /\ proc'[a[1]].effect = a[2]
      BY DEF Children
    <2>1. CASE a \in inflight
      <3>1. a[1] \in Processes /\ a[1] # p
        BY <1>0, <2>1 DEF Orderly, NoChild
      <3>2. QED BY <1>0, <2>1, <3>1 DEF LockedInv, Children
    <2>2. CASE a \notin inflight
      BY <2>2 DEF Orderly, Starts
    <2>3. QED BY <2>1, <2>2
  <1>3. FirstAct'
    BY <1>0 DEF LockedInv, FirstAct, Orderly
  <1>4. QED BY <1>1, <1>2, <1>3 DEF LockedInv

LEMMA NextLockedInv ==
    ASSUME Exclusive, ~ OrphanedActs, IInv, LockedInv, [Next]_vars
    PROVE  LockedInv'
  <1>1. ASSUME NEW p \in Processes, Invoke(p) PROVE LockedInv'
    <2>1. /\ Holders = {} /\ inflight' = inflight /\ applied' = applied
          /\ \A q \in Processes : q # p => proc'[q] = proc[q]
          /\ proc'[p].pc \notin {"readback", "act", "acting"}
      BY <1>1, StepSafe, Elsewhere, InvokeQuiet DEF Invoke, world, Quiet
    <2>2. inflight = {}
      <3> SUFFICES ASSUME NEW a \in inflight PROVE FALSE
        OBVIOUS
      <3>1. a[1] \in Processes /\ proc[a[1]].pc \in {"replay", "acting"}
        BY DEF LockedInv, Children, IInv, TypeOK
      <3>2. QED BY <2>1, <3>1 DEF Holders
    <2>3. QED BY <2>1, <2>2 DEF LockedInv, Alone, Children, FirstAct, Holders
  <1>2. ASSUME NEW p \in Processes, Step(p) PROVE LockedInv'
    BY <1>2, StepSafe, StepOrderly, OrderlyKeeps DEF LockedInv
  <1>3. ASSUME NEW p \in Processes, Crash(p) PROVE LockedInv'
    <2>1. /\ inflight' = {a \in inflight : a[1] # p} /\ applied' = applied
          /\ \A q \in Processes : q # p => proc'[q] = proc[q]
          /\ proc'[p].pc = "idle"
          /\ inflight \subseteq Processes \X Effects
      BY <1>3 DEF Crash, IInv, TypeOK, Idle
    <2>2. QED BY <2>1 DEF LockedInv, Alone, Children, FirstAct, Holders
  <1>4. ASSUME NEW p \in Processes, NEW e \in Effects, ActEnds(p, e) PROVE LockedInv'
    <2>1. <<p, e>> \in inflight /\ inflight' \subseteq inflight /\ proc' = proc
      BY <1>4 DEF ActEnds
    <2>2. proc[p].pc \in {"replay", "acting"}
      BY <2>1 DEF LockedInv, Children
    <2>3. \A q \in Processes : proc[q].pc \notin {"readback", "act"}
      BY <2>2 DEF LockedInv, Alone, Holders
    <2>4. QED BY <2>1, <2>3 DEF LockedInv, Alone, Children, FirstAct, Holders
  <1>5. ASSUME NEW e \in Slots, SlotWedged(e) PROVE LockedInv'
    BY <1>5 DEF SlotWedged, LockedInv, Alone, Children, FirstAct, Holders
  <1>6. CASE UNCHANGED vars
    BY <1>6 DEF vars, world, bounds, LockedInv, Alone, Children, FirstAct, Holders
  <1>7. QED BY <1>1, <1>2, <1>3, <1>4, <1>5, <1>6 DEF Next

(* With the operation lock, and acts that end with the process that started    *)
(* them, no act is attempted that took place or is under way: however often    *)
(* the run is crashed and resumed, the readback is the only licence to retry. *)
THEOREM NoActRepeated ==
    ASSUME Exclusive, ~ OrphanedActs
    PROVE  Spec => ActsNotRepeated
  <1> DEFINE Fresh == \A a \in inflight' \ inflight :
                          /\ a[2] \notin applied
                          /\ \A b \in inflight : b[2] # a[2]
  <1>1. Init => LockedInv
    BY DEF Init, LockedInv, Alone, Children, FirstAct, Holders, Idle
  <1>2. IInv /\ LockedInv /\ [Next]_vars => LockedInv'
    BY NextLockedInv
  <1>3. IInv /\ LockedInv /\ [Next]_vars => [Fresh]_vars
    <2> SUFFICES ASSUME IInv, LockedInv, Next PROVE Fresh
      BY DEF vars
    <2>1. ASSUME NEW p \in Processes, Step(p) PROVE Fresh
      <3> SUFFICES ASSUME NEW a \in inflight' \ inflight
                   PROVE  a[2] \notin applied /\ \A b \in inflight : b[2] # a[2]
        OBVIOUS
      <3>1. Orderly(p)
        BY <2>1, StepOrderly DEF LockedInv
      <3>2. PICK e \in Effects :
                /\ inflight' = inflight \cup {<<p, e>>}
                /\ e \notin applied \/ (proc[p].pc = "act" /\ proc[p].effect = e)
        BY <3>1 DEF Orderly, Starts
      <3>3. a = <<p, e>>
        BY <3>2
      <3>4. e \notin applied
        <4>1. CASE proc[p].pc = "act" /\ proc[p].effect = e
          BY <4>1, StepSafe, Before DEF LockedInv, FirstAct, Legit
        <4>2. QED BY <3>2, <4>1
      <3>5. inflight = {}
        <4> SUFFICES ASSUME NEW b \in inflight PROVE FALSE
          OBVIOUS
        <4>1. b[1] \in Processes /\ proc[b[1]].pc \in {"replay", "acting"}
          BY DEF LockedInv, Children, IInv, TypeOK
        <4>2. b[1] = p
          BY <3>1, <4>1 DEF LockedInv, Alone, Holders, Orderly
        <4>3. QED BY <3>1, <4>2 DEF Orderly, NoChild
      <3>6. QED BY <3>3, <3>4, <3>5
    <2>2. ASSUME NEW p \in Processes, Invoke(p) \/ Crash(p) PROVE Fresh
      BY <2>2, ~ OrphanedActs DEF Invoke, Crash, world
    <2>3. ASSUME NEW p \in Processes, NEW e \in Effects, ActEnds(p, e) PROVE Fresh
      BY <2>3 DEF ActEnds
    <2>4. ASSUME NEW e \in Slots, SlotWedged(e) PROVE Fresh
      BY <2>4 DEF SlotWedged
    <2>5. QED BY <2>1, <2>2, <2>3, <2>4 DEF Next
  <1>4. QED BY <1>1, <1>2, <1>3, Inductive, PTL DEF Spec, ActsNotRepeated

=============================================================================

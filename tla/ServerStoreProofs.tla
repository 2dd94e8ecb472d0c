------------------------- MODULE ServerStoreProofs -------------------------
(***************************************************************************)
(* The shared-server store for any set of controllers and any number of     *)
(* abandoned writes, where an abandoned slot command is over before the      *)
(* next one is sent: it does what TakingTurns promises, and what a caller    *)
(* was told is and stays so.                                                *)
(*                                                                          *)
(* The argument.  A root only moves forward, so a write whose predicate was   *)
(* read on an older root never commits (Behind), and while a command works   *)
(* on the root it loaded at most one write can overtake it (Loaded).  The     *)
(* slot leaves a run only through its release command, which is under way    *)
(* only while its root is closing (Commands): before that, a run that is      *)
(* owned holds the slot (Held), and a write begun under the slot, which never *)
(* checks it again, still has it when it commits (Warranted).                *)
(* A claim is not checked at all when it lands, but while the export is       *)
(* unclaimed the root of a run whose claim is under way still says so         *)
(* (Asking), and so holds the slot.                                          *)
(***************************************************************************)
EXTENDS ServerStore, TLAPS

(* How far a root has come. *)
Rank(r) ==
    (CASE r.phase = "absent"   -> 0 [] r.phase = "fresh"    -> 2
       [] r.phase = "intent"   -> 4 [] r.phase = "owned"    -> 6
       [] r.phase = "claiming" -> 8 [] r.phase = "imported" -> 10
       [] r.phase = "refused"  -> 12 [] r.phase = "closing"  -> 14
       [] r.phase = "released" -> 16) + (IF r.noted THEN 1 ELSE 0)

(* The writes a command may send over the root a. *)
Follows(a, b) ==
    \/ a.phase \in {"absent", "fresh"} /\ b = At("intent")
    \/ a.phase = "intent" /\ b = At("owned")
    \/ a.phase = "owned" /\ b \in {At("claiming"), At("closing")}
    \/ a.phase = "claiming" /\ b \in {At("imported"), At("refused")}
    \/ a.phase \in {"imported", "refused"} /\ b = At("closing")
    \/ /\ a.phase \in Transitions /\ ~ a.noted
       /\ b.phase = a.phase /\ b.noted

Held == {"owned", "claiming", "imported", "refused"}

WritesOf(c) == {e \in sent : e \in Writes /\ e.run = c}
CommandsOf(c) == {e \in sent : e \in SlotCommands /\ e.run = c}
ClaimsOf(c) == {e \in sent : e \in Claims /\ e.run = c}

(* No write is under way that could still commit on the root of c. *)
Settled(c) == \A e \in WritesOf(c) : e.from # root[c]

(* What the slot and the claim must be for run c to go from a to b. *)
Warranted(c, a, b) ==
    /\ b.phase \in Held \cup {"closing"} /\ a.phase # b.phase => slot = c
    /\ b.phase = "imported" => claim = c
    /\ b.phase = "refused" => claim \notin {None, c}

WritesInv(c) ==
    \A e \in WritesOf(c) :
        /\ Follows(e.from, e.to)
        /\ Rank(e.from) <= Rank(root[c])
        /\ e.from = root[c] => Warranted(c, e.from, e.to)
        /\ e.live => proc[c].pc = "commit" /\ e.from = proc[c].seen
        /\ \A f \in WritesOf(c) : e.live /\ f.live => f = e

(* A run has one slot command under way: an acquire that comes too late finds *)
(* the slot its own, a release belongs to a closing root.                    *)
CommandsInv(c) ==
    /\ \A e \in CommandsOf(c) :
        /\ e.command = "acquire" => root[c].phase = "intent" \/ slot = c
        /\ e.command = "release" => root[c].phase = "closing"
        /\ e.live => proc[c].pc = "command"
        /\ \A f \in CommandsOf(c) : f = e
    /\ \A e \in ClaimsOf(c) :
        /\ e.live => proc[c].pc = "claim commit"
        /\ \A f \in ClaimsOf(c) : e.live /\ f.live => f = e

RootInv(c) ==
    /\ root[c].phase \in Held => slot = c
    /\ root[c].phase # "released"

(* A command in state q works on the root of c, or on the one before it. *)
Current(c, q) ==
    q.pc \notin {"idle", "discover"} =>
        q.seen = root[c] \/ (Follows(q.seen, root[c]) /\ Settled(c))

(* What its caller was told, and on what grounds. *)
Told(c, q) ==
    /\ q.told \notin {"nothing", "applied"} => q.pc = "loaded"
    /\ q.told = "applied" => q.seen = root[c] /\ Settled(c)
    /\ q.told = "acquired" => q.seen.phase = "intent" /\ slot = c
    /\ q.told = "released" => q.seen.phase = "closing" /\ slot # c
    /\ q.told = "imported" => q.seen.phase = "claiming" /\ claim = c
    /\ q.told = "refused" => q.seen.phase = "claiming" /\ claim \notin {None, c}

(* What it is about to do. *)
Stage(c, q) ==
    /\ q.pc \in {"execute", "command", "completed", "rejected"} => q.seen.phase \in Transitions
    /\ q.pc \in {"claim", "claim commit", "claim reread"} => q.seen.phase = "claiming"
    /\ q.pc = "readback" => q.seen # root[c]
    /\ q.pc = "write" => q.told = "nothing"
    /\ q.pc = "write" =>
          \/ /\ Follows(q.seen, q.next)
             /\ q.next = At("imported") => claim = c
             /\ q.next = At("refused") => claim \notin {None, c}
          \/ q.next = At("released") /\ q.seen.phase = "closing" /\ slot # c

Working(c, q) == Current(c, q) /\ Told(c, q) /\ Stage(c, q)

RunInv(c) == WritesInv(c) /\ CommandsInv(c) /\ RootInv(c) /\ Working(c, proc[c])

IInv == TypeOK /\ \A c \in Controllers : RunInv(c)
-----------------------------------------------------------------------------
(* Roots and messages. *)

CommandStates == [pc : Pcs, saw : Controllers \cup {None}, seen : Roots,
                  next : Roots, told : Answers]

LEMMA Distinct ==
    /\ \A e \in Writes : e \notin SlotCommands /\ e \notin Claims
    /\ \A e \in SlotCommands : e \notin Writes /\ e \notin Claims
    /\ \A e \in Claims : e \notin Writes /\ e \notin SlotCommands
  BY DEF Writes, SlotCommands, Claims

LEMMA AtTyped == \A phase \in Phases : At(phase) \in Roots
  BY DEF At, Roots

LEMMA AtPhase == \A phase : At(phase).phase = phase
  BY DEF At

LEMMA FollowsClaim ==
    ASSUME NEW a, NEW b, Follows(a, b), NEW phase \in {"imported", "refused"},
           b.phase = phase
    PROVE  b = At(phase)
  BY AtPhase DEF Follows, Transitions

LEMMA NotedTyped ==
    ASSUME NEW r \in Roots
    PROVE  /\ [r EXCEPT !.noted = TRUE] \in Roots
           /\ [r EXCEPT !.noted = TRUE].noted
           /\ [r EXCEPT !.noted = TRUE].phase = r.phase
  BY DEF Roots

LEMMA RankTyped == \A r \in Roots : Rank(r) \in Nat
  BY DEF Roots, Phases, Rank

LEMMA FollowsAdvances == \A a, b \in Roots : Follows(a, b) => Rank(a) < Rank(b)
  BY DEF Roots, Phases, Rank, Follows, At, Transitions

LEMMA IdleTyped == Idle \in CommandStates
  BY DEF Idle, CommandStates, Pcs, Answers, At, Roots, Phases

LEMMA Typed ==
    ASSUME IInv, NEW c \in Controllers
    PROVE  /\ slot \in Controllers \cup {None} /\ claim \in Controllers \cup {None}
           /\ root[c] \in Roots /\ proc[c] \in CommandStates
           /\ \A e \in WritesOf(c) : e.from \in Roots /\ e.to \in Roots
           /\ c # None
  BY ServerAssumption DEF IInv, TypeOK, CommandStates, WritesOf, Writes

LEMMA TruthTold == IInv => ToldIsTrue
  BY DEF IInv, TypeOK, RunInv, Working, Told, ToldIsTrue, Answers

-----------------------------------------------------------------------------
(* What a step leaves alone. *)

(* A step aside of run d: it may take the slot from another run or give it to  *)
(* one, claim an unclaimed export, and take messages away.                   *)
Aside(d) ==
    /\ root'[d] = root[d] /\ proc'[d] = proc[d]
    /\ slot' = d <=> slot = d
    /\ claim # None => claim' = claim
    /\ \A e \in sent' : e.run = d => e \in sent

LEMMA AsideKeeps ==
    ASSUME IInv, NEW d \in Controllers, Aside(d)
    PROVE  RunInv(d)'
  <1>0. RunInv(d) /\ d # None
    BY Typed DEF IInv
  <1>1. WritesOf(d)' \subseteq WritesOf(d)
    BY DEF Aside, WritesOf
  <1>2. CommandsOf(d)' \subseteq CommandsOf(d) /\ ClaimsOf(d)' \subseteq ClaimsOf(d)
    BY DEF Aside, CommandsOf, ClaimsOf
  <1>3. WritesInv(d)'
    BY <1>0, <1>1 DEF RunInv, WritesInv, Aside, Warranted
  <1>4. CommandsInv(d)'
    BY <1>0, <1>2 DEF RunInv, CommandsInv, Aside
  <1>5. RootInv(d)'
    BY <1>0 DEF RunInv, RootInv, Aside
  <1>6. Settled(d) => Settled(d)'
    BY <1>1 DEF Settled, Aside
  <1>7. Working(d, proc[d])'
    BY <1>0, <1>6 DEF RunInv, Working, Current, Told, Stage, Aside
  <1>8. QED BY <1>3, <1>4, <1>5, <1>7 DEF RunInv

(* A step in the command of c alone. *)
LEMMA ProceedKeeps ==
    ASSUME IInv, NEW c \in Controllers, NEW q \in CommandStates,
           proc' = [proc EXCEPT ![c] = q], UNCHANGED <<slot, root, claim, sent>>,
           proc[c].pc \notin {"commit", "command", "claim commit"},
           Working(c, q)
    PROVE  IInv'
  <1>0. proc'[c] = q /\ \A d \in Controllers : d # c => proc'[d] = proc[d]
    BY DEF IInv, TypeOK
  <1>1. TypeOK'
    BY DEF IInv, TypeOK, CommandStates
  <1>2. ASSUME NEW d \in Controllers, d # c PROVE RunInv(d)'
    BY <1>0, <1>2, AsideKeeps DEF Aside
  <1>3. RunInv(c)'
    <2>0. RunInv(c) /\ WritesOf(c)' = WritesOf(c) /\ CommandsOf(c)' = CommandsOf(c)
          /\ ClaimsOf(c)' = ClaimsOf(c)
      BY DEF IInv, WritesOf, CommandsOf, ClaimsOf
    <2>1. WritesInv(c)'
      BY <2>0 DEF RunInv, WritesInv, Warranted
    <2>2. CommandsInv(c)' /\ RootInv(c)'
      BY <2>0 DEF RunInv, CommandsInv, RootInv
    <2>3. Working(c, proc[c])'
      BY <1>0, <2>0 DEF Working, Current, Told, Stage, Settled
    <2>4. QED BY <2>1, <2>2, <2>3 DEF RunInv
  <1>4. QED BY <1>1, <1>2, <1>3 DEF IInv

(* What is known of a command that may settle something. *)
LEMMA Known ==
    ASSUME IInv, NEW c \in Controllers
    PROVE  /\ WritesInv(c) /\ CommandsInv(c) /\ RootInv(c)
           /\ Current(c, proc[c]) /\ Told(c, proc[c]) /\ Stage(c, proc[c])
           /\ proc[c] \in CommandStates /\ root[c] \in Roots
           /\ proc \in [Controllers -> CommandStates]
  BY DEF IInv, RunInv, Working, TypeOK, CommandStates

LEMMA GotoTyped ==
    ASSUME IInv, NEW c \in Controllers, NEW pc \in Pcs, Goto(c, pc)
    PROVE  /\ proc' \in [Controllers -> CommandStates] /\ proc'[c].pc = pc
           /\ proc'[c].seen = proc[c].seen /\ proc'[c].told = proc[c].told
           /\ proc'[c].next = proc[c].next
           /\ \A d \in Controllers : d # c => proc'[d] = proc[d]
  BY Known DEF Goto, CommandStates

LEMMA DiscoverKeeps ==
    ASSUME IInv, NEW c \in Controllers, Discover(c)
    PROVE  IInv'
  <1> USE Known
  <1> DEFINE q == [proc[c] EXCEPT !.pc = "discover", !.saw = slot]
  <1>1. q \in CommandStates /\ proc' = [proc EXCEPT ![c] = q]
    BY Typed DEF Discover, CommandStates, Pcs
  <1>2. proc[c].pc = "idle"
    BY DEF Discover, Is
  <1>3. Working(c, q)
    BY ZenonT(60), <1>2 DEF Working, Current, Told, Stage, CommandStates
  <1>4. QED BY <1>1, <1>2, <1>3, ProceedKeeps DEF Discover

LEMMA LoadKeeps ==
    ASSUME IInv, NEW c \in Controllers, Load(c)
    PROVE  IInv'
  <1> DEFINE q == [Idle EXCEPT !.pc = "loaded", !.seen = root[c]]
  <1>1. q \in CommandStates /\ proc' = [proc EXCEPT ![c] = q]
    BY Known, IdleTyped DEF Load, CommandStates, Pcs
  <1>2. Working(c, q)
    BY DEF Working, Current, Told, Stage, Idle
  <1>3. QED BY <1>1, <1>2, ProceedKeeps DEF Load, Is

(* A write is submitted from a command at rest. *)
LEMMA SubmitKeeps ==
    ASSUME IInv, NEW c \in Controllers, NEW next \in Roots, Submit(c, next),
           proc[c].pc \in {"loaded", "rejected"},
           \/ /\ Follows(proc[c].seen, next)
              /\ next = At("imported") => claim = c
              /\ next = At("refused") => claim \notin {None, c}
           \/ next = At("released") /\ proc[c].seen.phase = "closing" /\ slot # c
    PROVE  IInv'
  <1> DEFINE q == [proc[c] EXCEPT !.pc = "write", !.next = next, !.told = "nothing"]
  <1>1. q \in CommandStates /\ proc' = [proc EXCEPT ![c] = q]
    BY Known DEF Submit, CommandStates, Pcs, Answers
  <1>2. /\ q.pc = "write" /\ q.next = next /\ q.told = "nothing"
        /\ q.seen = proc[c].seen
    BY Known DEF CommandStates
  <1>3. Working(c, q)
    BY <1>2, Known DEF Working, Current, Told, Stage
  <1>4. QED BY <1>1, <1>3, ProceedKeeps DEF Submit

LEMMA PlanKeeps ==
    ASSUME IInv, NEW c \in Controllers,
           PlanAcquire(c) \/ PlanRelease(c) \/ PlanClaim(c) \/ Observe(c) \/ Unsure(c)
    PROVE  IInv'
  <1>0. \A phase \in Phases : At(phase).phase = phase
    BY DEF At
  <1>1. CASE PlanAcquire(c)
    <2>1. Follows(proc[c].seen, At("intent")) /\ At("intent") \in Roots
      BY <1>1, AtTyped DEF PlanAcquire, Follows, Phases
    <2>2. At("intent") # At("imported") /\ At("intent") # At("refused")
      BY DEF At
    <2>3. QED BY <1>1, <2>1, <2>2, SubmitKeeps DEF PlanAcquire, Unsettled, Is
  <1>2. CASE PlanRelease(c)
    <2>1. Follows(proc[c].seen, At("closing")) /\ At("closing") \in Roots
      BY <1>2, AtTyped DEF PlanRelease, Follows, Phases
    <2>2. At("closing") # At("imported") /\ At("closing") # At("refused")
      BY DEF At
    <2>3. QED BY <1>2, <2>1, <2>2, SubmitKeeps DEF PlanRelease, Unsettled, Is
  <1>3. CASE PlanClaim(c)
    <2>1. Follows(proc[c].seen, At("claiming")) /\ At("claiming") \in Roots
      BY <1>3, AtTyped DEF PlanClaim, Follows, Phases
    <2>2. At("claiming") # At("imported") /\ At("claiming") # At("refused")
      BY DEF At
    <2>3. QED BY <1>3, <2>1, <2>2, SubmitKeeps DEF PlanClaim, Unsettled, Is
  <1>4. CASE Observe(c)
    <2> DEFINE next == At(IF proc[c].told = "acquired" THEN "owned" ELSE proc[c].told)
    <2>1. proc[c].pc = "loaded" /\ Submit(c, next)
          /\ proc[c].told \in {"acquired", "released", "imported", "refused"}
      BY <1>4 DEF Observe, Is
    <2>2. next \in Roots
      BY <2>1, AtTyped DEF Phases
    <2>3. \/ /\ Follows(proc[c].seen, next)
             /\ next = At("imported") => claim = c
             /\ next = At("refused") => claim \notin {None, c}
          \/ next = At("released") /\ proc[c].seen.phase = "closing" /\ slot # c
      BY <2>1, Known DEF Told, Follows, At
    <2>4. QED BY <2>1, <2>2, <2>3, SubmitKeeps
  <1>5. CASE Unsure(c)
    <2> DEFINE next == [proc[c].seen EXCEPT !.noted = TRUE]
    <2>1. proc[c].pc \in {"loaded", "rejected"} /\ Submit(c, next)
          /\ proc[c].seen.phase \in Transitions /\ ~ proc[c].seen.noted
      BY <1>5 DEF Unsure, Unsettled, Is
    <2>2. next \in Roots /\ next.noted /\ next.phase = proc[c].seen.phase
      BY Known, NotedTyped DEF CommandStates
    <2>3. Follows(proc[c].seen, next)
      BY <2>1, <2>2 DEF Follows
    <2>4. next # At("imported") /\ next # At("refused")
      BY <2>2 DEF At
    <2>5. QED BY <2>1, <2>2, <2>3, <2>4, SubmitKeeps
  <1>6. QED BY <1>1, <1>2, <1>3, <1>4, <1>5

(* Any other step in the command of c alone, which then has nothing to tell. *)
LEMMA MoveKeeps ==
    ASSUME IInv, NEW c \in Controllers, NEW pc \in Pcs, Goto(c, pc),
           UNCHANGED <<slot, root, claim, sent>>,
           proc[c].pc \notin {"idle", "discover", "commit", "command", "claim commit"},
           proc[c].told \in {"nothing", "applied"},
           pc \in {"stale", "execute", "claim", "claim reread"},
           pc = "execute" => proc[c].seen.phase \in Transitions,
           pc \in {"claim", "claim reread"} => proc[c].seen.phase = "claiming"
    PROVE  IInv'
  <1> DEFINE q == [proc[c] EXCEPT !.pc = pc]
  <1>1. q \in CommandStates /\ proc' = [proc EXCEPT ![c] = q]
    BY Known DEF Goto, CommandStates
  <1>2. q.pc = pc /\ q.told = proc[c].told /\ q.seen = proc[c].seen
    BY Known DEF CommandStates
  <1>3. Working(c, q)
    BY <1>2, Known DEF Working, Current, Told, Stage
  <1>4. QED BY <1>1, <1>3, ProceedKeeps

LEMMA TellKeeps ==
    ASSUME IInv, NEW c \in Controllers, NEW answer \in Answers, Tell(c, answer),
           UNCHANGED <<slot, root, claim, sent>>,
           proc[c].pc \notin {"idle", "discover", "commit", "command", "claim commit"},
           \/ answer = "acquired" /\ proc[c].seen.phase = "intent" /\ slot = c
           \/ answer = "released" /\ proc[c].seen.phase = "closing" /\ slot # c
           \/ answer = "imported" /\ proc[c].seen.phase = "claiming" /\ claim = c
           \/ answer = "refused" /\ proc[c].seen.phase = "claiming" /\ claim \notin {None, c}
    PROVE  IInv'
  <1> DEFINE q == [proc[c] EXCEPT !.pc = "loaded", !.told = answer]
  <1>1. q \in CommandStates /\ proc' = [proc EXCEPT ![c] = q]
    BY Known DEF Tell, CommandStates, Pcs
  <1>2. q.pc = "loaded" /\ q.told = answer /\ q.seen = proc[c].seen
    BY Known DEF CommandStates
  <1>3. Working(c, q)
    BY <1>2, Known DEF Working, Current, Told, Stage
  <1>4. QED BY <1>1, <1>3, ProceedKeeps

LEMMA ReadbackKeeps ==
    ASSUME IInv, NEW c \in Controllers, Readback(c)
    PROVE  IInv'
  <1> DEFINE q == [Idle EXCEPT !.pc = "loaded", !.seen = root[c], !.told = "applied"]
  <1>1. q \in CommandStates /\ proc' = [proc EXCEPT ![c] = q]
    BY Known, IdleTyped DEF Readback, CommandStates, Pcs, Answers
  <1>2. Settled(c) /\ proc[c].pc = "readback"
    BY Known DEF Readback, Is, Current, Stage
  <1>3. Working(c, q)
    BY <1>2 DEF Working, Current, Told, Stage, Idle
  <1>4. QED BY <1>1, <1>2, <1>3, ProceedKeeps DEF Readback

LEMMA ReconcileKeeps ==
    ASSUME IInv, NEW c \in Controllers, Reconcile(c)
    PROVE  IInv'
  <1>0. /\ proc[c].pc = "loaded" /\ proc[c].told \in {"nothing", "applied"}
        /\ proc[c].seen.phase \in Transitions /\ c # None
    BY Typed DEF Reconcile, Unsettled, Is
  <1>1. CASE slot = After(c) /\ Tell(c, Done(c))
    <2>1. CASE proc[c].seen.phase = "intent"
      BY <1>0, <1>1, <2>1, TellKeeps DEF After, Done, Kind, Answers, Reconcile
    <2>2. CASE proc[c].seen.phase = "closing"
      BY <1>0, <1>1, <2>2, TellKeeps DEF After, Done, Kind, Answers, Reconcile
    <2>3. QED BY <1>0, <2>1, <2>2 DEF Transitions
  <1>2. CASE Goto(c, "execute")
    BY <1>0, <1>2, MoveKeeps DEF Pcs, Reconcile
  <1>3. QED BY <1>1, <1>2 DEF Reconcile

LEMMA SlotReadbackKeeps ==
    ASSUME IInv, NEW c \in Controllers, SlotReadback(c)
    PROVE  IInv'
  <1>0. /\ proc[c].pc = "completed" /\ proc[c].seen.phase \in Transitions /\ c # None
        /\ slot = After(c) /\ Tell(c, Done(c))
    BY Typed, Known DEF SlotReadback, Is, Stage
  <1>1. CASE proc[c].seen.phase = "intent"
    BY <1>0, <1>1, TellKeeps DEF After, Done, Kind, Answers, SlotReadback
  <1>2. CASE proc[c].seen.phase = "closing"
    BY <1>0, <1>2, TellKeeps DEF After, Done, Kind, Answers, SlotReadback
  <1>3. QED BY <1>0, <1>1, <1>2 DEF Transitions

LEMMA InspectClaimKeeps ==
    ASSUME IInv, NEW c \in Controllers, InspectClaim(c)
    PROVE  IInv'
  <1>0. /\ proc[c].pc = "loaded" /\ proc[c].told \in {"nothing", "applied"}
        /\ proc[c].seen.phase = "claiming" /\ c # None
    BY Typed DEF InspectClaim, Unsettled, Is
  <1>1. CASE Goto(c, "claim")
    BY <1>0, <1>1, MoveKeeps DEF Pcs, InspectClaim
  <1>2. CASE claim # None /\ Tell(c, Classified(c))
    <2>1. CASE claim = c
      BY <1>0, <1>2, <2>1, TellKeeps DEF Classified, Answers, InspectClaim
    <2>2. CASE claim # c
      BY <1>0, <1>2, <2>2, TellKeeps DEF Classified, Answers, InspectClaim
    <2>3. QED BY <2>1, <2>2
  <1>3. QED BY <1>1, <1>2 DEF InspectClaim

LEMMA RereadClaimKeeps ==
    ASSUME IInv, NEW c \in Controllers, RereadClaim(c)
    PROVE  IInv'
  <1>0. /\ proc[c].pc = "claim reread" /\ proc[c].seen.phase = "claiming"
        /\ claim # None /\ Tell(c, Classified(c))
    BY Known DEF RereadClaim, Is, Stage
  <1>1. CASE claim = c
    BY <1>0, <1>1, TellKeeps DEF Classified, Answers, RereadClaim
  <1>2. CASE claim # c
    BY <1>0, <1>2, TellKeeps DEF Classified, Answers, RereadClaim
  <1>3. QED BY <1>1, <1>2

-----------------------------------------------------------------------------
(* Messages sent. *)

(* A command sends m and waits. *)
LEMMA SendTyped ==
    ASSUME IInv, NEW c \in Controllers, NEW m \in Writes \cup SlotCommands \cup Claims,
           m.run = c, sent' = sent \cup {m}, NEW pc \in Pcs, Goto(c, pc),
           UNCHANGED <<slot, root, claim>>
    PROVE  /\ TypeOK'
           /\ \A d \in Controllers : d # c => RunInv(d)'
           /\ proc'[c] \in CommandStates /\ proc'[c].pc = pc
           /\ proc'[c].told = proc[c].told /\ proc'[c].seen = proc[c].seen
           /\ WritesOf(c) \subseteq WritesOf(c)' /\ WritesOf(c)' \subseteq WritesOf(c) \cup {m}
           /\ CommandsOf(c)' \subseteq CommandsOf(c) \cup {m}
           /\ ClaimsOf(c)' \subseteq ClaimsOf(c) \cup {m}
           /\ m \notin Writes => WritesOf(c)' = WritesOf(c)
           /\ m \notin SlotCommands => CommandsOf(c)' = CommandsOf(c)
           /\ m \notin Claims => ClaimsOf(c)' = ClaimsOf(c)
  <1>1. TypeOK'
    BY DEF IInv, TypeOK, Goto
  <1>2. \A d \in Controllers : d # c => RunInv(d)'
    <2> SUFFICES ASSUME NEW d \in Controllers, d # c PROVE RunInv(d)'
      OBVIOUS
    <2>1. Aside(d)
      BY DEF Aside, Goto, IInv, TypeOK
    <2>2. QED BY <2>1, AsideKeeps
  <1>3. /\ proc'[c] \in CommandStates /\ proc'[c].pc = pc
        /\ proc'[c].told = proc[c].told /\ proc'[c].seen = proc[c].seen
    BY Known DEF Goto, CommandStates
  <1>4. QED BY <1>1, <1>2, <1>3 DEF WritesOf, CommandsOf, ClaimsOf

LEMMA BeginKeeps ==
    ASSUME IInv, NEW c \in Controllers, Begin(c)
    PROVE  IInv'
  <1> USE Known
  <1>0. proc[c].pc = "write" /\ proc[c].told \in {"nothing", "applied"}
    BY DEF Begin, Is, Told, CommandStates
  <1>1. CASE ~ Eligible(c, proc[c].next)
    BY <1>0, <1>1, MoveKeeps DEF Begin, Pcs
  <1>2. CASE Eligible(c, proc[c].next)
    <2> DEFINE q == proc[c]
               m == [run |-> c, from |-> root[c], to |-> q.next, live |-> TRUE]
    <2>1. /\ sent' = sent \cup {m} /\ Goto(c, "commit") /\ UNCHANGED <<slot, root, claim>>
          /\ root[c] = q.seen
          /\ q.next # At("intent") => slot = c
      BY <1>2 DEF Begin, Eligible
    <2>2. m \in Writes /\ m.run = c /\ "commit" \in Pcs
      BY DEF Writes, CommandStates, Pcs
    <2>3. m \notin SlotCommands /\ m \notin Claims
      BY <2>2, Distinct
    <2> HIDE DEF m
    <2>4. /\ TypeOK' /\ \A d \in Controllers : d # c => RunInv(d)'
          /\ proc'[c].pc = "commit" /\ proc'[c].seen = q.seen /\ proc'[c].told = q.told
          /\ WritesOf(c)' \subseteq WritesOf(c) \cup {m}
          /\ CommandsOf(c)' = CommandsOf(c) /\ ClaimsOf(c)' = ClaimsOf(c)
      BY <2>1, <2>2, <2>3, SendTyped
    <2>5. /\ Follows(q.seen, q.next)
          /\ q.next = At("imported") => claim = c
          /\ q.next = At("refused") => claim \notin {None, c}
      <3>1. q.next = At("released") => slot = c
        BY <2>1 DEF At
      <3>2. QED BY <1>0, <3>1 DEF Stage
    <2>6. Warranted(c, root[c], q.next)
      <3>1. q.next # At("intent") => slot = c
        BY <2>1
      <3>2. q.next = At("intent") => q.next.phase = "intent"
        BY DEF At
      <3>3. q.next.phase = "imported" => q.next = At("imported")
        BY <2>5, FollowsClaim
      <3>4. q.next.phase = "refused" => q.next = At("refused")
        BY <2>5, FollowsClaim
      <3>5. QED BY <2>5, <3>1, <3>2, <3>3, <3>4 DEF Warranted, Held
    <2>7. WritesInv(c)'
      <3> SUFFICES ASSUME NEW e \in WritesOf(c)'
                   PROVE  /\ Follows(e.from, e.to)
                          /\ Rank(e.from) <= Rank(root[c])
                          /\ e.from = root[c] => Warranted(c, e.from, e.to)
                          /\ e.live => e.from = q.seen
                          /\ e.live => e = m
        BY <2>1, <2>4 DEF WritesInv, Warranted
      <3>1. CASE e \in WritesOf(c)
        BY <1>0, <3>1 DEF WritesInv
      <3>2. CASE e = m
        <4>1. e.from = root[c] /\ e.to = q.next
          BY <3>2 DEF m
        <4>2. Rank(e.from) <= Rank(root[c])
          BY <4>1, RankTyped
        <4>3. QED BY <2>1, <2>5, <2>6, <3>2, <4>1, <4>2
      <3>3. QED BY <2>4, <3>1, <3>2
    <2>8. CommandsInv(c)'
      <3>1. \A e \in CommandsOf(c) \cup ClaimsOf(c) : ~ e.live
        BY <1>0 DEF CommandsInv
      <3>2. QED BY ZenonT(60), <2>1, <2>4, <3>1 DEF CommandsInv
    <2>9. RootInv(c)'
      BY <2>1 DEF RootInv
    <2>10. Working(c, proc[c])'
      <3>1. q.told = "nothing"
        BY <1>0 DEF Stage
      <3>2. QED BY <2>1, <2>4, <3>1 DEF Working, Current, Told, Stage
    <2>11. QED BY <2>4, <2>7, <2>8, <2>9, <2>10 DEF RunInv, IInv
  <1>3. QED BY <1>1, <1>2

(* A root being served by the command that acts on it. *)
LEMMA ActsInOrder ==
    ASSUME IInv, NEW c \in Controllers, proc[c].pc \notin {"idle", "discover"}
    PROVE  /\ proc[c].seen.phase = "intent" =>
                root[c].phase = "intent" \/ (root[c].phase = "owned" /\ slot = c)
           /\ proc[c].seen.phase = "closing" => root[c].phase = "closing"
  <1>1. proc[c].seen = root[c] \/ Follows(proc[c].seen, root[c])
    BY Known DEF Current
  <1>2. proc[c].seen.phase = "intent" => root[c].phase \in {"intent", "owned"}
    BY <1>1, AtPhase DEF Follows, Transitions
  <1>3. proc[c].seen.phase = "closing" => root[c].phase = "closing"
    BY <1>1, AtPhase DEF Follows, Transitions
  <1>4. QED BY <1>2, <1>3, Known DEF RootInv, Held

LEMMA ExecuteKeeps ==
    ASSUME ~ Stragglers, IInv, NEW c \in Controllers, Execute(c)
    PROVE  IInv'
  <1> USE Known
  <1> DEFINE q == proc[c]
             m == [run |-> c, command |-> Kind(c), live |-> TRUE]
  <1>1. /\ sent' = sent \cup {m} /\ Goto(c, "command") /\ UNCHANGED <<slot, root, claim>>
        /\ q.pc \in {"execute", "loaded"} /\ q.told \in {"nothing", "applied"}
        /\ q.seen.phase \in Transitions /\ CommandsOf(c) = {}
    <2>1. sent' = sent \cup {m} /\ Goto(c, "command") /\ UNCHANGED <<slot, root, claim>>
      BY DEF Execute
    <2>2. CommandsOf(c) = {}
      BY DEF Execute, CommandsOf
    <2>3. CASE Is(c, "execute")
      BY <2>1, <2>2, <2>3 DEF Is, Stage, Told, CommandStates
    <2>4. CASE /\ Is(c, "loaded") /\ q.told = "applied"
               /\ q.seen \in {At("intent"), At("closing")}
      <3>1. q.seen.phase \in Transitions
        BY <2>4, AtPhase DEF Transitions
      <3>2. QED BY <2>1, <2>2, <2>4, <3>1 DEF Is
    <2>5. QED BY <2>3, <2>4 DEF Execute
  <1>2. m \in SlotCommands /\ m.run = c /\ "command" \in Pcs
    BY DEF SlotCommands, Kind, Pcs
  <1>3. m \notin Writes /\ m \notin Claims
    BY <1>2, Distinct
  <1>4. /\ m.command = "acquire" => root[c].phase = "intent" \/ slot = c
        /\ m.command = "release" => root[c].phase = "closing"
    BY <1>1, ActsInOrder DEF Kind, Transitions
  <1> HIDE DEF m
  <1>5. /\ TypeOK' /\ \A d \in Controllers : d # c => RunInv(d)'
        /\ proc'[c].pc = "command" /\ proc'[c].seen = q.seen /\ proc'[c].told = q.told
        /\ CommandsOf(c)' \subseteq {m}
        /\ WritesOf(c)' = WritesOf(c) /\ ClaimsOf(c)' = ClaimsOf(c)
    BY <1>1, <1>2, <1>3, SendTyped
  <1>6. WritesInv(c)'
    BY <1>1, <1>5 DEF WritesInv, Warranted
  <1>7. CommandsInv(c)'
    <2>1. \A e \in ClaimsOf(c) : ~ e.live
      BY <1>1 DEF CommandsInv
    <2>2. QED BY <1>1, <1>4, <1>5, <2>1 DEF CommandsInv
  <1>8. RootInv(c)'
    BY <1>1 DEF RootInv
  <1>9. Working(c, proc[c])'
    <2>1. Settled(c) => Settled(c)'
      BY <1>1, <1>5 DEF Settled
    <2>2. QED BY <1>1, <1>5, <2>1 DEF Working, Current, Told, Stage
  <1>10. QED BY <1>5, <1>6, <1>7, <1>8, <1>9 DEF RunInv, IInv

LEMMA BeginClaimKeeps ==
    ASSUME IInv, NEW c \in Controllers, BeginClaim(c)
    PROVE  IInv'
  <1> USE Known
  <1> DEFINE q == proc[c]
             m == [run |-> c, export |-> "claim", live |-> TRUE]
  <1>0. /\ q.pc = "claim" /\ q.told \in {"nothing", "applied"}
        /\ q.seen.phase = "claiming"
    BY DEF BeginClaim, Is, Told, Stage, CommandStates
  <1>1. CASE Goto(c, "claim reread") /\ UNCHANGED sent
    BY <1>0, <1>1, MoveKeeps DEF BeginClaim, Pcs
  <1>2. CASE sent' = sent \cup {m} /\ Goto(c, "claim commit")
    <2>0. UNCHANGED <<slot, root, claim>>
      BY DEF BeginClaim
    <2>1. m \in Claims /\ m.run = c /\ "claim commit" \in Pcs
      BY DEF Claims, Pcs
    <2>2. m \notin Writes /\ m \notin SlotCommands
      BY <2>1, Distinct
    <2> HIDE DEF m
    <2>3. /\ TypeOK' /\ \A d \in Controllers : d # c => RunInv(d)'
          /\ proc'[c].pc = "claim commit" /\ proc'[c].seen = q.seen
          /\ proc'[c].told = q.told
          /\ WritesOf(c)' = WritesOf(c) /\ CommandsOf(c)' = CommandsOf(c)
          /\ ClaimsOf(c)' \subseteq ClaimsOf(c) \cup {m}
      BY <1>2, <2>0, <2>1, <2>2, SendTyped
    <2>4. WritesInv(c)'
      BY <1>0, <2>0, <2>3 DEF WritesInv, Warranted
    <2>8. \A e \in CommandsOf(c) \cup ClaimsOf(c) : ~ e.live
      BY <1>0 DEF CommandsInv
    <2>9. CommandsInv(c)'
      <3>1. \A e \in ClaimsOf(c)' : e.live => e = m
        BY <2>3, <2>8
      <3>2. CommandsInv(c)
        BY Known
      <3>3. ASSUME NEW e \in CommandsOf(c)'
            PROVE  /\ e.command = "acquire" => root'[c].phase = "intent" \/ slot' = c
                   /\ e.command = "release" => root'[c].phase = "closing"
                   /\ ~ e.live
                   /\ \A f \in CommandsOf(c)' : f = e
        <4>1. e \in CommandsOf(c)
          BY <2>3
        <4>2. ~ e.live
          BY <2>8, <4>1
        <4>3. QED BY <2>0, <2>3, <3>2, <4>1, <4>2 DEF CommandsInv
      <3>4. ASSUME NEW e \in ClaimsOf(c)'
            PROVE  /\ e.live => proc'[c].pc = "claim commit"
                   /\ \A f \in ClaimsOf(c)' : e.live /\ f.live => f = e
        BY <2>3, <3>1
      <3>5. QED BY <3>3, <3>4 DEF CommandsInv
    <2>5. CommandsInv(c)' /\ RootInv(c)'
      BY <2>0, <2>9 DEF RootInv
    <2>6. Working(c, proc[c])'
      <3>1. Settled(c) => Settled(c)'
        BY <2>0, <2>3 DEF Settled
      <3>2. QED BY <1>0, <2>0, <2>3, <3>1 DEF Working, Current, Told, Stage
    <2>7. QED BY <2>3, <2>4, <2>5, <2>6 DEF RunInv, IInv
  <1>3. QED BY <1>1, <1>2 DEF BeginClaim

-----------------------------------------------------------------------------
(* Messages that land, are lost or are orphaned. *)

LEMMA Message ==
    ASSUME IInv, NEW e \in sent
    PROVE  /\ e \in Writes \cup SlotCommands \cup Claims
           /\ e.run \in Controllers
  BY DEF IInv, TypeOK, Writes, SlotCommands, Claims

LEMMA LoseKeeps ==
    ASSUME IInv, NEW e \in sent, sent' = sent \ {e}, UNCHANGED <<slot, root, claim, proc>>
    PROVE  IInv'
  <1>1. TypeOK'
    BY DEF IInv, TypeOK
  <1>2. ASSUME NEW d \in Controllers PROVE RunInv(d)'
    BY AsideKeeps DEF Aside
  <1>3. QED BY <1>1, <1>2 DEF IInv

(* A write commits only on the root its predicate was read on, and settles it. *)
LEMMA CommitKeeps ==
    ASSUME IInv, NEW e \in sent, Commit(e)
    PROVE  IInv'
  <1> DEFINE c == e.run
             pc == IF e.live THEN "readback" ELSE proc[c].pc
  <1>0. /\ e \in Writes /\ c \in Controllers /\ e \in WritesOf(c) /\ sent' = sent \ {e}
        /\ slot' = slot /\ claim' = claim
    BY Message DEF Commit, WritesOf
  <1>1. CASE root[c] # e.from
    BY <1>0, <1>1, LoseKeeps DEF Commit
  <1>2. CASE root[c] = e.from
    <2>1. /\ root' = [root EXCEPT ![c] = e.to]
          /\ e.live => Goto(c, "readback")
          /\ ~ e.live => proc' = proc
      BY <1>2 DEF Commit
    <2>2. /\ e.to \in Roots /\ e.from \in Roots /\ Follows(e.from, e.to)
          /\ Warranted(c, e.from, e.to)
          /\ e.live => proc[c].pc = "commit" /\ e.from = proc[c].seen
      BY <1>0, <1>2, Known DEF WritesInv, Writes
    <2>3. /\ root'[c] = e.to /\ Rank(e.from) \in Nat /\ Rank(e.to) \in Nat
          /\ Rank(e.from) < Rank(e.to) /\ e.from # e.to
      BY <1>0, <2>1, <2>2, RankTyped, FollowsAdvances DEF IInv, TypeOK
    <2>4. /\ proc'[c] \in CommandStates /\ proc'[c].pc = pc
          /\ proc'[c].seen = proc[c].seen /\ proc'[c].told = proc[c].told
          /\ proc'[c].next = proc[c].next
      <3>1. CASE e.live
        BY <1>0, <2>1, <3>1, GotoTyped DEF Pcs
      <3>2. CASE ~ e.live
        BY <1>0, <2>1, <3>2, Known
      <3>3. QED BY <3>1, <3>2
    <2>5. TypeOK'
      <3>1. proc' \in [Controllers -> CommandStates]
        BY <1>0, <2>1, GotoTyped, Known DEF Pcs
      <3>2. QED BY <1>0, <2>1, <2>2, <3>1 DEF IInv, TypeOK, CommandStates
    <2>6. ASSUME NEW d \in Controllers, d # c PROVE RunInv(d)'
      <3>1. Aside(d)
        BY <1>0, <2>1, <2>6 DEF Aside, Goto, IInv, TypeOK
      <3>2. QED BY <3>1, AsideKeeps
    <2>7. \/ proc[c].seen = e.from /\ proc[c].told # "applied"
          \/ proc[c].pc \in {"idle", "discover"} /\ proc[c].told # "applied"
      <3>1. ~ Settled(c)
        BY <1>0, <1>2 DEF Settled
      <3>2. QED BY <1>0, <1>2, <3>1, Known DEF Current, Told
    <2>8. Settled(c)'
      <3> SUFFICES ASSUME NEW f \in WritesOf(c)', f.from = e.to PROVE FALSE
        BY <2>3 DEF Settled
      <3>1. f \in WritesOf(c)
        BY <1>0 DEF WritesOf
      <3>2. Rank(f.from) <= Rank(e.from)
        BY <1>0, <1>2, <3>1, Known DEF WritesInv
      <3>3. QED BY <2>3, <3>2
    <2>9. WritesInv(c)'
      <3> SUFFICES ASSUME NEW f \in WritesOf(c)'
                   PROVE  /\ Follows(f.from, f.to) /\ Rank(f.from) <= Rank(e.to)
                          /\ f.from # e.to
                          /\ f.live => proc'[c].pc = "commit" /\ f.from = proc[c].seen
                          /\ \A g \in WritesOf(c)' : f.live /\ g.live => g = f
        BY <2>3, <2>4 DEF WritesInv
      <3>1. f \in WritesOf(c) /\ f # e /\ WritesOf(c)' \subseteq WritesOf(c)
        BY <1>0 DEF WritesOf
      <3>2. /\ Follows(f.from, f.to) /\ Rank(f.from) <= Rank(e.from)
            /\ f.live => proc[c].pc = "commit" /\ f.from = proc[c].seen
            /\ \A g \in WritesOf(c) : f.live /\ g.live => g = f
        BY <1>0, <1>2, <3>1, Known DEF WritesInv
      <3>3. Rank(f.from) \in Nat
        BY <1>0, <3>1, Typed, RankTyped
      <3>4. f.from # e.to
        BY <2>3, <2>8 DEF Settled
      <3>5. f.live => ~ e.live
        BY <1>0, <3>1, <3>2
      <3>6. Rank(f.from) <= Rank(e.to)
        BY <2>3, <3>2, <3>3
      <3>7. QED BY <2>4, <3>1, <3>2, <3>4, <3>5, <3>6
    <2>10. CommandsInv(c)'
      <3>1. CommandsOf(c)' \subseteq CommandsOf(c) /\ ClaimsOf(c)' \subseteq ClaimsOf(c)
        BY <1>0 DEF CommandsOf, ClaimsOf
      <3>2. /\ e.from.phase = "intent" => e.to.phase = "intent" \/ slot = c
            /\ e.from.phase = "closing" => e.to.phase = "closing"
        BY <2>2, AtPhase DEF Follows, Transitions, Warranted, Held
      <3>3. e.live => proc[c].pc = "commit"
        BY <2>2
      <3>4. /\ \A f \in CommandsOf(c) : f.live => ~ e.live
            /\ \A f \in ClaimsOf(c) : f.live => ~ e.live
        BY <1>0, <3>3, Known DEF CommandsInv
      <3>5. QED BY ZenonT(60), <1>0, <1>2, <2>3, <2>4, <3>1, <3>2, <3>4, Known DEF CommandsInv
    <2>11. RootInv(c)'
      BY <1>0, <2>2, <2>3, AtPhase DEF RootInv, Follows, Transitions, Warranted, Held
    <2>12. Working(c, proc[c])'
      <3>1. Current(c, proc[c])'
        BY <2>2, <2>3, <2>4, <2>7, <2>8 DEF Current
      <3>2. Told(c, proc[c])'
        <4>1. e.live => proc[c].told \in {"nothing", "applied"}
          BY <1>0, <2>2, Known DEF Told
        <4>2. QED BY <1>0, <2>4, <2>7, <4>1, Known DEF Told
      <3>3. Stage(c, proc[c])'
        <4>1. proc[c].pc # "readback"
          <5>1. proc[c].pc = "readback" => Settled(c)
            BY <1>0, Known DEF Current, Stage
          <5>2. QED BY <1>0, <1>2, <5>1 DEF Settled
        <4>2. QED BY <1>0, <2>2, <2>3, <2>4, <4>1, Known DEF Stage
      <3>4. QED BY <3>1, <3>2, <3>3 DEF Working
    <2>13. QED BY <2>5, <2>6, <2>9, <2>10, <2>11, <2>12 DEF RunInv, IInv
  <1>3. QED BY <1>1, <1>2

(* The slot row is taken from nobody and given up by its holder. *)
LEMMA SlotCommandKeeps ==
    ASSUME IInv, NEW e \in sent, SlotCommand(e)
    PROVE  IInv'
  <1> DEFINE c == e.run
             done == slot = IF e.command = "acquire" THEN None ELSE c
             pc == IF done THEN "completed" ELSE "rejected"
  <1>0. /\ e \in SlotCommands /\ c \in Controllers /\ e \in CommandsOf(c) /\ c # None
        /\ e.command \in {"acquire", "release"} /\ sent' = sent \ {e}
        /\ root' = root /\ claim' = claim
    BY Message, Typed DEF SlotCommand, CommandsOf, SlotCommands
  <1>1. /\ ~ done => slot' = slot
        /\ done /\ e.command = "acquire" => slot = None /\ slot' = c
        /\ done /\ e.command = "release" => slot = c /\ slot' = None
        /\ e.live => Goto(c, pc)
        /\ ~ e.live => proc' = proc
    BY <1>0 DEF SlotCommand
  <1>c. CommandsInv(c)
    BY <1>0, Known
  <1>s. ASSUME NEW f \in CommandsOf(c)' PROVE FALSE
    <2>1. f \in CommandsOf(c) /\ f # e
      BY <1>0 DEF CommandsOf
    <2>2. QED BY <1>0, <1>c, <2>1 DEF CommandsInv
  <1>2. /\ e.command = "acquire" => root[c].phase = "intent" \/ slot = c
        /\ e.command = "release" => root[c].phase = "closing"
        /\ e.live => proc[c].pc = "command"
        /\ CommandsOf(c)' = {}
    <2>1. CommandsOf(c)' = {}
      BY <1>s
    <2>2. QED BY <1>0, <1>c, <2>1 DEF CommandsInv
  <1>3. pc \in {"completed", "rejected"} /\ pc \in Pcs
    BY DEF Pcs
  <1> HIDE DEF pc, done
  <1>4. /\ proc' \in [Controllers -> CommandStates]
        /\ proc'[c].pc = IF e.live THEN pc ELSE proc[c].pc
        /\ proc'[c].seen = proc[c].seen /\ proc'[c].told = proc[c].told
        /\ proc'[c].next = proc[c].next
        /\ \A d \in Controllers : d # c => proc'[d] = proc[d]
    BY <1>0, <1>1, <1>3, GotoTyped, Known
  <1>5. TypeOK'
    BY <1>0, <1>1, <1>4 DEF IInv, TypeOK, CommandStates
  <1>6. ASSUME NEW d \in Controllers, d # c PROVE RunInv(d)'
    <2>1. slot' = d <=> slot = d
      BY <1>0, <1>1, <1>6, ServerAssumption
    <2>2. Aside(d)
      BY <1>0, <1>4, <1>6, <2>1 DEF Aside
    <2>3. QED BY <2>2, AsideKeeps
  <1>7. /\ slot' # slot /\ slot = c => root[c].phase = "closing"
        /\ slot' # slot /\ slot # c => root[c].phase = "intent" /\ slot' = c
    BY <1>0, <1>1, <1>2
  <1>8. WritesInv(c)'
    <2>1. WritesOf(c)' \subseteq WritesOf(c)
      BY <1>0 DEF WritesOf
    <2>2. ASSUME NEW f \in WritesOf(c), f.from = root[c] PROVE Warranted(c, f.from, f.to)'
      <3>1. Warranted(c, f.from, f.to) /\ Follows(f.from, f.to)
        BY <1>0, <2>2, Known DEF WritesInv
      <3>2. f.from.phase = "closing" => f.to.phase = "closing"
        BY <3>1, AtPhase DEF Follows, Transitions
      <3>3. QED BY <1>0, <1>7, <2>2, <3>1, <3>2 DEF Warranted
    <2>3. ASSUME NEW f \in WritesOf(c), f.live
          PROVE  proc'[c].pc = "commit" /\ f.from = proc'[c].seen
      BY <1>0, <1>2, <1>4, <2>3, Known DEF WritesInv
    <2>4. \A f \in WritesOf(c) : /\ Follows(f.from, f.to) /\ Rank(f.from) <= Rank(root'[c])
                                 /\ \A g \in WritesOf(c) : f.live /\ g.live => g = f
      BY <1>0, Known DEF WritesInv
    <2>5. QED BY <1>0, <2>1, <2>2, <2>3, <2>4 DEF WritesInv
  <1>9. CommandsInv(c)'
    <2>1. ClaimsOf(c)' \subseteq ClaimsOf(c)
      BY <1>0 DEF ClaimsOf
    <2>2. \A f \in ClaimsOf(c) : /\ f.live => ~ e.live /\ proc[c].pc = "claim commit"
                                 /\ \A g \in ClaimsOf(c) : f.live /\ g.live => g = f
      BY <1>0, <1>2, Known DEF CommandsInv
    <2>3. QED BY <1>2, <1>4, <2>1, <2>2 DEF CommandsInv
  <1>10. RootInv(c)'
    BY <1>0, <1>7, Known DEF RootInv, Held
  <1>11. Working(c, proc[c])'
    <2>0. Settled(c) => Settled(c)'
      BY <1>0 DEF Settled, WritesOf
    <2>1. Current(c, proc[c])'
      BY <1>0, <1>2, <1>3, <1>4, <2>0, Known DEF Current
    <2>2. /\ proc[c].pc \notin {"idle", "discover"} /\ proc[c].seen.phase = "intent" =>
                root[c].phase # "closing"
          /\ proc[c].pc \notin {"idle", "discover"} /\ proc[c].seen.phase = "closing" =>
                root[c].phase = "closing"
      BY <1>0, ActsInOrder
    <2>3. Told(c, proc[c])'
      <3>1. e.live => proc[c].told \in {"nothing", "applied"}
        BY <1>0, <1>2, Known DEF Told
      <3>2. proc[c].told = "acquired" => slot' = c
        BY <1>0, <1>7, <2>2, Known DEF Told
      <3>3. proc[c].told = "released" => slot' # c
        BY <1>0, <1>7, <2>2, Known DEF Told
      <3>4. QED BY <1>0, <1>4, <2>0, <3>1, <3>2, <3>3, Known DEF Told
    <2>4. Stage(c, proc[c])'
      <3>1. CASE e.live
        BY <1>0, <1>2, <1>3, <1>4, <3>1, Known DEF Stage
      <3>2. CASE ~ e.live
        <4>1. proc'[c].pc = proc[c].pc
          BY <1>4, <3>2
        <4>2. proc[c].pc = "write" /\ proc[c].seen.phase = "closing" /\ slot # c => slot' # c
          BY <1>0, <1>7, <2>2
        <4>3. QED BY <1>0, <1>4, <4>1, <4>2, Known DEF Stage
      <3>3. QED BY <3>1, <3>2
    <2>5. QED BY <2>1, <2>3, <2>4 DEF Working
  <1>12. QED BY <1>5, <1>6, <1>8, <1>9, <1>10, <1>11 DEF RunInv, IInv

(* The claim is taken once: a claim that finds it taken is read again. *)
LEMMA CommitClaimKeeps ==
    ASSUME IInv, NEW e \in sent, CommitClaim(e)
    PROVE  IInv'
  <1> DEFINE c == e.run
  <1>0. /\ e \in Claims /\ c \in Controllers /\ e \in ClaimsOf(c) /\ c # None
        /\ sent' = sent \ {e} /\ root' = root /\ slot' = slot
    BY Message, Typed DEF CommitClaim, ClaimsOf
  <1>1. CASE claim # None
    BY <1>0, <1>1, LoseKeeps DEF CommitClaim
  <1>2. CASE claim = None
    <2>1. /\ claim' = c
          /\ e.live => Goto(c, "claim reread")
          /\ ~ e.live => proc' = proc
      BY <1>2 DEF CommitClaim
    <2>2. e.live => proc[c].pc = "claim commit"
      BY <1>0, Known DEF CommandsInv
    <2>3. /\ proc' \in [Controllers -> CommandStates]
          /\ proc'[c].pc = IF e.live THEN "claim reread" ELSE proc[c].pc
          /\ proc'[c].seen = proc[c].seen /\ proc'[c].told = proc[c].told
          /\ proc'[c].next = proc[c].next
          /\ \A d \in Controllers : d # c => proc'[d] = proc[d]
      <3>1. "claim reread" \in Pcs
        BY DEF Pcs
      <3>2. QED BY <1>0, <2>1, <3>1, GotoTyped, Known
    <2>4. TypeOK'
      BY <1>0, <2>1, <2>3 DEF IInv, TypeOK, CommandStates
    <2>5. ASSUME NEW d \in Controllers, d # c PROVE RunInv(d)'
      <3>1. Aside(d)
        BY <1>0, <1>2, <2>1, <2>3, <2>5 DEF Aside
      <3>2. QED BY <3>1, AsideKeeps
    <2>6. /\ WritesOf(c)' = WritesOf(c) /\ CommandsOf(c)' = CommandsOf(c)
          /\ ClaimsOf(c)' \subseteq ClaimsOf(c) /\ e \notin ClaimsOf(c)'
      BY <1>0, Distinct DEF WritesOf, CommandsOf, ClaimsOf
    <2>7. ~ (\E f \in WritesOf(c) : e.live /\ f.live)
      BY <1>0, <2>2, Known DEF WritesInv
    <2>8. WritesInv(c)'
      <3>1. WritesInv(c)
        BY <1>0, Known
      <3>2. ASSUME NEW f \in WritesOf(c), f.from = root[c] PROVE Warranted(c, f.from, f.to)'
        BY <1>0, <1>2, <2>1, <3>1, <3>2 DEF WritesInv, Warranted
      <3>3. QED BY <1>0, <2>3, <2>6, <2>7, <3>1, <3>2 DEF WritesInv
    <2>9. CommandsInv(c)'
      <3>1. CommandsInv(c)
        BY <1>0, Known
      <3>2. ASSUME NEW f \in CommandsOf(c) PROVE f.live => ~ e.live
        BY <2>2, <3>1 DEF CommandsInv
      <3>3. ASSUME NEW f \in CommandsOf(c)'
            PROVE  /\ f.command = "acquire" => root'[c].phase = "intent" \/ slot' = c
                   /\ f.command = "release" => root'[c].phase = "closing"
                   /\ f.live => proc'[c].pc = "command"
                   /\ \A g \in CommandsOf(c)' : g = f
        BY <1>0, <2>3, <2>6, <3>1, <3>2 DEF CommandsInv
      <3>4. ASSUME NEW f \in ClaimsOf(c)'
            PROVE  /\ f.live => proc'[c].pc = "claim commit"
                   /\ \A g \in ClaimsOf(c)' : f.live /\ g.live => g = f
        <4>1. f \in ClaimsOf(c) /\ f # e
          BY <2>6
        <4>2. f.live => ~ e.live
          BY <1>0, <3>1, <4>1 DEF CommandsInv
        <4>3. QED BY <2>3, <2>6, <3>1, <4>1, <4>2 DEF CommandsInv
      <3>5. QED BY <3>3, <3>4 DEF CommandsInv
    <2>10. RootInv(c)'
      BY <1>0, Known DEF RootInv
    <2>11. Working(c, proc[c])'
      <3>0. Settled(c) => Settled(c)'
        BY <1>0, <2>6 DEF Settled
      <3>1. Current(c, proc[c])'
        BY <1>0, <2>2, <2>3, <3>0, Known DEF Current
      <3>2. Told(c, proc[c])'
        <4>1. e.live => proc[c].told \in {"nothing", "applied"}
          BY <1>0, <2>2, Known DEF Told
        <4>2. QED BY <1>0, <1>2, <2>1, <2>3, <3>0, <4>1, Known DEF Told
      <3>3. Stage(c, proc[c])'
        <4>1. CASE e.live
          BY <1>0, <2>2, <2>3, <4>1, Known DEF Stage
        <4>2. CASE ~ e.live
          BY <1>0, <1>2, <2>1, <2>3, <4>2, Known DEF Stage
        <4>3. QED BY <4>1, <4>2
      <3>4. QED BY <3>1, <3>2, <3>3 DEF Working
    <2>12. QED BY <2>4, <2>5, <2>8, <2>9, <2>10, <2>11 DEF RunInv, IInv
  <1>3. QED BY <1>1, <1>2

LEMMA OrphanTyped ==
    ASSUME NEW e \in Writes \cup SlotCommands \cup Claims, NEW f,
           f = [e EXCEPT !.live = FALSE]
    PROVE  /\ f.run = e.run /\ ~ f.live
           /\ e \in Writes <=> f \in Writes
           /\ e \in SlotCommands <=> f \in SlotCommands
           /\ e \in Claims <=> f \in Claims
           /\ e \in Writes => f.from = e.from /\ f.to = e.to
           /\ e \in SlotCommands => f.command = e.command
  <1>1. CASE e \in Writes
    <2>1. f \in Writes /\ f.run = e.run /\ ~ f.live /\ f.from = e.from /\ f.to = e.to
      BY <1>1 DEF Writes
    <2>2. QED BY <1>1, <2>1, Distinct
  <1>2. CASE e \in SlotCommands
    <2>1. f \in SlotCommands /\ f.run = e.run /\ ~ f.live /\ f.command = e.command
      BY <1>2 DEF SlotCommands
    <2>2. QED BY <1>2, <2>1, Distinct
  <1>3. CASE e \in Claims
    <2>1. f \in Claims /\ f.run = e.run /\ ~ f.live
      BY <1>3 DEF Claims
    <2>2. QED BY <1>3, <2>1, Distinct
  <1>4. QED BY <1>1, <1>2, <1>3

(* A command that ends leaves what it sent to nobody. *)
LEMMA EndKeeps ==
    ASSUME IInv, NEW c \in Controllers, End(c)
    PROVE  IInv'
  <1>1. /\ sent' = Orphaned(c) /\ UNCHANGED <<slot, root, claim>>
        /\ proc' = [proc EXCEPT ![c] = Idle]
    BY DEF End
  <1>2. ASSUME NEW f \in sent'
        PROVE  /\ f \in Writes \cup SlotCommands \cup Claims
               /\ f.run # c => f \in sent
               /\ f.run = c => \E e \in sent : e.run = c /\ f = [e EXCEPT !.live = FALSE]
    <2>1. PICK e \in sent : f = IF e.run = c THEN [e EXCEPT !.live = FALSE] ELSE e
      BY <1>1 DEF Orphaned
    <2>2. e \in Writes \cup SlotCommands \cup Claims
      BY Message
    <2>3. CASE e.run = c
      BY <2>1, <2>2, <2>3, OrphanTyped
    <2>4. CASE e.run # c
      BY <2>1, <2>2, <2>4
    <2>5. QED BY <2>3, <2>4
  <1>3. TypeOK'
    BY <1>1, <1>2, IdleTyped DEF IInv, TypeOK, CommandStates
  <1>4. ASSUME NEW d \in Controllers, d # c PROVE RunInv(d)'
    <2>1. proc'[d] = proc[d]
      BY <1>1, <1>4 DEF IInv, TypeOK
    <2>2. Aside(d)
      BY <1>1, <1>2, <1>4, <2>1 DEF Aside
    <2>3. QED BY <2>2, AsideKeeps
  <1>5. ASSUME NEW f \in WritesOf(c)'
        PROVE  ~ f.live /\ \E e \in WritesOf(c) : f.from = e.from /\ f.to = e.to
    <2>1. PICK e \in sent : e.run = c /\ f = [e EXCEPT !.live = FALSE]
      BY <1>2 DEF WritesOf
    <2>2. e \in Writes /\ ~ f.live /\ f.from = e.from /\ f.to = e.to
      BY <2>1, Message, OrphanTyped DEF WritesOf
    <2>3. QED BY <2>1, <2>2 DEF WritesOf
  <1>6. ASSUME NEW f \in CommandsOf(c)'
        PROVE  ~ f.live /\ \E e \in CommandsOf(c) :
                              f.command = e.command /\ f = [e EXCEPT !.live = FALSE]
    <2>1. PICK e \in sent : e.run = c /\ f = [e EXCEPT !.live = FALSE]
      BY <1>2 DEF CommandsOf
    <2>2. e \in SlotCommands /\ ~ f.live /\ f.command = e.command
      BY <2>1, Message, OrphanTyped DEF CommandsOf
    <2>3. QED BY <2>1, <2>2 DEF CommandsOf
  <1>7. ASSUME NEW f \in ClaimsOf(c)' PROVE ~ f.live
    <2>1. PICK e \in sent : e.run = c /\ f = [e EXCEPT !.live = FALSE]
      BY <1>2 DEF ClaimsOf
    <2>2. QED BY <2>1, Message, OrphanTyped
  <1>8. WritesInv(c)'
    <2>1. WritesInv(c)
      BY Known
    <2>2. ASSUME NEW f \in WritesOf(c)'
          PROVE  /\ Follows(f.from, f.to) /\ Rank(f.from) <= Rank(root'[c])
                 /\ f.from = root'[c] => Warranted(c, f.from, f.to)'
                 /\ ~ f.live
      <3>1. PICK e \in WritesOf(c) : f.from = e.from /\ f.to = e.to
        BY <1>5
      <3>2. /\ Follows(e.from, e.to) /\ Rank(e.from) <= Rank(root[c])
            /\ e.from = root[c] => Warranted(c, e.from, e.to)
        BY <2>1 DEF WritesInv
      <3>3. QED BY <1>1, <1>5, <3>1, <3>2 DEF Warranted
    <2>3. QED BY <2>2 DEF WritesInv
  <1>9. CommandsInv(c)'
    <2>1. CommandsInv(c)
      BY Known
    <2>2. ASSUME NEW f \in CommandsOf(c)'
          PROVE  /\ f.command = "acquire" => root'[c].phase = "intent" \/ slot' = c
                 /\ f.command = "release" => root'[c].phase = "closing"
                 /\ ~ f.live
                 /\ \A g \in CommandsOf(c)' : g = f
      <3>1. PICK e \in CommandsOf(c) :
               f.command = e.command /\ f = [e EXCEPT !.live = FALSE]
        BY <1>6
      <3>2. \A g \in CommandsOf(c)' : \E h \in CommandsOf(c) : g = [h EXCEPT !.live = FALSE]
        BY <1>6
      <3>3. \A h \in CommandsOf(c) : h = e
        BY <2>1 DEF CommandsInv
      <3>4. \A g \in CommandsOf(c)' : g = f
        BY <3>1, <3>2, <3>3
      <3>5. QED BY <1>1, <1>6, <2>1, <3>1, <3>4 DEF CommandsInv
    <2>3. QED BY <1>7, <2>2 DEF CommandsInv
  <1>10. RootInv(c)'
    BY <1>1, Known DEF RootInv
  <1>11. Working(c, proc[c])'
    <2>1. proc'[c] = Idle
      BY <1>1 DEF IInv, TypeOK
    <2>2. QED BY <2>1 DEF Working, Current, Told, Stage, Idle
  <1>12. QED BY <1>3, <1>4, <1>8, <1>9, <1>10, <1>11 DEF RunInv, IInv

-----------------------------------------------------------------------------
(* The invariant, and what follows from it. *)

LEMMA InitIInv == Init => IInv
  <1> SUFFICES ASSUME Init PROVE IInv
    OBVIOUS
  <1>1. TypeOK
    BY AtTyped, IdleTyped DEF Init, TypeOK, CommandStates, Phases
  <1>2. ASSUME NEW c \in Controllers PROVE RunInv(c)
    <2>1. proc[c] = Idle /\ sent = {} /\ root[c] \in {At("absent"), At("fresh")}
      BY DEF Init
    <2>2. WritesInv(c) /\ CommandsInv(c)
      BY <2>1 DEF WritesInv, CommandsInv, WritesOf, CommandsOf, ClaimsOf
    <2>3. RootInv(c)
      BY <2>1, AtPhase DEF RootInv, Held
    <2>4. Working(c, proc[c])
      BY <2>1 DEF Working, Current, Told, Stage, Idle
    <2>5. QED BY <2>2, <2>3, <2>4 DEF RunInv
  <1>3. QED BY <1>1, <1>2 DEF IInv

LEMMA NextIInv == ~ Stragglers /\ IInv /\ [Next]_vars => IInv'
  <1> SUFFICES ASSUME ~ Stragglers, IInv, [Next]_vars PROVE IInv'
    OBVIOUS
  <1>1. ASSUME NEW c \in Controllers,
               \/ Discover(c) \/ Load(c) \/ PlanAcquire(c) \/ PlanRelease(c) \/ PlanClaim(c)
               \/ Observe(c) \/ Unsure(c) \/ Begin(c) \/ Readback(c)
        PROVE  IInv'
    BY <1>1, DiscoverKeeps, LoadKeeps, PlanKeeps, BeginKeeps, ReadbackKeeps
  <1>2. ASSUME NEW c \in Controllers,
               \/ Reconcile(c) \/ Execute(c) \/ SlotReadback(c)
               \/ InspectClaim(c) \/ BeginClaim(c) \/ RereadClaim(c) \/ End(c)
        PROVE  IInv'
    BY <1>2, ReconcileKeeps, ExecuteKeeps, SlotReadbackKeeps, InspectClaimKeeps,
       BeginClaimKeeps, RereadClaimKeeps, EndKeeps
  <1>3. ASSUME NEW e \in sent, Commit(e) \/ SlotCommand(e) \/ CommitClaim(e) \/ Lose(e)
        PROVE  IInv'
    BY <1>3, CommitKeeps, SlotCommandKeeps, CommitClaimKeeps, LoseKeeps DEF Lose
  <1>4. CASE UNCHANGED vars
    <2>1. TypeOK'
      BY <1>4 DEF vars, IInv, TypeOK
    <2>2. ASSUME NEW d \in Controllers PROVE RunInv(d)'
      BY <1>4, AsideKeeps DEF vars, Aside
    <2>3. QED BY <2>1, <2>2 DEF IInv
  <1>5. QED BY <1>1, <1>2, <1>3, <1>4 DEF Next

(* Where an abandoned slot command is over before the next is sent, every    *)
(* state the stores reach satisfies the invariant.                            *)
THEOREM Inductive ==
    ASSUME ~ Stragglers
    PROVE  Spec => []IInv
  BY InitIInv, NextIInv, PTL DEF Spec

(* What reconcile, execute and the readbacks told a caller is so on the server *)
(* when it is told and for as long as the caller relies on it, for any number  *)
(* of controllers taking turns and of writes they gave up.                    *)
THEOREM ToldHolds ==
    ASSUME ~ Stragglers
    PROVE  Spec => []ToldIsTrue
  BY TruthTold, Inductive, PTL

-----------------------------------------------------------------------------
(* What the store promises: its steps are those of TakingTurns.            *)

(* While the export is unclaimed no run has learned of a claim, and a claim *)
(* is under way only for a run that recorded that it was about to make one.  *)
Asking ==
    claim = None =>
      /\ \A c \in Controllers : root[c].phase \notin {"imported", "refused"}
      /\ \A e \in sent : e \in Claims => root[e.run].phase = "claiming"

LEMMA InitAsking == Init => Asking
  <1> SUFFICES ASSUME Init PROVE Asking
    OBVIOUS
  <1>1. sent = {} /\ \A c \in Controllers : root[c] \in {At("absent"), At("fresh")}
    BY DEF Init
  <1>2. QED BY <1>1, AtPhase DEF Asking

(* The commit of a write changes one root, as the write was warranted. *)
LEMMA CommitMoves ==
    ASSUME IInv, NEW e \in sent, Commit(e), root' # root
    PROVE  /\ e.run \in Controllers /\ e.from \in Roots /\ e.to \in Roots
           /\ root[e.run] = e.from /\ root' = [root EXCEPT ![e.run] = e.to]
           /\ Follows(e.from, e.to) /\ Warranted(e.run, e.from, e.to)
           /\ UNCHANGED <<slot, claim>> /\ sent' = sent \ {e}
  <1>1. /\ e \in Writes /\ e.run \in Controllers /\ root[e.run] = e.from
        /\ root' = [root EXCEPT ![e.run] = e.to]
        /\ UNCHANGED <<slot, claim>> /\ sent' = sent \ {e}
    BY Message DEF Commit
  <1>2. PICK c : c = e.run
    OBVIOUS
  <1>3. c \in Controllers /\ e \in WritesOf(c)
    BY <1>1, <1>2 DEF WritesOf
  <1>4. WritesInv(c)
    BY <1>3, Known
  <1>5. Follows(e.from, e.to) /\ Warranted(c, e.from, e.to)
    BY <1>1, <1>2, <1>3, <1>4 DEF WritesInv
  <1>6. QED BY <1>1, <1>2, <1>3, <1>5, Typed

LEMMA CommitAsking ==
    ASSUME IInv, Asking, NEW e \in sent, Commit(e)
    PROVE  Asking'
  <1>1. UNCHANGED <<slot, claim>> /\ sent' = sent \ {e}
    BY DEF Commit
  <1>2. CASE root' = root
    BY <1>1, <1>2 DEF Asking
  <1>3. CASE root' # root
    <2> SUFFICES ASSUME claim = None PROVE Asking'
      BY <1>1 DEF Asking
    <2>1. PICK c, a, b : c = e.run /\ a = e.from /\ b = e.to
      OBVIOUS
    <2>2. /\ c \in Controllers /\ root[c] = a /\ root' = [root EXCEPT ![c] = b]
          /\ Follows(a, b) /\ Warranted(c, a, b)
      BY <1>3, <2>1, CommitMoves
    <2>3. b.phase \notin {"imported", "refused"}
      BY <2>2, Typed DEF Warranted
    <2>4. a.phase # "claiming"
      <3>1. SUFFICES ASSUME a.phase = "claiming" PROVE FALSE
        OBVIOUS
      <3>2. b \in {At("imported"), At("refused")}
        BY <2>2, <3>1 DEF Follows, Transitions
      <3>3. QED BY <2>3, <3>2, AtPhase
    <2>5. root'[c] = b /\ \A d \in Controllers : d # c => root'[d] = root[d]
      BY <2>2 DEF IInv, TypeOK
    <2>6. \A d \in Controllers : root'[d].phase \notin {"imported", "refused"}
      BY <2>3, <2>5 DEF Asking
    <2>7. ASSUME NEW f \in sent', f \in Claims PROVE root'[f.run].phase = "claiming"
      <3>1. f \in sent /\ f.run \in Controllers /\ root[f.run].phase = "claiming"
        BY <1>1, <2>7, Message DEF Asking
      <3>2. f.run # c
        BY <2>2, <2>4, <3>1
      <3>3. QED BY <2>5, <3>1, <3>2
    <2>8. QED BY <2>6, <2>7 DEF Asking
  <1>4. QED BY <1>2, <1>3

(* A claim is sent from a root that says so. *)
LEMMA BeginClaimAsking ==
    ASSUME IInv, Asking, NEW c \in Controllers, BeginClaim(c)
    PROVE  Asking'
  <1>1. UNCHANGED <<slot, root, claim>> /\ proc[c].pc = "claim"
    BY DEF BeginClaim, Is
  <1>2. CASE sent' = sent
    BY <1>1, <1>2 DEF Asking
  <1>3. CASE sent' # sent
    <2> SUFFICES ASSUME claim = None PROVE Asking'
      BY <1>1 DEF Asking
    <2>1. sent' = sent \cup {[run |-> c, export |-> "claim", live |-> TRUE]}
      BY <1>3 DEF BeginClaim
    <2>2. proc[c].seen.phase = "claiming"
      BY <1>1, Known DEF Stage
    <2>3. proc[c].seen = root[c] \/ Follows(proc[c].seen, root[c])
      BY <1>1, Known DEF Current
    <2>4. Follows(proc[c].seen, root[c]) => root[c] \in {At("imported"), At("refused")}
      BY <2>2 DEF Follows, Transitions
    <2>5. root[c].phase \notin {"imported", "refused"}
      BY DEF Asking
    <2>6. root[c].phase = "claiming"
      BY <2>2, <2>3, <2>4, <2>5, AtPhase
    <2>7. QED BY <1>1, <2>1, <2>6 DEF Asking
  <1>4. QED BY <1>2, <1>3

LEMMA EndAsking ==
    ASSUME IInv, Asking, NEW c \in Controllers, End(c)
    PROVE  Asking'
  <1>1. sent' = Orphaned(c) /\ UNCHANGED <<slot, root, claim>>
    BY DEF End
  <1>2. ASSUME claim = None, NEW f \in sent', f \in Claims
        PROVE  root[f.run].phase = "claiming"
    <2>1. PICK e \in sent : f = IF e.run = c THEN [e EXCEPT !.live = FALSE] ELSE e
      BY <1>1 DEF Orphaned
    <2>2. f.run = e.run /\ e \in Claims
      BY <1>2, <2>1, Message, OrphanTyped
    <2>3. QED BY <1>2, <2>2 DEF Asking
  <1>3. QED BY <1>1, <1>2 DEF Asking

LEMMA NextAsking == IInv /\ Asking /\ [Next]_vars => Asking'
  <1> SUFFICES ASSUME IInv, Asking, [Next]_vars PROVE Asking'
    OBVIOUS
  <1>1. ASSUME UNCHANGED <<root, claim>>, \A e \in sent' : e \in Claims => e \in sent
        PROVE  Asking'
    BY <1>1 DEF Asking
  <1>2. CASE UNCHANGED vars
    BY <1>1, <1>2 DEF vars
  <1>3. ASSUME NEW c \in Controllers,
               \/ Discover(c) \/ Load(c) \/ PlanAcquire(c) \/ PlanRelease(c) \/ PlanClaim(c)
               \/ Observe(c) \/ Unsure(c) \/ Readback(c)
               \/ Reconcile(c) \/ SlotReadback(c) \/ InspectClaim(c) \/ RereadClaim(c)
        PROVE  Asking'
    <2>1. UNCHANGED <<root, claim, sent>>
      BY <1>3 DEF Discover, Load, PlanAcquire, PlanRelease, PlanClaim, Observe, Unsure,
         Submit, Readback, Reconcile, SlotReadback, InspectClaim, RereadClaim
    <2>2. QED BY <1>1, <2>1
  <1>4. ASSUME NEW c \in Controllers, Begin(c) PROVE Asking'
    <2>1. \/ sent' = sent
          \/ sent' = sent \cup {[run |-> c, from |-> root[c], to |-> proc[c].next,
                                 live |-> TRUE]}
      BY <1>4 DEF Begin
    <2>2. [run |-> c, from |-> root[c], to |-> proc[c].next, live |-> TRUE] \in Writes
      BY Known DEF Writes, CommandStates
    <2>3. UNCHANGED <<root, claim>>
      BY <1>4 DEF Begin
    <2>4. QED BY <1>1, <2>1, <2>2, <2>3, Distinct
  <1>5. ASSUME NEW c \in Controllers, Execute(c) PROVE Asking'
    <2>1. sent' = sent \cup {[run |-> c, command |-> Kind(c), live |-> TRUE]}
          /\ UNCHANGED <<root, claim>>
      BY <1>5 DEF Execute
    <2>2. [run |-> c, command |-> Kind(c), live |-> TRUE] \in SlotCommands
      BY DEF SlotCommands, Kind
    <2>3. QED BY <1>1, <2>1, <2>2, Distinct
  <1>6. ASSUME NEW e \in sent, SlotCommand(e) \/ Lose(e) PROVE Asking'
    <2>1. sent' = sent \ {e} /\ UNCHANGED <<root, claim>>
      BY <1>6 DEF SlotCommand, Lose
    <2>2. QED BY <1>1, <2>1
  <1>7. ASSUME NEW e \in sent, CommitClaim(e) PROVE Asking'
    <2>1. CASE claim = None
      <3>1. claim' = e.run /\ e.run \in Controllers
        BY <1>7, <2>1, Message DEF CommitClaim
      <3>2. claim' # None
        BY <3>1, Typed
      <3>3. QED BY <3>2 DEF Asking
    <2>2. CASE claim # None
      <3>1. claim' = claim
        BY <1>7, <2>2 DEF CommitClaim
      <3>2. QED BY <2>2, <3>1 DEF Asking
    <2>3. QED BY <2>1, <2>2
  <1>8. QED BY <1>2, <1>3, <1>4, <1>5, <1>6, <1>7, CommitAsking, BeginClaimAsking,
           EndAsking DEF Next

(* Where each run stands, as TakingTurns tells it. *)
Standing(r) == IF r.phase = "fresh" THEN "absent" ELSE r.phase
Stands == [c \in Controllers |-> Standing(root[c])]

(* The root moves by a commit, which was warranted when its write began and   *)
(* still is, although nothing checks the slot again.                          *)
LEMMA CommitSound ==
    ASSUME IInv, NEW e \in sent, Commit(e)
    PROVE  Turns!Next \/ UNCHANGED Turns!vars
  <1>0. UNCHANGED <<slot, claim>>
    BY DEF Commit
  <1>1. CASE root' = root
    BY <1>0, <1>1 DEF Turns!vars
  <1>2. CASE root' # root
    <2>1. PICK c, a, b : c = e.run /\ a = e.from /\ b = e.to
      OBVIOUS
    <2>2. /\ c \in Controllers /\ root[c] = a /\ root' = [root EXCEPT ![c] = b]
          /\ Follows(a, b) /\ Warranted(c, a, b)
      BY <1>2, <2>1, CommitMoves
    <2>3. root'[c] = b /\ \A d \in Controllers : d # c => root'[d] = root[d]
      BY <2>2 DEF IInv, TypeOK
    <2>4. PICK p, q : p = Stands /\ q = Stands'
      OBVIOUS
    <2>5. p[c] = Standing(a) /\ q = [p EXCEPT ![c] = Standing(b)]
      BY <2>2, <2>3, <2>4 DEF Stands
    <2>6. \/ Standing(a) = "absent" /\ Standing(b) = "intent"
          \/ Standing(a) = "intent" /\ Standing(b) = "owned" /\ slot = c
          \/ Standing(a) = "owned" /\ Standing(b) = "claiming" /\ slot = c
          \/ Standing(a) = "claiming" /\ Standing(b) = "imported" /\ slot = c /\ claim = c
          \/ /\ Standing(a) = "claiming" /\ Standing(b) = "refused" /\ slot = c
             /\ claim \notin {None, c}
          \/ /\ Standing(a) \in {"owned", "imported", "refused"} /\ Standing(b) = "closing"
             /\ slot = c
          \/ Standing(a) = Standing(b)
      <3>1. CASE a.phase \in {"absent", "fresh"} /\ b = At("intent")
        BY <3>1, AtPhase DEF Standing
      <3>2. CASE a.phase = "intent" /\ b = At("owned")
        BY <2>2, <3>2, AtPhase DEF Standing, Warranted, Held
      <3>3. CASE a.phase = "owned" /\ b \in {At("claiming"), At("closing")}
        BY <2>2, <3>3, AtPhase DEF Standing, Warranted, Held
      <3>4. CASE a.phase = "claiming" /\ b \in {At("imported"), At("refused")}
        BY <2>2, <3>4, AtPhase DEF Standing, Warranted, Held
      <3>5. CASE a.phase \in {"imported", "refused"} /\ b = At("closing")
        BY <2>2, <3>5, AtPhase DEF Standing, Warranted, Held
      <3>6. CASE b.phase = a.phase
        BY <3>6 DEF Standing
      <3>7. QED BY <2>2, <3>1, <3>2, <3>3, <3>4, <3>5, <3>6 DEF Follows
    <2>7. c # None /\ DOMAIN p = Controllers /\ p = [d \in Controllers |-> p[d]]
      BY <2>2, <2>4, Typed DEF Stands
    <2>8. PICK s, t : s = Standing(a) /\ t = Standing(b)
      OBVIOUS
    <2>9. Turns!Record(c, t)
      BY <1>0, <2>4, <2>5, <2>8 DEF Turns!Record, Stands, Standing
    <2>10. CASE s = "absent" /\ t = "intent"
      <3>1. Turns!Intend(c)
        BY <2>4, <2>5, <2>8, <2>9, <2>10 DEF Turns!Intend, Stands, Standing
      <3>2. QED BY <2>2, <3>1 DEF Turns!Next
    <2>11. CASE s = "intent" /\ t = "owned" /\ slot = c
      <3>1. Turns!Own(c)
        BY <2>4, <2>5, <2>8, <2>9, <2>11 DEF Turns!Own, Stands, Standing
      <3>2. QED BY <2>2, <3>1 DEF Turns!Next
    <2>12. CASE s = "owned" /\ t = "claiming" /\ slot = c
      <3>1. Turns!AskFor(c)
        BY <2>4, <2>5, <2>8, <2>9, <2>12 DEF Turns!AskFor, Stands, Standing
      <3>2. QED BY <2>2, <3>1 DEF Turns!Next
    <2>13. CASE /\ s = "claiming" /\ slot = c
                /\ \/ t = "imported" /\ claim = c
                   \/ t = "refused" /\ claim \notin {None, c}
      <3>0. claim # None /\ t = (IF claim = c THEN "imported" ELSE "refused")
        <4>1. CASE t = "imported" /\ claim = c
          BY <2>7, <4>1
        <4>2. CASE t = "refused" /\ claim \notin {None, c}
          BY <4>2
        <4>3. QED BY <2>13, <4>1, <4>2
      <3>1. Turns!Record(c, IF claim = c THEN "imported" ELSE "refused") /\ claim # None
        BY <2>9, <3>0 DEF Turns!Record, Stands, Standing
      <3>2. Turns!Learn(c)
        BY <2>4, <2>5, <2>8, <2>13, <3>1 DEF Turns!Learn, Stands, Standing
      <3>3. QED BY <2>2, <3>2 DEF Turns!Next
    <2>14. CASE s \in {"owned", "imported", "refused"} /\ t = "closing" /\ slot = c
      <3>1. Turns!Close(c)
        BY <2>4, <2>5, <2>8, <2>9, <2>14 DEF Turns!Close, Stands, Standing
      <3>2. QED BY <2>2, <3>1 DEF Turns!Next
    <2>15. CASE s = t
      <3>1. q = p
        BY <2>5, <2>7, <2>8, <2>15
      <3>2. QED BY <1>0, <2>4, <3>1 DEF Turns!vars, Stands, Standing
    <2>16. QED BY <2>6, <2>8, <2>10, <2>11, <2>12, <2>13, <2>14, <2>15
  <1>3. QED BY <1>1, <1>2

(* The slot moves by a slot command, which belongs to the root it finds. *)
LEMMA SlotCommandSound ==
    ASSUME IInv, NEW e \in sent, SlotCommand(e)
    PROVE  Turns!Next \/ UNCHANGED Turns!vars
  <1>0. UNCHANGED <<root, claim>>
    BY DEF SlotCommand
  <1>1. CASE slot' = slot
    BY <1>0, <1>1 DEF Turns!vars
  <1>2. CASE slot' # slot
    <2>1. PICK c : c = e.run
      OBVIOUS
    <2>2. /\ e \in CommandsOf(c) /\ c \in Controllers /\ c # None
          /\ e.command \in {"acquire", "release"}
      BY <2>1, Message, Typed DEF SlotCommand, CommandsOf, SlotCommands
    <2>3. /\ e.command = "acquire" => slot = None /\ slot' = c
          /\ e.command = "release" => slot = c /\ slot' = None
      BY <1>2, <2>1, <2>2 DEF SlotCommand
    <2>4. /\ e.command = "acquire" => root[c].phase = "intent" \/ slot = c
          /\ e.command = "release" => root[c].phase = "closing"
      BY <2>2, Known DEF CommandsInv
    <2>5. CASE e.command = "acquire"
      <3>1. Turns!Take(c)
        BY <1>0, <2>2, <2>3, <2>4, <2>5 DEF Turns!Take
      <3>2. QED BY <2>2, <3>1 DEF Turns!Next
    <2>6. CASE e.command = "release"
      <3>1. Turns!GiveUp(c)
        BY <1>0, <2>2, <2>3, <2>4, <2>6 DEF Turns!GiveUp
      <3>2. QED BY <2>2, <3>1 DEF Turns!Next
    <2>7. QED BY <2>2, <2>5, <2>6
  <1>3. QED BY <1>1, <1>2

(* A claim that lands, however late, lands in its run's turn. *)
LEMMA CommitClaimSound ==
    ASSUME IInv, Asking, NEW e \in sent, CommitClaim(e)
    PROVE  Turns!Next \/ UNCHANGED Turns!vars
  <1>0. UNCHANGED <<slot, root>> /\ e \in Claims /\ e.run \in Controllers
    BY Message DEF CommitClaim
  <1>1. CASE claim # None
    BY <1>0, <1>1 DEF CommitClaim, Turns!vars
  <1>2. CASE claim = None
    <2>1. PICK c : c = e.run
      OBVIOUS
    <2>2. c \in Controllers /\ claim' = c /\ root[c].phase = "claiming"
      BY <1>0, <1>2, <2>1 DEF CommitClaim, Asking
    <2>3. slot = c
      BY <2>2, Known DEF RootInv, Held
    <2>4. Turns!Claim(c)
      BY <1>0, <1>2, <2>2, <2>3 DEF Turns!Claim
    <2>5. QED BY <2>2, <2>4 DEF Turns!Next
  <1>3. QED BY <1>1, <1>2

LEMMA StepSound ==
    ASSUME IInv, Asking, [Next]_vars
    PROVE  Turns!Next \/ UNCHANGED Turns!vars
  <1>1. CASE UNCHANGED <<slot, root, claim>>
    BY <1>1 DEF Turns!vars
  <1>2. CASE ~ UNCHANGED <<slot, root, claim>>
    <2>1. PICK e \in sent : Commit(e) \/ SlotCommand(e) \/ CommitClaim(e)
      BY <1>2 DEF vars, Next, Discover, Load, PlanAcquire, PlanRelease, PlanClaim, Observe,
         Unsure, Submit, Begin, Readback, Reconcile, Execute, SlotReadback, InspectClaim,
         BeginClaim, RereadClaim, End, Lose
    <2>2. QED BY <2>1, CommitSound, SlotCommandSound, CommitClaimSound
  <1>3. QED BY <1>1, <1>2

LEMMA TurnsBegin == Init => Turns!Init
  <1> SUFFICES ASSUME Init PROVE Turns!Init
    OBVIOUS
  <1>1. slot = None /\ claim = None
        /\ \A c \in Controllers : root[c] \in {At("absent"), At("fresh")}
    BY DEF Init
  <1>2. \A c \in Controllers : root[c].phase \in {"absent", "fresh"}
    BY <1>1, AtPhase
  <1>3. QED BY <1>1, <1>2 DEF Turns!Init

(* The server store implements TakingTurns for any controllers and any number *)
(* of writes they gave up: runs move through their phases in order and only   *)
(* in their own turn, although the transactions do not check the slot when     *)
(* they commit, and the export is claimed once.                               *)
THEOREM StoreTakesTurns ==
    ASSUME ~ Stragglers
    PROVE  Spec => TurnsTaken
  <1>1. IInv /\ Asking /\ [Next]_vars => Asking'
    BY NextAsking
  <1>2. IInv /\ Asking /\ [Next]_vars => [Turns!Next]_(Turns!vars)
    BY StepSound
  <1>3. QED BY <1>1, <1>2, Inductive, InitAsking, TurnsBegin, PTL
           DEF Spec, TurnsTaken, Turns!Spec

(* A run at work holds the slot, so no two runs are ever at work, and what it  *)
(* learned of the export is so.                                              *)
THEOREM OneRunAtWork ==
    ASSUME ~ Stragglers
    PROVE  Spec => []Turns!TurnsHold
  <1>1. Init => Turns!TurnsHold
    <2> SUFFICES ASSUME Init PROVE Turns!TurnsHold
      OBVIOUS
    <2>1. \A c \in Controllers : root[c].phase \in {"absent", "fresh"}
      BY AtPhase DEF Init
    <2>2. QED BY <2>1 DEF Turns!TurnsHold, Turns!AtWork
  <1>2. IInv /\ Turns!TurnsHold /\ [Turns!Next]_(Turns!vars) => Turns!TurnsHold'
    <2> SUFFICES ASSUME IInv, Turns!TurnsHold, [Turns!Next]_(Turns!vars) PROVE Turns!TurnsHold'
      OBVIOUS
    <2>1. PICK p, q : p = Stands /\ q = Stands'
      OBVIOUS
    <2>2. DOMAIN p = Controllers /\ p = [c \in Controllers |-> p[c]]
      BY <2>1 DEF Stands
    <2>3. PICK s, t, a, b : s = slot /\ t = slot' /\ a = claim /\ b = claim'
      OBVIOUS
    <2>4. \A c \in Controllers :
            /\ p[c] \in Turns!AtWork => s = c
            /\ p[c] = "imported" => a = c
            /\ p[c] = "refused" => a \notin {None, c}
      BY <2>1, <2>3 DEF Turns!TurnsHold, Stands, Standing
    <2>5. \/ q = p /\ t = s /\ a = b
          \/ \E c \in Controllers :
               \/ q = p /\ s = None /\ t = c /\ a = b
               \/ q = p /\ p[c] = "closing" /\ s = c /\ t = None /\ a = b
               \/ q = p /\ t = s /\ a = None /\ b = c /\ p[c] = "claiming"
               \/ q = [p EXCEPT ![c] = "intent"] /\ t = s /\ a = b
               \/ q = [p EXCEPT ![c] = "owned"] /\ t = s /\ s = c /\ a = b
               \/ q = [p EXCEPT ![c] = "claiming"] /\ t = s /\ s = c /\ a = b
               \/ q = [p EXCEPT ![c] = "imported"] /\ t = s /\ s = c /\ a = b /\ a = c
               \/ /\ q = [p EXCEPT ![c] = "refused"] /\ t = s /\ s = c /\ a = b
                  /\ a \notin {None, c}
               \/ q = [p EXCEPT ![c] = "closing"] /\ t = s /\ a = b
               \/ q = [p EXCEPT ![c] = "released"] /\ t = s /\ a = b
      <3>1. CASE UNCHANGED Turns!vars
        BY <2>1, <2>3, <3>1 DEF Turns!vars, Stands, Standing
      <3>2. CASE Turns!Next
        <4>1. PICK c \in Controllers :
                \/ Turns!Take(c) \/ Turns!GiveUp(c) \/ Turns!Claim(c)
                \/ Turns!Intend(c) \/ Turns!Own(c) \/ Turns!AskFor(c)
                \/ Turns!Learn(c) \/ Turns!Close(c) \/ Turns!Leave(c)
          BY <3>2 DEF Turns!Next
        <4>2. CASE Turns!Take(c) \/ Turns!GiveUp(c) \/ Turns!Claim(c)
          BY <2>1, <2>3, <4>2
             DEF Turns!Take, Turns!GiveUp, Turns!Claim, Stands, Standing
        <4>3. CASE Turns!Intend(c) \/ Turns!Own(c) \/ Turns!AskFor(c)
          BY <2>1, <2>3, <4>3
             DEF Turns!Intend, Turns!Own, Turns!AskFor, Turns!Record, Stands, Standing
        <4>4. CASE Turns!Learn(c)
          <5>1. /\ s = c /\ t = s /\ a = b /\ a # None
                /\ q = [p EXCEPT ![c] = IF a = c THEN "imported" ELSE "refused"]
            BY <2>1, <2>3, <4>4 DEF Turns!Learn, Turns!Record, Stands, Standing
          <5>2. CASE a = c
            BY <5>1, <5>2
          <5>3. CASE a # c
            BY <5>1, <5>3
          <5>4. QED BY <5>2, <5>3
        <4>5. CASE Turns!Close(c) \/ Turns!Leave(c)
          BY <2>1, <2>3, <4>5 DEF Turns!Close, Turns!Leave, Turns!Record, Stands, Standing
        <4>6. QED BY <4>1, <4>2, <4>3, <4>4, <4>5
      <3>3. QED BY <3>1, <3>2
    <2>6. \A c \in Controllers : c # None
      BY Typed
    <2>7. \A c \in Controllers :
            /\ q[c] \in Turns!AtWork => t = c
            /\ q[c] = "imported" => b = c
            /\ q[c] = "refused" => b \notin {None, c}
      BY <2>2, <2>4, <2>5, <2>6 DEF Turns!AtWork
    <2>8. QED BY <2>1, <2>3, <2>7 DEF Turns!TurnsHold, Stands, Standing
  <1>3. IInv /\ Asking /\ [Next]_vars => Asking'
    BY NextAsking
  <1>4. IInv /\ Asking /\ [Next]_vars => [Turns!Next]_(Turns!vars)
    BY StepSound
  <1>5. QED BY <1>1, <1>2, <1>3, <1>4, Inductive, InitAsking, PTL DEF Spec
=============================================================================

------------------------ MODULE FeedbackOutboxProofs ------------------------
(***************************************************************************)
(* Proofs about FeedbackOutbox, for any sets of processes and nonces and   *)
(* any bounds on crashes, failures, issues and edits: a report is filed    *)
(* once and a retry needs a new authority.                                 *)
(*                                                                         *)
(* Neither property is inductive.  Both rest on who owns the submission    *)
(* lock (LockInv): as long as no takeover hit a lock other than the one it *)
(* examined, a process between its lock's creation and release is the      *)
(* lock's creator, because a takeover only ever removes the lock of a      *)
(* process that has ended.  AuthorityInv then follows one holder from the  *)
(* intent to the create request: the intent it writes differs from the     *)
(* one before, so no request was sent under it yet.  OnceInv adds that at  *)
(* most one request or open issue of this outbox exists, which holds as    *)
(* long as no discovery answered absent over a request in flight.          *)
(***************************************************************************)
EXTENDS FeedbackOutbox, FiniteSetTheorems, SequenceTheorems, WellFoundedInduction, TLAPS

Pcs == {"idle", "open", "write", "stat", "probe", "restat", "unlink", "load", "recover",
        "intent", "discover", "create", "await", "landed", "mark", "release", "ended", "lost"}
Holding == {"write", "load", "recover", "intent", "discover", "create", "await", "landed",
            "mark", "release"}
Issues == [ours : BOOLEAN, body : {"exact", "other"}, open : BOOLEAN]
Calls == [pc : Pcs, nonce : Nonces \cup {None}, saw : Processes \cup {None}, issue : Nat,
          body : {"none", "exact", "other"}]
Envelopes == [status : {"none", "pending", "submit_intent", "submitted", "quarantined"},
              nonce : Nonces \cup {None}, issue : Nat]

Locks == [by : Processes \cup {None}, written : BOOLEAN]

OutboxTypeOK ==
  /\ envelope \in Envelopes
  /\ lock \in Locks
  /\ call \in [Processes -> Calls]
  /\ issues \in Seq(Issues)
  /\ flight \subseteq Processes
  /\ sent \in Nat
  /\ late \in BOOLEAN
  /\ outrun \in BOOLEAN
  /\ crashes \in Nat
  /\ failures \in Nat
  /\ edits \in Nat

\* What a step of a call captured: the nonce it was given, the dead holder it examined,
\* the issue it read.
CallInv ==
  /\ lock.written => lock.by # None
  /\ \A p \in Processes :
       /\ call[p].pc \notin {"idle", "lost"} => call[p].nonce \in Nonces
       /\ call[p].pc \in {"probe", "restat", "unlink"} => call[p].saw \in Processes
       /\ call[p].pc \in {"restat", "unlink"} => ~ Alive(call[p].saw)
       /\ call[p].pc \in {"landed", "mark"} => call[p].issue \in DOMAIN issues
  /\ envelope.status = "submitted" => envelope.issue \in DOMAIN issues

\* Until a takeover misses, whoever is past its lock's creation is the lock's creator.
LockInv == outrun \/ \A p \in Processes : call[p].pc \in Holding => lock.by = p

\* The intent a holder is about to write is new, and under the one it wrote nothing was sent.
AuthorityInv ==
  outrun \/
  /\ sent <= 1
  /\ envelope.status \in {"none", "pending"} => envelope.nonce = None /\ sent = 0
  /\ \A p \in Processes :
       /\ call[p].pc = "intent" /\ envelope.status = "submit_intent"
            => envelope.nonce # call[p].nonce
       /\ call[p].pc \in {"discover", "create"}
            => sent = 0 /\ envelope.status \notin {"none", "pending"}

\* The open issues this outbox filed.
OursOpen == {n \in DOMAIN issues : issues[n].ours /\ issues[n].open}

\* One request or one open issue, and none of either when the next request is sent.
OnceInv ==
  late \/ outrun \/
  /\ \A p, q \in flight : p = q
  /\ \A m, n \in OursOpen : m = n
  /\ flight = {} \/ OursOpen = {}
  /\ \A p \in Processes : call[p].pc = "create" => flight = {} /\ OursOpen = {}

OutboxInv == OutboxTypeOK /\ CallInv /\ LockInv /\ AuthorityInv /\ OnceInv

(***************************************************************************)
(* Lemmas about the helpers the actions share.                             *)
(***************************************************************************)
\* One step of one call: only its program counter moves.
LEMMA GotoTyped ==
  ASSUME NEW p \in Processes, NEW pc \in Pcs, call \in [Processes -> Calls], Goto(p, pc)
  PROVE  /\ call' \in [Processes -> Calls]
         /\ call'[p] = [call[p] EXCEPT !.pc = pc]
         /\ \A q \in Processes \ {p} : call'[q] = call[q]
  <1>1. [call[p] EXCEPT !.pc = pc] \in Calls
    BY DEF Calls
  <1>2. call' = [call EXCEPT ![p] = [call[p] EXCEPT !.pc = pc]]
    BY DEF Goto
  <1> QED BY <1>1, <1>2

\* discoverExisting takes the lowest match, so there is one.
LEMMA LowestMatch ==
  ASSUME issues \in Seq(Issues), Matches # {}
  PROVE  Lowest \in Matches /\ Lowest \in DOMAIN issues
  <1> DEFINE R == OpToRel(<, Nat)
  <1>1. Matches \subseteq Nat
    BY DEF Matches
  <1>2. IsWellFoundedOn(R, Nat)
    BY NatLessThanWellFounded
  <1>3. \A x, y \in Nat : y < x => <<y, x>> \in R
    BY DEF OpToRel
  <1> HIDE DEF R
  <1>4. PICK n \in Matches : \A m \in Matches : ~ (<<m, n>> \in R)
    BY <1>1, <1>2, WFMin
  <1>5. \A m \in Matches : m \in Nat /\ n \in Nat /\ ~ (m < n)
    BY <1>1, <1>3, <1>4
  <1>6. \E k \in Matches : \A m \in Matches : k <= m
    BY <1>5
  <1>7. Lowest \in Matches
    BY <1>6 DEF Lowest
  <1> QED BY <1>7 DEF Matches

\* A discovery gives up, finds an issue to acknowledge, or proves there is none.
LEMMA DiscoverOutcome ==
  ASSUME NEW p \in Processes, NEW absent \in Pcs, OutboxTypeOK, Discover(p, absent)
  PROVE  /\ call' \in [Processes -> Calls]
         /\ \A q \in Processes \ {p} : call'[q] = call[q]
         /\ call'[p].nonce = call[p].nonce /\ call'[p].saw = call[p].saw
         /\ failures' \in Nat /\ late' \in BOOLEAN
         /\ \/ call'[p].pc = "release" /\ late' = late
            \/ call'[p].pc = "mark" /\ call'[p].issue \in DOMAIN issues /\ late' = late
            \/ call'[p].pc = absent /\ Matches = {} /\ (late' <=> late \/ flight # {})
  <1> USE DEF OutboxTypeOK
  <1>1. CASE Fails(p, "release") /\ UNCHANGED late
    <2>1. "release" \in Pcs
      BY DEF Pcs
    <2>2. Goto(p, "release") /\ failures' \in Nat
      BY <1>1 DEF Fails
    <2>3. /\ call' \in [Processes -> Calls]
          /\ call'[p] = [call[p] EXCEPT !.pc = "release"]
          /\ \A q \in Processes \ {p} : call'[q] = call[q]
      BY <2>1, <2>2, GotoTyped
    <2> QED BY <1>1, <2>2, <2>3 DEF Calls
  <1>2. CASE /\ Matches # {}
             /\ call' = [call EXCEPT ![p].pc = "mark", ![p].issue = Lowest,
                                     ![p].body = issues[Lowest].body]
             /\ UNCHANGED <<failures, late>>
    <2>1. Lowest \in DOMAIN issues
      BY <1>2, LowestMatch
    <2>2. issues[Lowest] \in Issues /\ Lowest \in Nat
      BY <2>1
    <2>3. issues[Lowest].body \in {"exact", "other"}
      BY <2>2 DEF Issues
    <2> DEFINE body == issues[Lowest].body
               found == Lowest
               moved == [call[p] EXCEPT !.pc = "mark", !.issue = found, !.body = body]
    <2>4. call' = [call EXCEPT ![p] = moved]
      BY <1>2
    <2>5. found \in Nat /\ found \in DOMAIN issues /\ body \in {"exact", "other"}
      BY <2>1, <2>2, <2>3
    <2> HIDE DEF body, found
    <2>6. moved \in Calls
      <3>1. \A c \in Calls : \A i \in Nat : \A b \in {"exact", "other"} :
              [c EXCEPT !.pc = "mark", !.issue = i, !.body = b] \in Calls
        BY DEF Calls, Pcs
      <3> QED BY <2>5, <3>1
    <2>7. moved.pc = "mark" /\ moved.issue = found /\ moved.nonce = call[p].nonce
            /\ moved.saw = call[p].saw
      BY DEF Calls
    <2> HIDE DEF moved
    <2>8. /\ call' \in [Processes -> Calls] /\ call'[p] = moved
          /\ \A q \in Processes \ {p} : call'[q] = call[q]
      BY <2>4, <2>6
    <2>9. failures' \in Nat /\ late' = late /\ late' \in BOOLEAN
      BY <1>2
    <2> QED BY <2>5, <2>7, <2>8, <2>9
  <1>3. CASE /\ Matches = {}
             /\ Goto(p, absent)
             /\ late' = (late \/ flight # {})
             /\ UNCHANGED failures
    <2>1. /\ call' \in [Processes -> Calls]
          /\ call'[p] = [call[p] EXCEPT !.pc = absent]
          /\ \A q \in Processes \ {p} : call'[q] = call[q]
      BY <1>3, GotoTyped
    <2>2. /\ call'[p].pc = absent /\ call'[p].nonce = call[p].nonce
          /\ call'[p].saw = call[p].saw
      BY <2>1 DEF Calls
    <2>3. /\ failures' \in Nat /\ late' \in BOOLEAN
          /\ Matches = {} /\ (late' <=> late \/ flight # {})
      BY <1>3
    <2> QED BY <2>1, <2>2, <2>3
  <1> QED BY <1>1, <1>2, <1>3 DEF Discover

\* An envelope transition writes its next state or nothing, and goes on or gives up.
LEMMA TransitionOutcome ==
  ASSUME NEW p \in Processes, NEW allowed, NEW next \in Envelopes, NEW ok \in Pcs,
         OutboxTypeOK, Transition(p, allowed, next, ok)
  PROVE  /\ call' \in [Processes -> Calls]
         /\ \A q \in Processes \ {p} : call'[q] = call[q]
         /\ call'[p].nonce = call[p].nonce /\ call'[p].saw = call[p].saw
         /\ call'[p].issue = call[p].issue
         /\ envelope' \in Envelopes /\ failures' \in Nat
         /\ \/ envelope.status \in allowed /\ envelope' = next /\ call'[p].pc \in {ok, "release"}
            \/ envelope' = envelope /\ call'[p].pc = "release"
  <1> USE DEF OutboxTypeOK
  <1>1. "release" \in Pcs
    BY DEF Pcs
  <1>2. \/ /\ Goto(p, ok) /\ failures' = failures
           /\ envelope.status \in allowed /\ envelope' = next
        \/ /\ Goto(p, "release") /\ failures' \in Nat
           /\ \/ envelope.status \in allowed /\ envelope' = next
              \/ envelope' = envelope
    BY DEF Transition, Fails
  <1>3. PICK pc \in {ok, "release"} :
          /\ Goto(p, pc) /\ failures' \in Nat
          /\ \/ envelope.status \in allowed /\ envelope' = next
             \/ envelope' = envelope /\ pc = "release"
    BY <1>2
  <1>4. /\ call' \in [Processes -> Calls]
        /\ call'[p] = [call[p] EXCEPT !.pc = pc]
        /\ \A q \in Processes \ {p} : call'[q] = call[q]
    BY <1>1, <1>3, GotoTyped
  <1> QED BY <1>3, <1>4 DEF Calls

\* The issue a call was answered with can be read.
LEMMA ReadableIssue ==
  ASSUME NEW p \in Processes, OutboxTypeOK, CallInv, call[p].pc = "landed"
  PROVE  issues[call[p].issue].body \in {"exact", "other"}
  <1>1. \A n \in DOMAIN issues : issues[n] \in Issues
    BY DEF OutboxTypeOK
  <1>2. \A i \in Issues : i.body \in {"exact", "other"}
    BY DEF Issues
  <1>3. call[p].issue \in DOMAIN issues
    BY DEF CallInv
  <1> QED BY <1>1, <1>2, <1>3

(***************************************************************************)
(* Type correctness.                                                       *)
(***************************************************************************)
LEMMA TypeInit == Init => OutboxTypeOK
  <1>1. << >> \in Seq(Issues)
    OBVIOUS
  <1>2. Idle \in Calls
    BY DEF Idle, Calls, Pcs
  <1>3. Free \in Locks
    BY DEF Free, Locks
  <1>4. [status |-> "none", nonce |-> None, issue |-> 0] \in Envelopes
    BY DEF Envelopes
  <1>5. [p \in Processes |-> Idle] \in [Processes -> Calls]
    BY <1>2
  <1> SUFFICES ASSUME Init PROVE OutboxTypeOK
    OBVIOUS
  <1>6. envelope \in Envelopes /\ lock \in Locks /\ call \in [Processes -> Calls]
    BY <1>3, <1>4, <1>5 DEF Init
  <1>7. issues \in Seq(Issues)
    BY <1>1 DEF Init
  <1> QED BY <1>6, <1>7 DEF Init, OutboxTypeOK

LEMMA TypeStep == OutboxTypeOK /\ CallInv /\ [Next]_vars => OutboxTypeOK'
  <1> SUFFICES ASSUME OutboxTypeOK, CallInv, [Next]_vars PROVE OutboxTypeOK'
    OBVIOUS
  <1> USE DEF OutboxTypeOK
  <1>1. ASSUME NEW p \in Processes, Submit(p) PROVE OutboxTypeOK'
    <2>1. \A c \in Calls : \A n \in Nonces : [c EXCEPT !.pc = "open", !.nonce = n] \in Calls
      BY DEF Calls, Pcs
    <2>2. PICK n \in Nonces :
            call' = [call EXCEPT ![p] = [call[p] EXCEPT !.pc = "open", !.nonce = n]]
      BY <1>1 DEF Submit
    <2>3. call' \in [Processes -> Calls]
      BY <2>1, <2>2
    <2>4. envelope' \in Envelopes
      BY <1>1 DEF Submit, Envelopes
    <2> QED BY <1>1, <2>3, <2>4 DEF Submit, tracker, budgets
  <1>2. ASSUME NEW p \in Processes, Locking(p) PROVE OutboxTypeOK'
    <2>1. CASE StatLock(p)
      <3>1. \A c \in Calls : \A pc \in {"probe", "ended"} : \A s \in Processes \cup {None} :
              [c EXCEPT !.saw = s, !.pc = pc] \in Calls
        BY DEF Calls, Pcs
      <3>2. PICK pc \in {"probe", "ended"} :
              call' = [call EXCEPT ![p] = [call[p] EXCEPT !.saw = lock.by, !.pc = pc]]
        BY <2>1 DEF StatLock
      <3>3. lock.by \in Processes \cup {None}
        BY DEF Locks
      <3>4. call' \in [Processes -> Calls]
        BY <3>1, <3>2, <3>3
      <3> QED BY <2>1, <3>4 DEF StatLock, tracker, budgets
    <2>2. CASE ~ StatLock(p)
      <3>1. PICK pc \in Pcs : Goto(p, pc)
        BY <1>2, <2>2 DEF Locking, OpenLock, WriteLock, ProbeHolder, RestatLock, AfterRestat,
                          UnlinkLock, ReleaseLock, Pcs
      <3>2. call' \in [Processes -> Calls]
        BY <3>1, GotoTyped
      <3>3. lock' \in Locks
        <4>1. \A l \in Locks : [l EXCEPT !.written = TRUE] \in Locks
          BY DEF Locks
        <4>2. Free \in Locks /\ [by |-> p, written |-> FALSE] \in Locks
          BY DEF Free, Locks
        <4>3. lock' \in {lock, Free, [by |-> p, written |-> FALSE],
                         [lock EXCEPT !.written = TRUE]}
          BY <1>2, <2>2 DEF Locking, OpenLock, WriteLock, ProbeHolder, RestatLock, UnlinkLock,
                            ReleaseLock
        <4> QED BY <4>1, <4>2, <4>3
      <3>4. outrun' \in BOOLEAN
        BY <1>2, <2>2 DEF Locking, OpenLock, WriteLock, ProbeHolder, RestatLock, UnlinkLock,
                          ReleaseLock
      <3>5. UNCHANGED <<envelope, issues, flight, sent, late, crashes, failures, edits>>
        BY <1>2, <2>2 DEF Locking, OpenLock, WriteLock, ProbeHolder, RestatLock, UnlinkLock,
                          ReleaseLock, tracker, budgets
      <3> QED BY <3>2, <3>3, <3>4, <3>5
    <2> QED BY <2>1, <2>2
  <1>3. ASSUME NEW p \in Processes, Flushing(p) PROVE OutboxTypeOK'
    <2>1. CASE Load(p)
      <3>1. PICK pc \in Pcs : Goto(p, pc)
        BY <2>1 DEF Load, AfterLoad, Pcs
      <3>2. call' \in [Processes -> Calls]
        BY <3>1, GotoTyped
      <3> QED BY <2>1, <3>2 DEF Load, tracker, budgets
    <2>2. CASE Recover(p)
      <3>1. AfterAbsent(p) \in Pcs /\ Discover(p, AfterAbsent(p))
        BY <2>2 DEF Recover, AfterAbsent, Pcs
      <3>2. call' \in [Processes -> Calls] /\ failures' \in Nat /\ late' \in BOOLEAN
        BY <3>1, DiscoverOutcome
      <3> QED BY <2>2, <3>2 DEF Recover
    <2>3. CASE MarkSubmitIntent(p)
      <3> DEFINE next == [envelope EXCEPT !.status = "submit_intent", !.nonce = call[p].nonce]
      <3>1. next \in Envelopes /\ "discover" \in Pcs
        BY DEF Envelopes, Calls, Pcs
      <3>2. Transition(p, {"pending", "submit_intent"}, next, "discover")
        BY <2>3 DEF MarkSubmitIntent
      <3> HIDE DEF next
      <3>3. call' \in [Processes -> Calls] /\ envelope' \in Envelopes /\ failures' \in Nat
        BY <3>1, <3>2, TransitionOutcome
      <3> QED BY <2>3, <3>3 DEF MarkSubmitIntent, tracker
    <2>4. CASE DiscoverBeforeCreate(p)
      <3>1. "create" \in Pcs /\ Discover(p, "create")
        BY <2>4 DEF DiscoverBeforeCreate, Pcs
      <3>2. call' \in [Processes -> Calls] /\ failures' \in Nat /\ late' \in BOOLEAN
        BY <3>1, DiscoverOutcome
      <3> QED BY <2>4, <3>2 DEF DiscoverBeforeCreate
    <2>5. CASE CreateIssue(p)
      <3>1. PICK pc \in Pcs : Goto(p, pc)
        BY <2>5 DEF CreateIssue, Fails, Pcs
      <3>2. call' \in [Processes -> Calls]
        BY <3>1, GotoTyped
      <3> QED BY <2>5, <3>2 DEF CreateIssue, Fails
    <2>6. CASE ReadBack(p)
      <3>1. CASE Fails(p, "release")
        <4>1. "release" \in Pcs /\ Goto(p, "release") /\ failures' \in Nat
          BY <3>1 DEF Fails, Pcs
        <4>2. call' \in [Processes -> Calls]
          BY <4>1, GotoTyped
        <4> QED BY <2>6, <4>1, <4>2 DEF ReadBack, tracker
      <3>2. CASE ~ Fails(p, "release")
        <4>1. issues[call[p].issue].body \in {"exact", "other"}
          BY <2>6, ReadableIssue DEF ReadBack, At
        <4> DEFINE body == issues[call[p].issue].body
        <4>2. PICK pc \in {"mark", "release"} :
                /\ call' = [call EXCEPT ![p] = [call[p] EXCEPT !.body = body, !.pc = pc]]
                /\ failures' = failures
          BY <2>6, <3>2 DEF ReadBack
        <4> HIDE DEF body
        <4>3. \A c \in Calls : \A b \in {"exact", "other"} :
                [c EXCEPT !.body = b, !.pc = pc] \in Calls
          BY DEF Calls, Pcs
        <4>4. call' \in [Processes -> Calls]
          BY <4>1, <4>2, <4>3 DEF body
        <4> QED BY <2>6, <4>2, <4>4 DEF ReadBack, tracker
      <3> QED BY <3>1, <3>2
    <2>7. CASE TimeOut(p)
      <3>1. "release" \in Pcs /\ Goto(p, "release") /\ failures' \in Nat
        BY <2>7 DEF TimeOut, Fails, Pcs
      <3>2. call' \in [Processes -> Calls]
        BY <3>1, GotoTyped
      <3> QED BY <2>7, <3>1, <3>2 DEF TimeOut, tracker
    <2>8. CASE MarkSubmitted(p)
      <3>1. CASE call[p].body = "exact"
        <4> DEFINE next == [envelope EXCEPT !.status = "submitted", !.issue = call[p].issue]
        <4>1. next \in Envelopes /\ "release" \in Pcs
          BY DEF Envelopes, Calls, Pcs
        <4>2. Transition(p, {"pending", "submit_intent"}, next, "release")
          BY <2>8, <3>1 DEF MarkSubmitted
        <4> HIDE DEF next
        <4>3. call' \in [Processes -> Calls] /\ envelope' \in Envelopes /\ failures' \in Nat
          BY <4>1, <4>2, TransitionOutcome
        <4> QED BY <2>8, <4>3 DEF MarkSubmitted, tracker
      <3>2. CASE call[p].body # "exact"
        <4>1. "release" \in Pcs /\ Goto(p, "release")
          BY <2>8, <3>2 DEF MarkSubmitted, Pcs
        <4>2. call' \in [Processes -> Calls]
          BY <4>1, GotoTyped
        <4> QED BY <2>8, <3>2, <4>2 DEF MarkSubmitted, tracker
      <3> QED BY <3>1, <3>2
    <2> QED BY <1>3, <2>1, <2>2, <2>3, <2>4, <2>5, <2>6, <2>7, <2>8 DEF Flushing
  <1>4. ASSUME NEW p \in Processes, Land(p) PROVE OutboxTypeOK'
    <2>1. [ours |-> TRUE, body |-> "exact", open |-> TRUE] \in Issues
      BY DEF Issues
    <2>2. issues' \in Seq(Issues)
      BY <1>4, <2>1 DEF Land, File
    <2>3. call' \in [Processes -> Calls]
      <3>1. Len(issues) + 1 \in Nat
        OBVIOUS
      <3>2. \A c \in Calls : \A n \in Nat : [c EXCEPT !.pc = "landed", !.issue = n] \in Calls
        BY DEF Calls, Pcs
      <3> DEFINE number == Len(issues) + 1
      <3>3. \/ call' = call
            \/ call' = [call EXCEPT ![p] = [call[p] EXCEPT !.pc = "landed", !.issue = number]]
        BY <1>4 DEF Land
      <3>4. number \in Nat
        BY <3>1
      <3> HIDE DEF number
      <3>5. [call[p] EXCEPT !.pc = "landed", !.issue = number] \in Calls
        BY <3>2, <3>4
      <3> QED BY <3>3, <3>5
    <2> QED BY <1>4, <2>2, <2>3 DEF Land, budgets
  <1>5. ASSUME NEW p \in Processes, Drop(p) PROVE OutboxTypeOK'
    <2>1. \A c \in Calls : [c EXCEPT !.pc = "release"] \in Calls
      BY DEF Calls, Pcs
    <2>2. call' \in {call, [call EXCEPT ![p] = [call[p] EXCEPT !.pc = "release"]]}
      BY <1>5 DEF Drop
    <2>3. call' \in [Processes -> Calls]
      BY <2>1, <2>2
    <2> QED BY <1>5, <2>3 DEF Drop, budgets
  <1>6. ASSUME NEW p \in Processes, Crash(p) PROVE OutboxTypeOK'
    <2>1. [Idle EXCEPT !.pc = "lost"] \in Calls
      BY DEF Idle, Calls, Pcs
    <2>2. call' \in [Processes -> Calls]
      BY <1>6, <2>1 DEF Crash
    <2> QED BY <1>6, <2>2 DEF Crash, tracker
  <1>7. CASE Quarantine
    <2>1. [envelope EXCEPT !.status = "quarantined"] \in Envelopes
      BY DEF Envelopes
    <2> QED BY <1>7, <2>1 DEF Quarantine, tracker
  <1>8. CASE OtherReport
    <2>1. \A b \in {"exact", "other"} : [ours |-> FALSE, body |-> b, open |-> TRUE] \in Issues
      BY DEF Issues
    <2>2. PICK i \in Issues : issues' = Append(issues, i)
      BY <1>8, <2>1 DEF OtherReport, File
    <2>3. issues' \in Seq(Issues)
      BY <2>2, AppendProperties
    <2> QED BY <1>8, <2>3 DEF OtherReport, budgets
  <1>9. CASE Maintain
    <2>1. \A i \in Issues : /\ [i EXCEPT !.open = FALSE] \in Issues
                            /\ [i EXCEPT !.body = "other"] \in Issues
      BY DEF Issues
    <2>2. PICK n \in DOMAIN issues :
            \/ issues' = [issues EXCEPT ![n] = [issues[n] EXCEPT !.open = FALSE]]
            \/ issues' = [issues EXCEPT ![n] = [issues[n] EXCEPT !.body = "other"]]
      BY <1>9 DEF Maintain
    <2>3. n \in 1 .. Len(issues) /\ issues[n] \in Issues
      OBVIOUS
    <2>4. PICK i \in Issues : issues' = [issues EXCEPT ![n] = i]
      BY <2>1, <2>2, <2>3
    <2>5. issues' \in Seq(Issues)
      BY <2>3, <2>4, ExceptSeq
    <2> QED BY <1>9, <2>5 DEF Maintain
  <1>10. CASE UNCHANGED vars
    BY <1>10 DEF vars
  <1> QED
    BY <1>1, <1>2, <1>3, <1>4, <1>5, <1>6, <1>7, <1>8, <1>9, <1>10 DEF Next

(***************************************************************************)
(* What one step changes, in the fields the invariants speak of.           *)
(***************************************************************************)
\* A step of a call leaves the other calls alone, and this one's nonce.
OnlyCall(p) ==
  /\ call' \in [Processes -> Calls]
  /\ \A q \in Processes \ {p} : call'[q] = call[q]
  /\ call'[p].nonce = call[p].nonce

Moves(p, from, to) == call[p].pc = from /\ call'[p].pc = to

LEMMA MoveByGoto ==
  ASSUME NEW p \in Processes, NEW pc \in Pcs, OutboxTypeOK, Goto(p, pc)
  PROVE  /\ OnlyCall(p)
         /\ call'[p].pc = pc /\ call'[p].saw = call[p].saw /\ call'[p].issue = call[p].issue
  <1>1. /\ call' \in [Processes -> Calls]
        /\ call'[p] = [call[p] EXCEPT !.pc = pc]
        /\ \A q \in Processes \ {p} : call'[q] = call[q]
    BY GotoTyped DEF OutboxTypeOK
  <1>2. call[p] \in Calls
    BY DEF OutboxTypeOK
  <1> QED BY <1>1, <1>2 DEF Calls, OnlyCall

LEMMA LockingOutcome ==
  ASSUME NEW p \in Processes, OutboxTypeOK, Locking(p)
  PROVE  /\ OnlyCall(p)
         /\ UNCHANGED <<envelope, issues, flight, sent, late>>
         /\ \/ /\ Moves(p, "open", "write") /\ lock = Free /\ outrun' = outrun
               /\ lock'.by = p /\ ~ lock'.written
            \/ Moves(p, "open", "stat") /\ lock' = lock /\ outrun' = outrun
            \/ /\ Moves(p, "write", "load") /\ outrun' = outrun
               /\ lock'.by = lock.by /\ (lock'.written => lock.written \/ lock.by = p)
            \/ /\ call[p].pc = "stat" /\ call'[p].pc \in {"probe", "ended"}
               /\ lock' = lock /\ outrun' = outrun
               /\ call'[p].saw = lock.by /\ (call'[p].pc = "probe" => lock.written)
            \/ /\ call[p].pc = "probe" /\ call'[p].pc \in {"restat", "ended"}
               /\ lock' = lock /\ outrun' = outrun /\ call'[p].saw = call[p].saw
               /\ (call'[p].pc = "restat" => ~ Alive(call[p].saw))
            \/ /\ call[p].pc = "restat" /\ call'[p].pc \in {"unlink", "ended"}
               /\ lock' = lock /\ outrun' = outrun /\ call'[p].saw = call[p].saw
            \/ /\ call[p].pc = "unlink" /\ call'[p].pc \in {"open", "ended"} /\ lock' = Free
               /\ (outrun' <=> outrun \/ lock.by \notin {None, call[p].saw})
            \/ /\ Moves(p, "release", "ended") /\ outrun' = outrun
               /\ (lock' = lock /\ lock.by # p) \/ (lock' = Free /\ lock.by = p)
  <1>1. CASE StatLock(p)
    <2>1. \A c \in Calls : \A pc \in Pcs : \A s \in Processes \cup {None} :
            [c EXCEPT !.saw = s, !.pc = pc] \in Calls
      BY DEF Calls
    <2>2. PICK pc \in {"probe", "ended"} :
            /\ call' = [call EXCEPT ![p] = [call[p] EXCEPT !.saw = lock.by, !.pc = pc]]
            /\ pc = "probe" => lock.written
      BY <1>1 DEF StatLock
    <2>3. lock.by \in Processes \cup {None} /\ call \in [Processes -> Calls]
      BY DEF OutboxTypeOK, Locks
    <2> DEFINE seen == lock.by
               looked == [call[p] EXCEPT !.saw = seen, !.pc = pc]
    <2>4. call' = [call EXCEPT ![p] = looked]
      BY <2>2
    <2> HIDE DEF seen
    <2>5. /\ looked \in Calls /\ looked.nonce = call[p].nonce
          /\ looked.saw = seen /\ looked.pc = pc
      <3>1. call[p] \in Calls /\ pc \in Pcs /\ seen \in Processes \cup {None}
        BY <2>3 DEF seen, Pcs
      <3>2. looked \in Calls
        BY <2>1, <3>1
      <3>3. looked.nonce = call[p].nonce /\ looked.saw = seen /\ looked.pc = pc
        BY <3>1 DEF Calls
      <3> QED BY <3>2, <3>3
    <2> HIDE DEF looked
    <2>6. OnlyCall(p) /\ call'[p].pc = pc /\ call'[p].saw = lock.by
      BY <2>3, <2>4, <2>5 DEF OnlyCall, seen
    <2> QED BY <1>1, <2>2, <2>6 DEF StatLock, At, tracker, Moves
  <1>2. CASE ~ StatLock(p)
    <2>1. \A pc \in Pcs : Goto(p, pc) =>
            OnlyCall(p) /\ call'[p].pc = pc /\ call'[p].saw = call[p].saw
      BY MoveByGoto
    <2>2. CASE OpenLock(p)
      BY <2>1, <2>2 DEF OpenLock, At, tracker, Moves, Pcs
    <2>3. CASE WriteLock(p)
      BY <2>1, <2>3 DEF WriteLock, At, tracker, Moves, Pcs, OutboxTypeOK, Locks
    <2>4. CASE ProbeHolder(p)
      BY <2>1, <2>4 DEF ProbeHolder, At, tracker, Moves, Pcs
    <2>5. CASE RestatLock(p)
      BY <2>1, <2>5 DEF RestatLock, AfterRestat, At, tracker, Moves, Pcs
    <2>6. CASE UnlinkLock(p)
      BY <2>1, <2>6 DEF UnlinkLock, At, tracker, Moves, Pcs
    <2>7. CASE ReleaseLock(p)
      BY <2>1, <2>7 DEF ReleaseLock, At, tracker, Moves, Pcs
    <2> QED BY <1>2, <2>2, <2>3, <2>4, <2>5, <2>6, <2>7 DEF Locking
  <1> QED BY <1>1, <1>2

LEMMA FlushingOutcome ==
  ASSUME NEW p \in Processes, OutboxTypeOK, CallInv, Flushing(p)
  PROVE  /\ OnlyCall(p) /\ call'[p].saw = call[p].saw
         /\ UNCHANGED <<lock, issues, outrun>>
         /\ \/ /\ call[p].pc \in {"load", "recover", "discover", "await", "landed"}
               /\ call'[p].pc = "release" /\ UNCHANGED <<envelope, flight, sent, late>>
            \/ /\ call[p].pc = "load" /\ envelope.status = "submit_intent"
               /\ call'[p].pc = "recover" /\ UNCHANGED <<envelope, flight, sent, late>>
            \/ /\ call[p].pc = "load" /\ envelope.status # "submit_intent"
               /\ call'[p].pc = "intent" /\ UNCHANGED <<envelope, flight, sent, late>>
            \/ /\ call[p].pc \in {"recover", "discover"} /\ call'[p].pc = "mark"
               /\ call'[p].issue \in DOMAIN issues /\ UNCHANGED <<envelope, flight, sent, late>>
            \/ /\ Moves(p, "recover", "intent") /\ envelope.nonce # call[p].nonce
               /\ UNCHANGED <<envelope, flight, sent>> /\ late' \in BOOLEAN /\ (late => late')
            \/ /\ Moves(p, "recover", "release")
               /\ UNCHANGED <<envelope, flight, sent>> /\ late' \in BOOLEAN /\ (late => late')
            \/ /\ Moves(p, "intent", "release") /\ UNCHANGED <<envelope, flight, sent, late>>
            \/ /\ call[p].pc = "intent" /\ call'[p].pc \in {"discover", "release"}
               /\ envelope.status \in {"pending", "submit_intent"}
               /\ envelope'.status = "submit_intent" /\ envelope'.nonce = call[p].nonce
               /\ sent' = IF call[p].nonce = envelope.nonce THEN sent ELSE 0
               /\ UNCHANGED <<flight, late>>
            \/ /\ Moves(p, "discover", "create") /\ Matches = {}
               /\ UNCHANGED <<envelope, flight, sent>> /\ (late' <=> late \/ flight # {})
            \/ /\ Moves(p, "create", "release") /\ UNCHANGED <<envelope, flight, sent, late>>
            \/ /\ Moves(p, "create", "await") /\ flight' = flight \cup {p} /\ sent' = sent + 1
               /\ UNCHANGED <<envelope, late>>
            \/ /\ Moves(p, "landed", "mark") /\ call'[p].issue = call[p].issue
               /\ UNCHANGED <<envelope, flight, sent, late>>
            \/ /\ Moves(p, "mark", "release") /\ UNCHANGED <<envelope, flight, sent, late>>
            \/ /\ Moves(p, "mark", "release") /\ UNCHANGED <<flight, sent, late>>
               /\ envelope.status \in {"pending", "submit_intent"}
               /\ envelope'.status = "submitted" /\ envelope'.nonce = envelope.nonce
               /\ envelope'.issue = call[p].issue
  <1>0. \A pc \in Pcs : Goto(p, pc) =>
          /\ OnlyCall(p) /\ call'[p].pc = pc /\ call'[p].saw = call[p].saw
          /\ call'[p].issue = call[p].issue
    BY MoveByGoto
  <1>1. CASE Load(p)
    BY <1>0, <1>1 DEF Load, AfterLoad, At, tracker, budgets, Moves, Pcs
  <1>2. CASE Recover(p)
    <2>1. AfterAbsent(p) \in Pcs /\ Discover(p, AfterAbsent(p)) /\ call[p].pc = "recover"
      BY <1>2 DEF Recover, AfterAbsent, Pcs, At
    <2>2. /\ call' \in [Processes -> Calls]
          /\ \A q \in Processes \ {p} : call'[q] = call[q]
          /\ call'[p].nonce = call[p].nonce /\ call'[p].saw = call[p].saw
          /\ late' \in BOOLEAN
          /\ \/ call'[p].pc = "release" /\ late' = late
             \/ call'[p].pc = "mark" /\ call'[p].issue \in DOMAIN issues /\ late' = late
             \/ call'[p].pc = AfterAbsent(p) /\ Matches = {} /\ (late' <=> late \/ flight # {})
      BY <2>1, DiscoverOutcome
    <2>3. AfterAbsent(p) \in {"release", "intent"}
            /\ (AfterAbsent(p) = "intent" => envelope.nonce # call[p].nonce)
      BY DEF AfterAbsent
    <2> QED BY <1>2, <2>1, <2>2, <2>3 DEF Recover, OnlyCall, Moves
  <1>3. CASE MarkSubmitIntent(p)
    <2> DEFINE next == [envelope EXCEPT !.status = "submit_intent", !.nonce = call[p].nonce]
    <2>1. next \in Envelopes /\ "discover" \in Pcs
      BY DEF Envelopes, Calls, Pcs, OutboxTypeOK
    <2>2. next.status = "submit_intent" /\ next.nonce = call[p].nonce
      BY DEF OutboxTypeOK, Envelopes
    <2>3. Transition(p, {"pending", "submit_intent"}, next, "discover") /\ call[p].pc = "intent"
      BY <1>3 DEF MarkSubmitIntent, At
    <2> HIDE DEF next
    <2>4. /\ call' \in [Processes -> Calls]
          /\ \A q \in Processes \ {p} : call'[q] = call[q]
          /\ call'[p].nonce = call[p].nonce /\ call'[p].saw = call[p].saw
          /\ \/ /\ envelope.status \in {"pending", "submit_intent"} /\ envelope' = next
                /\ call'[p].pc \in {"discover", "release"}
             \/ envelope' = envelope /\ call'[p].pc = "release"
      BY <2>1, <2>3, TransitionOutcome
    <2> QED BY <1>3, <2>2, <2>3, <2>4 DEF MarkSubmitIntent, tracker, OnlyCall, Moves
  <1>4. CASE DiscoverBeforeCreate(p)
    <2>1. "create" \in Pcs /\ Discover(p, "create") /\ call[p].pc = "discover"
      BY <1>4 DEF DiscoverBeforeCreate, Pcs, At
    <2>2. /\ call' \in [Processes -> Calls]
          /\ \A q \in Processes \ {p} : call'[q] = call[q]
          /\ call'[p].nonce = call[p].nonce /\ call'[p].saw = call[p].saw
          /\ \/ call'[p].pc = "release" /\ late' = late
             \/ call'[p].pc = "mark" /\ call'[p].issue \in DOMAIN issues /\ late' = late
             \/ call'[p].pc = "create" /\ Matches = {} /\ (late' <=> late \/ flight # {})
      BY <2>1, DiscoverOutcome
    <2> QED BY <1>4, <2>1, <2>2 DEF DiscoverBeforeCreate, OnlyCall, Moves
  <1>5. CASE CreateIssue(p)
    BY <1>0, <1>5 DEF CreateIssue, Fails, At, Moves, Pcs
  <1>6. CASE ReadBack(p)
    <2>1. CASE Fails(p, "release")
      BY <1>0, <1>6, <2>1 DEF ReadBack, Fails, At, Moves, Pcs, tracker
    <2>2. CASE ~ Fails(p, "release")
      <3>1. issues[call[p].issue].body \in {"exact", "other"} /\ call[p] \in Calls
        BY <1>6, ReadableIssue DEF ReadBack, At, OutboxTypeOK
      <3> DEFINE body == issues[call[p].issue].body
      <3>2. PICK pc \in {"mark", "release"} :
              call' = [call EXCEPT ![p] = [call[p] EXCEPT !.body = body, !.pc = pc]]
        BY <1>6, <2>2 DEF ReadBack
      <3> HIDE DEF body
      <3> DEFINE read == [call[p] EXCEPT !.body = body, !.pc = pc]
      <3>3. read \in Calls
        BY <3>1 DEF Calls, Pcs, body
      <3>4. /\ read.pc = pc /\ read.nonce = call[p].nonce /\ read.saw = call[p].saw
            /\ read.issue = call[p].issue
        BY <3>1 DEF Calls
      <3>5. call' = [call EXCEPT ![p] = read]
        BY <3>2
      <3> HIDE DEF read
      <3>6. OnlyCall(p) /\ call'[p] = read
        BY <3>3, <3>4, <3>5 DEF OnlyCall, OutboxTypeOK
      <3> QED BY <1>6, <2>2, <3>2, <3>4, <3>6 DEF ReadBack, At, tracker, Moves
    <2> QED BY <2>1, <2>2
  <1>7. CASE TimeOut(p)
    BY <1>0, <1>7 DEF TimeOut, Fails, At, Moves, Pcs, tracker
  <1>8. CASE MarkSubmitted(p)
    <2>1. CASE call[p].body = "exact"
      <3> DEFINE next == [envelope EXCEPT !.status = "submitted", !.issue = call[p].issue]
      <3>1. next \in Envelopes /\ "release" \in Pcs
        BY DEF Envelopes, Calls, Pcs, OutboxTypeOK
      <3>2. next.status = "submitted" /\ next.nonce = envelope.nonce /\ next.issue = call[p].issue
        BY DEF OutboxTypeOK, Envelopes
      <3>3. Transition(p, {"pending", "submit_intent"}, next, "release") /\ call[p].pc = "mark"
        BY <1>8, <2>1 DEF MarkSubmitted, At
      <3> HIDE DEF next
      <3>4. /\ call' \in [Processes -> Calls]
            /\ \A q \in Processes \ {p} : call'[q] = call[q]
            /\ call'[p].nonce = call[p].nonce /\ call'[p].saw = call[p].saw
            /\ \/ /\ envelope.status \in {"pending", "submit_intent"} /\ envelope' = next
                  /\ call'[p].pc = "release"
               \/ envelope' = envelope /\ call'[p].pc = "release"
        BY <3>1, <3>3, TransitionOutcome
      <3> QED BY <1>8, <3>2, <3>3, <3>4 DEF MarkSubmitted, tracker, OnlyCall, Moves
    <2>2. CASE call[p].body # "exact"
      BY <1>0, <1>8, <2>2 DEF MarkSubmitted, At, tracker, Moves, Pcs
    <2> QED BY <2>1, <2>2
  <1> QED BY <1>1, <1>2, <1>3, <1>4, <1>5, <1>6, <1>7, <1>8 DEF Flushing

LEMMA SubmitOutcome ==
  ASSUME NEW p \in Processes, OutboxTypeOK, Submit(p)
  PROVE  /\ call' \in [Processes -> Calls]
         /\ \A q \in Processes \ {p} : call'[q] = call[q]
         /\ Moves(p, "idle", "open") /\ call'[p].nonce \in Nonces
         /\ envelope'.nonce = envelope.nonce /\ envelope'.issue = envelope.issue
         /\ \/ envelope'.status = envelope.status
            \/ envelope.status = "none" /\ envelope'.status = "pending"
         /\ UNCHANGED <<lock, issues, flight, sent, late, outrun>>
  <1>1. \A c \in Calls : \A n \in Nonces : [c EXCEPT !.pc = "open", !.nonce = n] \in Calls
    BY DEF Calls, Pcs
  <1>2. PICK n \in Nonces :
          call' = [call EXCEPT ![p] = [call[p] EXCEPT !.pc = "open", !.nonce = n]]
    BY DEF Submit
  <1> DEFINE opened == [call[p] EXCEPT !.pc = "open", !.nonce = n]
  <1>3. call[p] \in Calls
    BY DEF OutboxTypeOK
  <1>4. opened \in Calls
    BY <1>1, <1>3
  <1>5. opened.pc = "open" /\ opened.nonce = n
    BY <1>3 DEF Calls
  <1>6. call' = [call EXCEPT ![p] = opened]
    BY <1>2
  <1> HIDE DEF opened
  <1>7. /\ call' \in [Processes -> Calls]
        /\ \A q \in Processes \ {p} : call'[q] = call[q]
        /\ call'[p] = opened
    BY <1>4, <1>6 DEF OutboxTypeOK
  <1>8. envelope \in Envelopes
    BY DEF OutboxTypeOK
  <1>9. /\ envelope'.nonce = envelope.nonce /\ envelope'.issue = envelope.issue
        /\ \/ envelope'.status = envelope.status
           \/ envelope.status = "none" /\ envelope'.status = "pending"
    BY <1>8 DEF Submit, Envelopes
  <1> QED BY <1>5, <1>7, <1>9 DEF Submit, tracker, Moves, At

\* Landing files one more issue of ours, the request leaves its flight.
LEMMA LandOutcome ==
  ASSUME NEW p \in Processes, OutboxTypeOK, Land(p)
  PROVE  /\ OnlyCall(p) /\ call'[p].saw = call[p].saw
         /\ p \in flight /\ flight' = flight \ {p}
         /\ DOMAIN issues \subseteq DOMAIN issues'
         /\ Len(issues) + 1 \in DOMAIN issues'
         /\ OursOpen' \subseteq OursOpen \cup {Len(issues) + 1}
         /\ \/ call'[p] = call[p]
            \/ Moves(p, "await", "landed") /\ call'[p].issue = Len(issues) + 1
         /\ UNCHANGED <<envelope, lock, sent, late, outrun>>
  <1> DEFINE i == [ours |-> TRUE, body |-> "exact", open |-> TRUE]
             number == Len(issues) + 1
  <1>1. i \in Issues /\ issues \in Seq(Issues) /\ number \in Nat /\ call[p] \in Calls
    BY DEF Issues, OutboxTypeOK
  <1>2. issues' = Append(issues, i)
    BY DEF Land, File
  <1> HIDE DEF i
  <1>3. /\ issues' \in Seq(Issues) /\ Len(issues') = Len(issues) + 1
        /\ \A n \in 1 .. Len(issues) : issues'[n] = issues[n]
    BY <1>1, <1>2, AppendProperties
  <1>4. DOMAIN issues = 1 .. Len(issues) /\ DOMAIN issues' = 1 .. (Len(issues) + 1)
    BY <1>1, <1>3
  <1>5. DOMAIN issues' = DOMAIN issues \cup {number} /\ number \in DOMAIN issues'
    BY <1>1, <1>4
  <1>6. OursOpen' \subseteq OursOpen \cup {number}
    BY <1>3, <1>4, <1>5 DEF OursOpen
  <1> HIDE DEF number
  <1> DEFINE landed == [call[p] EXCEPT !.pc = "landed", !.issue = number]
  <1>7. landed \in Calls
    BY <1>1 DEF Calls, Pcs
  <1>8. /\ landed.pc = "landed" /\ landed.issue = number
        /\ landed.nonce = call[p].nonce /\ landed.saw = call[p].saw
    BY <1>1 DEF Calls
  <1>9. \/ call' = call
        \/ call[p].pc = "await" /\ call' = [call EXCEPT ![p] = landed]
    BY DEF Land, At, number
  <1> HIDE DEF landed
  <1>10. /\ OnlyCall(p) /\ call'[p].saw = call[p].saw
         /\ \/ call'[p] = call[p]
            \/ Moves(p, "await", "landed") /\ call'[p].issue = number
    BY <1>7, <1>8, <1>9 DEF OnlyCall, OutboxTypeOK, Moves
  <1> QED BY <1>5, <1>6, <1>10 DEF Land, number

LEMMA DropOutcome ==
  ASSUME NEW p \in Processes, OutboxTypeOK, Drop(p)
  PROVE  /\ OnlyCall(p) /\ call'[p].saw = call[p].saw
         /\ flight' = flight \ {p}
         /\ call'[p] = call[p] \/ Moves(p, "await", "release")
         /\ UNCHANGED <<envelope, lock, issues, sent, late, outrun>>
  <1> DEFINE told == [call[p] EXCEPT !.pc = "release"]
  <1>1. call[p] \in Calls
    BY DEF OutboxTypeOK
  <1>2. told \in Calls
    BY <1>1 DEF Calls, Pcs
  <1>3. told.pc = "release" /\ told.nonce = call[p].nonce /\ told.saw = call[p].saw
    BY <1>1 DEF Calls
  <1>4. \/ call' = call
        \/ call[p].pc = "await" /\ call' = [call EXCEPT ![p] = told]
    BY DEF Drop, At
  <1> HIDE DEF told
  <1>5. /\ OnlyCall(p) /\ call'[p].saw = call[p].saw
        /\ call'[p] = call[p] \/ Moves(p, "await", "release")
    BY <1>2, <1>3, <1>4 DEF OnlyCall, OutboxTypeOK, Moves
  <1> QED BY <1>5 DEF Drop

LEMMA CrashOutcome ==
  ASSUME NEW p \in Processes, OutboxTypeOK, Crash(p)
  PROVE  /\ call' \in [Processes -> Calls]
         /\ \A q \in Processes \ {p} : call'[q] = call[q]
         /\ call[p].pc \notin {"idle", "ended", "lost"} /\ call'[p].pc = "lost"
         /\ UNCHANGED <<envelope, lock, issues, flight, sent, late, outrun>>
  <1>1. [Idle EXCEPT !.pc = "lost"] \in Calls /\ [Idle EXCEPT !.pc = "lost"].pc = "lost"
    BY DEF Idle, Calls, Pcs
  <1> QED BY <1>1 DEF Crash, tracker, OutboxTypeOK

LEMMA QuarantineOutcome ==
  ASSUME OutboxTypeOK, Quarantine
  PROVE  /\ envelope.status # "none" /\ envelope'.status = "quarantined"
         /\ envelope'.nonce = envelope.nonce
         /\ UNCHANGED <<call, lock, issues, flight, sent, late, outrun>>
  <1>1. envelope \in Envelopes
    BY DEF OutboxTypeOK
  <1> QED BY <1>1 DEF Quarantine, tracker, Envelopes

\* Other reporters and maintainers add no open issue of ours, and no number goes away.
LEMMA OthersOutcome ==
  ASSUME OutboxTypeOK, OtherReport \/ Maintain
  PROVE  /\ DOMAIN issues \subseteq DOMAIN issues'
         /\ OursOpen' \subseteq OursOpen
         /\ UNCHANGED <<envelope, call, lock, flight, sent, late, outrun>>
  <1>1. issues \in Seq(Issues) /\ DOMAIN issues = 1 .. Len(issues)
    BY DEF OutboxTypeOK
  <1>2. CASE OtherReport
    <2>1. \A b \in {"exact", "other"} : [ours |-> FALSE, body |-> b, open |-> TRUE] \in Issues
      BY DEF Issues
    <2>2. PICK i \in Issues : issues' = Append(issues, i) /\ ~ i.ours
      BY <1>2, <2>1 DEF OtherReport, File
    <2>3. /\ issues' \in Seq(Issues) /\ Len(issues') = Len(issues) + 1
          /\ \A n \in 1 .. Len(issues) : issues'[n] = issues[n]
          /\ issues'[Len(issues) + 1] = i
      BY <1>1, <2>2, AppendProperties
    <2>4. DOMAIN issues' = 1 .. (Len(issues) + 1) /\ Len(issues) \in Nat
      BY <1>1, <2>3
    <2>5. DOMAIN issues' = DOMAIN issues \cup {Len(issues) + 1}
      BY <1>1, <2>4
    <2>6. OursOpen' \subseteq OursOpen
      BY <1>1, <2>2, <2>3, <2>5 DEF OursOpen
    <2> QED BY <1>2, <2>5, <2>6 DEF OtherReport, budgets
  <1>3. CASE Maintain
    <2>1. PICK n \in DOMAIN issues :
            \/ issues' = [issues EXCEPT ![n] = [issues[n] EXCEPT !.open = FALSE]]
            \/ issues' = [issues EXCEPT ![n] = [issues[n] EXCEPT !.body = "other"]]
      BY <1>3 DEF Maintain
    <2>2. DOMAIN issues' = DOMAIN issues
      BY <2>1
    <2>3. issues[n] \in Issues
      BY <1>1
    <2>4. \A m \in DOMAIN issues :
            (issues'[m].ours <=> issues[m].ours) /\ (issues'[m].open => issues[m].open)
      BY <2>1, <2>3 DEF Issues
    <2>5. OursOpen' \subseteq OursOpen
      BY <2>2, <2>4 DEF OursOpen
    <2> QED BY <1>3, <2>2, <2>5 DEF Maintain
  <1> QED BY <1>2, <1>3

(***************************************************************************)
(* The invariant.                                                          *)
(***************************************************************************)
LEMMA InvInit == Init => CallInv /\ LockInv /\ AuthorityInv /\ OnceInv
  <1> SUFFICES ASSUME Init PROVE CallInv /\ LockInv /\ AuthorityInv /\ OnceInv
    OBVIOUS
  <1>1. \A p \in Processes : call[p].pc = "idle"
    BY DEF Init, Idle
  <1>2. CallInv
    BY <1>1 DEF Init, CallInv, Free
  <1>3. LockInv
    BY <1>1 DEF LockInv, Holding
  <1>4. AuthorityInv
    BY <1>1 DEF Init, AuthorityInv
  <1>5. OursOpen = {}
    BY DEF Init, OursOpen
  <1>6. OnceInv
    BY <1>1, <1>5 DEF Init, OnceInv
  <1> QED BY <1>2, <1>3, <1>4, <1>6

LEMMA CallStep == OutboxTypeOK /\ CallInv /\ [Next]_vars => CallInv'
  <1> SUFFICES ASSUME OutboxTypeOK, CallInv, [Next]_vars PROVE CallInv'
    OBVIOUS
  <1>0. None \notin Processes
    BY OutboxAssumption
  <1>1. ASSUME NEW p \in Processes, Submit(p) PROVE CallInv'
    BY <1>1, SubmitOutcome DEF CallInv, Alive, Moves
  <1>2. ASSUME NEW p \in Processes, Locking(p) PROVE CallInv'
    BY <1>0, <1>2, LockingOutcome DEF CallInv, Alive, Moves, OnlyCall, Free, OutboxTypeOK, Locks
  <1>3. ASSUME NEW p \in Processes, Flushing(p) PROVE CallInv'
    <2>1. /\ OnlyCall(p) /\ UNCHANGED <<lock, issues>>
          /\ call[p].pc \in Holding /\ call'[p].pc \in Holding
          /\ call'[p].pc \in {"landed", "mark"} => call'[p].issue \in DOMAIN issues
      BY <1>3, FlushingOutcome DEF CallInv, Moves, Holding
    <2>2. envelope'.status = "submitted" => envelope'.issue \in DOMAIN issues
      BY <1>3, FlushingOutcome DEF CallInv, Moves
    <2> QED BY <2>1, <2>2 DEF CallInv, Alive, OnlyCall, Holding
  <1>4. ASSUME NEW p \in Processes, Land(p) PROVE CallInv'
    BY <1>4, LandOutcome DEF CallInv, Alive, Moves, OnlyCall
  <1>5. ASSUME NEW p \in Processes, Drop(p) PROVE CallInv'
    BY <1>5, DropOutcome DEF CallInv, Alive, Moves, OnlyCall
  <1>6. ASSUME NEW p \in Processes, Crash(p) PROVE CallInv'
    BY <1>6, CrashOutcome DEF CallInv, Alive
  <1>7. CASE Quarantine
    BY <1>7, QuarantineOutcome DEF CallInv, Alive
  <1>8. CASE OtherReport \/ Maintain
    BY <1>8, OthersOutcome DEF CallInv, Alive
  <1>9. CASE UNCHANGED vars
    BY <1>9 DEF vars, CallInv, Alive
  <1> QED BY <1>1, <1>2, <1>3, <1>4, <1>5, <1>6, <1>7, <1>8, <1>9 DEF Next

LEMMA LockStep == OutboxTypeOK /\ CallInv /\ LockInv /\ [Next]_vars => LockInv'
  <1> SUFFICES ASSUME OutboxTypeOK, CallInv, LockInv, [Next]_vars PROVE LockInv'
    OBVIOUS
  <1>0. None \notin Processes
    BY OutboxAssumption
  <1>1. ASSUME NEW p \in Processes, Submit(p) PROVE LockInv'
    BY <1>1, SubmitOutcome DEF LockInv, Moves, Holding
  <1>2. ASSUME NEW p \in Processes, Locking(p) PROVE LockInv'
    <2>1. CASE call[p].pc = "unlink"
      <3>1. /\ OnlyCall(p) /\ call'[p].pc \notin Holding /\ lock' = Free
            /\ outrun' <=> outrun \/ lock.by \notin {None, call[p].saw}
        BY <1>2, <2>1, LockingOutcome DEF Moves, Holding
      <3>2. ~ Alive(call[p].saw) /\ call[p].saw \in Processes
        BY <2>1 DEF CallInv
      <3> QED BY <1>0, <3>1, <3>2 DEF LockInv, OnlyCall, Alive, Holding
    <2>2. CASE call[p].pc = "open"
      BY <1>0, <1>2, <2>2, LockingOutcome DEF LockInv, Moves, OnlyCall, Free, Holding
    <2>3. CASE call[p].pc \in {"write", "release"}
      BY <1>2, <2>3, LockingOutcome DEF LockInv, Moves, OnlyCall, Holding
    <2>4. CASE call[p].pc \in {"stat", "probe", "restat"}
      BY <1>2, <2>4, LockingOutcome DEF LockInv, Moves, OnlyCall, Holding
    <2> QED BY <1>2, <2>1, <2>2, <2>3, <2>4 DEF Locking, OpenLock, WriteLock, StatLock,
                                           ProbeHolder, RestatLock, UnlinkLock, ReleaseLock, At
  <1>3. ASSUME NEW p \in Processes, Flushing(p) PROVE LockInv'
    <2>1. /\ OnlyCall(p) /\ UNCHANGED <<lock, outrun>>
          /\ call[p].pc \in Holding
      BY <1>3, FlushingOutcome DEF Moves, Holding
    <2> QED BY <2>1 DEF LockInv, OnlyCall
  <1>4. ASSUME NEW p \in Processes, Land(p) PROVE LockInv'
    BY <1>4, LandOutcome DEF LockInv, Moves, OnlyCall, Holding
  <1>5. ASSUME NEW p \in Processes, Drop(p) PROVE LockInv'
    BY <1>5, DropOutcome DEF LockInv, Moves, OnlyCall, Holding
  <1>6. ASSUME NEW p \in Processes, Crash(p) PROVE LockInv'
    BY <1>6, CrashOutcome DEF LockInv, Holding
  <1>7. CASE Quarantine
    BY <1>7, QuarantineOutcome DEF LockInv
  <1>8. CASE OtherReport \/ Maintain
    BY <1>8, OthersOutcome DEF LockInv
  <1>9. CASE UNCHANGED vars
    BY <1>9 DEF vars, LockInv
  <1> QED BY <1>1, <1>2, <1>3, <1>4, <1>5, <1>6, <1>7, <1>8, <1>9 DEF Next

\* Two calls past their lock's creation are one, as long as no takeover missed.
LEMMA OneHolder ==
  ASSUME LockInv, ~ outrun, NEW p \in Processes, NEW q \in Processes,
         call[p].pc \in Holding, call[q].pc \in Holding
  PROVE  p = q
  BY DEF LockInv

LEMMA AuthorityStep ==
  OutboxTypeOK /\ CallInv /\ LockInv /\ AuthorityInv /\ [Next]_vars => AuthorityInv'
  <1> SUFFICES ASSUME OutboxTypeOK, CallInv, LockInv, AuthorityInv, [Next]_vars
               PROVE  AuthorityInv'
    OBVIOUS
  <1>0. \A p, q \in Processes :
          call[p].pc \in Holding /\ call[q].pc \in Holding => outrun \/ p = q
    BY OneHolder
  <1>1. ASSUME NEW p \in Processes, Submit(p) PROVE AuthorityInv'
    BY <1>1, SubmitOutcome DEF AuthorityInv, Moves
  <1>2. ASSUME NEW p \in Processes, Locking(p) PROVE AuthorityInv'
    BY <1>2, LockingOutcome DEF AuthorityInv, Moves, OnlyCall
  <1>3. ASSUME NEW p \in Processes, Flushing(p) PROVE AuthorityInv'
    BY <1>0, <1>3, FlushingOutcome, OutboxAssumption
      DEF AuthorityInv, CallInv, Moves, OnlyCall, Holding, OutboxTypeOK
  <1>4. ASSUME NEW p \in Processes, Land(p) PROVE AuthorityInv'
    BY <1>4, LandOutcome DEF AuthorityInv, Moves, OnlyCall
  <1>5. ASSUME NEW p \in Processes, Drop(p) PROVE AuthorityInv'
    BY <1>5, DropOutcome DEF AuthorityInv, Moves, OnlyCall
  <1>6. ASSUME NEW p \in Processes, Crash(p) PROVE AuthorityInv'
    BY <1>6, CrashOutcome DEF AuthorityInv
  <1>7. CASE Quarantine
    BY <1>7, QuarantineOutcome DEF AuthorityInv
  <1>8. CASE OtherReport \/ Maintain
    BY <1>8, OthersOutcome DEF AuthorityInv
  <1>9. CASE UNCHANGED vars
    BY <1>9 DEF vars, AuthorityInv
  <1> QED BY <1>1, <1>2, <1>3, <1>4, <1>5, <1>6, <1>7, <1>8, <1>9 DEF Next

LEMMA OnceStep ==
  OutboxTypeOK /\ CallInv /\ LockInv /\ OnceInv /\ [Next]_vars => OnceInv'
  <1> SUFFICES ASSUME OutboxTypeOK, CallInv, LockInv, OnceInv, [Next]_vars
               PROVE  OnceInv'
    OBVIOUS
  <1>0. \A p, q \in Processes :
          call[p].pc \in Holding /\ call[q].pc \in Holding => outrun \/ p = q
    BY OneHolder
  <1>10. issues' = issues => OursOpen' = OursOpen
    BY DEF OursOpen
  <1>1. ASSUME NEW p \in Processes, Submit(p) PROVE OnceInv'
    BY <1>1, <1>10, SubmitOutcome DEF OnceInv, Moves
  <1>2. ASSUME NEW p \in Processes, Locking(p) PROVE OnceInv'
    BY <1>2, <1>10, LockingOutcome DEF OnceInv, Moves, OnlyCall
  <1>3. ASSUME NEW p \in Processes, Flushing(p) PROVE OnceInv'
    <2>1. Matches = {} => OursOpen = {}
      BY DEF OursOpen, Matches
    <2> QED BY <1>0, <1>3, <1>10, <2>1, FlushingOutcome
              DEF OnceInv, Moves, OnlyCall, Holding, OutboxTypeOK
  <1>4. ASSUME NEW p \in Processes, Land(p) PROVE OnceInv'
    BY <1>4, LandOutcome DEF OnceInv, Moves, OnlyCall
  <1>5. ASSUME NEW p \in Processes, Drop(p) PROVE OnceInv'
    BY <1>5, <1>10, DropOutcome DEF OnceInv, Moves, OnlyCall
  <1>6. ASSUME NEW p \in Processes, Crash(p) PROVE OnceInv'
    BY <1>6, <1>10, CrashOutcome DEF OnceInv
  <1>7. CASE Quarantine
    BY <1>7, <1>10, QuarantineOutcome DEF OnceInv
  <1>8. CASE OtherReport \/ Maintain
    BY <1>8, OthersOutcome DEF OnceInv
  <1>9. CASE UNCHANGED vars
    BY <1>9, <1>10 DEF vars, OnceInv
  <1> QED BY <1>1, <1>2, <1>3, <1>4, <1>5, <1>6, <1>7, <1>8, <1>9 DEF Next


(***************************************************************************)
(* The inductive invariant, over any processes, nonces and bounds.         *)
(***************************************************************************)
THEOREM OutboxHolds == Spec => []OutboxInv
  <1>1. Init => OutboxInv
    BY TypeInit, InvInit DEF OutboxInv
  <1>2. OutboxInv /\ [Next]_vars => OutboxInv'
    BY TypeStep, CallStep, LockStep, AuthorityStep, OnceStep DEF OutboxInv
  <1> QED BY <1>1, <1>2, PTL DEF Spec

(***************************************************************************)
(* A report is not filed twice: through crashes, lost answers, retries and *)
(* any number of competing processes, at most one issue this outbox        *)
(* created is open, outside the two windows that FiledOnce names.          *)
(***************************************************************************)
THEOREM FiledAtMostOnce == Spec => []FiledOnce
  <1>1. OutboxInv => FiledOnce
    <2> SUFFICES ASSUME OutboxInv, ~ late, ~ outrun PROVE Cardinality(OursOpen) <= 1
      BY DEF FiledOnce, OursOpen
    <2>1. \A m, n \in OursOpen : m = n
      BY DEF OutboxInv, OnceInv
    <2>2. CASE OursOpen = {}
      BY <2>2, FS_EmptySet
    <2>3. CASE OursOpen # {}
      <3>1. PICK n : OursOpen = {n}
        BY <2>1, <2>3
      <3>2. Cardinality({n}) = 1
        BY FS_Singleton
      <3> QED BY <3>1, <3>2
    <2> QED BY <2>2, <2>3
  <1> QED BY <1>1, OutboxHolds, PTL

(***************************************************************************)
(* A retry needs a new authority: between two create requests an intent    *)
(* with another nonce was written, whichever processes sent them; and a    *)
(* packet called submitted names an issue that was filed.                  *)
(***************************************************************************)
THEOREM RetriesAlwaysAuthorised == Spec => []RetriesAreAuthorised
  <1>1. OutboxInv => RetriesAreAuthorised
    BY DEF OutboxInv, CallInv, AuthorityInv, RetriesAreAuthorised
  <1> QED BY <1>1, OutboxHolds, PTL
=============================================================================

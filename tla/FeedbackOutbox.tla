--------------------------- MODULE FeedbackOutbox ---------------------------
(***************************************************************************)
(* One feedback packet on its way to an issue: the durable envelope of the *)
(* outbox (src/src/feedback/outbox.ts), the submission it executes         *)
(* (submit.ts) and the gh transport (github.ts), called by command         *)
(* processes that share one Git common directory (cli.ts).                 *)
(*                                                                         *)
(* A process queues the packet, takes the packet's submission lock (taking *)
(* over a dead holder's), settles an earlier submit intent by discovery,   *)
(* writes its own intent and only then asks GitHub for the issue.  A       *)
(* process may be lost at any point, a request may land late or never, an  *)
(* answer may be lost, and on the tracker others file, close and edit      *)
(* issues with the same marker.                                            *)
(*                                                                         *)
(* The short .lock around each envelope write is folded into the write: a  *)
(* contended lock is one of the failures of Transition.                    *)
(***************************************************************************)
EXTENDS Naturals, Sequences, FiniteSets

CONSTANTS Processes, Nonces, None, MaxCrashes, MaxFailures, MaxIssues, MaxEdits

ASSUME OutboxAssumption ==
  /\ None \notin Nonces \cup Processes
  /\ {MaxCrashes, MaxFailures, MaxIssues, MaxEdits} \subseteq Nat

VARIABLES
  envelope,  \* the packet's file: its status, operationNonce and issue number
  lock,      \* the submission lock file: its creator and whether the pid is in it
  call,      \* what each command process is doing
  issues,    \* GitHub: the issues that carry the marker, in number order
  flight,    \* create requests sent and neither landed nor dropped
  sent,      \* history: create requests since the envelope's nonce last changed
  late,      \* history: a discovery answered absent while a request was in flight
  outrun,    \* history: a takeover unlinked a lock other than the one it examined
  crashes, failures, edits

tracker == <<issues, flight, late>>
budgets == <<crashes, failures, edits>>
vars == <<envelope, lock, call, issues, flight, sent, late, outrun, crashes, failures, edits>>

Free == [by |-> None, written |-> FALSE]
Idle == [pc |-> "idle", nonce |-> None, saw |-> None, issue |-> 0, body |-> "none"]

Init ==
  /\ envelope = [status |-> "none", nonce |-> None, issue |-> 0]
  /\ lock = Free
  /\ call = [p \in Processes |-> Idle]
  /\ issues = << >> /\ flight = {} /\ sent = 0
  /\ late = FALSE /\ outrun = FALSE
  /\ crashes = 0 /\ failures = 0 /\ edits = 0

At(p, pc) == call[p].pc = pc
Goto(p, pc) == call' = [call EXCEPT ![p].pc = pc]

\* A provider call, a lock or a write fails; the call gives up and the packet stays queued.
Fails(p, pc) ==
  /\ failures < MaxFailures
  /\ failures' = failures + 1
  /\ Goto(p, pc)

(***************************************************************************)
(* The envelope's transitions, each one atomic rename.  One that fails has *)
(* written nothing, or has renamed and failed to sync the directory.       *)
(***************************************************************************)
Transition(p, allowed, next, ok) ==
  \/ /\ envelope.status \in allowed
     /\ envelope' = next
     /\ \/ Goto(p, ok) /\ UNCHANGED failures
        \/ Fails(p, "release")
  \/ /\ envelope.status \notin allowed
     /\ Goto(p, "release") /\ UNCHANGED <<envelope, failures>>
  \/ /\ Fails(p, "release") /\ UNCHANGED envelope

\* submit: validate, enqueue (an equal queued packet is kept) and go on to flush.
Submit(p) ==
  /\ At(p, "idle")
  /\ \E n \in Nonces : call' = [call EXCEPT ![p].pc = "open", ![p].nonce = n]
  /\ envelope' = IF envelope.status = "none" THEN [envelope EXCEPT !.status = "pending"]
                                             ELSE envelope
  /\ UNCHANGED <<lock, tracker, sent, outrun, budgets>>

\* quarantine: by an operator, at any time.
Quarantine ==
  /\ envelope.status \notin {"none", "quarantined"}
  /\ edits < MaxEdits
  /\ edits' = edits + 1
  /\ envelope' = [envelope EXCEPT !.status = "quarantined"]
  /\ UNCHANGED <<lock, call, tracker, sent, outrun, crashes, failures>>

(***************************************************************************)
(* acquireSubmissionLock, recoverKilledLock and releaseLock.  A process    *)
(* creates at most one lock file, so its name stands for device and inode. *)
(***************************************************************************)
OpenLock(p) ==
  /\ At(p, "open")
  /\ IF lock = Free
     THEN lock' = [by |-> p, written |-> FALSE] /\ Goto(p, "write")
     ELSE UNCHANGED lock /\ Goto(p, "stat")
  /\ UNCHANGED <<envelope, tracker, sent, outrun, budgets>>

WriteLock(p) ==
  /\ At(p, "write")
  /\ lock' = IF lock.by = p THEN [lock EXCEPT !.written = TRUE] ELSE lock
  /\ Goto(p, "load")
  /\ UNCHANGED <<envelope, tracker, sent, outrun, budgets>>

\* lstat and readFile: a vanished or unwritten lock proves nothing (busy).
StatLock(p) ==
  /\ At(p, "stat")
  /\ call' = [call EXCEPT ![p].saw = lock.by, ![p].pc = IF lock.written THEN "probe" ELSE "ended"]
  /\ UNCHANGED <<envelope, lock, tracker, sent, outrun, budgets>>

Alive(p) == call[p].pc \notin {"ended", "lost"}

\* Only ESRCH proves the recorded holder is gone.
ProbeHolder(p) ==
  /\ At(p, "probe")
  /\ Goto(p, IF Alive(call[p].saw) THEN "ended" ELSE "restat")
  /\ UNCHANGED <<envelope, lock, tracker, sent, outrun, budgets>>

\* The second lstat must show the file that was examined.
AfterRestat(p) == IF lock.by = call[p].saw THEN "unlink" ELSE "ended"

RestatLock(p) ==
  /\ At(p, "restat")
  /\ Goto(p, AfterRestat(p))
  /\ UNCHANGED <<envelope, lock, tracker, sent, outrun, budgets>>

UnlinkLock(p) ==
  /\ At(p, "unlink")
  /\ lock' = Free
  /\ outrun' = (outrun \/ lock.by \notin {None, call[p].saw})
  /\ Goto(p, IF lock = Free THEN "ended" ELSE "open")
  /\ UNCHANGED <<envelope, tracker, sent, budgets>>

ReleaseLock(p) ==
  /\ At(p, "release")
  /\ lock' = IF lock.by = p THEN Free ELSE lock
  /\ Goto(p, "ended")
  /\ UNCHANGED <<envelope, tracker, sent, outrun, budgets>>

(***************************************************************************)
(* flush: read the envelope; an earlier intent is settled first.           *)
(***************************************************************************)
\* Mutant: an earlier intent is not settled before a new one is written.
AfterLoadForgetful(p) ==
  IF envelope.status \in {"quarantined", "submitted"} THEN "release" ELSE "intent"

AfterLoad(p) ==
  CASE envelope.status \in {"quarantined", "submitted"} -> "release"
    [] envelope.status = "submit_intent" -> "recover"
    [] OTHER -> "intent"

Load(p) ==
  /\ At(p, "load")
  /\ Goto(p, AfterLoad(p))
  /\ UNCHANGED <<envelope, lock, tracker, sent, outrun, budgets>>

(***************************************************************************)
(* discoverExisting: every page of open issues, the lowest marker match.   *)
(* Incomplete pagination or a failing provider is ambiguous, not absence.  *)
(***************************************************************************)
Matches == {n \in DOMAIN issues : issues[n].open}
Lowest == CHOOSE n \in Matches : \A m \in Matches : n <= m

\* Mutant: pages that could not be read are taken for pages without a match.
DiscoverHopeful(p, absent) ==
  \/ Fails(p, absent) /\ UNCHANGED late
  \/ /\ Matches # {}
     /\ call' = [call EXCEPT ![p].pc = "mark", ![p].issue = Lowest,
                             ![p].body = issues[Lowest].body]
     /\ UNCHANGED <<failures, late>>
  \/ /\ Matches = {}
     /\ Goto(p, absent)
     /\ late' = (late \/ flight # {})
     /\ UNCHANGED failures

Discover(p, absent) ==
  \/ /\ Fails(p, "release")
     /\ UNCHANGED late
  \/ /\ Matches # {}
     /\ call' = [call EXCEPT ![p].pc = "mark", ![p].issue = Lowest,
                             ![p].body = issues[Lowest].body]
     /\ UNCHANGED <<failures, late>>
  \/ /\ Matches = {}
     /\ Goto(p, absent)
     /\ late' = (late \/ flight # {})
     /\ UNCHANGED failures

\* recoverSubmitIntent, and the new nonce an absent intent's retry must bring.
AfterAbsent(p) == IF envelope.nonce = call[p].nonce THEN "release" ELSE "intent"

Recover(p) ==
  /\ At(p, "recover")
  /\ Discover(p, AfterAbsent(p))
  /\ UNCHANGED <<envelope, lock, issues, flight, sent, outrun, crashes, edits>>

MarkSubmitIntent(p) ==
  /\ At(p, "intent")
  /\ Transition(p, {"pending", "submit_intent"},
                [envelope EXCEPT !.status = "submit_intent", !.nonce = call[p].nonce], "discover")
  /\ sent' = IF envelope'.nonce = envelope.nonce THEN sent ELSE 0
  /\ UNCHANGED <<lock, tracker, outrun, crashes, edits>>

\* executeDurableIntent discovers again before it acts.
DiscoverBeforeCreate(p) ==
  /\ At(p, "discover")
  /\ Discover(p, "create")
  /\ UNCHANGED <<envelope, lock, issues, flight, sent, outrun, crashes, edits>>

\* GhFeedbackTransport.createIssue: the repository's identity, then the request.
CreateIssue(p) ==
  /\ At(p, "create")
  /\ \/ /\ Goto(p, "await")
        /\ flight' = flight \cup {p}
        /\ sent' = sent + 1
        /\ UNCHANGED failures
     \/ /\ Fails(p, "release")
        /\ UNCHANGED <<flight, sent>>
  /\ UNCHANGED <<envelope, lock, issues, late, outrun, crashes, edits>>

\* The answer, the readback and the second identity check: any of them may fail,
\* and an issue whose body is no longer the packet's is not acknowledged.
ReadBack(p) ==
  /\ At(p, "landed")
  /\ \/ /\ LET body == issues[call[p].issue].body
           IN call' = [call EXCEPT ![p].body = body,
                                   ![p].pc = IF body = "exact" THEN "mark" ELSE "release"]
        /\ UNCHANGED failures
     \/ Fails(p, "release")
  /\ UNCHANGED <<envelope, lock, tracker, sent, outrun, crashes, edits>>

\* gh is killed after its timeout; the request may still land.
TimeOut(p) ==
  /\ At(p, "await")
  /\ Fails(p, "release")
  /\ UNCHANGED <<envelope, lock, tracker, sent, outrun, crashes, edits>>

\* markSubmitted: only an issue whose body, as it was read, is byte for byte the packet's.
MarkSubmitted(p) ==
  /\ At(p, "mark")
  /\ IF call[p].body = "exact"
     THEN Transition(p, {"pending", "submit_intent"},
                     [envelope EXCEPT !.status = "submitted", !.issue = call[p].issue], "release")
     ELSE Goto(p, "release") /\ UNCHANGED <<envelope, failures>>
  /\ UNCHANGED <<lock, tracker, sent, outrun, crashes, edits>>

(***************************************************************************)
(* GitHub, and everyone else who uses the tracker.                         *)
(***************************************************************************)
File(issue) == Len(issues) < MaxIssues /\ issues' = Append(issues, issue)

Land(p) ==
  /\ p \in flight
  /\ flight' = flight \ {p}
  /\ File([ours |-> TRUE, body |-> "exact", open |-> TRUE])
  /\ call' = IF At(p, "await")
             THEN [call EXCEPT ![p].pc = "landed", ![p].issue = Len(issues) + 1] ELSE call
  /\ UNCHANGED <<envelope, lock, sent, late, outrun, budgets>>

Drop(p) ==
  /\ p \in flight
  /\ flight' = flight \ {p}
  /\ call' = IF At(p, "await") THEN [call EXCEPT ![p].pc = "release"] ELSE call
  /\ UNCHANGED <<envelope, lock, issues, sent, late, outrun, budgets>>

\* Another outbox reports the same fingerprint, with or without another narrative.
OtherReport ==
  /\ \E body \in {"exact", "other"} : File([ours |-> FALSE, body |-> body, open |-> TRUE])
  /\ UNCHANGED <<envelope, lock, call, flight, sent, late, outrun, budgets>>

Maintain ==
  /\ edits < MaxEdits
  /\ edits' = edits + 1
  /\ \E n \in DOMAIN issues :
        \/ issues' = [issues EXCEPT ![n].open = FALSE]
        \/ issues' = [issues EXCEPT ![n].body = "other"]
  /\ UNCHANGED <<envelope, lock, call, flight, sent, late, outrun, crashes, failures>>

Crash(p) ==
  /\ crashes < MaxCrashes
  /\ call[p].pc \notin {"idle", "ended", "lost"}
  /\ crashes' = crashes + 1
  /\ call' = [call EXCEPT ![p] = [Idle EXCEPT !.pc = "lost"]]
  /\ UNCHANGED <<envelope, lock, tracker, sent, outrun, failures, edits>>

Locking(p) ==
  OpenLock(p) \/ WriteLock(p) \/ StatLock(p) \/ ProbeHolder(p) \/ RestatLock(p)
    \/ UnlinkLock(p) \/ ReleaseLock(p)

Flushing(p) ==
  Load(p) \/ Recover(p) \/ MarkSubmitIntent(p) \/ DiscoverBeforeCreate(p)
    \/ CreateIssue(p) \/ ReadBack(p) \/ TimeOut(p) \/ MarkSubmitted(p)

Next ==
  \/ \E p \in Processes : Submit(p) \/ Locking(p) \/ Flushing(p) \/ Land(p) \/ Drop(p) \/ Crash(p)
  \/ Quarantine \/ OtherReport \/ Maintain

Spec == Init /\ [][Next]_vars

(***************************************************************************)
(* Properties.                                                             *)
(***************************************************************************)

(***************************************************************************)
(* A report is not filed twice.  Through crashes, lost answers, retries    *)
(* and competing processes at most one issue this outbox created is open,  *)
(* unless a discovery ran while an earlier request was still in flight, or *)
(* a takeover's unlink hit a lock younger than the one it examined: those  *)
(* two windows are the only ways to a duplicate.                           *)
(***************************************************************************)
FiledOnce ==
  late \/ outrun \/ Cardinality({n \in DOMAIN issues : issues[n].ours /\ issues[n].open}) <= 1

(***************************************************************************)
(* A new nonce is required before an absent submit intent is retried       *)
(* (authority.ts): between two create requests, whichever processes sent   *)
(* them and whatever was lost in between, an intent with another nonce has *)
(* been written; and a packet is called submitted only when its number     *)
(* names an issue that was filed.                                          *)
(***************************************************************************)
RetriesAreAuthorised ==
  /\ outrun \/ sent <= 1
  /\ envelope.status = "submitted" => envelope.issue \in DOMAIN issues
=============================================================================

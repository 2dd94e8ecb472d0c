-------------------------- MODULE InstallerProofs --------------------------
(***************************************************************************)
(* Proofs about Installer, for any number of processes, versions and       *)
(* skills and any bounds on crashes and faults: no crash, error or         *)
(* recovery loses the installation, and a call reports what it leaves.     *)
(*                                                                         *)
(* The argument has two layers.  Under the lock (LockInv): as long as no   *)
(* reap went on after the holder it read had released, the lock file       *)
(* belongs to whoever is past its creation, so one call at most is inside  *)
(* (Alone).  On the disk: the journal alone says what an interrupted       *)
(* transaction left (JournalInv): the old set is spread over destination   *)
(* and backup, or the new one is whole, or the removal is complete.  What  *)
(* the one call inside has validated so far (RecoveryInv, TransactionInv,  *)
(* OutcomeInv) carries that through each rename and each removal.          *)
(***************************************************************************)
EXTENDS Installer, TLAPS

OutsidePcs == {"idle", "ended", "lost", "open", "guard", "read", "probe", "reap", "reopen",
               "drop", "unguard", "check", "standdown", "write"}
InsidePcs == {"recover", "r-commit", "gather", "putback", "undone", "done", "rm-stage",
              "rm-backup", "rm-journal", "prepare", "stage", "journal", "backing", "backup",
              "swap", "installed", "removed", "release", "unlock"}
Pcs == OutsidePcs \cup InsidePcs

\* Guarding: the reap guard directory is this process's.  Making: its lock names no pid yet.
Guarding == {"read", "probe", "reap", "reopen", "drop", "unguard"}
Making == {"unguard", "check", "standdown", "write"}

\* A transaction as a journal may hold it.
Txns == {t \in [operation : {"install", "uninstall"},
                phase : {"staged", "backing-up", "swapping", "committed"},
                manifest : Versions, previous : Versions \cup {None}] :
           t.operation = "uninstall" => t.previous = t.manifest}

Calls == [pc : Pcs, version : Versions \cup {None}, saw : Processes \cup {None},
          txn : Txns \cup {Nothing}, at : Nat,
          then : {"none", "prepare", "failed", "installed", "removed"},
          result : {"none", "refused", "failed", "stuck", "installed", "removed"},
          found : Versions \cup {None}]
Sets == [Entries -> Versions \cup {None}]
Locks == {Free} \cup [by : Processes, written : BOOLEAN]

InstallerTypeOK ==
  /\ dest \in Sets
  /\ stage \in Sets
  /\ backup \in Sets \cup {None}
  /\ journal \in Txns \cup {Nothing}
  /\ lock \in Locks
  /\ reaper \in Processes \cup {None}
  /\ outrun \in BOOLEAN
  /\ call \in [Processes -> Calls]
  /\ crashes \in Nat
  /\ faults \in Nat

-----------------------------------------------------------------------------
(* The lock.                                                               *)

Owns(p, written) == lock = [by |-> p, written |-> written]

LockInv ==
  \/ outrun
  \/ \A p \in Processes :
       /\ call[p].pc \in Guarding => reaper = p
       /\ call[p].pc \in Making => Owns(p, FALSE)
       /\ call[p].pc \in InsidePcs => Owns(p, TRUE)
       /\ call[p].pc \in {"probe", "reap"} =>
            /\ call[p].saw \in Processes
            /\ At(call[p].saw, "ended") \/ Owns(call[p].saw, TRUE)
       /\ call[p].pc = "reap" => ~ Alive(call[p].saw)

Alone == \A p, q \in Processes :
           call[p].pc \in InsidePcs /\ call[q].pc \in InsidePcs => p = q

-----------------------------------------------------------------------------
(* The disk.                                                               *)

\* Every entry of the set the transaction found is in the destination or in the backup.
Kept(t) ==
  t.previous # None =>
    \A e \in Entries : \/ dest[e] = t.previous
                       \/ backup # None /\ backup[e] = t.previous
\* The backup holds nothing but that set.
Stored(t) == backup # None => \A e \in Entries : backup[e] \in {None, t.previous}
Swapped(t) == t.operation = "install" /\ dest = Whole(t.manifest)
Gone(t) == t.operation = "uninstall" /\ t.phase = "committed" /\ dest = Empty

JournalInv ==
  IF journal = Nothing
  THEN dest = Whole(dest[Manifest])
  ELSE Stored(journal) /\ (Kept(journal) \/ Swapped(journal) \/ Gone(journal))

\* The call's copy of the journal differs from the disk's in its phase at most.
Agrees(t) ==
  /\ t \in Txns
  /\ journal # Nothing
  /\ journal.operation = t.operation
  /\ journal.manifest = t.manifest
  /\ journal.previous = t.previous

Removing == {"rm-stage", "rm-backup", "rm-journal"}
Undoing == {"gather", "putback", "undone"}

\* The call inside finishes or undoes the transaction in the journal.
RecoveryInv(p) ==
  LET c == call[p]
      t == call[p].txn
  IN /\ c.pc = "recover" /\ c.then = "failed" =>
          /\ journal # Nothing /\ journal.operation = "uninstall"
          /\ journal.phase # "committed" /\ journal.previous = c.found
     /\ c.pc = "recover" => c.then \in {"prepare", "failed"}
     /\ c.pc \in Removing \cup Undoing \cup {"r-commit", "done"} => Agrees(t)
     /\ c.pc = "r-commit" => Swapped(t) /\ c.then = "prepare"
     /\ c.pc \in {"gather", "putback"} => Kept(t)
     /\ c.pc \in Undoing => /\ c.then \in {"prepare", "failed"}
                            /\ c.then = "failed" => c.found = t.previous
     /\ c.pc = "done" => /\ t.operation = "uninstall" => journal.phase = "committed"
                         /\ c.then \in {"prepare", "installed", "removed"}
                         /\ c.then = "installed" => Target(t) = c.version
                         /\ c.then = "removed" => Target(t) = None

\* The call inside moves its own transaction forward.
TransactionInv(p) ==
  LET c == call[p]
      t == call[p].txn
  IN /\ c.pc \in {"prepare", "stage", "journal"} => journal = Nothing
     /\ c.pc \in {"prepare", "stage", "journal", "backing", "backup", "swap"} =>
          c.then = "prepare"
     /\ c.pc \in {"stage", "journal", "backing", "backup", "swap"} =>
          /\ t \in Txns /\ c.found = t.previous
          /\ t.operation = IF c.version = None THEN "uninstall" ELSE "install"
          /\ t.operation = "install" => t.manifest = c.version
          /\ t.phase # "committed"
     /\ c.pc \in {"stage", "journal", "backing"} => dest = Whole(t.previous)
     /\ c.pc \in {"journal", "backing"} => backup = Empty
     /\ c.pc = "stage" \/ c.pc = "journal" =>
          t.phase = IF c.version = None THEN "backing-up" ELSE "staged"
     /\ c.pc = "backing" => Agrees(t) /\ c.version # None
     /\ c.pc \in {"backup", "swap"} => journal = t /\ backup # None
     /\ c.pc = "backup" =>
          /\ c.at > 0
          /\ \A e \in Entries :
               IF e < c.at THEN dest[e] = None /\ backup[e] = t.previous
                           ELSE dest[e] = t.previous
     /\ c.pc = "swap" => /\ c.version # None
                         /\ \A e \in Entries : backup[e] = t.previous

\* What the call inside has validated stays true until it reports it.
OutcomeInv(p) ==
  LET c == call[p]
      t == call[p].txn
  IN /\ c.pc \in Removing =>
          /\ dest = Whole(t.previous) \/ Swapped(t) \/ Gone(journal)
          /\ c.then = "installed" => dest = Whole(c.version)
          /\ c.then = "removed" => dest = Empty
          /\ c.then = "failed" => dest = Whole(c.found)
          /\ c.then # "none"
     /\ c.pc = "installed" => dest = Whole(c.version) /\ journal = Nothing
     /\ c.pc = "removed" => dest = Empty /\ journal = Nothing
     /\ c.pc = "release" =>
          /\ c.result = "installed" => dest = Whole(c.version) /\ journal = Nothing
          /\ c.result = "removed" => dest = Empty /\ journal = Nothing
          /\ c.result = "failed" => dest = Whole(c.found) /\ journal = Nothing

Holds(p) == RecoveryInv(p) /\ TransactionInv(p) /\ OutcomeInv(p)

InstallerInv ==
  /\ InstallerTypeOK
  /\ LockInv
  /\ Alone
  /\ JournalInv
  /\ \A p \in Processes : Holds(p)

(***************************************************************************)
(* Types, and the frame: a step of one call leaves the others alone.       *)
(***************************************************************************)
OnlyCall(p) == \A q \in Processes \ {p} : call'[q] = call[q]

LEMMA GotoTyped ==
  ASSUME NEW p \in Processes, NEW pc \in Pcs, call \in [Processes -> Calls], Goto(p, pc)
  PROVE  /\ call' \in [Processes -> Calls]
         /\ call'[p] = [call[p] EXCEPT !.pc = pc]
         /\ OnlyCall(p)
  <1>1. [call[p] EXCEPT !.pc = pc] \in Calls
    BY DEF Calls
  <1>2. call' = [call EXCEPT ![p] = [call[p] EXCEPT !.pc = pc]]
    BY DEF Goto
  <1> QED BY <1>1, <1>2 DEF OnlyCall

LEMMA FinishTyped ==
  ASSUME NEW p \in Processes, NEW result \in {"failed", "stuck", "installed", "removed"},
         call \in [Processes -> Calls], Finish(p, result)
  PROVE  /\ call' \in [Processes -> Calls]
         /\ call'[p] = [call[p] EXCEPT !.pc = "release", !.result = result]
         /\ OnlyCall(p)
  <1>1. [call[p] EXCEPT !.pc = "release", !.result = result] \in Calls
    BY ZenonT(60) DEF Calls, Pcs, InsidePcs
  <1>2. call' = [call EXCEPT ![p] = [call[p] EXCEPT !.pc = "release", !.result = result]]
    BY DEF Finish
  <1> QED BY <1>1, <1>2 DEF OnlyCall

LEMMA RefuseTyped ==
  ASSUME NEW p \in Processes, call \in [Processes -> Calls], Refuse(p)
  PROVE  /\ call' \in [Processes -> Calls]
         /\ call'[p] = [call[p] EXCEPT !.pc = "ended", !.result = "refused"]
         /\ OnlyCall(p)
  <1>1. [call[p] EXCEPT !.pc = "ended", !.result = "refused"] \in Calls
    BY ZenonT(60) DEF Calls, Pcs, OutsidePcs
  <1>2. call' = [call EXCEPT ![p] = [call[p] EXCEPT !.pc = "ended", !.result = "refused"]]
    BY DEF Refuse
  <1> QED BY <1>1, <1>2 DEF OnlyCall

\* A call past its recovery goes on to what it recovered for, or reports its failure.
LEMMA ContinueTyped ==
  ASSUME NEW p \in Processes, call \in [Processes -> Calls], call[p].then # "none", Continue(p)
  PROVE  /\ call' \in [Processes -> Calls]
         /\ call'[p] = IF call[p].then = "failed"
                       THEN [call[p] EXCEPT !.pc = "release", !.result = "failed"]
                       ELSE [call[p] EXCEPT !.pc = call[p].then]
         /\ OnlyCall(p)
  <1>1. CASE call[p].then = "failed"
    <2>1. [call[p] EXCEPT !.pc = "release", !.result = "failed"] \in Calls
      BY ZenonT(60) DEF Calls, Pcs, InsidePcs
    <2>2. call' = [call EXCEPT ![p] = [call[p] EXCEPT !.pc = "release", !.result = "failed"]]
      BY <1>1 DEF Continue
    <2> QED BY <1>1, <2>1, <2>2 DEF OnlyCall
  <1>2. CASE call[p].then # "failed"
    <2>1. [call[p] EXCEPT !.pc = call[p].then] \in Calls
      BY <1>2 DEF Calls, Pcs, InsidePcs
    <2>2. call' = [call EXCEPT ![p] = [call[p] EXCEPT !.pc = call[p].then]]
      BY <1>2 DEF Continue
    <2> QED BY <1>2, <2>1, <2>2 DEF OnlyCall
  <1> QED BY <1>1, <1>2

LEMMA OwnLockTyped ==
  ASSUME NEW p \in Processes, NEW written \in BOOLEAN
  PROVE  [by |-> p, written |-> written] \in Locks
  BY DEF Locks

LEMMA TypeInit == Init => InstallerTypeOK
  <1> SUFFICES ASSUME Init PROVE InstallerTypeOK
    OBVIOUS
  <1>1. Idle \in Calls
    BY DEF Idle, Calls, Pcs, OutsidePcs, Nothing
  <1> QED BY <1>1, InstallerAssumption
          DEF Init, InstallerTypeOK, Sets, Whole, Empty, Locks

\* A step of the lock protocol keeps the types and leaves the disk alone.
LEMMA LockingTyped ==
  ASSUME InstallerTypeOK, NEW p \in Processes, Locking(p)
  PROVE  InstallerTypeOK' /\ OnlyCall(p) /\ UNCHANGED disk
  <1> USE DEF InstallerTypeOK
  <1>1. CASE Start(p)
    <2>1. PICK v \in Versions \cup {None} :
             call' = [call EXCEPT ![p] = [call[p] EXCEPT !.pc = "open", !.version = v]]
      BY <1>1 DEF Start
    <2>2. [call[p] EXCEPT !.pc = "open", !.version = v] \in Calls
      BY ZenonT(60) DEF Calls, Pcs, OutsidePcs
    <2> QED BY <1>1, <2>1, <2>2 DEF Start, OnlyCall, disk, locks
  <1>2. CASE OpenLock(p)
    <2>1. "check" \in Pcs /\ "guard" \in Pcs
      BY DEF Pcs, OutsidePcs
    <2>2. lock' = [by |-> p, written |-> FALSE] \/ lock' = lock
      BY <1>2, Zenon DEF OpenLock
    <2>3. Goto(p, "check") \/ Goto(p, "guard")
      BY <1>2, Zenon DEF OpenLock
    <2>4. lock' \in Locks
      BY <2>2, OwnLockTyped
    <2> QED BY <1>2, <2>1, <2>2, <2>3, <2>4, GotoTyped DEF OpenLock, disk
  <1>3. CASE MakeReaper(p)
    <2>1. "read" \in Pcs
      BY DEF Pcs, OutsidePcs
    <2> QED BY <1>3, <2>1, GotoTyped, RefuseTyped DEF MakeReaper, disk
  <1>4. CASE ReadLock(p)
    <2> DEFINE r == [call[p] EXCEPT !.saw = lock.by,
                                    !.pc = IF lock.written THEN "probe" ELSE "drop"]
    <2>1. call' = [call EXCEPT ![p] = r]
      BY <1>4 DEF ReadLock
    <2>2. lock.by \in Processes \cup {None}
      BY DEF Locks, Free
    <2>3. "probe" \in Pcs /\ "drop" \in Pcs
      BY DEF Pcs, OutsidePcs
    <2>4. r \in Calls
      BY <2>2, <2>3 DEF Calls
    <2> HIDE DEF r
    <2> QED BY <1>4, <2>1, <2>4 DEF ReadLock, OnlyCall, disk, locks
  <1>5. CASE ProbeHolder(p)
    <2>1. "drop" \in Pcs /\ "reap" \in Pcs
      BY DEF Pcs, OutsidePcs
    <2> QED BY <1>5, <2>1, GotoTyped DEF ProbeHolder, disk, locks
  <1>6. CASE ReapLock(p)
    <2>1. "drop" \in Pcs /\ "reopen" \in Pcs
      BY DEF Pcs, OutsidePcs
    <2>2. lock' \in Locks /\ outrun' \in BOOLEAN
      BY <1>6 DEF ReapLock, Locks
    <2> QED BY <1>6, <2>1, <2>2, GotoTyped DEF ReapLock, disk
  <1>7. CASE ReopenLock(p)
    <2>1. "unguard" \in Pcs /\ "drop" \in Pcs
      BY DEF Pcs, OutsidePcs
    <2>2. lock' = [by |-> p, written |-> FALSE] \/ lock' = lock
      BY <1>7, Zenon DEF ReopenLock
    <2>3. Goto(p, "unguard") \/ Goto(p, "drop")
      BY <1>7, Zenon DEF ReopenLock
    <2>4. lock' \in Locks
      BY <2>2, OwnLockTyped
    <2> QED BY <1>7, <2>1, <2>2, <2>3, <2>4, GotoTyped DEF ReopenLock, disk
  <1>8. CASE RemoveReaper(p)
    <2>1. "check" \in Pcs
      BY DEF Pcs, OutsidePcs
    <2> QED BY <1>8, <2>1, GotoTyped, RefuseTyped DEF RemoveReaper, disk
  <1>9. CASE CheckReaper(p)
    <2>1. AfterGuardCheck \in Pcs
      BY DEF AfterGuardCheck, Pcs, OutsidePcs
    <2> QED BY <1>9, <2>1, GotoTyped DEF CheckReaper, disk, locks
  <1>10. CASE StandDown(p)
    <2>1. lock' \in Locks
      BY <1>10 DEF StandDown, Locks
    <2> QED BY <1>10, <2>1, RefuseTyped DEF StandDown, disk
  <1>11. CASE WriteLock(p)
    <2> DEFINE r == [call[p] EXCEPT !.pc = "recover", !.then = "prepare"]
    <2>1. call' = [call EXCEPT ![p] = r]
      BY <1>11 DEF WriteLock
    <2>2. r \in Calls
      BY ZenonT(60) DEF Calls, Pcs, InsidePcs
    <2>3. lock' \in Locks
      BY <1>11, InstallerAssumption DEF WriteLock, Locks, Free
    <2> QED BY <1>11, <2>1, <2>2, <2>3 DEF WriteLock, OnlyCall, disk
  <1>12. CASE Release(p)
    <2>1. "unlock" \in Pcs /\ "ended" \in Pcs
      BY DEF Pcs, OutsidePcs, InsidePcs
    <2> QED BY <1>12, <2>1, GotoTyped DEF Release, disk, locks
  <1>13. CASE Unlock(p)
    <2>1. "ended" \in Pcs /\ lock' \in Locks
      BY <1>13 DEF Unlock, Pcs, OutsidePcs, Locks
    <2> QED BY <1>13, <2>1, GotoTyped DEF Unlock, disk
  <1> QED BY <1>1, <1>2, <1>3, <1>4, <1>5, <1>6, <1>7, <1>8, <1>9, <1>10, <1>11, <1>12, <1>13
          DEF Locking

\* A step of a call inside: it stays inside and remembers whom it once probed.
Works(p) ==
  /\ call' \in [Processes -> Calls]
  /\ OnlyCall(p)
  /\ call'[p].pc \in InsidePcs
  /\ call'[p].saw = call[p].saw

DiskTyped ==
  /\ dest \in Sets
  /\ stage \in Sets
  /\ backup \in Sets \cup {None}
  /\ journal \in Txns \cup {Nothing}

LEMMA CallWorks ==
  ASSUME NEW p \in Processes, call \in [Processes -> Calls], NEW r \in Calls,
         call' = [call EXCEPT ![p] = r], r.pc \in InsidePcs, r.saw = call[p].saw
  PROVE  Works(p)
  BY DEF Works, OnlyCall

LEMMA GotoWorks ==
  ASSUME NEW p \in Processes, NEW pc \in InsidePcs, call \in [Processes -> Calls], Goto(p, pc)
  PROVE  Works(p)
  <1>1. pc \in Pcs /\ call[p] \in Calls
    BY DEF Pcs
  <1>2. /\ call' \in [Processes -> Calls]
        /\ call'[p] = [call[p] EXCEPT !.pc = pc]
        /\ OnlyCall(p)
    BY <1>1, GotoTyped
  <1>3. call'[p].pc = pc /\ call'[p].saw = call[p].saw
    BY <1>1, <1>2 DEF Calls
  <1> QED BY <1>2, <1>3 DEF Works

LEMMA FinishWorks ==
  ASSUME NEW p \in Processes, NEW result \in {"failed", "stuck", "installed", "removed"},
         call \in [Processes -> Calls], Finish(p, result)
  PROVE  Works(p)
  <1>1. /\ call' \in [Processes -> Calls]
        /\ call'[p] = [call[p] EXCEPT !.pc = "release", !.result = result]
        /\ OnlyCall(p)
    BY FinishTyped
  <1>2. call'[p].pc \in InsidePcs /\ call'[p].saw = call[p].saw
    BY <1>1 DEF Calls, InsidePcs
  <1> QED BY <1>1, <1>2 DEF Works

LEMMA ContinueWorks ==
  ASSUME NEW p \in Processes, call \in [Processes -> Calls], call[p].then # "none", Continue(p)
  PROVE  Works(p)
  <1>1. /\ call' \in [Processes -> Calls]
        /\ call'[p] = IF call[p].then = "failed"
                      THEN [call[p] EXCEPT !.pc = "release", !.result = "failed"]
                      ELSE [call[p] EXCEPT !.pc = call[p].then]
        /\ OnlyCall(p)
    BY ContinueTyped
  <1>2. call'[p].pc \in InsidePcs /\ call'[p].saw = call[p].saw
    BY <1>1 DEF Calls, InsidePcs
  <1> QED BY <1>1, <1>2 DEF Works

LEMMA WritePhaseTyped ==
  ASSUME NEW p \in Processes, call[p].txn \in Txns,
         NEW phase \in {"staged", "backing-up", "swapping", "committed"}, WritePhase(p, phase)
  PROVE  /\ journal' \in Txns /\ journal' # Nothing
         /\ journal' = [call[p].txn EXCEPT !.phase = phase]
  BY DEF WritePhase, Txns, Nothing

\* The next entry of a loop over the entries.
LEMMA NextEntryWorks ==
  ASSUME NEW p \in Processes, call \in [Processes -> Calls], call[p].pc \in InsidePcs,
         call' = [call EXCEPT ![p].at = call[p].at + 1]
  PROVE  /\ Works(p)
         /\ call'[p] = [call[p] EXCEPT !.at = call[p].at + 1]
  <1> DEFINE r == [call[p] EXCEPT !.at = call[p].at + 1]
  <1>1. r \in Calls /\ r.pc = call[p].pc /\ r.saw = call[p].saw
    BY DEF Calls
  <1>2. call' = [call EXCEPT ![p] = r] /\ call'[p] = r
    OBVIOUS
  <1> HIDE DEF r
  <1>3. Works(p)
    BY <1>1, <1>2, CallWorks
  <1> QED BY <1>2, <1>3 DEF r

\* A step that recovers keeps the types and the locks, and stays inside.
LEMMA RecoveringTyped ==
  ASSUME InstallerTypeOK, NEW p \in Processes, RecoveryInv(p), OutcomeInv(p), Recovering(p)
  PROVE  /\ call[p].pc \in InsidePcs /\ Works(p) /\ DiskTyped'
         /\ UNCHANGED <<locks, crashes, faults>>
  <1>0. /\ call \in [Processes -> Calls] /\ call[p] \in Calls /\ DiskTyped
        /\ call[p].txn \in Txns \cup {Nothing}
    BY DEF InstallerTypeOK, Calls, DiskTyped
  <1>1. CASE Recover(p)
    <2> DEFINE r == [call[p] EXCEPT !.txn = journal, !.pc = RecoverPlan(journal), !.at = 1]
    <2>0. call[p].pc = "recover" /\ UNCHANGED <<disk, locks, crashes, faults>>
      BY <1>1 DEF Recover, At
    <2>1. CASE journal = Nothing
      <3>1. Continue(p)
        BY <1>1, <2>1 DEF Recover
      <3>2. call[p].then # "none"
        BY <2>0 DEF RecoveryInv
      <3> QED BY <1>0, <2>0, <3>1, <3>2, ContinueWorks DEF disk, InsidePcs, DiskTyped
    <2>2. CASE journal # Nothing
      <3>1. call' = [call EXCEPT ![p] = r]
        BY <1>1, <2>2 DEF Recover
      <3>2. RecoverPlan(journal) \in InsidePcs /\ RecoverPlan(journal) \in Pcs
        BY DEF RecoverPlan, InsidePcs, Pcs
      <3>3. r \in Calls /\ r.pc \in InsidePcs /\ r.saw = call[p].saw
        BY <1>0, <3>2 DEF Calls, DiskTyped
      <3> HIDE DEF r
      <3>4. Works(p)
        BY <1>0, <3>1, <3>3, CallWorks
      <3> QED BY <1>0, <2>0, <3>4 DEF disk, InsidePcs, DiskTyped
    <2> QED BY <2>1, <2>2
  <1>2. CASE RecoverCommit(p)
    <2>1. call[p].txn \in Txns /\ call[p].pc = "r-commit"
      BY <1>2 DEF RecoverCommit, RecoveryInv, Agrees, At
    <2>2. journal' \in Txns
      BY <1>2, <2>1, WritePhaseTyped DEF RecoverCommit
    <2>3. Works(p)
      BY <1>0, <1>2, GotoWorks DEF RecoverCommit, InsidePcs
    <2> QED BY <1>0, <1>2, <2>1, <2>2, <2>3 DEF RecoverCommit, InsidePcs, DiskTyped
  <1>3. CASE Gather(p)
    <2>1. /\ call[p].pc = "gather" /\ call[p].at \in Entries
          /\ UNCHANGED <<stage, journal, locks, crashes, faults>>
      BY <1>3 DEF Gather, At
    <2>2. \/ call' = [call EXCEPT ![p].at = call[p].at + 1]
          \/ Finish(p, "stuck")
      BY <1>3 DEF Gather
    <2>3. dest' \in Sets /\ backup' \in Sets \cup {None}
      BY <1>0, <1>3, <2>1 DEF Gather, Sets, DiskTyped
    <2>4. Works(p)
      BY <1>0, <2>1, <2>2, NextEntryWorks, FinishWorks DEF InsidePcs
    <2> QED BY <1>0, <2>1, <2>3, <2>4 DEF InsidePcs, DiskTyped
  <1>4. CASE GatherDone(p)
    <2> DEFINE r == [call[p] EXCEPT !.pc = "putback", !.at = 1]
    <2>1. r \in Calls /\ r.pc \in InsidePcs /\ r.saw = call[p].saw
      BY <1>0 DEF Calls, Pcs, InsidePcs
    <2>2. call' = [call EXCEPT ![p] = r] \/ Finish(p, "stuck")
      BY <1>4 DEF GatherDone
    <2>3. call[p].pc = "gather" /\ UNCHANGED <<disk, locks, crashes, faults>>
      BY <1>4 DEF GatherDone, At
    <2> HIDE DEF r
    <2>4. Works(p)
      BY <1>0, <2>1, <2>2, CallWorks, FinishWorks
    <2> QED BY <1>0, <2>3, <2>4 DEF disk, InsidePcs, DiskTyped
  <1>5. CASE PutBack(p)
    <2>1. /\ call[p].pc = "putback" /\ call[p].at \in Entries
          /\ call' = [call EXCEPT ![p].at = call[p].at + 1]
          /\ UNCHANGED <<stage, journal, locks, crashes, faults>>
      BY <1>5 DEF PutBack, At
    <2>2. dest' \in Sets /\ backup' \in Sets \cup {None}
      BY <1>0, <1>5, <2>1 DEF PutBack, Sets, Held, DiskTyped
    <2>3. Works(p)
      BY <1>0, <2>1, NextEntryWorks DEF InsidePcs
    <2> QED BY <1>0, <2>1, <2>2, <2>3 DEF InsidePcs, DiskTyped
  <1>6. CASE PutBackDone(p)
    <2>1. /\ call[p].pc = "putback" /\ call[p].txn \in Txns
          /\ UNCHANGED <<dest, stage, backup, locks, crashes, faults>>
      BY <1>6 DEF PutBackDone, RecoveryInv, Agrees, Undoing, At
    <2>2. \/ WritePhase(p, "committed") /\ Goto(p, "undone")
          \/ Finish(p, "stuck") /\ UNCHANGED journal
      BY <1>6 DEF PutBackDone
    <2>3. journal' \in Txns \cup {Nothing}
      BY <1>0, <2>1, <2>2, WritePhaseTyped DEF DiskTyped
    <2>4. Works(p)
      BY <1>0, <2>2, GotoWorks, FinishWorks DEF InsidePcs
    <2> QED BY <1>0, <2>1, <2>3, <2>4 DEF InsidePcs, DiskTyped
  <1>7. CASE CleanCommitted(p) \/ CleanRollback(p)
    <2>1. /\ call[p].pc \in InsidePcs /\ UNCHANGED <<disk, locks, crashes, faults>>
          /\ Goto(p, "rm-stage") \/ Finish(p, "stuck")
      BY <1>7 DEF CleanCommitted, CleanRollback, At, InsidePcs
    <2>2. Works(p)
      BY <1>0, <2>1, GotoWorks, FinishWorks DEF InsidePcs
    <2> QED BY <1>0, <2>1, <2>2 DEF disk, DiskTyped
  <1>8. CASE RemoveStage(p)
    <2>1. stage' \in Sets
      BY <1>8 DEF RemoveStage, Sets, Empty, Whole
    <2>2. Works(p)
      BY <1>0, <1>8, GotoWorks DEF RemoveStage, InsidePcs
    <2> QED BY <1>0, <1>8, <2>1, <2>2 DEF RemoveStage, At, InsidePcs, DiskTyped
  <1>9. CASE RemoveBackupEntry(p)
    <2>1. backup' \in Sets \cup {None}
      BY <1>0, <1>9 DEF RemoveBackupEntry, Sets, Held, DiskTyped
    <2>2. /\ call[p].pc \in InsidePcs
          /\ UNCHANGED <<dest, stage, journal, call, locks, crashes, faults>>
      BY <1>9 DEF RemoveBackupEntry, At, InsidePcs
    <2> QED BY <1>0, <2>1, <2>2 DEF Works, OnlyCall, DiskTyped
  <1>10. CASE RemoveBackup(p)
    <2>1. Works(p)
      BY <1>0, <1>10, GotoWorks DEF RemoveBackup, InsidePcs
    <2> QED BY <1>0, <1>10, <2>1 DEF RemoveBackup, At, InsidePcs, DiskTyped
  <1>11. CASE RemoveJournal(p)
    <2>1. call[p].pc = "rm-journal" /\ call[p].then # "none"
      BY <1>11 DEF RemoveJournal, OutcomeInv, Removing, At
    <2>2. Works(p)
      BY <1>0, <1>11, <2>1, ContinueWorks DEF RemoveJournal
    <2> QED BY <1>0, <1>11, <2>1, <2>2 DEF RemoveJournal, InsidePcs, DiskTyped
  <1> QED BY <1>1, <1>2, <1>3, <1>4, <1>5, <1>6, <1>7, <1>8, <1>9, <1>10, <1>11 DEF Recovering

\* A step of a call's own transaction keeps the types and the locks, and stays inside.
LEMMA TransactingTyped ==
  ASSUME InstallerTypeOK, NEW p \in Processes, TransactionInv(p), Transacting(p)
  PROVE  /\ call[p].pc \in InsidePcs /\ Works(p) /\ DiskTyped'
         /\ UNCHANGED <<locks, crashes, faults>>
  <1>0. /\ call \in [Processes -> Calls] /\ call[p] \in Calls /\ DiskTyped
        /\ call[p].version \in Versions \cup {None}
    BY DEF InstallerTypeOK, Calls, DiskTyped
  <1>1. CASE Prepare(p)
    <2> DEFINE t == [operation |-> IF call[p].version = None THEN "uninstall" ELSE "install",
                     phase |-> IF call[p].version = None THEN "backing-up" ELSE "staged",
                     manifest |-> IF call[p].version = None THEN dest[Manifest]
                                  ELSE call[p].version,
                     previous |-> dest[Manifest]]
               r == [call[p] EXCEPT !.pc = "stage", !.found = dest[Manifest], !.txn = t]
               f == [call[p] EXCEPT !.pc = "release", !.result = "refused"]
    <2>1. /\ call[p].pc = "prepare" /\ UNCHANGED <<disk, locks, crashes, faults>>
          /\ \/ call' = [call EXCEPT ![p] = r]
                /\ (call[p].version = None => dest[Manifest] # None)
             \/ call' = [call EXCEPT ![p] = f]
      BY <1>1 DEF Prepare, At
    <2>2. dest[Manifest] \in Versions \cup {None}
      BY <1>0, InstallerAssumption DEF DiskTyped, Sets, Manifest, Entries
    <2>3. f \in Calls /\ f.pc \in InsidePcs /\ f.saw = call[p].saw
      BY <1>0 DEF Calls, Pcs, InsidePcs
    <2>4. ASSUME call[p].version = None => dest[Manifest] # None
          PROVE  r \in Calls /\ r.pc \in InsidePcs /\ r.saw = call[p].saw
      <3>1. t \in Txns
        BY <1>0, <2>2, <2>4 DEF Txns
      <3> HIDE DEF t
      <3> QED BY <1>0, <2>2, <3>1 DEF Calls, Pcs, InsidePcs
    <2> HIDE DEF r, f
    <2>5. Works(p)
      BY <1>0, <2>1, <2>3, <2>4, CallWorks
    <2> QED BY <1>0, <2>1, <2>5 DEF disk, InsidePcs, DiskTyped
  <1>2. CASE Stage(p)
    <2>1. stage' \in Sets /\ backup' \in Sets
      BY <1>0, <1>2 DEF Stage, Sets, Whole, Empty
    <2>2. Works(p)
      BY <1>0, <1>2, GotoWorks DEF Stage, InsidePcs
    <2> QED BY <1>0, <1>2, <2>1, <2>2 DEF Stage, At, InsidePcs, DiskTyped
  <1>3. CASE WriteJournal(p)
    <2> DEFINE r == [call[p] EXCEPT !.pc = "backing", !.txn.phase = "backing-up"]
               b == [call[p] EXCEPT !.pc = "backup", !.at = 1]
    <2>1. /\ call[p].pc = "journal" /\ journal' = call[p].txn
          /\ UNCHANGED <<dest, stage, backup, locks, crashes, faults>>
          /\ call' = [call EXCEPT ![p] = r] \/ call' = [call EXCEPT ![p] = b]
      BY <1>3 DEF WriteJournal, At
    <2>2. call[p].txn \in Txns
      BY <2>1 DEF TransactionInv
    <2>3. [call[p].txn EXCEPT !.phase = "backing-up"] \in Txns
      BY <2>2 DEF Txns
    <2>4. r \in Calls /\ r.pc \in InsidePcs /\ r.saw = call[p].saw
      BY <1>0, <2>3 DEF Calls, Pcs, InsidePcs
    <2>5. b \in Calls /\ b.pc \in InsidePcs /\ b.saw = call[p].saw
      BY <1>0 DEF Calls, Pcs, InsidePcs
    <2> HIDE DEF r, b
    <2>6. Works(p)
      BY <1>0, <2>1, <2>4, <2>5, CallWorks
    <2> QED BY <1>0, <2>1, <2>2, <2>6 DEF InsidePcs, DiskTyped
  <1>4. CASE WriteBackingUp(p)
    <2> DEFINE b == [call[p] EXCEPT !.pc = "backup", !.at = 1]
    <2>1. /\ call[p].pc = "backing" /\ journal' = call[p].txn
          /\ UNCHANGED <<dest, stage, backup, locks, crashes, faults>>
          /\ call' = [call EXCEPT ![p] = b]
      BY <1>4 DEF WriteBackingUp, At
    <2>2. call[p].txn \in Txns
      BY <2>1 DEF TransactionInv
    <2>3. b \in Calls /\ b.pc \in InsidePcs /\ b.saw = call[p].saw
      BY <1>0 DEF Calls, Pcs, InsidePcs
    <2> HIDE DEF b
    <2>4. Works(p)
      BY <1>0, <2>1, <2>3, CallWorks
    <2> QED BY <1>0, <2>1, <2>2, <2>4 DEF InsidePcs, DiskTyped
  <1>5. CASE BackUp(p)
    <2>1. /\ call[p].pc = "backup" /\ call[p].at \in Entries
          /\ call' = [call EXCEPT ![p].at = call[p].at + 1]
          /\ UNCHANGED <<stage, journal, locks, crashes, faults>>
      BY <1>5 DEF BackUp, At
    <2>2. backup \in Sets
      BY <1>0, <2>1 DEF TransactionInv, DiskTyped
    <2>3. dest' \in Sets /\ backup' \in Sets
      BY <1>0, <1>5, <2>1, <2>2 DEF BackUp, Sets, DiskTyped
    <2>4. Works(p)
      BY <1>0, <2>1, NextEntryWorks DEF InsidePcs
    <2> QED BY <1>0, <2>1, <2>3, <2>4 DEF InsidePcs, DiskTyped
  <1>6. CASE BackUpDone(p)
    <2> DEFINE phase == IF call[p].version = None THEN "committed" ELSE "swapping"
               r == [call[p] EXCEPT !.pc = IF call[p].version = None THEN "done" ELSE "swap",
                                    !.at = 1, !.txn.phase = phase,
                                    !.then = IF call[p].version = None THEN "removed" ELSE @]
    <2>1. /\ call[p].pc = "backup" /\ WritePhase(p, phase)
          /\ UNCHANGED <<dest, stage, backup, locks, crashes, faults>>
          /\ call' = [call EXCEPT ![p] = r]
      BY ZenonT(60), <1>6 DEF BackUpDone, At
    <2>2. call[p].txn \in Txns
      BY <2>1 DEF TransactionInv
    <2>3. [call[p].txn EXCEPT !.phase = phase] \in Txns
      BY <2>2 DEF Txns
    <2>4. journal' \in Txns
      BY <2>1, <2>2, WritePhaseTyped
    <2>5. r \in Calls /\ r.pc \in InsidePcs /\ r.saw = call[p].saw
      BY <1>0, <2>3 DEF Calls, Pcs, InsidePcs
    <2> HIDE DEF r
    <2>6. Works(p)
      BY <1>0, <2>1, <2>5, CallWorks
    <2> QED BY <1>0, <2>1, <2>4, <2>6 DEF InsidePcs, DiskTyped
  <1>7. CASE Swap(p)
    <2>1. /\ call[p].pc = "swap" /\ call[p].at \in Entries
          /\ call' = [call EXCEPT ![p].at = call[p].at + 1]
          /\ UNCHANGED <<backup, journal, locks, crashes, faults>>
      BY <1>7 DEF Swap, At
    <2>2. dest' \in Sets /\ stage' \in Sets
      BY <1>0, <1>7, <2>1 DEF Swap, Sets, DiskTyped
    <2>3. Works(p)
      BY <1>0, <2>1, NextEntryWorks DEF InsidePcs
    <2> QED BY <1>0, <2>1, <2>2, <2>3 DEF InsidePcs, DiskTyped
  <1>8. CASE SwapDone(p)
    <2> DEFINE r == [call[p] EXCEPT !.pc = "done", !.txn.phase = "committed",
                                    !.then = "installed"]
    <2>1. /\ call[p].pc = "swap" /\ WritePhase(p, "committed")
          /\ UNCHANGED <<dest, stage, backup, locks, crashes, faults>>
          /\ call' = [call EXCEPT ![p] = r]
      BY <1>8 DEF SwapDone, At
    <2>2. call[p].txn \in Txns
      BY <2>1 DEF TransactionInv
    <2>3. [call[p].txn EXCEPT !.phase = "committed"] \in Txns
      BY <2>2 DEF Txns
    <2>4. journal' \in Txns
      BY <2>1, <2>2, WritePhaseTyped
    <2>5. r \in Calls /\ r.pc \in InsidePcs /\ r.saw = call[p].saw
      BY <1>0, <2>3 DEF Calls, Pcs, InsidePcs
    <2> HIDE DEF r
    <2>6. Works(p)
      BY <1>0, <2>1, <2>5, CallWorks
    <2> QED BY <1>0, <2>1, <2>4, <2>6 DEF InsidePcs, DiskTyped
  <1>9. CASE Report(p)
    <2>1. /\ call[p].pc \in {"installed", "removed"} /\ Finish(p, call[p].pc)
          /\ UNCHANGED <<disk, locks, crashes, faults>>
      BY <1>9 DEF Report
    <2>2. Works(p)
      BY <1>0, <2>1, FinishWorks
    <2> QED BY <1>0, <2>1, <2>2 DEF disk, InsidePcs, DiskTyped
  <1> QED BY <1>1, <1>2, <1>3, <1>4, <1>5, <1>6, <1>7, <1>8, <1>9 DEF Transacting

\* An error is caught by the call that met it.
LEMMA ThrowTyped ==
  ASSUME InstallerTypeOK, NEW p \in Processes, Throw(p)
  PROVE  /\ call[p].pc \in InsidePcs /\ Works(p) /\ UNCHANGED <<disk, locks, crashes>>
         /\ faults' \in Nat
         /\ call'[p] = [call[p] EXCEPT !.then = "failed", !.at = 1,
                          !.pc = IF call[p].version = None THEN "recover" ELSE "gather"]
  <1> DEFINE r == [call[p] EXCEPT !.then = "failed", !.at = 1,
                          !.pc = IF call[p].version = None THEN "recover" ELSE "gather"]
  <1>0. call \in [Processes -> Calls] /\ faults \in Nat
    BY DEF InstallerTypeOK
  <1>1. /\ call[p].pc \in InsidePcs
        /\ UNCHANGED <<disk, locks, crashes>> /\ faults' \in Nat
    BY <1>0 DEF Throw, InsidePcs
  <1>5. call' = [call EXCEPT ![p] = r]
    BY DEF Throw
  <1>2. r \in Calls /\ r.pc \in InsidePcs /\ r.saw = call[p].saw
    BY ZenonT(60), <1>0, <1>1 DEF Calls, Pcs, InsidePcs
  <1>3. call'[p] = r
    BY <1>0, <1>5
  <1> HIDE DEF r
  <1>4. Works(p)
    BY <1>0, <1>5, <1>2, CallWorks
  <1> QED BY <1>1, <1>3, <1>4 DEF r

LEMMA CrashTyped ==
  ASSUME InstallerTypeOK, NEW p \in Processes, Crash(p)
  PROVE  /\ call' \in [Processes -> Calls] /\ OnlyCall(p) /\ call'[p].pc = "lost"
         /\ UNCHANGED <<disk, locks, faults>> /\ crashes' \in Nat
  <1> DEFINE r == [Idle EXCEPT !.pc = "lost"]
  <1>1. r \in Calls /\ r.pc = "lost"
    BY DEF Idle, Calls, Pcs, OutsidePcs, Nothing
  <1>2. /\ call \in [Processes -> Calls] /\ call' = [call EXCEPT ![p] = r]
        /\ UNCHANGED <<disk, locks, faults>> /\ crashes' \in Nat
    BY DEF Crash, InstallerTypeOK
  <1> HIDE DEF r
  <1> QED BY <1>1, <1>2 DEF OnlyCall

LEMMA TypeStep ==
  ASSUME InstallerTypeOK, \A p \in Processes : Holds(p), [Next]_vars
  PROVE  InstallerTypeOK'
  <1>1. ASSUME NEW p \in Processes, Locking(p) PROVE InstallerTypeOK'
    BY <1>1, LockingTyped
  <1>2. ASSUME NEW p \in Processes, Recovering(p) PROVE InstallerTypeOK'
    <2>1. Works(p) /\ DiskTyped' /\ UNCHANGED <<locks, crashes, faults>>
      BY <1>2, RecoveringTyped DEF Holds
    <2> QED BY <2>1 DEF InstallerTypeOK, Works, DiskTyped, locks
  <1>3. ASSUME NEW p \in Processes, Transacting(p) PROVE InstallerTypeOK'
    <2>1. Works(p) /\ DiskTyped' /\ UNCHANGED <<locks, crashes, faults>>
      BY <1>3, TransactingTyped DEF Holds
    <2> QED BY <2>1 DEF InstallerTypeOK, Works, DiskTyped, locks
  <1>4. ASSUME NEW p \in Processes, Throw(p) PROVE InstallerTypeOK'
    <2>1. Works(p) /\ UNCHANGED <<disk, locks, crashes>> /\ faults' \in Nat
      BY <1>4, ThrowTyped
    <2> QED BY <2>1 DEF InstallerTypeOK, Works, disk, locks
  <1>5. ASSUME NEW p \in Processes, Crash(p) PROVE InstallerTypeOK'
    BY <1>5, CrashTyped DEF InstallerTypeOK, disk, locks
  <1>6. CASE UNCHANGED vars
    BY <1>6 DEF InstallerTypeOK, vars
  <1> QED BY <1>1, <1>2, <1>3, <1>4, <1>5, <1>6 DEF Next

(***************************************************************************)
(* The lock.                                                               *)
(***************************************************************************)
LEMMA PcAfter ==
  ASSUME NEW p \in Processes, call \in [Processes -> Calls]
  PROVE  /\ \A pc : Goto(p, pc) => call'[p].pc = pc
         /\ Refuse(p) => call'[p].pc = "ended"
  BY DEF Goto, Refuse, Calls

LEMMA WorkKeepsLock ==
  ASSUME LockInv, NEW p \in Processes, call[p].pc \in InsidePcs, Works(p), UNCHANGED locks
  PROVE  LockInv'
  BY DEF LockInv, Works, OnlyCall, Owns, At, Alive, Guarding, Making, InsidePcs, locks

\* A lost call's lock stays behind, and only a dead holder's lock is reaped.
LEMMA LockingKeepsLock ==
  ASSUME InstallerTypeOK, LockInv, ~ outrun, NEW p \in Processes, Locking(p)
  PROVE  LockInv'
  <1>0. OnlyCall(p) /\ call \in [Processes -> Calls] /\ InstallerTypeOK'
    BY LockingTyped DEF InstallerTypeOK
  <1>p. None \notin Processes
    BY InstallerAssumption
  <1>f. \A q \in Processes, written \in BOOLEAN : Free # [by |-> q, written |-> written]
    BY <1>p DEF Free
  <1> USE DEF Owns, At, Guarding, Making, InsidePcs
  <1>1. CASE Start(p)
    <2>1. call[p].pc = "idle" /\ call'[p].pc = "open" /\ UNCHANGED locks
      BY <1>0, <1>1 DEF Start
    <2> QED BY <1>0, <2>1 DEF LockInv, OnlyCall, Alive, locks
  <1>2. CASE OpenLock(p)
    <2>1. /\ call[p].pc = "open" /\ UNCHANGED <<reaper, outrun>>
          /\ \/ lock = Free /\ lock' = [by |-> p, written |-> FALSE] /\ call'[p].pc = "check"
             \/ UNCHANGED lock /\ call'[p].pc = "guard"
      BY <1>0, <1>2, PcAfter, Zenon DEF OpenLock
    <2>2. CASE lock = Free
      <3>1. \A q \in Processes : call[q].pc \notin Making \cup InsidePcs
        BY <1>f, <2>2 DEF LockInv
      <3>2. \A q \in Processes : call[q].pc \in {"probe", "reap"} =>
              /\ call[q].saw \in Processes /\ call[q].saw # p
              /\ At(call[q].saw, "ended")
        BY <1>f, <2>1, <2>2 DEF LockInv
      <3>3. \A q \in Processes \ {p} :
              call'[q].pc \in {"probe", "reap"} =>
                /\ call'[q].saw \in Processes /\ call'[call'[q].saw].pc = "ended"
        BY <1>0, <3>2 DEF OnlyCall
      <3> QED BY <1>0, <2>1, <3>1, <3>3 DEF LockInv, OnlyCall, Alive
    <2>3. CASE lock # Free
      BY <1>0, <2>1, <2>3 DEF LockInv, OnlyCall, Alive
    <2> QED BY <2>2, <2>3
  <1>3. CASE MakeReaper(p)
    <2>1. /\ call[p].pc = "guard" /\ UNCHANGED <<lock, outrun>>
          /\ \/ reaper = None /\ reaper' = p /\ call'[p].pc = "read"
             \/ UNCHANGED reaper /\ call'[p].pc = "ended"
      BY <1>0, <1>3, PcAfter DEF MakeReaper
    <2> QED BY <1>0, <1>p, <1>f, <2>1 DEF LockInv, OnlyCall, Alive
  <1>4. CASE ReadLock(p)
    <2>1. /\ call[p].pc = "read" /\ UNCHANGED locks
          /\ call'[p].saw = lock.by
          /\ call'[p].pc = IF lock.written THEN "probe" ELSE "drop"
      <3> DEFINE r == [call[p] EXCEPT !.saw = lock.by,
                                      !.pc = IF lock.written THEN "probe" ELSE "drop"]
      <3>1. call' = [call EXCEPT ![p] = r] /\ call[p].pc = "read" /\ UNCHANGED locks
        BY <1>4 DEF ReadLock
      <3>2. call'[p] = r
        BY <1>0, <3>1
      <3>3. r.saw = lock.by /\ r.pc = IF lock.written THEN "probe" ELSE "drop"
        BY <1>0 DEF Calls
      <3> QED BY <3>1, <3>2, <3>3
    <2>2. lock.written => lock.by \in Processes /\ lock = [by |-> lock.by, written |-> TRUE]
      <3>1. lock = Free \/ lock \in [by : Processes, written : BOOLEAN]
        BY DEF InstallerTypeOK, Locks
      <3>2. ~ Free.written
        BY DEF Free
      <3> QED BY <3>1, <3>2
    <2> QED BY <1>0, <2>1, <2>2 DEF LockInv, OnlyCall, Alive, locks
  <1>5. CASE ProbeHolder(p)
    <2>1. /\ call[p].pc = "probe" /\ UNCHANGED locks /\ call'[p].saw = call[p].saw
          /\ call'[p].pc = IF Alive(call[p].saw) THEN "drop" ELSE "reap"
      BY <1>0, <1>5 DEF ProbeHolder, Goto, Calls
    <2> QED BY <1>0, <2>1 DEF LockInv, OnlyCall, Alive, locks
  <1>6. CASE ReapLock(p)
    <2>1. /\ call[p].pc = "reap" /\ UNCHANGED reaper /\ lock' = Free
          /\ call'[p].pc \in {"drop", "reopen"}
          /\ outrun' = (outrun \/ At(call[p].saw, "ended"))
      BY <1>0, <1>6 DEF ReapLock, Goto
    <2> SUFFICES ASSUME ~ outrun' PROVE LockInv'
      BY DEF LockInv
    <2>2. Owns(call[p].saw, TRUE) /\ ~ Alive(call[p].saw)
      BY <2>1 DEF LockInv
    <2>3. \A q \in Processes : call[q].pc \notin Making \cup InsidePcs
      BY <2>2 DEF LockInv, Alive
    <2>4. \A q \in Processes : call[q].pc \in {"probe", "reap"} => q = p
      BY <2>1 DEF LockInv
    <2> QED BY <1>0, <1>f, <2>1, <2>3, <2>4 DEF LockInv, OnlyCall
  <1>7. CASE ReopenLock(p)
    <2>1. /\ call[p].pc = "reopen" /\ UNCHANGED <<reaper, outrun>>
          /\ \/ lock = Free /\ lock' = [by |-> p, written |-> FALSE] /\ call'[p].pc = "unguard"
             \/ UNCHANGED lock /\ call'[p].pc = "drop"
      BY <1>0, <1>7, PcAfter, Zenon DEF ReopenLock
    <2> QED BY ZenonT(60), <1>0, <1>p, <1>f, <2>1 DEF LockInv, OnlyCall, Alive
  <1>8. CASE RemoveReaper(p)
    <2>1. /\ UNCHANGED <<lock, outrun>> /\ reaper' = None
          /\ \/ call[p].pc = "drop" /\ call'[p].pc = "ended"
             \/ call[p].pc = "unguard" /\ call'[p].pc = "check"
      BY <1>0, <1>8, PcAfter DEF RemoveReaper
    <2>2. \A q \in Processes : call[q].pc \in Guarding => q = p
      BY <2>1 DEF LockInv
    <2> QED BY <1>0, <1>f, <2>1, <2>2 DEF LockInv, OnlyCall, Alive
  <1>9. CASE CheckReaper(p)
    <2>1. /\ call[p].pc = "check" /\ UNCHANGED locks
          /\ call'[p].pc \in {"standdown", "write"}
      BY <1>0, <1>9 DEF CheckReaper, Goto, AfterGuardCheck
    <2> QED BY <1>0, <2>1 DEF LockInv, OnlyCall, Alive, locks
  <1>10. CASE StandDown(p)
    <2>1. /\ call[p].pc = "standdown" /\ UNCHANGED <<reaper, outrun>>
          /\ lock' = Free /\ call'[p].pc = "ended"
      BY <1>0, <1>10 DEF StandDown, Refuse
    <2>2. \A q \in Processes : call[q].pc \in Making \cup InsidePcs => q = p
      BY <2>1 DEF LockInv
    <2> QED BY <1>0, <1>f, <2>1, <2>2 DEF LockInv, OnlyCall, Alive
  <1>11. CASE WriteLock(p)
    <2>1. /\ call[p].pc = "write" /\ UNCHANGED <<reaper, outrun>>
          /\ lock' = IF lock.by = p THEN [lock EXCEPT !.written = TRUE] ELSE lock
          /\ call'[p].pc = "recover"
      BY <1>0, <1>11 DEF WriteLock
    <2>2. lock = [by |-> p, written |-> FALSE]
      BY <2>1 DEF LockInv
    <2>3. lock' = [by |-> p, written |-> TRUE]
      BY <2>1, <2>2
    <2>4. \A q \in Processes : call[q].pc \in Making \cup InsidePcs => q = p
      BY <2>2 DEF LockInv
    <2>5. \A q \in Processes \ {p} :
            call[q].pc \in {"probe", "reap"} => At(call[q].saw, "ended") /\ call[q].saw # p
      BY <2>1, <2>2 DEF LockInv
    <2>6. \A q \in Processes \ {p} :
            call'[q].pc \in {"probe", "reap"} =>
              call'[q].saw \in Processes /\ call'[call'[q].saw].pc = "ended"
      BY <1>0, <2>5 DEF LockInv, OnlyCall
    <2> QED BY <1>0, <2>1, <2>3, <2>4, <2>6 DEF LockInv, OnlyCall, Alive
  <1>12. CASE Release(p)
    <2>1. /\ call[p].pc = "release" /\ UNCHANGED locks
          /\ call'[p].pc \in {"unlock", "ended"}
      BY <1>0, <1>12 DEF Release, Goto
    <2> QED BY <1>0, <2>1 DEF LockInv, OnlyCall, Alive, locks
  <1>13. CASE Unlock(p)
    <2>1. /\ call[p].pc = "unlock" /\ UNCHANGED <<reaper, outrun>>
          /\ lock' = Free /\ call'[p].pc = "ended"
      BY <1>0, <1>13 DEF Unlock, Goto
    <2>2. \A q \in Processes : call[q].pc \in Making \cup InsidePcs => q = p
      BY <2>1 DEF LockInv
    <2> QED BY <1>0, <1>f, <2>1, <2>2 DEF LockInv, OnlyCall, Alive
  <1> QED BY <1>1, <1>2, <1>3, <1>4, <1>5, <1>6, <1>7, <1>8, <1>9, <1>10, <1>11, <1>12, <1>13
          DEF Locking

LEMMA LockStep ==
  ASSUME InstallerTypeOK, LockInv, \A p \in Processes : Holds(p), [Next]_vars
  PROVE  LockInv'
  <1>1. ASSUME NEW p \in Processes, ~ outrun, Locking(p) PROVE LockInv'
    BY <1>1, LockingKeepsLock
  <1>2. ASSUME NEW p \in Processes, Recovering(p) PROVE LockInv'
    BY <1>2, RecoveringTyped, WorkKeepsLock DEF Holds
  <1>3. ASSUME NEW p \in Processes, Transacting(p) PROVE LockInv'
    BY <1>3, TransactingTyped, WorkKeepsLock DEF Holds
  <1>4. ASSUME NEW p \in Processes, Throw(p) PROVE LockInv'
    BY <1>4, ThrowTyped, WorkKeepsLock
  <1>5. ASSUME NEW p \in Processes, Crash(p) PROVE LockInv'
    <2>1. OnlyCall(p) /\ call'[p].pc = "lost" /\ UNCHANGED locks /\ call[p].pc # "ended"
      BY <1>5, CrashTyped DEF Crash
    <2> QED BY <2>1 DEF LockInv, OnlyCall, Owns, At, Alive, Guarding, Making, InsidePcs, locks
  <1>6. CASE UNCHANGED vars
    BY <1>6 DEF LockInv, Owns, At, Alive, vars
  <1> QED BY <1>1, <1>2, <1>3, <1>4, <1>5, <1>6 DEF Next

\* Whoever is inside owns the lock; a reap that goes wrong moves no one inside.
LEMMA AloneStep ==
  ASSUME InstallerTypeOK, LockInv, Alone, \A p \in Processes : Holds(p), [Next]_vars
  PROVE  Alone'
  <1>1. CASE outrun' /\ ~ outrun
    <2>1. PICK p \in Processes : ReapLock(p)
      <3>1. PICK p \in Processes :
              Locking(p) \/ Recovering(p) \/ Transacting(p) \/ Throw(p) \/ Crash(p)
        BY <1>1 DEF Next, vars
      <3>2. ~ Recovering(p) /\ ~ Transacting(p) /\ ~ Throw(p) /\ ~ Crash(p)
        BY <1>1, RecoveringTyped, TransactingTyped, ThrowTyped, CrashTyped DEF Holds, locks
      <3> QED BY <1>1, <3>1, <3>2
              DEF Locking, Start, OpenLock, MakeReaper, ReadLock, ProbeHolder, ReopenLock,
                  RemoveReaper, CheckReaper, StandDown, WriteLock, Release, Unlock, locks
    <2>2. OnlyCall(p) /\ call'[p].pc \in {"drop", "reopen"}
      BY <2>1, LockingTyped, PcAfter DEF Locking, ReapLock, InstallerTypeOK
    <2> QED BY <2>2 DEF Alone, OnlyCall, InsidePcs
  <1>2. CASE outrun
    BY <1>2 DEF Next, vars, Alone
  <1>3. CASE ~ outrun'
    <2>1. LockInv'
      BY LockStep
    <2> QED BY <1>3, <2>1 DEF LockInv, Alone, Owns
  <1>4. outrun' \in BOOLEAN /\ outrun \in BOOLEAN
    BY TypeStep DEF InstallerTypeOK
  <1> QED BY <1>1, <1>2, <1>3, <1>4

(***************************************************************************)
(* The disk.                                                               *)
(***************************************************************************)
LEMMA InvInit == Init => LockInv /\ Alone /\ JournalInv /\ \A p \in Processes : Holds(p)
  <1> SUFFICES ASSUME Init
               PROVE  LockInv /\ Alone /\ JournalInv /\ \A p \in Processes : Holds(p)
    OBVIOUS
  <1>1. \A p \in Processes : call[p].pc = "idle"
    BY DEF Init, Idle
  <1>2. LockInv /\ Alone
    BY <1>1 DEF LockInv, Alone, Guarding, Making, InsidePcs
  <1>3. Manifest \in Entries
    BY InstallerAssumption DEF Manifest, Entries
  <1>4. JournalInv
    BY <1>3 DEF Init, JournalInv, Empty, Whole
  <1>5. \A p \in Processes : Holds(p)
    BY <1>1 DEF Holds, RecoveryInv, TransactionInv, OutcomeInv, Removing, Undoing
  <1> QED BY <1>2, <1>4, <1>5

LEMMA WholeSet ==
  ASSUME NEW s \in Sets, NEW v
  PROVE  s = Whole(v) <=> \A e \in Entries : s[e] = v
  BY DEF Sets, Whole

LEMMA ManifestIsEntry == Manifest \in Entries
  BY InstallerAssumption DEF Manifest, Entries

LEMMA EmptyIsSet == Empty \in Sets /\ Empty # None
  <1>1. Empty \in Sets
    BY DEF Empty, Whole, Sets
  <1> QED BY <1>1, InstallerAssumption DEF Sets, Entries

LEMMA NothingIsNoTxn == Nothing \notin Txns
  BY DEF Nothing, Txns

LEMMA FrameHolds ==
  ASSUME NEW p \in Processes, Holds(p), call'[p] = call[p], UNCHANGED disk
  PROVE  Holds(p)'
  <1>1. RecoveryInv(p)'
    BY DEF Holds, disk, RecoveryInv, Agrees, Swapped, Kept
  <1>2. TransactionInv(p)'
    BY DEF Holds, disk, TransactionInv, Agrees
  <1>3. OutcomeInv(p)'
    BY DEF Holds, disk, OutcomeInv, Swapped, Gone
  <1> QED BY <1>1, <1>2, <1>3 DEF Holds

LEMMA FrameJournal ==
  ASSUME JournalInv, UNCHANGED disk
  PROVE  JournalInv'
  BY DEF disk, JournalInv, Stored, Kept, Swapped, Gone

\* Nothing is claimed of a call outside, nor of one that gave up.
LEMMA OutsideHolds ==
  ASSUME NEW p \in Processes, call'[p].pc \in OutsidePcs \cup {"unlock"}
  PROVE  Holds(p)'
  BY DEF Holds, RecoveryInv, TransactionInv, OutcomeInv, OutsidePcs, Removing, Undoing

LEMMA StuckHolds ==
  ASSUME InstallerTypeOK, JournalInv, NEW p \in Processes, Finish(p, "stuck"), UNCHANGED disk
  PROVE  JournalInv' /\ Holds(p)'
  <1>1. call'[p].pc = "release" /\ call'[p].result = "stuck"
    BY DEF InstallerTypeOK, Finish, Calls
  <1>2. Holds(p)'
    BY <1>1 DEF Holds, RecoveryInv, TransactionInv, OutcomeInv, Removing, Undoing
  <1> QED BY <1>2, FrameJournal

\* What a call goes by, apart from where it is.
Same(p) ==
  /\ call'[p].then = call[p].then
  /\ call'[p].txn = call[p].txn
  /\ call'[p].version = call[p].version
  /\ call'[p].found = call[p].found

LEMMA GotoSame ==
  ASSUME InstallerTypeOK, NEW p \in Processes, NEW pc, Goto(p, pc)
  PROVE  call'[p].pc = pc /\ Same(p)
  BY DEF InstallerTypeOK, Goto, Same, Calls

LEMMA NextEntrySame ==
  ASSUME InstallerTypeOK, NEW p \in Processes,
         call' = [call EXCEPT ![p].at = call[p].at + 1]
  PROVE  /\ call'[p].pc = call[p].pc /\ Same(p)
         /\ call'[p].at = call[p].at + 1 /\ call[p].at \in Nat
  BY DEF InstallerTypeOK, Same, Calls

LEMMA LockingKeepsDisk ==
  ASSUME InstallerInv, NEW p \in Processes, Locking(p)
  PROVE  JournalInv' /\ Holds(p)'
  <1>1. call \in [Processes -> Calls] /\ UNCHANGED disk
    BY LockingTyped DEF InstallerInv, InstallerTypeOK
  <1>2. JournalInv'
    BY <1>1, FrameJournal DEF InstallerInv
  <1> SUFFICES Holds(p)'
    BY <1>2
  <1>3. CASE WriteLock(p)
    <2> DEFINE r == [call[p] EXCEPT !.pc = "recover", !.then = "prepare"]
    <2>1. call' = [call EXCEPT ![p] = r]
      BY <1>3 DEF WriteLock
    <2>2. call'[p].pc = "recover" /\ call'[p].then = "prepare"
      BY <1>1, <2>1 DEF Calls
    <2> QED BY <2>2 DEF Holds, RecoveryInv, TransactionInv, OutcomeInv, Removing, Undoing
  <1>4. CASE Start(p)
    <2>1. call'[p].pc = "open"
      BY <1>1, <1>4 DEF Start
    <2> QED BY <2>1, OutsideHolds DEF OutsidePcs
  <1>5. CASE ReadLock(p)
    <2>1. call'[p].pc \in {"probe", "drop"}
      BY <1>1, <1>5 DEF ReadLock
    <2> QED BY <2>1, OutsideHolds DEF OutsidePcs
  <1>6. CASE ~ WriteLock(p) /\ ~ Start(p) /\ ~ ReadLock(p)
    <2>1. call'[p].pc \in {"check", "guard", "read", "drop", "reap", "reopen", "unguard",
                           "standdown", "write", "unlock", "ended"}
      BY <1>1, <1>6, PcAfter
         DEF Locking, OpenLock, MakeReaper, ProbeHolder, ReapLock, ReopenLock, RemoveReaper,
             CheckReaper, AfterGuardCheck, StandDown, Release, Unlock
    <2> QED BY <2>1, OutsideHolds DEF OutsidePcs
  <1> QED BY <1>3, <1>4, <1>5, <1>6

\* The facts each step below starts from.
LEMMA StepFacts ==
  ASSUME InstallerInv, NEW p \in Processes
  PROVE  /\ InstallerTypeOK /\ JournalInv
         /\ RecoveryInv(p) /\ TransactionInv(p) /\ OutcomeInv(p)
         /\ dest \in Sets /\ stage \in Sets /\ backup \in Sets \cup {None}
         /\ journal \in Txns \cup {Nothing}
         /\ call \in [Processes -> Calls] /\ call[p] \in Calls
         /\ call[p].at \in Nat /\ call[p].txn \in Txns \cup {Nothing}
         /\ call[p].version \in Versions \cup {None}
  BY DEF InstallerInv, Holds, InstallerTypeOK, Calls

LEMMA RecoverKeepsDisk ==
  ASSUME InstallerInv, NEW p \in Processes, Recover(p)
  PROVE  JournalInv' /\ Holds(p)'
  <1>0. /\ JournalInv /\ RecoveryInv(p) /\ call \in [Processes -> Calls] /\ call[p] \in Calls
        /\ journal \in Txns \cup {Nothing}
    BY StepFacts
  <1>1. call[p].pc = "recover" /\ UNCHANGED disk
    BY DEF Recover, At
  <1>2. JournalInv'
    BY <1>0, <1>1, FrameJournal
  <1> SUFFICES Holds(p)'
    BY <1>2
  <1>3. CASE journal = Nothing
    <2>1. Continue(p) /\ call[p].then = "prepare"
      BY <1>0, <1>1, <1>3 DEF Recover, RecoveryInv
    <2>2. call'[p] = [call[p] EXCEPT !.pc = "prepare"]
      BY <1>0, <2>1, ContinueTyped
    <2>3. call'[p].pc = "prepare" /\ call'[p].then = "prepare" /\ journal' = Nothing
      BY <1>0, <1>1, <1>3, <2>1, <2>2 DEF Calls, disk
    <2> QED BY <2>3 DEF Holds, RecoveryInv, TransactionInv, OutcomeInv, Removing, Undoing
  <1>4. CASE journal # Nothing
    <2> DEFINE r == [call[p] EXCEPT !.txn = journal, !.pc = RecoverPlan(journal), !.at = 1]
    <2>1. call' = [call EXCEPT ![p] = r]
      BY <1>4 DEF Recover
    <2>2. call'[p] = r
      BY <1>0, <2>1
    <2>3. /\ call'[p].pc = RecoverPlan(journal) /\ call'[p].txn = journal
          /\ call'[p].then = call[p].then /\ call'[p].found = call[p].found
      BY <1>0, <2>2 DEF Calls
    <2> HIDE DEF r
    <2>4. Agrees(journal)'
      BY <1>0, <1>1, <1>4 DEF Agrees, disk
    <2>5. /\ call[p].then \in {"prepare", "failed"}
          /\ call[p].then = "failed" => /\ journal.operation = "uninstall"
                                        /\ journal.phase # "committed"
                                        /\ journal.previous = call[p].found
      BY <1>0, <1>1 DEF RecoveryInv
    <2>6. \/ RecoverPlan(journal) = "r-commit" /\ Swapped(journal)
          \/ RecoverPlan(journal) = "undone"
          \/ /\ RecoverPlan(journal) = "done"
             /\ journal.operation = "uninstall" /\ journal.phase = "committed"
          \/ RecoverPlan(journal) = "gather" /\ Kept(journal)
      BY <1>0, <1>4 DEF RecoverPlan, Swapped, JournalInv, Gone
    <2>7. RecoveryInv(p)'
      <3>1. Swapped(journal) => Swapped(journal)'
        BY <1>1 DEF Swapped, disk
      <3>2. Kept(journal) => Kept(journal)'
        BY <1>1 DEF Kept, disk
      <3>3. journal' = journal
        BY <1>1 DEF disk
      <3> QED BY <2>3, <2>4, <2>5, <2>6, <3>1, <3>2, <3>3
              DEF RecoveryInv, Removing, Undoing, Swapped
    <2>8. TransactionInv(p)' /\ OutcomeInv(p)'
      BY <2>3, <2>6 DEF TransactionInv, OutcomeInv, Removing
    <2> QED BY <2>7, <2>8 DEF Holds
  <1> QED BY <1>3, <1>4

LEMMA RecoverCommitKeepsDisk ==
  ASSUME InstallerInv, NEW p \in Processes, RecoverCommit(p)
  PROVE  JournalInv' /\ Holds(p)'
  <1> DEFINE t == call[p].txn
  <1>0. JournalInv /\ RecoveryInv(p) /\ InstallerTypeOK
    BY StepFacts
  <1>1. /\ call[p].pc = "r-commit" /\ WritePhase(p, "committed") /\ Goto(p, "done")
        /\ UNCHANGED <<dest, stage, backup>>
    BY DEF RecoverCommit, At
  <1>2. Agrees(t) /\ Swapped(t) /\ call[p].then = "prepare"
    BY <1>0, <1>1 DEF RecoveryInv
  <1>3. call'[p].pc = "done" /\ Same(p)
    BY <1>0, <1>1, GotoSame
  <1>4. t \in Txns /\ journal # Nothing /\ journal.previous = t.previous
    BY <1>2 DEF Agrees
  <1>5. journal' = [t EXCEPT !.phase = "committed"] /\ journal' # Nothing
    BY <1>1, <1>4, WritePhaseTyped
  <1>6. /\ journal'.operation = t.operation /\ journal'.manifest = t.manifest
        /\ journal'.previous = t.previous /\ journal'.phase = "committed"
    BY <1>4, <1>5 DEF Txns
  <1>7. JournalInv'
    <2>1. Stored(journal)
      BY <1>0, <1>4 DEF JournalInv
    <2>2. Stored(journal)' /\ Swapped(journal)'
      BY <1>1, <1>2, <1>4, <1>6, <2>1 DEF Stored, Swapped
    <2> QED BY <1>5, <2>2 DEF JournalInv
  <1>8. RecoveryInv(p)'
    <2>1. Agrees(t)'
      BY <1>4, <1>5, <1>6, <1>3 DEF Agrees, Same
    <2>2. t.operation = "install"
      BY <1>2 DEF Swapped
    <2> QED BY <1>2, <1>3, <2>1, <2>2 DEF RecoveryInv, Same, Removing, Undoing
  <1>9. TransactionInv(p)' /\ OutcomeInv(p)'
    BY <1>3 DEF TransactionInv, OutcomeInv, Removing
  <1> QED BY <1>7, <1>8, <1>9 DEF Holds

\* The first loop of a restoration loses nothing and brings nothing new into the backup.
LEMMA GatherKeepsDisk ==
  ASSUME InstallerInv, NEW p \in Processes, Gather(p)
  PROVE  JournalInv' /\ Holds(p)'
  <1> DEFINE t == call[p].txn
             e == call[p].at
  <1>0. /\ JournalInv /\ RecoveryInv(p) /\ InstallerTypeOK
        /\ dest \in Sets /\ backup \in Sets \cup {None}
    BY StepFacts
  <1>1. call[p].pc = "gather" /\ e \in Entries /\ UNCHANGED journal
    BY DEF Gather, At
  <1>2. Agrees(t) /\ Kept(t) /\ journal # Nothing /\ journal.previous = t.previous
    BY <1>0, <1>1 DEF RecoveryInv, Undoing, Agrees
  <1>3. Stored(t)
    BY <1>0, <1>2 DEF JournalInv, Stored
  <1>4. CASE Finish(p, "stuck") /\ UNCHANGED <<dest, backup>>
    BY <1>0, <1>1, <1>4, StuckHolds DEF Gather, disk
  <1>5. CASE /\ call' = [call EXCEPT ![p].at = e + 1]
             /\ \/ (t.previous = None \/ Held(e)) /\ dest' = [dest EXCEPT ![e] = None]
                   /\ UNCHANGED backup
                \/ t.previous # None /\ ~ Held(e) /\ backup # None
                   /\ backup' = [backup EXCEPT ![e] = dest[e]]
                   /\ dest' = [dest EXCEPT ![e] = None]
    <2>1. call'[p].pc = "gather" /\ Same(p)
      BY <1>0, <1>1, <1>5, NextEntrySame
    <2>2. Kept(t)' /\ Stored(t)'
      <3>1. CASE t.previous = None
        BY <1>0, <1>1, <1>3, <1>5, <2>1, <3>1 DEF Kept, Stored, Sets, Held, Same
      <3>2. CASE t.previous # None /\ Held(e)
        <4>1. backup # None /\ backup[e] = t.previous
          BY <1>1, <1>3, <3>2 DEF Stored, Held
        <4>2. dest' = [dest EXCEPT ![e] = None] /\ UNCHANGED backup
          BY <1>5, <3>2
        <4>3. \A d \in Entries \ {e} : dest'[d] = dest[d]
          BY <1>0, <4>2 DEF Sets
        <4> QED BY <1>2, <1>3, <2>1, <4>1, <4>2, <4>3 DEF Kept, Stored, Same
      <3>3. CASE t.previous # None /\ ~ Held(e)
        <4>1. dest[e] = t.previous
          BY <1>1, <1>2, <3>3 DEF Kept, Held
        <4>2. /\ backup # None /\ backup' = [backup EXCEPT ![e] = dest[e]]
              /\ dest' = [dest EXCEPT ![e] = None]
          BY <1>5, <3>3
        <4>3. backup \in Sets /\ backup' \in Sets
          BY <1>0, <1>1, <4>2 DEF Sets
        <4>4. backup' # None
          BY <4>3, InstallerAssumption DEF Sets, Entries
        <4>5. /\ backup'[e] = t.previous
              /\ \A d \in Entries \ {e} : dest'[d] = dest[d] /\ backup'[d] = backup[d]
          BY <1>0, <1>1, <4>1, <4>2, <4>3 DEF Sets
        <4> QED BY <1>2, <1>3, <2>1, <4>2, <4>4, <4>5 DEF Kept, Stored, Same
      <3> QED BY <3>1, <3>2, <3>3
    <2>3. JournalInv'
      BY <1>1, <1>2, <2>1, <2>2 DEF JournalInv, Kept, Stored, Same
    <2>4. RecoveryInv(p)'
      BY <1>0, <1>1, <1>2, <2>1, <2>2 DEF RecoveryInv, Same, Agrees, Undoing, Removing
    <2>5. TransactionInv(p)' /\ OutcomeInv(p)'
      BY <2>1 DEF TransactionInv, OutcomeInv, Removing
    <2> QED BY <2>3, <2>4, <2>5 DEF Holds
  <1> QED BY <1>4, <1>5 DEF Gather

LEMMA GatherDoneKeepsDisk ==
  ASSUME InstallerInv, NEW p \in Processes, GatherDone(p)
  PROVE  JournalInv' /\ Holds(p)'
  <1> DEFINE r == [call[p] EXCEPT !.pc = "putback", !.at = 1]
  <1>0. /\ JournalInv /\ RecoveryInv(p) /\ InstallerTypeOK
        /\ call \in [Processes -> Calls] /\ call[p] \in Calls
    BY StepFacts
  <1>1. call[p].pc = "gather" /\ UNCHANGED disk
    BY DEF GatherDone, At
  <1>2. CASE Finish(p, "stuck")
    BY <1>0, <1>1, <1>2, StuckHolds
  <1>3. CASE call' = [call EXCEPT ![p] = r]
    <2>1. call'[p] = r
      BY <1>0, <1>3
    <2>2. call'[p].pc = "putback" /\ Same(p)
      BY <1>0, <2>1 DEF Calls, Same
    <2>3. Agrees(call[p].txn) /\ Kept(call[p].txn)
      BY <1>0, <1>1 DEF RecoveryInv, Undoing
    <2>4. Agrees(call[p].txn)' /\ Kept(call[p].txn)'
      BY <1>1, <2>2, <2>3 DEF Agrees, Kept, disk, Same
    <2>5. RecoveryInv(p)'
      BY <1>0, <1>1, <2>2, <2>4 DEF RecoveryInv, Same, Undoing, Removing
    <2>6. TransactionInv(p)' /\ OutcomeInv(p)'
      BY <2>2 DEF TransactionInv, OutcomeInv, Removing
    <2> QED BY <1>0, <1>1, <2>5, <2>6, FrameJournal DEF Holds
  <1> QED BY <1>2, <1>3 DEF GatherDone

LEMMA PutBackKeepsDisk ==
  ASSUME InstallerInv, NEW p \in Processes, PutBack(p)
  PROVE  JournalInv' /\ Holds(p)'
  <1> DEFINE t == call[p].txn
             e == call[p].at
  <1>0. /\ JournalInv /\ RecoveryInv(p) /\ InstallerTypeOK
        /\ dest \in Sets /\ backup \in Sets \cup {None}
    BY StepFacts
  <1>1. /\ call[p].pc = "putback" /\ e \in Entries /\ UNCHANGED journal
        /\ call' = [call EXCEPT ![p].at = e + 1]
    BY DEF PutBack, At
  <1>2. Agrees(t) /\ Kept(t) /\ journal # Nothing /\ journal.previous = t.previous
    BY <1>0, <1>1 DEF RecoveryInv, Undoing, Agrees
  <1>3. Stored(t)
    BY <1>0, <1>2 DEF JournalInv, Stored
  <1>4. call'[p].pc = "putback" /\ Same(p)
    BY <1>0, <1>1, NextEntrySame
  <1>5. Kept(t)' /\ Stored(t)'
    <2>1. CASE Held(e)
      <3>1. backup # None /\ backup[e] = t.previous
        BY <1>1, <1>3, <2>1 DEF Stored, Held
      <3>2. dest' = [dest EXCEPT ![e] = backup[e]] /\ backup' = [backup EXCEPT ![e] = None]
        BY <2>1 DEF PutBack
      <3>3. backup \in Sets /\ backup' \in Sets
        BY <1>0, <1>1, <3>1, <3>2 DEF Sets
      <3>4. backup' # None
        BY <3>3, InstallerAssumption DEF Sets, Entries
      <3>5. /\ dest'[e] = t.previous /\ backup'[e] = None
            /\ \A d \in Entries \ {e} : dest'[d] = dest[d] /\ backup'[d] = backup[d]
        BY <1>0, <1>1, <3>1, <3>2, <3>3 DEF Sets
      <3> QED BY <1>2, <1>3, <1>4, <3>1, <3>4, <3>5 DEF Kept, Stored, Same
    <2>2. CASE ~ Held(e)
      <3>1. UNCHANGED <<dest, backup>>
        BY <2>2 DEF PutBack
      <3> QED BY <1>2, <1>3, <1>4, <3>1 DEF Kept, Stored, Same
    <2> QED BY <2>1, <2>2
  <1>6. JournalInv'
    BY <1>1, <1>2, <1>4, <1>5 DEF JournalInv, Kept, Stored, Same
  <1>7. RecoveryInv(p)'
    BY <1>0, <1>1, <1>2, <1>4, <1>5 DEF RecoveryInv, Same, Agrees, Undoing, Removing
  <1>8. TransactionInv(p)' /\ OutcomeInv(p)'
    BY <1>4 DEF TransactionInv, OutcomeInv, Removing
  <1> QED BY <1>6, <1>7, <1>8 DEF Holds

LEMMA PutBackDoneKeepsDisk ==
  ASSUME InstallerInv, NEW p \in Processes, PutBackDone(p)
  PROVE  JournalInv' /\ Holds(p)'
  <1> DEFINE t == call[p].txn
  <1>0. JournalInv /\ RecoveryInv(p) /\ InstallerTypeOK /\ dest \in Sets
    BY StepFacts
  <1>1. call[p].pc = "putback" /\ UNCHANGED <<dest, stage, backup>>
    BY DEF PutBackDone, At
  <1>2. t \in Txns /\ journal # Nothing /\ journal.previous = t.previous
    BY <1>0, <1>1 DEF RecoveryInv, Undoing, Agrees
  <1>3. CASE Finish(p, "stuck") /\ UNCHANGED journal
    BY <1>0, <1>1, <1>3, StuckHolds DEF disk
  <1>4. CASE dest = Whole(t.previous) /\ WritePhase(p, "committed") /\ Goto(p, "undone")
    <2>1. call'[p].pc = "undone" /\ Same(p)
      BY <1>0, <1>4, GotoSame
    <2>2. journal' = [t EXCEPT !.phase = "committed"] /\ journal' # Nothing
      BY <1>2, <1>4, WritePhaseTyped
    <2>3. /\ journal'.operation = t.operation /\ journal'.manifest = t.manifest
          /\ journal'.previous = t.previous
      BY <1>2, <2>2 DEF Txns
    <2>4. JournalInv'
      <3>1. Stored(journal)
        BY <1>0, <1>2 DEF JournalInv
      <3>2. \A e \in Entries : dest[e] = t.previous
        BY <1>4 DEF Whole
      <3>3. Stored(journal)' /\ Kept(journal)'
        BY <1>1, <1>2, <2>3, <3>1, <3>2 DEF Stored, Kept
      <3> QED BY <2>2, <3>3 DEF JournalInv
    <2>5. Agrees(t)'
      BY <1>2, <2>1, <2>2, <2>3 DEF Agrees, Same
    <2>6. RecoveryInv(p)'
      BY <1>0, <1>1, <2>1, <2>5 DEF RecoveryInv, Same, Undoing, Removing
    <2>7. TransactionInv(p)' /\ OutcomeInv(p)'
      BY <2>1 DEF TransactionInv, OutcomeInv, Removing
    <2> QED BY <2>4, <2>6, <2>7 DEF Holds
  <1> QED BY <1>3, <1>4 DEF PutBackDone

\* Only a validated destination is cleaned up after.
LEMMA CleanKeepsDisk ==
  ASSUME InstallerInv, NEW p \in Processes, CleanCommitted(p) \/ CleanRollback(p)
  PROVE  JournalInv' /\ Holds(p)'
  <1> DEFINE t == call[p].txn
  <1>0. JournalInv /\ RecoveryInv(p) /\ InstallerTypeOK
    BY StepFacts
  <1>1. UNCHANGED disk
    BY DEF CleanCommitted, CleanRollback
  <1>2. CASE Finish(p, "stuck")
    BY <1>0, <1>1, <1>2, StuckHolds
  <1>3. CASE /\ Goto(p, "rm-stage")
             /\ \/ call[p].pc = "done" /\ dest = Whole(Target(t))
                \/ call[p].pc = "undone" /\ dest = Whole(t.previous)
    <2>1. call'[p].pc = "rm-stage" /\ Same(p)
      BY <1>0, <1>3, GotoSame
    <2>2. Agrees(t)
      BY <1>0, <1>3 DEF RecoveryInv, Undoing
    <2>3. /\ dest = Whole(t.previous) \/ Swapped(t) \/ Gone(journal)
          /\ call[p].then = "installed" => dest = Whole(call[p].version)
          /\ call[p].then = "removed" => dest = Empty
          /\ call[p].then = "failed" => dest = Whole(call[p].found)
          /\ call[p].then # "none"
      <3>1. CASE call[p].pc = "done" /\ dest = Whole(Target(t))
        <4>1. CASE t.operation = "install"
          <5>1. Swapped(t)
            BY <3>1, <4>1 DEF Swapped, Target
          <5> QED BY <1>0, <3>1, <5>1 DEF RecoveryInv, Empty
        <4>2. CASE t.operation # "install"
          <5>1. t.operation = "uninstall" /\ dest = Empty
            BY <2>2, <3>1, <4>2 DEF Agrees, Txns, Target, Empty
          <5>2. Gone(journal)
            BY <1>0, <2>2, <3>1, <5>1 DEF RecoveryInv, Agrees, Gone
          <5> QED BY <1>0, <3>1, <5>2 DEF RecoveryInv, Empty
        <4> QED BY <4>1, <4>2
      <3>2. CASE call[p].pc = "undone" /\ dest = Whole(t.previous)
        BY <1>0, <3>2 DEF RecoveryInv, Undoing
      <3> QED BY <1>3, <3>1, <3>2
    <2>4. Agrees(t)'
      BY <1>1, <2>1, <2>2 DEF Agrees, Same, disk
    <2>5. RecoveryInv(p)' /\ TransactionInv(p)'
      BY <2>1, <2>4 DEF RecoveryInv, TransactionInv, Undoing, Removing
    <2>6. OutcomeInv(p)'
      BY <1>1, <2>1, <2>3 DEF OutcomeInv, Same, disk, Swapped, Gone, Removing
    <2> QED BY <1>0, <1>1, <2>5, <2>6, FrameJournal DEF Holds
  <1> QED BY <1>2, <1>3 DEF CleanCommitted, CleanRollback, At

\* The stage, the backup's entries and the backup go while the destination is whole.
LEMMA RemoveKeepsDisk ==
  ASSUME InstallerInv, NEW p \in Processes,
         RemoveStage(p) \/ RemoveBackupEntry(p) \/ RemoveBackup(p)
  PROVE  JournalInv' /\ Holds(p)'
  <1> DEFINE t == call[p].txn
  <1>0. /\ JournalInv /\ RecoveryInv(p) /\ OutcomeInv(p) /\ InstallerTypeOK
        /\ backup \in Sets \cup {None}
    BY StepFacts
  <1>1. call[p].pc \in Removing /\ UNCHANGED <<dest, journal>>
    BY DEF RemoveStage, RemoveBackupEntry, RemoveBackup, At, Removing
  <1>2. call'[p].pc \in Removing /\ Same(p)
    BY <1>0, <1>1, GotoSame DEF RemoveStage, RemoveBackupEntry, RemoveBackup, Removing, Same
  <1>3. \/ backup' = backup
        \/ backup' = None
        \/ \E e \in Entries : Held(e) /\ backup' = [backup EXCEPT ![e] = None]
    BY DEF RemoveStage, RemoveBackupEntry, RemoveBackup
  <1>4. Agrees(t) /\ journal # Nothing
    BY <1>0, <1>1 DEF RecoveryInv, Agrees
  <1>5. /\ dest = Whole(t.previous) \/ Swapped(t) \/ Gone(journal)
        /\ call[p].then = "installed" => dest = Whole(call[p].version)
        /\ call[p].then = "removed" => dest = Empty
        /\ call[p].then = "failed" => dest = Whole(call[p].found)
        /\ call[p].then # "none"
    BY <1>0, <1>1 DEF OutcomeInv
  <1>6. JournalInv'
    <2>1. Stored(journal)
      BY <1>0, <1>4 DEF JournalInv
    <2>2. Stored(journal)'
      <3>1. CASE backup' = backup \/ backup' = None
        BY <1>1, <2>1, <3>1 DEF Stored
      <3>2. ASSUME NEW e \in Entries, Held(e), backup' = [backup EXCEPT ![e] = None]
            PROVE  Stored(journal)'
        <4>1. backup \in Sets /\ backup # None
          BY <1>0, <3>2 DEF Held
        <4> QED BY <1>1, <2>1, <3>2, <4>1 DEF Stored, Sets
      <3> QED BY <1>3, <3>1, <3>2
    <2>3. dest = Whole(t.previous) => Kept(journal)'
      BY <1>1, <1>4 DEF Kept, Whole, Agrees
    <2>4. Swapped(t) => Swapped(journal)'
      BY <1>1, <1>4 DEF Swapped, Agrees
    <2>5. Gone(journal) => Gone(journal)'
      BY <1>1 DEF Gone
    <2> QED BY <1>1, <1>4, <1>5, <2>2, <2>3, <2>4, <2>5 DEF JournalInv
  <1>7. Agrees(t)'
    BY <1>1, <1>2, <1>4 DEF Agrees, Same
  <1>8. RecoveryInv(p)' /\ TransactionInv(p)'
    BY <1>2, <1>7 DEF RecoveryInv, TransactionInv, Undoing, Removing
  <1>9. OutcomeInv(p)'
    BY <1>1, <1>2, <1>5 DEF OutcomeInv, Same, Swapped, Gone, Removing
  <1> QED BY <1>6, <1>8, <1>9 DEF Holds

\* The journal goes last: what it named is settled.
LEMMA RemoveJournalKeepsDisk ==
  ASSUME InstallerInv, NEW p \in Processes, RemoveJournal(p)
  PROVE  JournalInv' /\ Holds(p)'
  <1> DEFINE c == call[p]
  <1>0. /\ OutcomeInv(p) /\ call \in [Processes -> Calls] /\ c \in Calls
    BY StepFacts
  <1>1. /\ c.pc = "rm-journal" /\ journal' = Nothing /\ UNCHANGED dest /\ Continue(p)
    BY DEF RemoveJournal, At
  <1>2. /\ dest = Whole(c.txn.previous) \/ Swapped(c.txn) \/ Gone(journal)
        /\ c.then = "installed" => dest = Whole(c.version)
        /\ c.then = "removed" => dest = Empty
        /\ c.then = "failed" => dest = Whole(c.found)
        /\ c.then # "none"
    BY <1>0, <1>1 DEF OutcomeInv, Removing
  <1>3. JournalInv'
    <2>1. \E v : dest = Whole(v)
      BY <1>2 DEF Swapped, Gone, Empty
    <2>2. dest = Whole(dest[Manifest])
      BY <2>1, ManifestIsEntry DEF Whole
    <2> QED BY <1>1, <2>2 DEF JournalInv
  <1>4. call'[p] = IF c.then = "failed"
                   THEN [c EXCEPT !.pc = "release", !.result = "failed"]
                   ELSE [c EXCEPT !.pc = c.then]
    BY <1>0, <1>1, <1>2, ContinueTyped
  <1>5. CASE c.then = "failed"
    <2>1. call'[p].pc = "release" /\ call'[p].result = "failed" /\ call'[p].found = c.found
      BY <1>0, <1>4, <1>5 DEF Calls
    <2> QED BY <1>1, <1>2, <1>3, <1>5, <2>1
            DEF Holds, RecoveryInv, TransactionInv, OutcomeInv, Undoing, Removing
  <1>6. CASE c.then # "failed"
    <2>1. /\ call'[p].pc = c.then /\ call'[p].then = c.then /\ call'[p].version = c.version
          /\ c.then \in {"prepare", "installed", "removed"}
      BY <1>0, <1>2, <1>4, <1>6 DEF Calls
    <2> QED BY <1>1, <1>2, <1>3, <2>1
            DEF Holds, RecoveryInv, TransactionInv, OutcomeInv, Undoing, Removing
  <1> QED BY <1>5, <1>6

LEMMA RecoveringKeepsDisk ==
  ASSUME InstallerInv, NEW p \in Processes, Recovering(p)
  PROVE  JournalInv' /\ Holds(p)'
  BY RecoverKeepsDisk, RecoverCommitKeepsDisk, GatherKeepsDisk, GatherDoneKeepsDisk,
     PutBackKeepsDisk, PutBackDoneKeepsDisk, CleanKeepsDisk, RemoveKeepsDisk,
     RemoveJournalKeepsDisk
     DEF Recovering

LEMMA PrepareKeepsDisk ==
  ASSUME InstallerInv, NEW p \in Processes, Prepare(p) \/ Stage(p)
  PROVE  JournalInv' /\ Holds(p)'
  <1> DEFINE c == call[p]
  <1>0. /\ JournalInv /\ TransactionInv(p) /\ call \in [Processes -> Calls] /\ c \in Calls
        /\ InstallerTypeOK /\ dest \in Sets /\ c.version \in Versions \cup {None}
    BY StepFacts
  <1>1. CASE Prepare(p)
    <2> DEFINE t == [operation |-> IF c.version = None THEN "uninstall" ELSE "install",
                     phase |-> IF c.version = None THEN "backing-up" ELSE "staged",
                     manifest |-> IF c.version = None THEN dest[Manifest] ELSE c.version,
                     previous |-> dest[Manifest]]
               r == [c EXCEPT !.pc = "stage", !.found = dest[Manifest], !.txn = t]
               f == [c EXCEPT !.pc = "release", !.result = "refused"]
    <2>1. /\ c.pc = "prepare" /\ UNCHANGED disk
          /\ \/ /\ call' = [call EXCEPT ![p] = r] /\ dest = Whole(dest[Manifest])
                /\ (c.version = None => dest[Manifest] # None)
             \/ call' = [call EXCEPT ![p] = f]
      BY <1>1 DEF Prepare, At
    <2>2. JournalInv' /\ journal' = Nothing /\ c.then = "prepare"
      BY <1>0, <2>1, FrameJournal DEF TransactionInv, disk
    <2>3. CASE call' = [call EXCEPT ![p] = f]
      <3>1. call'[p] = f
        BY <1>0, <2>3
      <3>2. call'[p].pc = "release" /\ call'[p].result = "refused"
        BY <1>0, <3>1 DEF Calls
      <3> QED BY <2>2, <3>2 DEF Holds, RecoveryInv, TransactionInv, OutcomeInv, Undoing, Removing
    <2>4. CASE /\ call' = [call EXCEPT ![p] = r] /\ dest = Whole(dest[Manifest])
               /\ (c.version = None => dest[Manifest] # None)
      <3>1. dest[Manifest] \in Versions \cup {None}
        BY <1>0, ManifestIsEntry DEF Sets
      <3>2. t \in Txns
        BY <1>0, <2>4, <3>1 DEF Txns
      <3>3. /\ t.operation = IF c.version = None THEN "uninstall" ELSE "install"
            /\ t.operation = "install" => t.manifest = c.version
            /\ t.phase = IF c.version = None THEN "backing-up" ELSE "staged"
            /\ t.previous = dest[Manifest]
        OBVIOUS
      <3> HIDE DEF t
      <3>4. call'[p] = r
        BY <1>0, <2>4
      <3>5. /\ call'[p].pc = "stage" /\ call'[p].txn = t /\ call'[p].found = dest[Manifest]
            /\ call'[p].then = c.then /\ call'[p].version = c.version
        BY <1>0, <3>4 DEF Calls
      <3>6. TransactionInv(p)'
        BY <2>1, <2>2, <2>4, <3>2, <3>3, <3>5 DEF TransactionInv, disk
      <3>7. RecoveryInv(p)' /\ OutcomeInv(p)'
        BY <3>5 DEF RecoveryInv, OutcomeInv, Undoing, Removing
      <3> QED BY <2>2, <3>6, <3>7 DEF Holds
    <2> QED BY <2>1, <2>3, <2>4
  <1>2. CASE Stage(p)
    <2>1. /\ c.pc = "stage" /\ Goto(p, "journal") /\ UNCHANGED <<dest, journal>>
          /\ backup' = Empty
      BY <1>2 DEF Stage, At
    <2>2. call'[p].pc = "journal" /\ Same(p)
      BY <1>0, <2>1, GotoSame
    <2>3. JournalInv'
      BY <1>0, <2>1 DEF JournalInv, TransactionInv
    <2>4. TransactionInv(p)'
      BY <1>0, <2>1, <2>2 DEF TransactionInv, Same, Empty
    <2>5. RecoveryInv(p)' /\ OutcomeInv(p)'
      BY <2>2 DEF RecoveryInv, OutcomeInv, Undoing, Removing
    <2> QED BY <2>3, <2>4, <2>5 DEF Holds
  <1> QED BY <1>1, <1>2

\* The journal comes to name a destination and a backup that together hold the old set.
LEMMA JournalKeepsDisk ==
  ASSUME InstallerInv, NEW p \in Processes, WriteJournal(p) \/ WriteBackingUp(p)
  PROVE  JournalInv' /\ Holds(p)'
  <1> DEFINE c == call[p]
             t == call[p].txn
             r == [call[p] EXCEPT !.pc = "backing", !.txn.phase = "backing-up"]
             b == [call[p] EXCEPT !.pc = "backup", !.at = 1]
  <1>0. /\ TransactionInv(p) /\ call \in [Processes -> Calls] /\ c \in Calls /\ dest \in Sets
    BY StepFacts
  <1>1. /\ journal' = t /\ UNCHANGED <<dest, stage, backup>>
        /\ \/ call' = [call EXCEPT ![p] = r] /\ c.pc = "journal" /\ t.phase = "staged"
           \/ call' = [call EXCEPT ![p] = b] /\ c.pc = "journal" /\ t.phase # "staged"
           \/ call' = [call EXCEPT ![p] = b] /\ c.pc = "backing"
    BY DEF WriteJournal, WriteBackingUp, At
  <1>2. /\ t \in Txns /\ c.found = t.previous /\ c.then = "prepare"
        /\ t.operation = IF c.version = None THEN "uninstall" ELSE "install"
        /\ t.operation = "install" => t.manifest = c.version
        /\ t.phase # "committed"
        /\ dest = Whole(t.previous) /\ backup = Empty
        /\ c.pc = "journal" => t.phase = IF c.version = None THEN "backing-up" ELSE "staged"
    BY <1>0, <1>1 DEF TransactionInv
  <1>3. t # Nothing /\ Empty # None
    BY <1>2, NothingIsNoTxn, EmptyIsSet
  <1>4. (\A e \in Entries : dest[e] = t.previous) /\ (\A e \in Entries : backup[e] = None)
    BY <1>2 DEF Whole, Empty
  <1>5. JournalInv'
    <2>1. Stored(journal)' /\ Kept(journal)'
      BY <1>1, <1>4 DEF Stored, Kept
    <2> QED BY <1>1, <1>3, <2>1 DEF JournalInv
  <1>6. CASE call' = [call EXCEPT ![p] = r] /\ t.phase = "staged" /\ c.pc = "journal"
    <2>0. [t EXCEPT !.phase = "backing-up"] \in Txns
      BY <1>2 DEF Txns
    <2>1. PICK u \in Txns : u = [t EXCEPT !.phase = "backing-up"]
      BY <2>0
    <2>2. /\ u.previous = t.previous /\ u.operation = t.operation
          /\ u.manifest = t.manifest /\ u.phase = "backing-up"
      BY <1>2, <2>1 DEF Txns
    <2>3. call'[p] = [c EXCEPT !.pc = "backing", !.txn = u]
      BY <1>0, <1>6, <2>1
    <2>4. /\ call'[p].pc = "backing" /\ call'[p].txn = u /\ call'[p].found = c.found
          /\ call'[p].then = c.then /\ call'[p].version = c.version
      BY <1>0, <2>3 DEF Calls
    <2>5. c.version # None
      BY <1>2, <1>6
    <2>6. TransactionInv(p)'
      BY <1>1, <1>2, <1>3, <2>2, <2>4, <2>5 DEF TransactionInv, Agrees, Empty, Whole
    <2>7. RecoveryInv(p)' /\ OutcomeInv(p)'
      BY <2>4 DEF RecoveryInv, OutcomeInv, Undoing, Removing
    <2> QED BY <1>5, <2>6, <2>7 DEF Holds
  <1>7. CASE call' = [call EXCEPT ![p] = b]
    <2>1. call'[p] = b
      BY <1>0, <1>7
    <2>2. call'[p].pc = "backup" /\ Same(p) /\ call'[p].at = 1
      BY <1>0, <2>1 DEF Calls, Same
    <2>3. \A e \in Entries : ~ (e < 1)
      BY InstallerAssumption DEF Entries
    <2>4. TransactionInv(p)'
      BY <1>1, <1>2, <1>3, <1>4, <2>2, <2>3 DEF TransactionInv, Same
    <2>5. RecoveryInv(p)' /\ OutcomeInv(p)'
      BY <2>2 DEF RecoveryInv, OutcomeInv, Undoing, Removing
    <2> QED BY <1>5, <2>4, <2>5 DEF Holds
  <1> QED BY <1>1, <1>6, <1>7

\* One entry of the old set moves from the destination into the backup.
LEMMA BackUpKeepsDisk ==
  ASSUME InstallerInv, NEW p \in Processes, BackUp(p)
  PROVE  JournalInv' /\ Holds(p)'
  <1> DEFINE c == call[p]
             t == call[p].txn
             e == call[p].at
  <1>0. /\ JournalInv /\ TransactionInv(p) /\ InstallerTypeOK /\ dest \in Sets
        /\ backup \in Sets \cup {None}
    BY StepFacts
  <1>1. /\ c.pc = "backup" /\ e \in Entries /\ UNCHANGED journal
        /\ call' = [call EXCEPT ![p].at = e + 1]
    BY DEF BackUp, At
  <1>2. /\ t \in Txns /\ journal = t /\ backup \in Sets /\ backup # None /\ t # Nothing
        /\ dest[e] = t.previous
        /\ \A d \in Entries : IF d < e THEN dest[d] = None /\ backup[d] = t.previous
                                       ELSE dest[d] = t.previous
    BY <1>0, <1>1, NothingIsNoTxn DEF TransactionInv, Entries
  <1>3. \A d \in Entries : backup[d] \in {None, t.previous}
    BY <1>0, <1>2 DEF JournalInv, Stored
  <1>4. c'.pc = "backup" /\ Same(p) /\ c'.at = e + 1 /\ e \in Nat
    BY <1>0, <1>1, NextEntrySame
  <1>5. /\ dest' \in Sets /\ backup' \in Sets /\ dest'[e] = None /\ backup'[e] = t.previous
        /\ \A d \in Entries \ {e} : dest'[d] = dest[d] /\ backup'[d] = backup[d]
    <2>1. CASE dest[e] # None
      <3>1. backup' = [backup EXCEPT ![e] = dest[e]] /\ dest' = [dest EXCEPT ![e] = None]
        BY <2>1 DEF BackUp
      <3> QED BY <1>0, <1>1, <1>2, <3>1 DEF Sets
    <2>2. CASE dest[e] = None
      <3>1. UNCHANGED <<dest, backup>>
        BY <2>2 DEF BackUp
      <3> QED BY <1>0, <1>1, <1>2, <1>3, <2>2, <3>1
    <2> QED BY <2>1, <2>2
  <1>6. backup' # None
    BY <1>5, InstallerAssumption DEF Sets, Entries
  <1>7. \A d \in Entries : IF d < e + 1 THEN dest'[d] = None /\ backup'[d] = t.previous
                                        ELSE dest'[d] = t.previous
    BY <1>1, <1>2, <1>4, <1>5 DEF Entries
  <1>8. JournalInv'
    <2>1. Stored(journal)' /\ Kept(journal)'
      BY <1>1, <1>2, <1>3, <1>5, <1>6, <1>7 DEF Stored, Kept
    <2> QED BY <1>1, <1>2, <2>1 DEF JournalInv
  <1>9. TransactionInv(p)'
    BY <1>0, <1>1, <1>2, <1>4, <1>6, <1>7 DEF TransactionInv, Same
  <1>10. RecoveryInv(p)' /\ OutcomeInv(p)'
    BY <1>4 DEF RecoveryInv, OutcomeInv, Undoing, Removing
  <1> QED BY <1>8, <1>9, <1>10 DEF Holds

LEMMA BackUpDoneKeepsDisk ==
  ASSUME InstallerInv, NEW p \in Processes, BackUpDone(p)
  PROVE  JournalInv' /\ Holds(p)'
  <1> DEFINE c == call[p]
             t == call[p].txn
             phase == IF call[p].version = None THEN "committed" ELSE "swapping"
             r == [call[p] EXCEPT !.pc = IF call[p].version = None THEN "done" ELSE "swap",
                                  !.at = 1, !.txn.phase = phase,
                                  !.then = IF call[p].version = None THEN "removed" ELSE @]
  <1>0. /\ JournalInv /\ TransactionInv(p) /\ dest \in Sets
        /\ call \in [Processes -> Calls] /\ c \in Calls /\ c.at \in Nat
    BY StepFacts
  <1>1. /\ c.pc = "backup" /\ c.at \notin Entries /\ WritePhase(p, phase)
        /\ UNCHANGED <<dest, stage, backup>> /\ call' = [call EXCEPT ![p] = r]
    BY ZenonT(60) DEF BackUpDone, At
  <1>2. /\ t \in Txns /\ journal = t /\ backup # None /\ c.at > 0
        /\ c.found = t.previous /\ c.then = "prepare"
        /\ t.operation = IF c.version = None THEN "uninstall" ELSE "install"
        /\ t.operation = "install" => t.manifest = c.version
    BY <1>0, <1>1 DEF TransactionInv
  <1>3. \A e \in Entries : e < c.at
    BY <1>0, <1>1, <1>2, InstallerAssumption DEF Entries
  <1>4. \A e \in Entries : dest[e] = None /\ backup[e] = t.previous
    BY <1>0, <1>1, <1>3 DEF TransactionInv
  <1>5. PICK u : u = [t EXCEPT !.phase = phase]
    OBVIOUS
  <1>6. /\ u \in Txns /\ u # Nothing /\ journal' = u
        /\ u.operation = t.operation /\ u.manifest = t.manifest /\ u.previous = t.previous
        /\ u.phase = phase
    <2>1. u \in Txns
      BY <1>2, <1>5 DEF Txns
    <2> QED BY <1>1, <1>2, <1>5, <2>1, NothingIsNoTxn DEF Txns, WritePhase
  <1>7. call'[p] = [c EXCEPT !.pc = IF c.version = None THEN "done" ELSE "swap", !.at = 1,
                             !.txn = u,
                             !.then = IF c.version = None THEN "removed" ELSE c.then]
    BY <1>0, <1>1, <1>5
  <1>8. /\ call'[p].pc = IF c.version = None THEN "done" ELSE "swap"
        /\ call'[p].txn = u
        /\ call'[p].then = IF c.version = None THEN "removed" ELSE c.then
        /\ call'[p].version = c.version /\ call'[p].found = c.found
    BY <1>0, <1>7 DEF Calls
  <1> HIDE DEF r
  <1>9. JournalInv'
    <2>1. Stored(journal)' /\ Kept(journal)'
      BY <1>1, <1>2, <1>4, <1>6 DEF Stored, Kept
    <2> QED BY <1>6, <2>1 DEF JournalInv
  <1>10. CASE c.version = None
    <2>1. call'[p].pc = "done" /\ call'[p].then = "removed"
      BY <1>8, <1>10
    <2>2. RecoveryInv(p)'
      BY <1>2, <1>6, <1>8, <1>10, <2>1 DEF RecoveryInv, Agrees, Target, Undoing, Removing
    <2>3. TransactionInv(p)' /\ OutcomeInv(p)'
      BY <2>1 DEF TransactionInv, OutcomeInv, Removing
    <2> QED BY <1>9, <2>2, <2>3 DEF Holds
  <1>11. CASE c.version # None
    <2>1. call'[p].pc = "swap"
      BY <1>8, <1>11
    <2>2. TransactionInv(p)'
      BY <1>1, <1>2, <1>4, <1>6, <1>8, <1>11, <2>1 DEF TransactionInv
    <2>3. RecoveryInv(p)' /\ OutcomeInv(p)'
      BY <2>1 DEF RecoveryInv, OutcomeInv, Undoing, Removing
    <2> QED BY <1>9, <2>2, <2>3 DEF Holds
  <1> QED BY <1>10, <1>11

\* While the new entries move in, the backup holds the whole old set.
LEMMA SwapKeepsDisk ==
  ASSUME InstallerInv, NEW p \in Processes, Swap(p)
  PROVE  JournalInv' /\ Holds(p)'
  <1> DEFINE t == call[p].txn
  <1>0. JournalInv /\ TransactionInv(p) /\ InstallerTypeOK
    BY StepFacts
  <1>1. /\ call[p].pc = "swap" /\ UNCHANGED <<backup, journal>>
        /\ call' = [call EXCEPT ![p].at = call[p].at + 1]
    BY DEF Swap, At
  <1>2. call'[p].pc = "swap" /\ Same(p)
    BY <1>0, <1>1, NextEntrySame
  <1>3. /\ t \in Txns /\ journal = t /\ t # Nothing /\ backup # None
        /\ \A e \in Entries : backup[e] = t.previous
    BY <1>0, <1>1, NothingIsNoTxn DEF TransactionInv
  <1>4. JournalInv'
    <2>1. Stored(journal)' /\ Kept(journal)'
      BY <1>1, <1>3 DEF Stored, Kept
    <2> QED BY <1>1, <1>3, <2>1 DEF JournalInv
  <1>5. TransactionInv(p)'
    BY <1>0, <1>1, <1>2 DEF TransactionInv, Same
  <1>6. RecoveryInv(p)' /\ OutcomeInv(p)'
    BY <1>2 DEF RecoveryInv, OutcomeInv, Undoing, Removing
  <1> QED BY <1>4, <1>5, <1>6 DEF Holds

LEMMA SwapDoneKeepsDisk ==
  ASSUME InstallerInv, NEW p \in Processes, SwapDone(p)
  PROVE  JournalInv' /\ Holds(p)'
  <1> DEFINE c == call[p]
             t == call[p].txn
             r == [call[p] EXCEPT !.pc = "done", !.txn.phase = "committed",
                                  !.then = "installed"]
  <1>0. TransactionInv(p) /\ call \in [Processes -> Calls] /\ c \in Calls
    BY StepFacts
  <1>1. /\ c.pc = "swap" /\ dest = Whole(c.version) /\ WritePhase(p, "committed")
        /\ UNCHANGED <<dest, stage, backup>> /\ call' = [call EXCEPT ![p] = r]
    BY DEF SwapDone, At
  <1>2. /\ t \in Txns /\ journal = t /\ backup # None /\ c.version # None
        /\ t.operation = "install" /\ t.manifest = c.version
        /\ \A e \in Entries : backup[e] = t.previous
    BY <1>0, <1>1 DEF TransactionInv
  <1>3. PICK u : u = [t EXCEPT !.phase = "committed"]
    OBVIOUS
  <1>4. /\ u \in Txns /\ u # Nothing /\ journal' = u
        /\ u.operation = t.operation /\ u.manifest = t.manifest /\ u.previous = t.previous
    <2>1. u \in Txns
      BY <1>2, <1>3 DEF Txns
    <2> QED BY <1>1, <1>2, <1>3, <2>1, NothingIsNoTxn DEF Txns, WritePhase
  <1>5. call'[p] = [c EXCEPT !.pc = "done", !.txn = u, !.then = "installed"]
    BY <1>0, <1>1, <1>3
  <1>6. /\ call'[p].pc = "done" /\ call'[p].txn = u /\ call'[p].then = "installed"
        /\ call'[p].version = c.version
    BY <1>0, <1>5 DEF Calls
  <1> HIDE DEF r
  <1>7. JournalInv'
    <2>1. Stored(journal)' /\ Kept(journal)'
      BY <1>1, <1>2, <1>4 DEF Stored, Kept
    <2> QED BY <1>4, <2>1 DEF JournalInv
  <1>8. RecoveryInv(p)'
    BY <1>2, <1>4, <1>6 DEF RecoveryInv, Agrees, Target, Undoing, Removing
  <1>9. TransactionInv(p)' /\ OutcomeInv(p)'
    BY <1>6 DEF TransactionInv, OutcomeInv, Removing
  <1> QED BY <1>7, <1>8, <1>9 DEF Holds

LEMMA ReportKeepsDisk ==
  ASSUME InstallerInv, NEW p \in Processes, Report(p)
  PROVE  JournalInv' /\ Holds(p)'
  <1> DEFINE c == call[p]
  <1>0. /\ JournalInv /\ OutcomeInv(p) /\ call \in [Processes -> Calls] /\ c \in Calls
    BY StepFacts
  <1>1. c.pc \in {"installed", "removed"} /\ Finish(p, c.pc) /\ UNCHANGED disk
    BY DEF Report
  <1>2. call'[p] = [c EXCEPT !.pc = "release", !.result = c.pc]
    BY <1>0, <1>1, FinishTyped
  <1>3. /\ call'[p].pc = "release" /\ call'[p].result = c.pc
        /\ call'[p].version = c.version
    BY <1>0, <1>2 DEF Calls
  <1>4. OutcomeInv(p)'
    BY <1>0, <1>1, <1>3 DEF OutcomeInv, disk, Removing
  <1>5. RecoveryInv(p)' /\ TransactionInv(p)'
    BY <1>3 DEF RecoveryInv, TransactionInv, Undoing, Removing
  <1> QED BY <1>0, <1>1, <1>4, <1>5, FrameJournal DEF Holds

LEMMA TransactingKeepsDisk ==
  ASSUME InstallerInv, NEW p \in Processes, Transacting(p)
  PROVE  JournalInv' /\ Holds(p)'
  BY PrepareKeepsDisk, JournalKeepsDisk, BackUpKeepsDisk, BackUpDoneKeepsDisk, SwapKeepsDisk,
     SwapDoneKeepsDisk, ReportKeepsDisk
     DEF Transacting

\* An error is met where the journal, the destination and the backup can be rolled back.
LEMMA ThrowKeepsDisk ==
  ASSUME InstallerInv, NEW p \in Processes, Throw(p)
  PROVE  JournalInv' /\ Holds(p)'
  <1> DEFINE c == call[p]
             t == call[p].txn
  <1>0. /\ JournalInv /\ TransactionInv(p) /\ InstallerTypeOK /\ c \in Calls
    BY StepFacts
  <1>1. c.pc \in {"backing", "backup", "swap"} /\ UNCHANGED disk
    BY <1>0, ThrowTyped DEF Throw
  <1>2. call'[p] = [c EXCEPT !.then = "failed", !.at = 1,
                      !.pc = IF c.version = None THEN "recover" ELSE "gather"]
    BY <1>0, ThrowTyped
  <1>3. /\ call'[p].then = "failed" /\ call'[p].txn = t /\ call'[p].found = c.found
        /\ call'[p].pc = IF c.version = None THEN "recover" ELSE "gather"
    BY <1>0, <1>2 DEF Calls
  <1>4. /\ t \in Txns /\ c.found = t.previous /\ t # Nothing
        /\ t.operation = IF c.version = None THEN "uninstall" ELSE "install"
        /\ t.phase # "committed"
        /\ c.pc = "backing" => c.version # None
        /\ c.pc \in {"backup", "swap"} => journal = t
    BY <1>0, <1>1, NothingIsNoTxn DEF TransactionInv
  <1>5. Agrees(t)
    BY <1>0, <1>1, <1>4 DEF TransactionInv, Agrees
  <1>6. Kept(t)
    <2>1. CASE c.pc = "backing"
      BY <1>0, <2>1 DEF TransactionInv, Kept, Whole
    <2>2. CASE c.pc \in {"backup", "swap"}
      <3>1. backup # None
        BY <1>0, <2>2 DEF TransactionInv
      <3>2. \A e \in Entries : dest[e] = t.previous \/ backup[e] = t.previous
        BY <1>0, <2>2 DEF TransactionInv
      <3> QED BY <3>1, <3>2 DEF Kept
    <2> QED BY <1>1, <2>1, <2>2
  <1>7. Agrees(t)' /\ Kept(t)'
    BY <1>1, <1>3, <1>5, <1>6 DEF Agrees, Kept, disk
  <1>8. RecoveryInv(p)'
    BY <1>1, <1>3, <1>4, <1>7 DEF RecoveryInv, Undoing, Removing, disk
  <1>9. TransactionInv(p)' /\ OutcomeInv(p)'
    BY <1>3 DEF TransactionInv, OutcomeInv, Removing
  <1> QED BY <1>0, <1>1, <1>8, <1>9, FrameJournal DEF Holds

\* One call moves; the others are outside, or nothing on the disk changed.
LEMMA DiskStep ==
  ASSUME InstallerInv, [Next]_vars
  PROVE  JournalInv' /\ \A p \in Processes : Holds(p)'
  <1> USE DEF InstallerInv
  <1>0. /\ InstallerTypeOK' /\ Alone'
        /\ \A p \in Processes : call'[p].pc \in OutsidePcs \cup InsidePcs
    <2>1. InstallerTypeOK' /\ Alone'
      BY TypeStep, AloneStep
    <2> QED BY <2>1 DEF InstallerTypeOK, Calls, Pcs
  <1>1. ASSUME NEW p \in Processes, Locking(p)
        PROVE  JournalInv' /\ \A q \in Processes : Holds(q)'
    <2>1. OnlyCall(p) /\ UNCHANGED disk
      BY <1>1, LockingTyped
    <2>2. ASSUME NEW q \in Processes \ {p} PROVE Holds(q)'
      BY <2>1, FrameHolds DEF OnlyCall
    <2> QED BY <1>1, <2>2, LockingKeepsDisk
  <1>2. ASSUME NEW p \in Processes, Works(p), JournalInv' /\ Holds(p)'
        PROVE  JournalInv' /\ \A q \in Processes : Holds(q)'
    <2>1. ASSUME NEW q \in Processes \ {p} PROVE Holds(q)'
      <3>1. call'[q].pc \in OutsidePcs
        BY <1>0, <1>2 DEF Alone, Works
      <3> QED BY <3>1, OutsideHolds
    <2> QED BY <1>2, <2>1
  <1>3. ASSUME NEW p \in Processes, Recovering(p)
        PROVE  JournalInv' /\ \A q \in Processes : Holds(q)'
    BY <1>2, <1>3, RecoveringTyped, RecoveringKeepsDisk DEF Holds
  <1>4. ASSUME NEW p \in Processes, Transacting(p)
        PROVE  JournalInv' /\ \A q \in Processes : Holds(q)'
    BY <1>2, <1>4, TransactingTyped, TransactingKeepsDisk DEF Holds
  <1>5. ASSUME NEW p \in Processes, Throw(p)
        PROVE  JournalInv' /\ \A q \in Processes : Holds(q)'
    BY <1>2, <1>5, ThrowTyped, ThrowKeepsDisk
  <1>6. ASSUME NEW p \in Processes, Crash(p)
        PROVE  JournalInv' /\ \A q \in Processes : Holds(q)'
    <2>1. OnlyCall(p) /\ call'[p].pc = "lost" /\ UNCHANGED disk
      BY <1>6, CrashTyped
    <2>2. Holds(p)'
      BY <2>1, OutsideHolds DEF OutsidePcs
    <2>3. ASSUME NEW q \in Processes \ {p} PROVE Holds(q)'
      BY <2>1, FrameHolds DEF OnlyCall
    <2> QED BY <2>1, <2>2, <2>3, FrameJournal
  <1>7. CASE UNCHANGED vars
    <2>1. UNCHANGED disk /\ UNCHANGED call
      BY <1>7 DEF vars, disk
    <2> QED BY <2>1, FrameJournal, FrameHolds
  <1> QED BY <1>1, <1>3, <1>4, <1>5, <1>6, <1>7 DEF Next

(***************************************************************************)
(* The inductive invariant, over any processes, versions, skills, crashes  *)
(* and faults.                                                             *)
(***************************************************************************)
THEOREM InstallerHolds == Spec => []InstallerInv
  <1>1. Init => InstallerInv
    BY TypeInit, InvInit DEF InstallerInv
  <1>2. InstallerInv /\ [Next]_vars => InstallerInv'
    <2> SUFFICES ASSUME InstallerInv, [Next]_vars PROVE InstallerInv'
      OBVIOUS
    <2>1. InstallerTypeOK' /\ LockInv' /\ Alone'
      BY TypeStep, LockStep, AloneStep DEF InstallerInv
    <2>2. JournalInv' /\ \A p \in Processes : Holds(p)'
      BY DiskStep
    <2> QED BY <2>1, <2>2 DEF InstallerInv
  <1> QED BY <1>1, <1>2, PTL DEF Spec

(***************************************************************************)
(* No crash, error or later recovery loses the installation, wherever      *)
(* among the renames, phase writes and removals it falls, and also when    *)
(* the recovery itself is cut short any number of times.                   *)
(***************************************************************************)
THEOREM SetAlwaysSurvives == Spec => []SetSurvives
  <1>1. InstallerInv => SetSurvives
    BY DEF InstallerInv, JournalInv, Kept, Swapped, Gone, SetSurvives
  <1> QED BY <1>1, InstallerHolds, PTL

(***************************************************************************)
(* What a call reports is what it leaves on the disk, and no two calls are *)
(* between taking the lock and releasing it at once.                       *)
(***************************************************************************)
THEOREM ReportsAlwaysTrue == Spec => []ReportsAreTrue
  <1>1. InstallerInv => ReportsAreTrue
    <2> SUFFICES ASSUME InstallerInv PROVE ReportsAreTrue
      OBVIOUS
    <2>1. \A p \in Processes : Inside(p) => call[p].pc \in InsidePcs
      BY DEF InstallerInv, InstallerTypeOK, Calls, Pcs, OutsidePcs, Inside
    <2>2. \A p, q \in Processes : Inside(p) /\ Inside(q) => p = q
      BY <2>1 DEF InstallerInv, Alone
    <2>3. ASSUME NEW p \in Processes, At(p, "release")
          PROVE  CASE call[p].result = "installed" ->
                        dest = Whole(call[p].version) /\ journal = Nothing
                   [] call[p].result = "removed" -> dest = Empty /\ journal = Nothing
                   [] call[p].result = "failed" ->
                        dest = Whole(call[p].found) /\ journal = Nothing
                   [] OTHER -> TRUE
      BY <2>3 DEF InstallerInv, Holds, OutcomeInv, At
    <2> QED BY <2>2, <2>3 DEF ReportsAreTrue
  <1> QED BY <1>1, InstallerHolds, PTL
=============================================================================

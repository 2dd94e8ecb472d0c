----------------------------- MODULE Installer -----------------------------
(***************************************************************************)
(* The crash-recoverable skill installer (src/src/install/index.ts).       *)
(*                                                                         *)
(* A destination directory holds one entry per packaged skill and, last,   *)
(* the manifest.  Every call of installSkills or uninstallSkills is a      *)
(* process of its own: it takes the lock file (breaking a dead holder's    *)
(* under the reap guard), finishes or undoes the transaction an earlier    *)
(* call left in the journal, and then runs its own transaction, one        *)
(* rename at a time.  A process may be lost between any two system calls,  *)
(* and a move or a phase write may fail with an error the call handles.    *)
(*                                                                         *)
(* A skill directory or a manifest is abstracted to the version it         *)
(* belongs to: validateTree compares every byte, so an entry is of the     *)
(* expected version or it is not.  No one else writes in the destination.  *)
(***************************************************************************)
EXTENDS Integers, FiniteSets

CONSTANTS Processes, Versions, None, Skills, MaxCrashes, MaxFaults

\* None is no version, no process and no directory of entries.
ASSUME InstallerAssumption ==
  /\ Skills \in Nat \ {0}
  /\ None \notin Versions \cup Processes \cup [1..(Skills + 1) -> Versions \cup {None}]
  /\ MaxCrashes \in Nat /\ MaxFaults \in Nat

VARIABLES
  dest,      \* the version at each entry of the destination, or None
  stage,     \* the stage directory of the latest transaction
  backup,    \* its backup directory: None when there is none
  journal,   \* the transaction journal on disk, or None
  lock,      \* the lock file: who created it and whether the pid is in it
  reaper,    \* who created the reap guard directory, or None
  call,      \* what each process is doing
  outrun, \* history: a reap went on after the holder it read had released its lock
  crashes, faults

disk == <<dest, stage, backup, journal>>
locks == <<lock, reaper, outrun>>
vars == <<dest, stage, backup, journal, lock, reaper, outrun, call, crashes, faults>>

(***************************************************************************)
(* [...SKILL_NAMES, INSTALL_MANIFEST]: the moves run in this order.        *)
(***************************************************************************)
Entries == 1..(Skills + 1)
Manifest == Skills + 1
Whole(v) == [e \in Entries |-> v]
Empty == Whole(None)
Nothing == [operation |-> "none", phase |-> "none", manifest |-> None, previous |-> None]
Free == [by |-> None, written |-> FALSE]

Idle == [pc |-> "idle", version |-> None, saw |-> None, txn |-> Nothing,
         at |-> 1, then |-> "none", result |-> "none", found |-> None]

Init ==
  /\ dest \in {Empty} \cup {Whole(v) : v \in Versions}
  /\ stage = Empty /\ backup = None /\ journal = Nothing
  /\ lock = Free /\ reaper = None /\ outrun = FALSE
  /\ call = [p \in Processes |-> Idle]
  /\ crashes = 0 /\ faults = 0

At(p, pc) == call[p].pc = pc
Goto(p, pc) == call' = [call EXCEPT ![p].pc = pc]
Finish(p, result) == call' = [call EXCEPT ![p].pc = "release", ![p].result = result]

(***************************************************************************)
(* acquireLock.                                                            *)
(***************************************************************************)
Start(p) ==
  /\ At(p, "idle")
  /\ \E v \in Versions \cup {None} : call' = [call EXCEPT ![p].pc = "open", ![p].version = v]
  /\ UNCHANGED <<disk, locks, crashes, faults>>

Refuse(p) == call' = [call EXCEPT ![p].pc = "ended", ![p].result = "refused"]

OpenLock(p) ==
  /\ At(p, "open")
  /\ IF lock = Free
     THEN lock' = [by |-> p, written |-> FALSE] /\ Goto(p, "check")
     ELSE UNCHANGED lock /\ Goto(p, "guard")
  /\ UNCHANGED <<disk, reaper, outrun, crashes, faults>>

\* Mutant: the guard directory is made whether or not it is there.
MakeReaperShared(p) ==
  /\ At(p, "guard")
  /\ reaper' = p /\ Goto(p, "read")
  /\ UNCHANGED <<disk, lock, outrun, crashes, faults>>

MakeReaper(p) ==
  /\ At(p, "guard")
  /\ IF reaper = None
     THEN reaper' = p /\ Goto(p, "read")
     ELSE UNCHANGED reaper /\ Refuse(p)
  /\ UNCHANGED <<disk, lock, outrun, crashes, faults>>

\* The lock is read again under the guard; an absent or unwritten one names no pid.
ReadLock(p) ==
  /\ At(p, "read")
  /\ call' = [call EXCEPT ![p].saw = lock.by,
                          ![p].pc = IF lock.written THEN "probe" ELSE "drop"]
  /\ UNCHANGED <<disk, locks, crashes, faults>>

\* kill(pid, 0): a finished call's process has exited.
Alive(p) == call[p].pc \notin {"ended", "lost"}

ProbeHolder(p) ==
  /\ At(p, "probe")
  /\ Goto(p, IF Alive(call[p].saw) THEN "drop" ELSE "reap")
  /\ UNCHANGED <<disk, locks, crashes, faults>>

ReapLock(p) ==
  /\ At(p, "reap")
  /\ Goto(p, IF lock = Free THEN "drop" ELSE "reopen")
  /\ lock' = Free
  /\ outrun' = (outrun \/ At(call[p].saw, "ended"))
  /\ UNCHANGED <<disk, reaper, crashes, faults>>

ReopenLock(p) ==
  /\ At(p, "reopen")
  /\ IF lock = Free
     THEN lock' = [by |-> p, written |-> FALSE] /\ Goto(p, "unguard")
     ELSE UNCHANGED lock /\ Goto(p, "drop")
  /\ UNCHANGED <<disk, reaper, outrun, crashes, faults>>

RemoveReaper(p) ==
  /\ call[p].pc \in {"drop", "unguard"}
  /\ reaper' = None
  /\ IF At(p, "drop") THEN Refuse(p) ELSE Goto(p, "check")
  /\ UNCHANGED <<disk, lock, outrun, crashes, faults>>

\* A normal acquirer that observes the guard must stand down.
AfterGuardCheck == IF reaper # None THEN "standdown" ELSE "write"

CheckReaper(p) ==
  /\ At(p, "check")
  /\ Goto(p, AfterGuardCheck)
  /\ UNCHANGED <<disk, locks, crashes, faults>>

StandDown(p) ==
  /\ At(p, "standdown")
  /\ lock' = Free
  /\ Refuse(p)
  /\ UNCHANGED <<disk, reaper, outrun, crashes, faults>>

\* The pid is written through the open handle, so only into one's own file.
WriteLock(p) ==
  /\ At(p, "write")
  /\ lock' = IF lock.by = p THEN [lock EXCEPT !.written = TRUE] ELSE lock
  /\ call' = [call EXCEPT ![p].pc = "recover", ![p].then = "prepare"]
  /\ UNCHANGED <<disk, reaper, outrun, crashes, faults>>

Release(p) ==
  /\ At(p, "release")
  /\ Goto(p, IF lock = [by |-> p, written |-> TRUE] THEN "unlock" ELSE "ended")
  /\ UNCHANGED <<disk, locks, crashes, faults>>

Unlock(p) ==
  /\ At(p, "unlock")
  /\ lock' = Free
  /\ Goto(p, "ended")
  /\ UNCHANGED <<disk, reaper, outrun, crashes, faults>>

(***************************************************************************)
(* recover: the transaction an earlier call left, or this call's own       *)
(* after an error.  A transaction is finished when its result is already   *)
(* in the destination and undone otherwise.                                *)
(***************************************************************************)
Continue(p) ==
  call' = IF call[p].then = "failed"
          THEN [call EXCEPT ![p].pc = "release", ![p].result = "failed"]
          ELSE [call EXCEPT ![p].pc = call[p].then]

RecoverPlan(t) ==
  CASE t.operation = "install" /\ dest = Whole(t.manifest) -> "r-commit"
    [] t.operation = "install" /\ t.phase = "staged" -> "undone"
    [] t.operation = "uninstall" /\ t.phase = "committed" -> "done"
    [] OTHER -> "gather"

Recover(p) ==
  /\ At(p, "recover")
  /\ IF journal = Nothing
     THEN Continue(p)
     ELSE call' = [call EXCEPT ![p].txn = journal, ![p].pc = RecoverPlan(journal), ![p].at = 1]
  /\ UNCHANGED <<disk, locks, crashes, faults>>

WritePhase(p, phase) == journal' = [call[p].txn EXCEPT !.phase = phase]

RecoverCommit(p) ==
  /\ At(p, "r-commit")
  /\ WritePhase(p, "committed")
  /\ Goto(p, "done")
  /\ UNCHANGED <<dest, stage, backup, locks, crashes, faults>>

(***************************************************************************)
(* restoreBackup.  First the old set is gathered in the backup, moving the *)
(* new entries out of the way; then it is validated there, moved back and  *)
(* validated again; then the journal says committed.                       *)
(***************************************************************************)
Held(e) == backup # None /\ backup[e] # None

\* Mutant: the destination's entry is renamed over the backup's.
GatherOver(p) ==
  LET e == call[p].at
      t == call[p].txn
      next == [call EXCEPT ![p].at = e + 1]
  IN /\ At(p, "gather") /\ e \in Entries
     /\ CASE t.previous = None \/ dest[e] = None ->
               /\ dest' = [dest EXCEPT ![e] = None]
               /\ call' = next /\ UNCHANGED backup
          [] t.previous # None /\ dest[e] # None /\ backup # None ->
               /\ backup' = [backup EXCEPT ![e] = dest[e]]
               /\ dest' = [dest EXCEPT ![e] = None]
               /\ call' = next
          [] OTHER -> Finish(p, "stuck") /\ UNCHANGED <<dest, backup>>
     /\ UNCHANGED <<stage, journal, locks, crashes, faults>>

\* One entry of the first loop: where the destination's entry goes.
Gather(p) ==
  LET e == call[p].at
      t == call[p].txn
      next == [call EXCEPT ![p].at = e + 1]
  IN /\ At(p, "gather") /\ e \in Entries
     /\ CASE t.previous = None \/ Held(e) ->
               /\ dest' = [dest EXCEPT ![e] = None]
               /\ call' = next /\ UNCHANGED backup
          [] t.previous # None /\ ~Held(e) /\ dest[e] # None /\ backup # None ->
               /\ backup' = [backup EXCEPT ![e] = dest[e]]
               /\ dest' = [dest EXCEPT ![e] = None]
               /\ call' = next
          [] OTHER -> Finish(p, "stuck") /\ UNCHANGED <<dest, backup>>
     /\ UNCHANGED <<stage, journal, locks, crashes, faults>>

GatherDone(p) ==
  LET t == call[p].txn
  IN /\ At(p, "gather") /\ call[p].at \notin Entries
     /\ IF t.previous = None \/ backup = Whole(t.previous)
        THEN call' = [call EXCEPT ![p].pc = "putback", ![p].at = 1]
        ELSE Finish(p, "stuck")
     /\ UNCHANGED <<disk, locks, crashes, faults>>

PutBack(p) ==
  LET e == call[p].at
  IN /\ At(p, "putback") /\ e \in Entries
     /\ IF Held(e)
        THEN dest' = [dest EXCEPT ![e] = backup[e]] /\ backup' = [backup EXCEPT ![e] = None]
        ELSE UNCHANGED <<dest, backup>>
     /\ call' = [call EXCEPT ![p].at = e + 1]
     /\ UNCHANGED <<stage, journal, locks, crashes, faults>>

PutBackDone(p) ==
  /\ At(p, "putback") /\ call[p].at \notin Entries
  /\ IF dest = Whole(call[p].txn.previous)
     THEN WritePhase(p, "committed") /\ Goto(p, "undone")
     ELSE Finish(p, "stuck") /\ UNCHANGED journal
  /\ UNCHANGED <<dest, stage, backup, locks, crashes, faults>>

(***************************************************************************)
(* cleanCommitted ("done") and cleanRollback ("undone"): validate, remove  *)
(* the stage and the backup, and only then the journal.  rm -r takes the   *)
(* backup's entries one at a time, in no particular order.                 *)
(***************************************************************************)
Target(t) == IF t.operation = "install" THEN t.manifest ELSE None

CleanCommitted(p) ==
  /\ At(p, "done")
  /\ IF dest = Whole(Target(call[p].txn)) THEN Goto(p, "rm-stage") ELSE Finish(p, "stuck")
  /\ UNCHANGED <<disk, locks, crashes, faults>>

CleanRollback(p) ==
  /\ At(p, "undone")
  /\ IF dest = Whole(call[p].txn.previous) THEN Goto(p, "rm-stage") ELSE Finish(p, "stuck")
  /\ UNCHANGED <<disk, locks, crashes, faults>>

RemoveStage(p) ==
  /\ At(p, "rm-stage")
  /\ stage' = Empty
  /\ Goto(p, "rm-backup")
  /\ UNCHANGED <<dest, backup, journal, locks, crashes, faults>>

RemoveBackupEntry(p) ==
  /\ At(p, "rm-backup")
  /\ \E e \in Entries : Held(e) /\ backup' = [backup EXCEPT ![e] = None]
  /\ UNCHANGED <<dest, stage, journal, call, locks, crashes, faults>>

RemoveBackup(p) ==
  /\ At(p, "rm-backup")
  /\ ~\E e \in Entries : Held(e)
  /\ backup' = None
  /\ Goto(p, "rm-journal")
  /\ UNCHANGED <<dest, stage, journal, locks, crashes, faults>>

RemoveJournal(p) ==
  /\ At(p, "rm-journal")
  /\ journal' = Nothing
  /\ Continue(p)
  /\ UNCHANGED <<dest, stage, backup, locks, crashes, faults>>

(***************************************************************************)
(* installSkills and uninstallSkills under the lock, after recover.        *)
(***************************************************************************)

\* readManifest and assertOwnedOrAbsent (install) or validateInstalled (uninstall).
Prepare(p) ==
  LET previous == dest[Manifest]
      removing == call[p].version = None
  IN /\ At(p, "prepare")
     /\ call' = IF dest = Whole(previous) /\ ~(removing /\ previous = None)
                THEN [call EXCEPT ![p].pc = "stage", ![p].found = previous,
                       ![p].txn = [operation |-> IF removing THEN "uninstall" ELSE "install",
                                   phase |-> IF removing THEN "backing-up" ELSE "staged",
                                   manifest |-> IF removing THEN previous ELSE call[p].version,
                                   previous |-> previous]]
                ELSE [call EXCEPT ![p].pc = "release", ![p].result = "refused"]
     /\ UNCHANGED <<disk, locks, crashes, faults>>

\* The stage is written and synced, and the backup made, before any journal names them.
Stage(p) ==
  /\ At(p, "stage")
  /\ stage' = Whole(call[p].version)
  /\ backup' = Empty
  /\ Goto(p, "journal")
  /\ UNCHANGED <<dest, journal, locks, crashes, faults>>

\* uninstallSkills begins at backing-up; installSkills writes that phase next.
WriteJournal(p) ==
  /\ At(p, "journal")
  /\ journal' = call[p].txn
  /\ call' = IF call[p].txn.phase = "staged"
             THEN [call EXCEPT ![p].pc = "backing", ![p].txn.phase = "backing-up"]
             ELSE [call EXCEPT ![p].pc = "backup", ![p].at = 1]
  /\ UNCHANGED <<dest, stage, backup, locks, crashes, faults>>

WriteBackingUp(p) ==
  /\ At(p, "backing")
  /\ journal' = call[p].txn
  /\ call' = [call EXCEPT ![p].pc = "backup", ![p].at = 1]
  /\ UNCHANGED <<dest, stage, backup, locks, crashes, faults>>

BackUp(p) ==
  LET e == call[p].at
  IN /\ At(p, "backup") /\ e \in Entries
     /\ IF dest[e] # None
        THEN backup' = [backup EXCEPT ![e] = dest[e]] /\ dest' = [dest EXCEPT ![e] = None]
        ELSE UNCHANGED <<dest, backup>>
     /\ call' = [call EXCEPT ![p].at = e + 1]
     /\ UNCHANGED <<stage, journal, locks, crashes, faults>>

\* The phase after the last backup: swapping (install) or committed (uninstall).
BackUpDone(p) ==
  LET removing == call[p].version = None
      phase == IF removing THEN "committed" ELSE "swapping"
  IN /\ At(p, "backup") /\ call[p].at \notin Entries
     /\ WritePhase(p, phase)
     /\ call' = [call EXCEPT ![p].pc = IF removing THEN "done" ELSE "swap", ![p].at = 1,
                             ![p].txn.phase = phase,
                             ![p].then = IF removing THEN "removed" ELSE @]
     /\ UNCHANGED <<dest, stage, backup, locks, crashes, faults>>

Swap(p) ==
  LET e == call[p].at
  IN /\ At(p, "swap") /\ e \in Entries
     /\ dest' = [dest EXCEPT ![e] = stage[e]]
     /\ stage' = [stage EXCEPT ![e] = None]
     /\ call' = [call EXCEPT ![p].at = e + 1]
     /\ UNCHANGED <<backup, journal, locks, crashes, faults>>

\* validateInstalled, then the committed phase, then cleanCommitted.
SwapDone(p) ==
  /\ At(p, "swap") /\ call[p].at \notin Entries
  /\ dest = Whole(call[p].version)
  /\ WritePhase(p, "committed")
  /\ call' = [call EXCEPT ![p].pc = "done", ![p].txn.phase = "committed", ![p].then = "installed"]
  /\ UNCHANGED <<dest, stage, backup, locks, crashes, faults>>

Report(p) ==
  /\ call[p].pc \in {"installed", "removed"}
  /\ Finish(p, call[p].pc)
  /\ UNCHANGED <<disk, locks, crashes, faults>>

(***************************************************************************)
(* A move, a phase write or the validation after the swap throws: the      *)
(* catch of installSkills rolls back from its own copy of the journal, the *)
(* catch of uninstallSkills calls recover.                                 *)
(***************************************************************************)
Throw(p) ==
  /\ faults < MaxFaults
  /\ call[p].pc \in {"backing", "backup", "swap"}
  /\ faults' = faults + 1
  /\ call' = [call EXCEPT ![p].then = "failed", ![p].at = 1,
                          ![p].pc = IF call[p].version = None THEN "recover" ELSE "gather"]
  /\ UNCHANGED <<disk, locks, crashes>>

\* The process is lost (a kill, or the machine): what it did is on disk.
Crash(p) ==
  /\ crashes < MaxCrashes
  /\ call[p].pc \notin {"idle", "ended", "lost"}
  /\ crashes' = crashes + 1
  /\ call' = [call EXCEPT ![p] = [Idle EXCEPT !.pc = "lost"]]
  /\ UNCHANGED <<disk, locks, faults>>

Locking(p) ==
  \/ Start(p) \/ OpenLock(p) \/ MakeReaper(p) \/ ReadLock(p) \/ ProbeHolder(p)
  \/ ReapLock(p) \/ ReopenLock(p) \/ RemoveReaper(p) \/ CheckReaper(p)
  \/ StandDown(p) \/ WriteLock(p) \/ Release(p) \/ Unlock(p)

Recovering(p) ==
  \/ Recover(p) \/ RecoverCommit(p) \/ Gather(p) \/ GatherDone(p) \/ PutBack(p)
  \/ PutBackDone(p) \/ CleanCommitted(p) \/ CleanRollback(p) \/ RemoveStage(p)
  \/ RemoveBackupEntry(p) \/ RemoveBackup(p) \/ RemoveJournal(p)

Transacting(p) ==
  \/ Prepare(p) \/ Stage(p) \/ WriteJournal(p) \/ WriteBackingUp(p) \/ BackUp(p)
  \/ BackUpDone(p) \/ Swap(p) \/ SwapDone(p) \/ Report(p)

\* What overlapping calls do to each other's directories is not modelled: a
\* behaviour ends when a reap unlinks after the holder it read has released.
Next ==
  /\ ~outrun
  /\ \E p \in Processes : Locking(p) \/ Recovering(p) \/ Transacting(p) \/ Throw(p) \/ Crash(p)

Spec == Init /\ [][Next]_vars

(***************************************************************************)
(* Properties.                                                             *)
(***************************************************************************)

(***************************************************************************)
(* No crash, error or later recovery loses the installation.  Without a    *)
(* journal the destination is one whole version or empty, never a mixture; *)
(* with one, the new set is whole in the destination, or the uninstall is  *)
(* complete and says so, or every entry of the set that was there before   *)
(* is still in the destination or in the backup.                           *)
(***************************************************************************)
SetSurvives ==
  IF journal = Nothing
  THEN dest = Whole(dest[Manifest])
  ELSE \/ journal.operation = "install" /\ dest = Whole(journal.manifest)
       \/ journal.operation = "uninstall" /\ journal.phase = "committed" /\ dest = Empty
       \/ journal.previous = None
       \/ \A e \in Entries : journal.previous \in
             {dest[e]} \cup (IF backup = None THEN {} ELSE {backup[e]})

\* A process between acquireLock and its release.
Inside(p) ==
  call[p].pc \notin {"idle", "ended", "lost", "open", "guard", "read", "probe", "reap",
                     "reopen", "drop", "unguard", "check", "standdown", "write"}

(***************************************************************************)
(* What a call reports is what it leaves: installed means the whole new    *)
(* set and no journal, removed means nothing and no journal, and failed    *)
(* means exactly the set the call found.  It rests on the lock: two calls  *)
(* never overlap by breaking the lock of a lost holder.  (They can when    *)
(* the holder a reap has read releases and exits before the probe, and a   *)
(* third call takes the lock before the unlink: behaviours stop there.)    *)
(***************************************************************************)
ReportsAreTrue ==
  /\ \A p \in Processes : At(p, "release") =>
       CASE call[p].result = "installed" -> dest = Whole(call[p].version) /\ journal = Nothing
         [] call[p].result = "removed" -> dest = Empty /\ journal = Nothing
         [] call[p].result = "failed" -> dest = Whole(call[p].found) /\ journal = Nothing
         [] OTHER -> TRUE
  /\ \A p, q \in Processes : Inside(p) /\ Inside(q) => p = q
=============================================================================

--------------------------- MODULE OperationLock ---------------------------
(***************************************************************************)
(* The operation lock of src/src/fencing/operation-lock.ts: a Unix socket    *)
(* and a state file under the common Git directory.  A holder listens on the *)
(* socket; a contender that finds a socket nobody listens on removes what    *)
(* the dead holder left and binds its own.  One action per system call that  *)
(* another process can observe, since nothing makes two of them atomic.      *)
(*                                                                          *)
(* A file has an inode number, which is all the code compares, and the order *)
(* in which it was born, which no process sees: an inode number is given to  *)
(* a new file as soon as the old one is gone.  The content of the state file *)
(* is the same for every invocation of a configured controller.              *)
(***************************************************************************)
EXTENDS Naturals, FiniteSets

CONSTANTS
    Processes,     \* CLI processes that contend for the lock
    Inodes,        \* inode numbers of the file system
    MaxAttempts,   \* MAX_ACQUIRE_ATTEMPTS
    MaxFiles,      \* bound: files created over time
    MaxCrashes,    \* bound: crashes of all processes together
    None

ASSUME LockAssumption ==
    /\ IsFiniteSet(Processes)
    /\ MaxAttempts \in Nat \ {0}
    /\ MaxFiles \in Nat /\ MaxCrashes \in Nat
    /\ None \notin [ino : Inodes, born : Nat, ready : BOOLEAN]

VARIABLES
    socket,    \* the file at path "l"; ready: its mode is 0600
    state,     \* the file at path "s"; ready: its content is written
    live,      \* sockets (by birth) some process listens on
    proc,      \* the acquisition or the lease each process is in
    births,    \* files created so far
    misfired,  \* has a process unlinked a file other than the one it meant?
    crashes

paths == <<socket, state>>
vars == <<socket, state, live, proc, births, misfired, crashes>>

Files == [ino : Inodes, born : Nat, ready : BOOLEAN]

Steps == {"idle", "captureSocket", "captureState", "connect",
          "checkSocket", "unlinkSocket", "recheckSocket",
          "checkState", "unlinkState", "recheckState",
          "listen", "chmod", "captureOwned", "createState", "writeState",
          "captureWritten", "abandon", "held", "leaveState", "close", "linger"}

(* Whom a removal serves: a contender that cleans up, one that gives up its    *)
(* own half-made lease, a holder that releases.                              *)
Purposes == {"acquire", "abandon", "release"}

Outcomes == {"none", "held", "quarantined", "unavailable", "fault", "mismatch",
             "released", "crashed"}

Lockers == [
    pc      : Steps,
    attempt : Nat,
    sock    : Files \cup {None},   \* what was last captured at "l"
    stat    : Files \cup {None},   \* what was last captured at "s"
    found   : Files \cup {None},   \* what its release captured at "l"
    server  : Nat,                 \* birth of the socket it listens on, 0: none
    purpose : Purposes,
    alone   : BOOLEAN,             \* no other process ran since it was invoked
    outcome : Outcomes]            \* of the invocation that is over

Idle == [pc |-> "idle", attempt |-> 0, sock |-> None, stat |-> None, found |-> None,
         server |-> 0, purpose |-> "acquire", alone |-> FALSE, outcome |-> "none"]

TypeOK ==
    /\ socket \in Files \cup {None} /\ state \in Files \cup {None}
    /\ live \subseteq Nat
    /\ proc \in [Processes -> Lockers]
    /\ births \in Nat /\ crashes \in Nat
    /\ misfired \in BOOLEAN

Init ==
    /\ socket = None /\ state = None
    /\ live = {}
    /\ proc = [p \in Processes |-> Idle]
    /\ births = 0 /\ misfired = FALSE /\ crashes = 0

-----------------------------------------------------------------------------
(* Moving on *)

(* The code compares device, inode number, mode and owner (and a content that *)
(* is always the same), never the birth.                                     *)
SameIdentity(f, g) == f.ino = g.ino

Captured(f) ==
    IF f = None THEN "absent" ELSE IF f.ready THEN "valid" ELSE "invalid"

Goto(p, changed) == proc' = [proc EXCEPT ![p] = changed]

At(p, pc) == [proc[p] EXCEPT !.pc = pc]

(* The invocation is over and its process ends. *)
Over(p, outcome) == [Idle EXCEPT !.alone = proc[p].alone, !.outcome = outcome]

(* A release that finds something else returns with its server still open;    *)
(* the open server keeps the process, and the socket, alive.                 *)
Linger(p, outcome) == [proc[p] EXCEPT !.pc = "linger", !.outcome = outcome]

Retry(p) ==
    IF proc[p].attempt = MaxAttempts THEN Over(p, "unavailable")
    ELSE [proc[p] EXCEPT !.pc = "captureSocket", !.attempt = @ + 1,
                         !.sock = None, !.stat = None]

(* A file appears, not yet ready, under any inode number no path uses (a file  *)
(* that is open but no longer named would keep its number a little longer).   *)
FreeInodes == {i \in Inodes : \A f \in {socket, state} \ {None} : f.ino # i}

NewFile(i) == [ino |-> i, born |-> births + 1, ready |-> FALSE]

-----------------------------------------------------------------------------
(* Acquisition *)

(* paths and the schema of the state refuse before anything is looked at: an   *)
(* invocation that fails there never starts.                                 *)
Invoke(p) ==
    /\ proc[p].pc = "idle"
    /\ births + 2 * Cardinality({q \in Processes : proc[q].pc # "idle"}) + 2 <= MaxFiles
    /\ proc' = [q \in Processes |->
                  IF q = p
                  THEN [Idle EXCEPT !.pc = "captureSocket", !.attempt = 1,
                           !.alone = \A r \in Processes \ {p} : proc[r].pc = "idle"]
                  ELSE [proc[q] EXCEPT !.alone = FALSE]]
    /\ UNCHANGED <<paths, live, births, misfired, crashes>>

CaptureSocket(p) ==
    /\ proc[p].pc = "captureSocket"
    /\ Goto(p, IF Captured(socket) = "invalid" THEN Over(p, "quarantined")
               ELSE [proc[p] EXCEPT !.pc = "captureState", !.sock = socket])
    /\ UNCHANGED <<paths, live, births, misfired, crashes>>

(* Mutant of AfterCaptures: a state file without a socket is left alone. *)
AfterCapturesKeepsState(sock, stat) == IF sock # None THEN "connect" ELSE "listen"

(* What two captures call for. *)
AfterCaptures(sock, stat) ==
    IF sock # None THEN "connect"
    ELSE IF stat # None THEN "checkState" ELSE "listen"

CaptureState(p) ==
    /\ proc[p].pc = "captureState"
    /\ Goto(p, IF Captured(state) = "invalid" THEN Over(p, "quarantined")
               ELSE [proc[p] EXCEPT !.pc = AfterCaptures(proc[p].sock, state),
                                    !.stat = state])
    /\ UNCHANGED <<paths, live, births, misfired, crashes>>

(* Mutant of IsLive: a listener without a state file is taken for dead. *)
IsLiveWithState(f) == f # None /\ f.born \in live /\ state # None

(* The kernel answers for whatever is at the path now. *)
IsLive(f) == f # None /\ f.born \in live

SocketIsLive(p) ==
    /\ proc[p].pc = "connect"
    /\ \/ Goto(p, IF IsLive(socket) THEN Over(p, "held") ELSE At(p, "checkSocket"))
       \/ Goto(p, Over(p, "fault"))
    /\ UNCHANGED <<paths, live, births, misfired, crashes>>

Listen(p) ==
    /\ proc[p].pc = "listen"
    /\ \/ /\ socket = None
          /\ \E i \in FreeInodes : socket' = NewFile(i)
          /\ Goto(p, [proc[p] EXCEPT !.pc = "chmod", !.server = births + 1])
          /\ births' = births + 1 /\ live' = live \cup {births + 1}
       \/ /\ Goto(p, IF socket # None THEN Retry(p) ELSE Over(p, "fault"))
          /\ UNCHANGED <<socket, births, live>>
    /\ UNCHANGED <<state, misfired, crashes>>

(* Closing a server unlinks whatever its path names, then stops listening. *)
CloseServer(p) ==
    /\ socket' = None
    /\ live' = live \ {proc[p].server}
    /\ misfired' = (misfired \/ (socket # None /\ socket.born # proc[p].server))

Chmod(p) ==
    /\ proc[p].pc = "chmod"
    /\ IF socket = None
       THEN CloseServer(p) /\ Goto(p, Over(p, "quarantined"))
       ELSE /\ socket' = [socket EXCEPT !.ready = TRUE]
            /\ Goto(p, At(p, "captureOwned"))
            /\ UNCHANGED <<live, misfired>>
    /\ UNCHANGED <<state, births, crashes>>

CaptureOwned(p) ==
    /\ proc[p].pc = "captureOwned"
    /\ IF Captured(socket) # "valid"
       THEN CloseServer(p) /\ Goto(p, Over(p, "quarantined"))
       ELSE /\ Goto(p, [proc[p] EXCEPT !.pc = "createState", !.sock = socket])
            /\ UNCHANGED <<socket, live, misfired>>
    /\ UNCHANGED <<state, births, crashes>>

(* O_EXCL: an existing state file is never overwritten. *)
CreateState(p) ==
    /\ proc[p].pc = "createState"
    /\ IF state # None
       THEN Goto(p, At(p, "abandon")) /\ UNCHANGED <<state, births>>
       ELSE /\ \E i \in FreeInodes : state' = NewFile(i)
            /\ Goto(p, [proc[p] EXCEPT !.pc = "writeState", !.stat = state'])
            /\ births' = births + 1
    /\ UNCHANGED <<socket, live, misfired, crashes>>

(* The content goes to the descriptor, whatever the path names by now. *)
WriteState(p) ==
    /\ proc[p].pc = "writeState"
    /\ state' = IF state # None /\ state.born = proc[p].stat.born
                THEN [state EXCEPT !.ready = TRUE] ELSE state
    /\ Goto(p, At(p, "captureWritten"))
    /\ UNCHANGED <<socket, live, births, misfired, crashes>>

CaptureWritten(p) ==
    /\ proc[p].pc = "captureWritten"
    /\ Goto(p, IF Captured(state) = "valid"
               THEN [proc[p] EXCEPT !.pc = "held", !.stat = state]
               ELSE At(p, "abandon"))
    /\ UNCHANGED <<paths, live, births, misfired, crashes>>

(* A lease whose state could not be written gives its socket up. *)
Abandon(p) ==
    /\ proc[p].pc = "abandon"
    /\ CloseServer(p)
    /\ Goto(p, [At(p, "checkSocket") EXCEPT !.purpose = "abandon", !.server = 0])
    /\ UNCHANGED <<state, births, crashes>>

-----------------------------------------------------------------------------
(* Release *)

(* Both artefacts are captured, then compared with the lease's own.           *)
LeaveSocket(p) ==
    /\ proc[p].pc = "held"
    /\ Goto(p, [proc[p] EXCEPT !.pc = "leaveState", !.found = socket])
    /\ UNCHANGED <<paths, live, births, misfired, crashes>>

LeaveState(p) ==
    LET q == proc[p]  found == {Captured(q.found), Captured(state)} IN
    /\ q.pc = "leaveState"
    /\ Goto(p, IF "invalid" \in found THEN Linger(p, "quarantined")
               ELSE IF /\ found = {"valid"}
                       /\ SameIdentity(q.found, q.sock) /\ SameIdentity(state, q.stat)
               THEN [q EXCEPT !.pc = "close", !.found = None]
               ELSE Linger(p, "mismatch"))
    /\ UNCHANGED <<paths, live, births, misfired, crashes>>

Close(p) ==
    /\ proc[p].pc = "close"
    /\ CloseServer(p)
    /\ Goto(p, [At(p, "checkSocket") EXCEPT !.purpose = "release", !.server = 0])
    /\ UNCHANGED <<state, births, crashes>>

-----------------------------------------------------------------------------
(* Removal of an artefact: revalidate, unlink by path, look again.  Another   *)
(* process may act between any two of them.                                  *)

(* The artefact is gone, or was not there: what comes next. *)
SocketGone(p) ==
    CASE proc[p].purpose = "acquire" ->
            IF proc[p].stat # None THEN At(p, "checkState") ELSE Retry(p)
      [] proc[p].purpose = "abandon" -> Over(p, "unavailable")
      [] proc[p].purpose = "release" -> At(p, "checkState")

StateGone(p) ==
    IF proc[p].purpose = "acquire" THEN Retry(p) ELSE Over(p, "released")

(* It is there and is not what was captured. *)
Changed(p) ==
    Over(p, IF proc[p].purpose = "release" THEN "mismatch" ELSE "unavailable")

(* One revalidation, of the file f at a path against the capture c. *)
Revalidate(p, f, c, unlink, gone) ==
    Goto(p, IF Captured(f) = "absent" THEN gone
            ELSE IF Captured(f) = "invalid" THEN Over(p, "quarantined")
            ELSE IF SameIdentity(f, c) THEN At(p, unlink)
            ELSE Changed(p))

CheckSocket(p) ==
    /\ proc[p].pc = "checkSocket"
    /\ Revalidate(p, socket, proc[p].sock, "unlinkSocket", SocketGone(p))
    /\ UNCHANGED <<paths, live, births, misfired, crashes>>

UnlinkSocket(p) ==
    /\ proc[p].pc = "unlinkSocket"
    /\ socket' = None
    /\ misfired' = (misfired \/ (socket # None /\ socket.born # proc[p].sock.born))
    /\ Goto(p, IF socket = None THEN SocketGone(p) ELSE At(p, "recheckSocket"))
    /\ UNCHANGED <<state, live, births, crashes>>

RecheckSocket(p) ==
    /\ proc[p].pc = "recheckSocket"
    /\ Goto(p, IF socket = None THEN SocketGone(p) ELSE Changed(p))
    /\ UNCHANGED <<paths, live, births, misfired, crashes>>

CheckState(p) ==
    /\ proc[p].pc = "checkState"
    /\ Revalidate(p, state, proc[p].stat, "unlinkState", StateGone(p))
    /\ UNCHANGED <<paths, live, births, misfired, crashes>>

UnlinkState(p) ==
    /\ proc[p].pc = "unlinkState"
    /\ state' = None
    /\ Goto(p, IF state = None THEN StateGone(p) ELSE At(p, "recheckState"))
    /\ UNCHANGED <<socket, live, births, misfired, crashes>>

RecheckState(p) ==
    /\ proc[p].pc = "recheckState"
    /\ Goto(p, IF state = None THEN StateGone(p) ELSE Changed(p))
    /\ UNCHANGED <<paths, live, births, misfired, crashes>>

-----------------------------------------------------------------------------

(* The process dies, or a lingering one is killed: the kernel stops listening *)
(* and leaves the files.                                                     *)
Crash(p) ==
    /\ proc[p].pc # "idle"
    /\ crashes < MaxCrashes /\ crashes' = crashes + 1
    /\ live' = live \ {proc[p].server}
    /\ Goto(p, Over(p, "crashed"))
    /\ UNCHANGED <<paths, births, misfired>>

Step(p) ==
    \/ CaptureSocket(p) \/ CaptureState(p) \/ SocketIsLive(p)
    \/ Listen(p) \/ Chmod(p) \/ CaptureOwned(p)
    \/ CreateState(p) \/ WriteState(p) \/ CaptureWritten(p) \/ Abandon(p)
    \/ LeaveSocket(p) \/ LeaveState(p) \/ Close(p)
    \/ CheckSocket(p) \/ UnlinkSocket(p) \/ RecheckSocket(p)
    \/ CheckState(p) \/ UnlinkState(p) \/ RecheckState(p)

Next == \E p \in Processes : Invoke(p) \/ Step(p) \/ Crash(p)

Spec == Init /\ [][Next]_vars

-----------------------------------------------------------------------------
(* Properties *)

Holders == {p \in Processes : proc[p].pc = "held"}

Lease == INSTANCE OperationLease WITH
            holders <- IF misfired THEN {} ELSE Holders

(* The lock implements the lease for as long as no process has unlinked a     *)
(* socket other than the one it captured: crashes at any call, stale          *)
(* artefacts, retries and reused state files never admit two holders; the     *)
(* unlink by path is the only way to two of them.                            *)
LeaseImplemented == Lease!Spec

HalfMade(f) == f # None /\ ~ f.ready

(* A contender that runs by itself gets the lock whatever the dead left        *)
(* behind, unless they left an artefact half made; then it says so.           *)
LoneContenderWins ==
    \A p \in Processes :
        proc[p].pc = "idle" /\ proc[p].alone =>
            \/ proc[p].outcome \in {"released", "fault", "crashed"}
            \/ proc[p].outcome = "quarantined" /\ (HalfMade(socket) \/ HalfMade(state))

=============================================================================

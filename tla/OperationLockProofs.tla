------------------------ MODULE OperationLockProofs ------------------------
(***************************************************************************)
(* The operation lock implements the lease, for any number of processes,     *)
(* inode numbers, files and crashes: Spec => LeaseImplemented.               *)
(*                                                                          *)
(* The argument.  As long as no unlink has hit another file than the one it  *)
(* meant, a socket somebody listens on is the one at the path (PathIsLive):   *)
(* the path is only cleared by its own server or by a contender whose         *)
(* captured socket nobody listens on (RemovalsAreDead), and a socket nobody   *)
(* listens on never comes back to life, whatever inode number is reused.     *)
(* Two holders would both listen on the socket at the path, and each listens  *)
(* on a socket of its own.                                                   *)
(*                                                                          *)
(* And a contender that runs by itself gets the lock: Spec =>                *)
(* []LoneContenderWins.  While it is alone nothing at the two paths changes   *)
(* but by its own steps, nobody else listens (ListenersServe), and so each    *)
(* capture still holds when it is acted on (Alone).                          *)
(***************************************************************************)
EXTENDS OperationLock, TLAPS

(* The steps of a process that listens. *)
Serving == {"chmod", "captureOwned", "createState", "writeState", "captureWritten",
            "abandon", "held", "leaveState", "close", "linger"}

(* Those that come after its socket was captured. *)
Owning == {"createState", "writeState", "captureWritten", "abandon", "held",
           "leaveState", "close"}

Removing == {"checkSocket", "unlinkSocket", "recheckSocket"}

BirthsBound ==
    /\ live \subseteq 1..births
    /\ socket # None => socket.born <= births
    /\ \A p \in Processes : proc[p].sock # None => proc[p].sock.born <= births

ServersListen ==
    /\ \A p \in Processes : proc[p].server # 0 <=> proc[p].pc \in Serving
    /\ \A p \in Processes : proc[p].pc \in Serving => proc[p].server \in live

ServersDiffer ==
    \A p, q \in Processes :
        proc[p].pc \in Serving /\ proc[q].pc \in Serving
            /\ proc[p].server = proc[q].server => p = q

Captures ==
    \A p \in Processes :
        /\ proc[p].pc \in Removing \cup Owning \cup {"connect"} => proc[p].sock # None
        /\ proc[p].pc \in Owning /\ ~ misfired => proc[p].sock.born = proc[p].server

PathIsLive ==
    ~ misfired => \A i \in live : socket # None /\ socket.born = i

RemovalsAreDead ==
    ~ misfired => \A p \in Processes :
        proc[p].pc \in Removing => proc[p].sock.born \notin live

IInv == /\ TypeOK /\ BirthsBound /\ ServersListen /\ ServersDiffer
        /\ Captures /\ PathIsLive /\ RemovalsAreDead

-----------------------------------------------------------------------------

(* Initially nothing is at the paths and nobody listens. *)
LEMMA InitIInv == Init => IInv
  <1> SUFFICES ASSUME Init PROVE IInv
    OBVIOUS
  <1>1. TypeOK
    BY DEF Init, TypeOK, Idle, Lockers, Steps, Purposes, Outcomes
  <1>2. QED
    BY <1>1 DEF Init, IInv, BirthsBound, ServersListen, ServersDiffer, Captures,
       PathIsLive, RemovalsAreDead, Idle, Serving, Owning, Removing

-----------------------------------------------------------------------------
(* A process may go on as r while nothing it shares with the others changes. *)
Fits(p, r) ==
    /\ r \in Lockers
    /\ r.server = proc[p].server
    /\ r.pc \in Serving <=> proc[p].pc \in Serving
    /\ r.sock # None => r.sock.born <= births
    /\ r.pc \in Removing \cup Owning \cup {"connect"} => r.sock # None
    /\ r.pc \in Owning /\ ~ misfired => r.sock.born = r.server
    /\ r.pc \in Removing /\ ~ misfired => r.sock.born \notin live

(* Such a step keeps the invariant. *)
LEMMA QuietStep ==
    ASSUME IInv, NEW p \in Processes, NEW r, Fits(p, r),
           proc' = [proc EXCEPT ![p] = r],
           births' \in Nat, births' >= births, crashes' \in Nat,
           state' \in Files \cup {None},
           UNCHANGED <<socket, live, misfired>>
    PROVE  IInv'
  <1> USE DEF IInv, Fits
  <1>0. /\ proc'[p] = r
        /\ \A q \in Processes \ {p} : proc'[q] = proc[q]
    BY DEF TypeOK
  <1>1. TypeOK'
    BY DEF TypeOK
  <1>2. BirthsBound'
    <2>1. live \subseteq 1..births'
      BY DEF BirthsBound, TypeOK
    <2>2. socket # None => socket.born <= births'
      BY DEF BirthsBound, TypeOK, Files
    <2>3. ASSUME NEW q \in Processes, proc'[q].sock # None
          PROVE  proc'[q].sock.born <= births'
      <3>1. CASE q = p
        BY <1>0, <2>3, <3>1 DEF TypeOK, Lockers, Files
      <3>2. CASE q # p
        BY <1>0, <2>3, <3>2 DEF BirthsBound, TypeOK, Lockers, Files
      <3>3. QED BY <3>1, <3>2
    <2>4. QED BY <2>1, <2>2, <2>3 DEF BirthsBound
  <1>3. ServersListen'
    BY <1>0 DEF ServersListen
  <1>4. ServersDiffer'
    BY <1>0 DEF ServersDiffer
  <1>5. Captures'
    BY <1>0 DEF Captures
  <1>6. PathIsLive'
    BY DEF PathIsLive
  <1>7. RemovalsAreDead'
    BY <1>0 DEF RemovalsAreDead
  <1>8. QED
    BY <1>1, <1>2, <1>3, <1>4, <1>5, <1>6, <1>7

(* A process that does not listen may end its invocation or try again. *)
LEMMA EndsFit ==
    ASSUME IInv, NEW p \in Processes, proc[p].pc \notin Serving
    PROVE  /\ \A o \in Outcomes : Fits(p, Over(p, o))
           /\ Fits(p, Retry(p))
  <1>1. proc[p] \in Lockers /\ proc[p].server = 0
    BY DEF IInv, TypeOK, ServersListen
  <1>2. ASSUME NEW o \in Outcomes PROVE Fits(p, Over(p, o))
    BY ZenonT(60), <1>1 DEF Fits, Over, Idle, Lockers, Steps, Purposes, Outcomes, Serving, Owning, Removing
  <1>3. [proc[p] EXCEPT !.pc = "captureSocket", !.attempt = @ + 1,
                        !.sock = None, !.stat = None] \in Lockers
    <2>1. ASSUME NEW n \in Nat
          PROVE  [proc[p] EXCEPT !.pc = "captureSocket", !.attempt = n,
                                 !.sock = None, !.stat = None] \in Lockers
      BY <1>1 DEF Lockers, Steps
    <2>2. proc[p].attempt + 1 \in Nat
      BY <1>1 DEF Lockers
    <2>3. QED
      BY <2>1, <2>2
  <1>4. Fits(p, Retry(p))
    <2>1. CASE proc[p].attempt = MaxAttempts
      BY <1>2, <2>1 DEF Retry, Outcomes
    <2>2. CASE proc[p].attempt # MaxAttempts
      <3>1. Retry(p) = [proc[p] EXCEPT !.pc = "captureSocket", !.attempt = @ + 1,
                                       !.sock = None, !.stat = None]
        BY <2>2 DEF Retry
      <3>2. Retry(p).pc = "captureSocket" /\ Retry(p).sock = None /\ Retry(p).server = 0
        BY <1>1, <3>1 DEF Lockers
      <3>3. QED
        BY <1>1, <1>3, <3>1, <3>2 DEF Fits, Serving, Owning, Removing
    <2>3. QED BY <2>1, <2>2
  <1>5. QED
    BY <1>2, <1>4

(* What follows a removal fits too. *)
LEMMA RemovalsFit ==
    ASSUME IInv, NEW p \in Processes, proc[p].pc \notin Serving
    PROVE  /\ Fits(p, SocketGone(p))
           /\ Fits(p, StateGone(p))
           /\ Fits(p, Changed(p))
  <1>1. proc[p] \in Lockers /\ proc[p].server = 0
    BY DEF IInv, TypeOK, ServersListen
  <1>2. Fits(p, At(p, "checkState"))
    <2>1. At(p, "checkState") \in Lockers
      BY <1>1 DEF At, Lockers, Steps
    <2>2. QED
      BY <1>1, <2>1 DEF IInv, BirthsBound, Fits, At, Serving, Owning, Removing, Lockers
  <1>3. QED
    BY <1>1, <1>2, EndsFit DEF SocketGone, StateGone, Changed, Outcomes, Lockers, Purposes

(* The steps that read the paths, and those on the state file. *)
LEMMA ReadingSteps ==
    ASSUME IInv, NEW p \in Processes,
           \/ CaptureSocket(p) \/ CaptureState(p) \/ SocketIsLive(p)
           \/ CreateState(p) \/ WriteState(p) \/ CaptureWritten(p)
           \/ LeaveSocket(p) \/ LeaveState(p)
           \/ CheckSocket(p) \/ RecheckSocket(p)
           \/ CheckState(p) \/ UnlinkState(p) \/ RecheckState(p)
    PROVE  IInv'
  <1>0. /\ proc[p] \in Lockers
        /\ births \in Nat /\ crashes \in Nat
        /\ socket \in Files \cup {None} /\ state \in Files \cup {None}
    BY DEF IInv, TypeOK
  <1>1. CASE CaptureSocket(p)
    <2>1. PICK r : Fits(p, r) /\ proc' = [proc EXCEPT ![p] = r]
      <3>1. Fits(p, [proc[p] EXCEPT !.pc = "captureState", !.sock = socket])
        BY <1>0, <1>1 DEF IInv, Fits, Lockers, Steps, Serving, Owning, Removing, CaptureSocket, BirthsBound, ServersListen
      <3>2. QED
        BY <1>1, <3>1, EndsFit DEF Serving, CaptureSocket, Goto, Outcomes
    <2>2. /\ births' \in Nat /\ births' >= births /\ crashes' \in Nat
          /\ state' \in Files \cup {None} /\ UNCHANGED <<socket, live, misfired>>
      BY <1>0, <1>1 DEF CaptureSocket, paths
    <2>3. QED
      BY <2>1, <2>2, QuietStep
  <1>2. CASE CaptureState(p)
    <2>1. PICK r : Fits(p, r) /\ proc' = [proc EXCEPT ![p] = r]
      <3>1. Fits(p, [proc[p] EXCEPT !.pc = AfterCaptures(proc[p].sock, state),
                                    !.stat = state])
        BY <1>0, <1>2 DEF IInv, Fits, Lockers, Steps, Serving, Owning, Removing, CaptureState, BirthsBound, ServersListen, AfterCaptures
      <3>2. QED
        BY <1>2, <3>1, EndsFit DEF Serving, CaptureState, Goto, Outcomes
    <2>2. /\ births' \in Nat /\ births' >= births /\ crashes' \in Nat
          /\ state' \in Files \cup {None} /\ UNCHANGED <<socket, live, misfired>>
      BY <1>0, <1>2 DEF CaptureState, paths
    <2>3. QED
      BY <2>1, <2>2, QuietStep
  <1>3. CASE SocketIsLive(p)
    <2>1. PICK r : Fits(p, r) /\ proc' = [proc EXCEPT ![p] = r]
      <3>1. ~ IsLive(socket) => Fits(p, At(p, "checkSocket"))
        <4> SUFFICES ASSUME ~ IsLive(socket) PROVE Fits(p, At(p, "checkSocket"))
          OBVIOUS
        <4>1. proc[p].sock # None /\ proc[p].server = 0
          BY <1>3 DEF IInv, Captures, ServersListen, SocketIsLive, Serving, Owning, Removing
        <4>2. ~ misfired => proc[p].sock.born \notin live
          BY DEF IInv, PathIsLive, IsLive
        <4>3. QED
          BY <1>0, <1>3, <4>1, <4>2 DEF IInv, Fits, Lockers, Steps, Serving, Owning, Removing, At, SocketIsLive, BirthsBound
      <3>2. QED
        BY <1>3, <3>1, EndsFit DEF Serving, SocketIsLive, Goto, Outcomes
    <2>2. /\ births' \in Nat /\ births' >= births /\ crashes' \in Nat
          /\ state' \in Files \cup {None} /\ UNCHANGED <<socket, live, misfired>>
      BY <1>0, <1>3 DEF SocketIsLive, paths
    <2>3. QED
      BY <2>1, <2>2, QuietStep
  <1>4. CASE CreateState(p)
    <2>1. CASE state # None
      <3>1. Fits(p, At(p, "abandon"))
        BY <1>0, <1>4 DEF IInv, Fits, Lockers, Steps, Serving, Owning, Removing, At, CreateState, BirthsBound, Captures
      <3>2. QED
        BY <1>0, <1>4, <2>1, <3>1, QuietStep DEF CreateState, Goto
    <2>2. CASE state = None
      <3>1. PICK i \in Inodes : state' = NewFile(i)
        BY <1>4, <2>2 DEF CreateState, FreeInodes
      <3>2. state' \in Files
        BY <1>0, <3>1 DEF NewFile, Files
      <3>3. Fits(p, [proc[p] EXCEPT !.pc = "writeState", !.stat = state'])
        BY <1>0, <1>4, <3>2 DEF IInv, Fits, Lockers, Steps, Serving, Owning, Removing,
           CreateState, BirthsBound, Captures
      <3>4. births' \in Nat /\ births' >= births /\ UNCHANGED <<socket, live, misfired, crashes>>
        BY <1>0, <1>4, <2>2 DEF CreateState
      <3>5. QED
        BY <1>0, <1>4, <2>2, <3>2, <3>3, <3>4, QuietStep DEF CreateState, Goto
    <2>3. QED BY <2>1, <2>2
  <1>5. CASE WriteState(p)
    <2>1. Fits(p, At(p, "captureWritten"))
      BY <1>0, <1>5 DEF IInv, Fits, Lockers, Steps, Serving, Owning, Removing, At, WriteState, BirthsBound, Captures
    <2>2. state' \in Files \cup {None}
      BY <1>0, <1>5 DEF WriteState, Files
    <2>3. /\ births' \in Nat /\ births' >= births /\ crashes' \in Nat
          /\ state' \in Files \cup {None} /\ UNCHANGED <<socket, live, misfired>>
      BY <1>0, <1>5, <2>1, <2>2 DEF WriteState, paths
    <2>4. QED
      BY <1>0, <1>5, <2>1, <2>2, <2>3, QuietStep DEF WriteState, Goto
  <1>6. CASE CaptureWritten(p)
    <2>1. /\ Fits(p, [proc[p] EXCEPT !.pc = "held", !.stat = state])
          /\ Fits(p, At(p, "abandon"))
      BY <1>0, <1>6 DEF IInv, Fits, Lockers, Steps, Serving, Owning, Removing, At, CaptureWritten, BirthsBound, Captures
    <2>2. /\ births' \in Nat /\ births' >= births /\ crashes' \in Nat
          /\ state' \in Files \cup {None} /\ UNCHANGED <<socket, live, misfired>>
      BY <1>0, <1>6 DEF CaptureWritten, paths
    <2>3. QED
      BY <1>0, <1>6, <2>1, <2>2, QuietStep DEF CaptureWritten, Goto
  <1>7. CASE LeaveSocket(p)
    <2>1. Fits(p, [proc[p] EXCEPT !.pc = "leaveState", !.found = socket])
      BY <1>0, <1>7 DEF IInv, Fits, Lockers, Steps, Serving, Owning, Removing, LeaveSocket, BirthsBound, Captures
    <2>2. /\ births' \in Nat /\ births' >= births /\ crashes' \in Nat
          /\ state' \in Files \cup {None} /\ UNCHANGED <<socket, live, misfired>>
      BY <1>0, <1>7 DEF LeaveSocket, paths
    <2>3. QED
      BY <1>0, <1>7, <2>1, <2>2, QuietStep DEF LeaveSocket, Goto
  <1>8. CASE LeaveState(p)
    <2>1. /\ Fits(p, [proc[p] EXCEPT !.pc = "close", !.found = None])
          /\ Fits(p, Linger(p, "quarantined"))
          /\ Fits(p, Linger(p, "mismatch"))
      BY ZenonT(60), <1>0, <1>8 DEF IInv, Fits, Lockers, Steps, Serving, Owning, Removing, Linger, LeaveState, BirthsBound, Captures, Outcomes
    <2>2. /\ births' \in Nat /\ births' >= births /\ crashes' \in Nat
          /\ state' \in Files \cup {None} /\ UNCHANGED <<socket, live, misfired>>
      BY <1>0, <1>8 DEF LeaveState, paths
    <2>3. QED
      BY <1>0, <1>8, <2>1, <2>2, QuietStep DEF LeaveState, Goto
  <1>9. CASE CheckSocket(p)
    <2>1. PICK r : Fits(p, r) /\ proc' = [proc EXCEPT ![p] = r]
      <3>1. Fits(p, At(p, "unlinkSocket"))
        BY <1>0, <1>9 DEF IInv, Fits, Lockers, Steps, Serving, Owning, Removing, At, CheckSocket, BirthsBound, Captures, RemovalsAreDead
      <3>2. QED
        BY <1>9, <3>1, EndsFit, RemovalsFit DEF Serving, CheckSocket, Revalidate, Goto, Outcomes
    <2>2. /\ births' \in Nat /\ births' >= births /\ crashes' \in Nat
          /\ state' \in Files \cup {None} /\ UNCHANGED <<socket, live, misfired>>
      BY <1>0, <1>9 DEF CheckSocket, paths
    <2>3. QED
      BY <2>1, <2>2, QuietStep
  <1>10. CASE RecheckSocket(p)
    <2>1. PICK r : Fits(p, r) /\ proc' = [proc EXCEPT ![p] = r]
      BY <1>10, EndsFit, RemovalsFit DEF Serving, RecheckSocket, Goto
    <2>2. /\ births' \in Nat /\ births' >= births /\ crashes' \in Nat
          /\ state' \in Files \cup {None} /\ UNCHANGED <<socket, live, misfired>>
      BY <1>0, <1>10 DEF RecheckSocket, paths
    <2>3. QED
      BY <2>1, <2>2, QuietStep
  <1>11. CASE CheckState(p)
    <2>1. PICK r : Fits(p, r) /\ proc' = [proc EXCEPT ![p] = r]
      <3>1. Fits(p, At(p, "unlinkState"))
        BY <1>0, <1>11 DEF IInv, Fits, Lockers, Steps, Serving, Owning, Removing, At, CheckState, BirthsBound
      <3>2. QED
        BY <1>11, <3>1, EndsFit, RemovalsFit DEF Serving, CheckState, Revalidate, Goto, Outcomes
    <2>2. /\ births' \in Nat /\ births' >= births /\ crashes' \in Nat
          /\ state' \in Files \cup {None} /\ UNCHANGED <<socket, live, misfired>>
      BY <1>0, <1>11 DEF CheckState, paths
    <2>3. QED
      BY <2>1, <2>2, QuietStep
  <1>12. CASE UnlinkState(p)
    <2>1. PICK r : Fits(p, r) /\ proc' = [proc EXCEPT ![p] = r]
      <3>1. Fits(p, At(p, "recheckState"))
        BY <1>0, <1>12 DEF IInv, Fits, Lockers, Steps, Serving, Owning, Removing, At, UnlinkState, BirthsBound
      <3>2. QED
        BY <1>12, <3>1, RemovalsFit DEF Serving, UnlinkState, Goto
    <2>2. /\ births' \in Nat /\ births' >= births /\ crashes' \in Nat
          /\ state' \in Files \cup {None} /\ UNCHANGED <<socket, live, misfired>>
      BY <1>0, <1>12 DEF UnlinkState, paths
    <2>3. QED
      BY <2>1, <2>2, QuietStep
  <1>13. CASE RecheckState(p)
    <2>1. PICK r : Fits(p, r) /\ proc' = [proc EXCEPT ![p] = r]
      BY <1>13, EndsFit, RemovalsFit DEF Serving, RecheckState, Goto
    <2>2. /\ births' \in Nat /\ births' >= births /\ crashes' \in Nat
          /\ state' \in Files \cup {None} /\ UNCHANGED <<socket, live, misfired>>
      BY <1>0, <1>13 DEF RecheckState, paths
    <2>3. QED
      BY <2>1, <2>2, QuietStep
  <1>14. QED
    BY <1>1, <1>2, <1>3, <1>4, <1>5, <1>6, <1>7, <1>8, <1>9, <1>10, <1>11, <1>12, <1>13

-----------------------------------------------------------------------------
(* The steps that change who listens or what is at the path *)

(* A process that closes its server clears its own socket, or misfires. *)
LEMMA ClosingStep ==
    ASSUME IInv, NEW p \in Processes, NEW r,
           proc[p].pc \in Serving, CloseServer(p),
           proc' = [proc EXCEPT ![p] = r],
           r \in Lockers, r.server = 0,
           r.pc = "idle" \/ (r.pc = "checkSocket" /\ proc[p].pc \in Owning),
           r.sock = proc[p].sock \/ (r.pc = "idle" /\ r.sock = None),
           UNCHANGED <<state, births, crashes>>
    PROVE  IInv'
  <1>0. /\ proc'[p] = r /\ proc' \in [Processes -> Lockers]
        /\ \A q \in Processes \ {p} : proc'[q] = proc[q]
        /\ proc[p].server \in live
        /\ r.pc \notin Serving /\ r.pc \notin Owning /\ r.pc # "connect"
    BY DEF IInv, TypeOK, ServersListen, Serving, Owning
  <1>1. TypeOK'
    BY <1>0 DEF IInv, TypeOK, CloseServer
  <1>2. BirthsBound'
    BY <1>0 DEF IInv, BirthsBound, CloseServer
  <1>3. ServersListen'
    <2>1. ASSUME NEW q \in Processes, q # p, proc[q].pc \in Serving
          PROVE  proc[q].server \in live'
      BY <2>1 DEF IInv, ServersListen, ServersDiffer, CloseServer
    <2>2. QED
      BY <1>0, <2>1 DEF IInv, ServersListen, Serving
  <1>4. ServersDiffer'
    BY <1>0 DEF IInv, ServersDiffer
  <1>5. ~ misfired' => ~ misfired /\ live' = {}
    BY <1>0 DEF IInv, PathIsLive, CloseServer
  <1>6. Captures'
    BY <1>0, <1>5 DEF IInv, Captures, Removing
  <1>7. PathIsLive' /\ RemovalsAreDead'
    BY <1>5 DEF PathIsLive, RemovalsAreDead
  <1>8. QED
    BY <1>1, <1>2, <1>3, <1>4, <1>6, <1>7 DEF IInv

(* A new socket is at the path, with its server listening. *)
LEMMA ListenStep ==
    ASSUME IInv, NEW p \in Processes, Listen(p) PROVE IInv'
  <1>0. /\ proc[p] \in Lockers /\ proc[p].pc = "listen" /\ proc[p].pc \notin Serving
        /\ births \in Nat /\ crashes \in Nat
        /\ socket \in Files \cup {None} /\ state \in Files \cup {None}
    BY DEF IInv, TypeOK, Listen, Serving
  <1>1. CASE UNCHANGED <<socket, births, live>>
               /\ Goto(p, IF socket # None THEN Retry(p) ELSE Over(p, "fault"))
    <2>1. PICK r : Fits(p, r) /\ proc' = [proc EXCEPT ![p] = r]
      BY <1>0, <1>1, EndsFit DEF Goto, Outcomes
    <2>2. /\ births' \in Nat /\ births' >= births /\ crashes' \in Nat
          /\ state' \in Files \cup {None} /\ UNCHANGED <<socket, live, misfired>>
      BY <1>0, <1>1 DEF Listen
    <2>3. QED
      BY <2>1, <2>2, QuietStep
  <1>2. CASE /\ socket = None
             /\ \E i \in FreeInodes : socket' = NewFile(i)
             /\ Goto(p, [proc[p] EXCEPT !.pc = "chmod", !.server = births + 1])
             /\ births' = births + 1 /\ live' = live \cup {births + 1}
    <2>1. socket' \in Files /\ socket' # None /\ socket'.born = births + 1
      <3>1. PICK i \in Inodes : socket' = NewFile(i)
        BY <1>2 DEF FreeInodes
      <3>2. ASSUME NEW n \in Nat
            PROVE  LET f == [ino |-> i, born |-> n, ready |-> FALSE]
                   IN  f \in Files /\ f.born = n
        BY DEF Files
      <3>3. births + 1 \in Nat
        BY <1>0
      <3>4. socket' \in Files /\ socket'.born = births + 1
        BY <3>1, <3>2, <3>3 DEF NewFile
      <3>5. QED
        BY <3>4, LockAssumption DEF Files
    <2>2. [proc[p] EXCEPT !.pc = "chmod", !.server = births + 1] \in Lockers
      <3>1. ASSUME NEW n \in Nat
            PROVE  [proc[p] EXCEPT !.pc = "chmod", !.server = n] \in Lockers
        BY <1>0 DEF Lockers, Steps
      <3>2. births + 1 \in Nat
        BY <1>0
      <3>3. QED
        BY <3>1, <3>2
    <2>3. /\ proc' \in [Processes -> Lockers]
          /\ proc'[p].pc = "chmod" /\ proc'[p].server = births + 1
          /\ proc'[p].sock = proc[p].sock
          /\ \A q \in Processes \ {p} : proc'[q] = proc[q]
      BY <1>0, <1>2, <2>2 DEF IInv, TypeOK, Goto, Lockers
    <2>4. \A q \in Processes : proc[q].sock # None => proc[q].sock.born \in Nat
      BY DEF IInv, TypeOK, Lockers, Files
    <2>5. TypeOK'
      BY <1>0, <1>2, <2>1, <2>3 DEF IInv, TypeOK, Listen
    <2>6. BirthsBound'
      <3>1. live' \subseteq 1..births'
        BY <1>0, <1>2 DEF IInv, BirthsBound
      <3>2. socket'.born <= births'
        BY <1>0, <1>2, <2>1
      <3>3. \A q \in Processes : proc'[q].sock = proc[q].sock
        BY <2>3
      <3>4. \A q \in Processes : proc[q].sock # None => proc[q].sock.born <= births + 1
        BY <1>0, <2>4 DEF IInv, BirthsBound
      <3>5. QED
        BY <1>2, <3>1, <3>2, <3>3, <3>4 DEF BirthsBound
    <2>7. births + 1 \notin live /\ births + 1 # 0
      BY <1>0 DEF IInv, BirthsBound
    <2>8. ServersListen'
      BY <1>2, <2>3, <2>7 DEF IInv, ServersListen, Serving
    <2>9. ServersDiffer'
      BY <2>3, <2>7 DEF IInv, ServersListen, ServersDiffer
    <2>10. misfired' = misfired
      BY DEF Listen
    <2>11. Captures'
      BY <2>3, <2>10 DEF IInv, Captures, Removing, Owning
    <2>12. ~ misfired => live = {}
      BY <1>2 DEF IInv, PathIsLive
    <2>13. PathIsLive'
      BY <1>2, <2>1, <2>10, <2>12 DEF PathIsLive
    <2>14. RemovalsAreDead'
      <3>1. ASSUME NEW q \in Processes, proc'[q].pc \in Removing, ~ misfired
            PROVE  proc'[q].sock.born \notin live'
        <4>1. q # p /\ proc'[q] = proc[q]
          BY <2>3, <3>1 DEF Removing
        <4>2. proc[q].sock # None
          BY <3>1, <4>1 DEF IInv, Captures
        <4>3. proc[q].sock.born <= births /\ proc[q].sock.born \in Nat
          BY <2>4, <4>2 DEF IInv, BirthsBound
        <4>4. QED
          BY <1>0, <1>2, <2>12, <3>1, <4>1, <4>3
      <3>2. QED
        BY <2>10, <3>1 DEF RemovalsAreDead
    <2>15. QED
      BY <2>5, <2>6, <2>8, <2>9, <2>11, <2>13, <2>14 DEF IInv
  <1>3. QED
    BY <1>1, <1>2 DEF Listen

(* The remaining steps: making the socket private, closing, unlinking. *)
LEMMA SocketSteps ==
    ASSUME IInv, NEW p \in Processes,
           Chmod(p) \/ CaptureOwned(p) \/ Abandon(p) \/ Close(p) \/ UnlinkSocket(p)
    PROVE  IInv'
  <1>0. /\ proc[p] \in Lockers
        /\ births \in Nat /\ crashes \in Nat
        /\ socket \in Files \cup {None} /\ state \in Files \cup {None}
    BY DEF IInv, TypeOK
  <1>a. \A o \in Outcomes : /\ Over(p, o) \in Lockers /\ Over(p, o).server = 0
                            /\ Over(p, o).pc = "idle" /\ Over(p, o).sock = None
    BY <1>0 DEF Over, Idle, Lockers, Steps, Purposes, Outcomes
  <1>1. CASE Chmod(p)
    <2>1. CASE socket = None
      BY <1>1, <1>a, <2>1, ClosingStep DEF Chmod, Goto, Serving, Outcomes
    <2>2. CASE socket # None
      <3>1. /\ socket' = [socket EXCEPT !.ready = TRUE]
            /\ socket' \in Files /\ socket'.born = socket.born /\ socket' # None
        BY <1>0, <1>1, <2>2, LockAssumption DEF Chmod, Files
      <3>2. At(p, "captureOwned") \in Lockers
        BY <1>0 DEF At, Lockers, Steps
      <3>3. /\ proc' \in [Processes -> Lockers]
            /\ proc[p].pc = "chmod" /\ proc'[p].pc = "captureOwned"
            /\ proc'[p].server = proc[p].server /\ proc'[p].sock = proc[p].sock
            /\ \A q \in Processes \ {p} : proc'[q] = proc[q]
            /\ UNCHANGED <<state, births, crashes, live, misfired>>
        BY <1>0, <1>1, <2>2, <3>2 DEF IInv, TypeOK, Chmod, Goto, At, Lockers
      <3>4. TypeOK'
        BY <3>1, <3>3 DEF IInv, TypeOK
      <3>5. BirthsBound'
        BY <2>2, <3>1, <3>3 DEF IInv, BirthsBound
      <3>6. ServersListen' /\ ServersDiffer'
        BY <3>3 DEF IInv, ServersListen, ServersDiffer, Serving
      <3>7. Captures' /\ RemovalsAreDead'
        BY <3>3 DEF IInv, Captures, RemovalsAreDead, Removing, Owning
      <3>8. PathIsLive'
        BY <3>1, <3>3 DEF IInv, PathIsLive
      <3>9. QED
        BY <3>4, <3>5, <3>6, <3>7, <3>8 DEF IInv
    <2>3. QED BY <2>1, <2>2
  <1>2. CASE CaptureOwned(p)
    <2>1. CASE Captured(socket) # "valid"
      BY <1>2, <1>a, <2>1, ClosingStep DEF CaptureOwned, Goto, Serving, Outcomes
    <2>2. CASE Captured(socket) = "valid"
      <3>1. socket # None /\ proc[p].pc = "captureOwned" /\ proc[p].server \in live
        BY <1>2, <2>2 DEF Captured, CaptureOwned, IInv, ServersListen, Serving
      <3>2. ~ misfired => socket.born = proc[p].server
        BY <3>1 DEF IInv, PathIsLive
      <3>3. Fits(p, [proc[p] EXCEPT !.pc = "createState", !.sock = socket])
        BY <1>0, <3>1, <3>2 DEF IInv, Fits, Lockers, Steps, Serving, Owning, Removing,
           BirthsBound
      <3>4. /\ births' \in Nat /\ births' >= births /\ crashes' \in Nat
            /\ state' \in Files \cup {None} /\ UNCHANGED <<socket, live, misfired>>
            /\ Goto(p, [proc[p] EXCEPT !.pc = "createState", !.sock = socket])
        BY <1>0, <1>2, <2>2 DEF CaptureOwned
      <3>5. QED
        BY <3>3, <3>4, QuietStep DEF Goto
    <2>3. QED BY <2>1, <2>2
  <1>3. CASE Abandon(p) \/ Close(p)
    <2>1. PICK u \in Purposes :
            proc' = [proc EXCEPT ![p] = [At(p, "checkSocket") EXCEPT !.purpose = u, !.server = 0]]
      BY <1>3 DEF Abandon, Close, Goto, Purposes
    <2>a. PICK r : r = [At(p, "checkSocket") EXCEPT !.purpose = u, !.server = 0]
      OBVIOUS
    <2>2. /\ r \in Lockers /\ r.server = 0 /\ r.pc = "checkSocket" /\ r.sock = proc[p].sock
          /\ proc' = [proc EXCEPT ![p] = r]
      BY <1>0, <2>1, <2>a DEF At, Lockers, Steps
    <2>3. /\ CloseServer(p) /\ proc[p].pc \in Serving /\ proc[p].pc \in Owning
          /\ UNCHANGED <<state, births, crashes>>
      BY <1>3 DEF Abandon, Close, Serving, Owning
    <2>4. /\ r.pc = "idle" \/ (r.pc = "checkSocket" /\ proc[p].pc \in Owning)
          /\ r.sock = proc[p].sock \/ (r.pc = "idle" /\ r.sock = None)
      BY <2>2, <2>3
    <2>5. QED
      BY <2>2, <2>3, <2>4, ClosingStep
  <1>4. CASE UnlinkSocket(p)
    <2>1. PICK r : Fits(p, r) /\ proc' = [proc EXCEPT ![p] = r]
      <3>1. Fits(p, At(p, "recheckSocket"))
        BY <1>0, <1>4 DEF IInv, Fits, Lockers, Steps, Serving, Owning, Removing,
           At, UnlinkSocket, BirthsBound, Captures, RemovalsAreDead
      <3>2. QED
        BY <1>4, <3>1, RemovalsFit DEF Serving, UnlinkSocket, Goto
    <2>2. /\ proc'[p] = r /\ proc' \in [Processes -> Lockers]
          /\ \A q \in Processes \ {p} : proc'[q] = proc[q]
          /\ UNCHANGED <<live, births, state, crashes>> /\ socket' = None
      BY <1>4, <2>1 DEF IInv, TypeOK, UnlinkSocket, Fits
    <2>3. ~ misfired' => ~ misfired /\ live = {}
      <3> SUFFICES ASSUME ~ misfired' PROVE ~ misfired /\ live = {}
        OBVIOUS
      <3>1. ~ misfired /\ (socket = None \/ socket.born = proc[p].sock.born)
        BY <1>4 DEF UnlinkSocket
      <3>2. proc[p].sock.born \notin live
        BY <1>4, <3>1 DEF IInv, RemovalsAreDead, UnlinkSocket, Removing
      <3>3. QED
        BY <3>1, <3>2 DEF IInv, PathIsLive
    <2>4. TypeOK'
      BY <1>4, <2>2 DEF IInv, TypeOK, UnlinkSocket
    <2>5. BirthsBound'
      BY <2>1, <2>2 DEF IInv, BirthsBound, Fits
    <2>6. ServersListen' /\ ServersDiffer'
      BY <2>1, <2>2 DEF IInv, ServersListen, ServersDiffer, Fits
    <2>7. Captures'
      BY <2>1, <2>2, <2>3 DEF IInv, Captures, Fits
    <2>8. PathIsLive' /\ RemovalsAreDead'
      BY <2>2, <2>3 DEF PathIsLive, RemovalsAreDead
    <2>9. QED
      BY <2>4, <2>5, <2>6, <2>7, <2>8 DEF IInv
  <1>5. QED
    BY <1>1, <1>2, <1>3, <1>4

-----------------------------------------------------------------------------
(* The invariant and the refinement *)

(* An invocation and a crash leave the paths alone. *)
LEMMA OuterSteps ==
    ASSUME IInv, NEW p \in Processes, Invoke(p) \/ Crash(p) PROVE IInv'
  <1>1. CASE Invoke(p)
    <2>1. proc \in [Processes -> Lockers] /\ proc[p].pc = "idle"
      BY <1>1 DEF IInv, TypeOK, Invoke
    <2>2. /\ proc'[p] \in Lockers /\ proc'[p].pc = "captureSocket"
          /\ proc'[p].server = 0 /\ proc'[p].sock = None
      BY <1>1, <2>1 DEF Invoke, Idle, Lockers, Steps, Purposes, Outcomes
    <2>3. ASSUME NEW q \in Processes \ {p}
          PROVE  /\ proc'[q] \in Lockers
                 /\ proc'[q].pc = proc[q].pc
                 /\ proc'[q].server = proc[q].server /\ proc'[q].sock = proc[q].sock
      BY <1>1, <2>1 DEF Invoke, Lockers
    <2>4. proc' \in [Processes -> Lockers]
      BY <1>1, <2>2, <2>3 DEF Invoke
    <2>5. UNCHANGED <<socket, state, live, births, misfired, crashes>>
      BY <1>1 DEF Invoke, paths
    <2>6. TypeOK'
      BY <2>4, <2>5 DEF IInv, TypeOK
    <2>7. BirthsBound'
      BY <2>2, <2>3, <2>5 DEF IInv, BirthsBound
    <2>8. ServersListen' /\ ServersDiffer'
      BY <2>2, <2>3, <2>5 DEF IInv, ServersListen, ServersDiffer, Serving
    <2>9. Captures' /\ PathIsLive' /\ RemovalsAreDead'
      BY <2>2, <2>3, <2>5 DEF IInv, Captures, PathIsLive, RemovalsAreDead, Removing, Owning
    <2>10. QED
      BY <2>6, <2>7, <2>8, <2>9 DEF IInv
  <1>2. CASE Crash(p)
    <2>1. proc[p] \in Lockers
      BY DEF IInv, TypeOK
    <2>2. /\ proc' \in [Processes -> Lockers] /\ proc'[p].pc = "idle"
          /\ proc'[p].server = 0 /\ proc'[p].sock = None
          /\ \A q \in Processes \ {p} : proc'[q] = proc[q]
      BY ZenonT(60), <1>2, <2>1 DEF IInv, TypeOK, Crash, Goto, Over, Idle, Lockers, Steps, Purposes, Outcomes
    <2>3. /\ UNCHANGED <<socket, state, births, misfired>>
          /\ live' = live \ {proc[p].server} /\ crashes' = crashes + 1
      BY <1>2 DEF Crash, paths
    <2>4. TypeOK'
      <3>1. crashes' \in Nat
        BY <2>3 DEF IInv, TypeOK
      <3>2. QED
        BY <2>2, <2>3, <3>1 DEF IInv, TypeOK
    <2>5. BirthsBound'
      BY <2>2, <2>3 DEF IInv, BirthsBound
    <2>6. ServersListen'
      <3>1. ASSUME NEW q \in Processes, q # p, proc[q].pc \in Serving
            PROVE  proc[q].server \in live'
        <4>1. CASE proc[p].pc \in Serving
          BY <2>3, <3>1, <4>1 DEF IInv, ServersListen, ServersDiffer
        <4>2. CASE proc[p].pc \notin Serving
          BY <2>3, <3>1, <4>2 DEF IInv, ServersListen
        <4>3. QED BY <4>1, <4>2
      <3>2. QED
        BY <2>2, <3>1 DEF IInv, ServersListen, Serving
    <2>7. ServersDiffer'
      BY <2>2 DEF IInv, ServersDiffer, Serving
    <2>8. Captures' /\ PathIsLive' /\ RemovalsAreDead'
      BY <2>2, <2>3 DEF IInv, Captures, PathIsLive, RemovalsAreDead, Removing, Owning
    <2>9. QED
      BY <2>4, <2>5, <2>6, <2>7, <2>8 DEF IInv
  <1>3. QED
    BY <1>1, <1>2

(* Every step keeps the invariant. *)
LEMMA NextIInv == IInv /\ [Next]_vars => IInv'
  <1> SUFFICES ASSUME IInv, [Next]_vars PROVE IInv'
    OBVIOUS
  <1>1. CASE Next
    <2>1. PICK p \in Processes : Invoke(p) \/ Step(p) \/ Crash(p)
      BY <1>1 DEF Next
    <2>2. QED
      BY <2>1, ReadingSteps, ListenStep, SocketSteps, OuterSteps DEF Step
  <1>2. CASE UNCHANGED vars
    BY <1>2 DEF vars, IInv, TypeOK, BirthsBound, ServersListen, ServersDiffer, Captures,
       PathIsLive, RemovalsAreDead
  <1>3. QED
    BY <1>1, <1>2

(* The invariant of the lock: types, who listens on what, and that the socket  *)
(* at the path is the live one for as long as no unlink misfired.             *)
THEOREM LockInvariant == Spec => []IInv
  BY InitIInv, NextIInv, PTL DEF Spec

(* At most one process holds the lock, unless an unlink misfired. *)
LEMMA OneHolder ==
    ASSUME IInv, ~ misfired, NEW p \in Processes, NEW q \in Processes,
           proc[p].pc \in Serving, proc[q].pc \in Serving
    PROVE  p = q
  BY DEF IInv, PathIsLive, ServersListen, ServersDiffer

(* Only the step that captures the written state takes the lock. *)
LEMMA HoldersStep ==
    ASSUME IInv, NEW p \in Processes, Invoke(p) \/ Step(p) \/ Crash(p)
    PROVE  /\ \A q \in Processes \ {p} : proc'[q].pc = proc[q].pc
           /\ proc'[p].pc = "held" => proc[p].pc = "captureWritten"
           /\ misfired => misfired'
  <1>0. proc \in [Processes -> Lockers] /\ proc[p] \in Lockers
    BY DEF IInv, TypeOK
  <1>1. CASE Invoke(p)
    BY <1>0, <1>1 DEF Invoke, Idle, Lockers
  <1>2. CASE Crash(p)
    BY <1>0, <1>2 DEF Crash, Goto, Over, Idle
  <1>3. CASE Step(p)
    <2>1. \A q \in Processes \ {p} : proc'[q] = proc[q]
      BY <1>0, <1>3 DEF Step, CaptureSocket, CaptureState, SocketIsLive, Listen, Chmod,
         CaptureOwned, CreateState, WriteState, CaptureWritten, Abandon, LeaveSocket,
         LeaveState, Close, CheckSocket, UnlinkSocket, RecheckSocket, CheckState,
         UnlinkState, RecheckState, Revalidate, Goto
    <2>2. misfired => misfired'
      BY <1>3 DEF Step, CaptureSocket, CaptureState, SocketIsLive, Listen, Chmod,
         CaptureOwned, CreateState, WriteState, CaptureWritten, Abandon, LeaveSocket,
         LeaveState, Close, CheckSocket, UnlinkSocket, RecheckSocket, CheckState,
         UnlinkState, RecheckState, CloseServer
    <2>3. ASSUME NEW pc \in Steps, pc # "held" PROVE At(p, pc).pc # "held"
      BY <1>0, <2>3 DEF At, Lockers
    <2>4. /\ \A o \in Outcomes : Over(p, o).pc # "held" /\ Linger(p, o).pc # "held"
          /\ Retry(p).pc # "held"
      BY <1>0 DEF Over, Idle, Linger, Retry, Lockers
    <2>5. SocketGone(p).pc # "held" /\ StateGone(p).pc # "held" /\ Changed(p).pc # "held"
      BY <1>0, <2>3, <2>4 DEF SocketGone, StateGone, Changed, Lockers, Purposes, Outcomes, Steps
    <2>6. proc'[p].pc = "held" => proc[p].pc = "captureWritten"
      <3>1. CASE CaptureSocket(p) \/ CaptureState(p)
        <4>1. [proc[p] EXCEPT !.pc = "captureState", !.sock = socket].pc # "held"
          BY <1>0 DEF Lockers
        <4>2. [proc[p] EXCEPT !.pc = AfterCaptures(proc[p].sock, state),
                              !.stat = state].pc # "held"
          BY <1>0 DEF Lockers, AfterCaptures
        <4>3. QED
          BY <1>0, <2>4, <3>1, <4>1, <4>2 DEF CaptureSocket, CaptureState, Goto, Outcomes
      <3>7. CASE SocketIsLive(p) \/ Listen(p)
        <4>1. At(p, "checkSocket").pc # "held"
          BY <2>3 DEF Steps
        <4>2. \A n : [proc[p] EXCEPT !.pc = "chmod", !.server = n].pc # "held"
          BY <1>0 DEF Lockers
        <4>3. QED
          BY ZenonT(60), <1>0, <2>4, <3>7, <4>1, <4>2 DEF SocketIsLive, Listen, Goto, Outcomes
      <3>8. CASE Chmod(p) \/ CaptureOwned(p) \/ CreateState(p) \/ WriteState(p)
        BY ZenonT(60), <1>0, <2>4, <3>8 DEF Chmod, CaptureOwned, CreateState, WriteState, Goto, At,
           Lockers, Outcomes
      <3>2. CASE CaptureWritten(p)
        BY <3>2 DEF CaptureWritten
      <3>3. CASE Abandon(p) \/ Close(p)
        BY <1>0, <3>3 DEF Abandon, Close, Goto, At, Lockers
      <3>4. CASE LeaveSocket(p) \/ LeaveState(p)
        BY ZenonT(60), <1>0, <2>4, <3>4 DEF LeaveSocket, LeaveState, Goto, Lockers, Outcomes
      <3>5. CASE \/ CheckSocket(p) \/ UnlinkSocket(p) \/ RecheckSocket(p)
                 \/ CheckState(p) \/ UnlinkState(p) \/ RecheckState(p)
        BY <1>0, <2>3, <2>4, <2>5, <3>5 DEF CheckSocket, UnlinkSocket, RecheckSocket,
           CheckState, UnlinkState, RecheckState, Revalidate, Goto, Lockers, Steps, Outcomes
      <3>6. QED
        BY <1>3, <3>1, <3>2, <3>3, <3>4, <3>5, <3>7, <3>8 DEF Step
    <2>7. QED
      BY <2>1, <2>2, <2>6
  <1>4. QED
    BY <1>1, <1>2, <1>3

(* The lock implements the lease it promises its callers: from acquisition to  *)
(* release, crash or a misfired unlink there is one holder, whatever contenders *)
(* find, remove and bind meanwhile (OperationLock.acquire and release).        *)
THEOREM LockImplementsLease == Spec => LeaseImplemented
  <1> DEFINE h == IF misfired THEN {} ELSE Holders
  <1>1. Init => Lease!Init
    BY DEF Init, Lease!Init, Holders, Idle
  <1>2. IInv /\ IInv' /\ [Next]_vars => [Lease!Next]_h
    <2> SUFFICES ASSUME IInv, IInv', [Next]_vars PROVE Lease!Next \/ h' = h
      OBVIOUS
    <2>1. CASE UNCHANGED vars
      BY <2>1 DEF vars, Holders
    <2>2. CASE Next
      <3>1. PICK p \in Processes : Invoke(p) \/ Step(p) \/ Crash(p)
        BY <2>2 DEF Next
      <3>2. /\ \A q \in Processes \ {p} : proc'[q].pc = proc[q].pc
            /\ proc'[p].pc = "held" => proc[p].pc = "captureWritten"
            /\ misfired => misfired'
        BY <3>1, HoldersStep
      <3>3. ~ misfired => \A q \in Holders : Holders = {q}
        BY OneHolder DEF Holders, Serving
      <3>4. CASE misfired
        BY <3>2, <3>4
      <3>5. CASE ~ misfired /\ misfired'
        <4>1. CASE Holders = {}
          BY <3>5, <4>1
        <4>2. CASE Holders # {}
          <5>1. PICK q \in Processes : Holders = {q}
            BY <3>3, <3>5, <4>2 DEF Holders
          <5>2. Lease!Leave(q)
            BY <3>5, <5>1 DEF Lease!Leave
          <5>3. QED
            BY <5>2 DEF Lease!Next
        <4>3. QED BY <4>1, <4>2
      <3>6. CASE ~ misfired /\ ~ misfired'
        <4>1. CASE proc'[p].pc = "held"
          <5>1. Holders = {}
            BY <3>2, <3>6, <4>1, OneHolder DEF Holders, Serving
          <5>2. Holders' = {p}
            BY <3>2, <4>1, <5>1 DEF Holders
          <5>3. Lease!Acquire(p)
            BY <3>6, <5>1, <5>2 DEF Lease!Acquire
          <5>4. QED
            BY <5>3 DEF Lease!Next
        <4>2. CASE proc'[p].pc # "held" /\ proc[p].pc = "held"
          <5>1. Holders' = Holders \ {p} /\ p \in Holders
            BY <3>2, <4>2 DEF Holders
          <5>2. Lease!Leave(p)
            BY <3>6, <5>1 DEF Lease!Leave
          <5>3. QED
            BY <5>2 DEF Lease!Next
        <4>3. CASE proc'[p].pc # "held" /\ proc[p].pc # "held"
          <5>1. Holders' = Holders
            BY <3>2, <4>3 DEF Holders
          <5>2. QED
            BY <3>6, <5>1
        <4>4. QED BY <4>1, <4>2, <4>3
      <3>7. QED BY <3>4, <3>5, <3>6
    <2>3. QED BY <2>1, <2>2
  <1>3. QED
    BY <1>1, <1>2, LockInvariant, PTL DEF Spec, LeaseImplemented, Lease!Spec

-----------------------------------------------------------------------------
(* A contender that runs by itself.                                          *)

(* Whoever listens is a process that has not closed its server. *)
ListenersServe ==
    \A i \in live : \E q \in Processes : proc[q].pc \in Serving /\ proc[q].server = i

(* A capture that still describes its file, and a usable one. *)
Current(f, c) == f # None /\ f.ready /\ c = f

(* The files as a first attempt captured them: each usable, or absent. *)
Seen(f, c) == c = f /\ (f # None => f.ready)

Clean == socket = None /\ state = None

(* What a lone process r knows of the two paths at each of its steps.  A dead  *)
(* holder's files survive until it has removed them, socket first; from the   *)
(* second attempt on, and once it listens, what is there is its own.          *)
Alone(r) ==
    /\ r.pc = "idle" =>
         \/ r.outcome \in {"released", "fault", "crashed"}
         \/ r.outcome = "quarantined" /\ (HalfMade(socket) \/ HalfMade(state))
    /\ r.pc \in {"captureSocket", "captureState"} =>
         r.purpose = "acquire" /\ (r.attempt = 1 \/ (r.attempt = 2 /\ Clean))
    /\ r.pc = "captureState" => Seen(socket, r.sock)
    /\ r.pc \in {"connect", "unlinkSocket"} =>
         r.purpose = "acquire" /\ r.attempt = 1 /\ Current(socket, r.sock) /\ Seen(state, r.stat)
    /\ r.pc = "checkSocket" /\ r.purpose = "acquire" =>
         r.attempt = 1 /\ Current(socket, r.sock) /\ Seen(state, r.stat)
    /\ r.pc = "checkSocket" /\ r.purpose # "acquire" =>
         r.purpose = "release" /\ socket = None /\ Current(state, r.stat)
    /\ r.pc = "recheckSocket" =>
         r.purpose = "acquire" /\ r.attempt = 1 /\ socket = None /\ Seen(state, r.stat)
    /\ r.pc \in {"checkState", "unlinkState", "recheckState"} =>
         r.purpose = "release" \/ (r.purpose = "acquire" /\ r.attempt = 1)
    /\ r.pc \in {"checkState", "unlinkState"} => socket = None /\ Current(state, r.stat)
    /\ r.pc \in {"recheckState", "listen"} => Clean
    /\ r.pc \in {"chmod", "captureOwned"} => socket # None /\ state = None
    /\ r.pc = "captureOwned" => socket.ready
    /\ r.pc \in {"createState", "writeState", "captureWritten", "held", "leaveState", "close"} =>
         Current(socket, r.sock)
    /\ r.pc = "createState" => state = None
    /\ r.pc = "writeState" => state # None /\ r.stat = state
    /\ r.pc = "captureWritten" => state # None /\ state.ready
    /\ r.pc \in {"held", "leaveState", "close"} => Current(state, r.stat)
    /\ r.pc = "leaveState" => r.found = socket
    /\ r.pc \notin {"abandon", "linger"}

LoneInv ==
    \A p \in Processes : proc[p].alone =>
        (\A r \in Processes \ {p} : proc[r].pc = "idle") /\ Alone(proc[p])

(* A file is something. *)
LEMMA FileIsNotNone ==
    ASSUME TypeOK, NEW i \in FreeInodes
    PROVE  NewFile(i) # None
  <1> DEFINE n == births + 1
  <1>1. n \in Nat /\ i \in Inodes
    BY DEF TypeOK, FreeInodes
  <1> HIDE DEF n
  <1>2. [ino |-> i, born |-> n, ready |-> FALSE] \in [ino : Inodes, born : Nat, ready : BOOLEAN]
    BY <1>1
  <1>3. QED
    BY <1>2, LockAssumption DEF NewFile, n

(* A step of a lone process keeps what it knows. *)
LEMMA AloneStep ==
    ASSUME TypeOK, MaxAttempts >= 2, NEW p \in Processes, Alone(proc[p]),
           proc[p].pc \in Serving \/ live = {}, Step(p)
    PROVE  Alone(proc[p])'
  <1> USE DEF Alone, Current, Seen, Clean
  <1>0. proc \in [Processes -> Lockers] /\ proc[p] \in Lockers
    BY DEF TypeOK
  <1>1. \A o : /\ Over(p, o).pc = "idle" /\ Over(p, o).outcome = o
    BY DEF Over, Idle
  <1>2. \A r : Goto(p, r) => proc'[p] = r
    BY <1>0 DEF Goto
  <1>3. \A pc : /\ At(p, pc).pc = pc /\ At(p, pc).attempt = proc[p].attempt
                /\ At(p, pc).sock = proc[p].sock /\ At(p, pc).stat = proc[p].stat
                /\ At(p, pc).found = proc[p].found /\ At(p, pc).purpose = proc[p].purpose
    BY <1>0 DEF At, Lockers
  <1>4. proc[p].attempt = 1 =>
           Retry(p).pc = "captureSocket" /\ Retry(p).attempt = 2
             /\ Retry(p).purpose = proc[p].purpose
    BY <1>0, LockAssumption DEF Retry, Lockers
  <1>5. CASE CaptureSocket(p)
    <2> DEFINE r == [proc[p] EXCEPT !.pc = "captureState", !.sock = socket]
    <2>1. r.pc = "captureState" /\ r.sock = socket /\ r.attempt = proc[p].attempt
            /\ r.purpose = proc[p].purpose
      BY <1>0 DEF Lockers
    <2>2. IF Captured(socket) = "invalid" THEN proc'[p] = Over(p, "quarantined")
                                          ELSE proc'[p] = r
      BY <1>2, <1>5 DEF CaptureSocket
    <2>3. proc[p].pc = "captureSocket" /\ UNCHANGED <<socket, state>>
      BY <1>5 DEF CaptureSocket, paths
    <2> HIDE DEF r
    <2>4. QED
      BY <1>1, <2>1, <2>2, <2>3 DEF Captured, HalfMade
  <1>6. CASE CaptureState(p)
    <2> DEFINE pc == AfterCaptures(proc[p].sock, state)
               r == [proc[p] EXCEPT !.pc = pc, !.stat = state]
    <2>1. IF Captured(state) = "invalid" THEN proc'[p] = Over(p, "quarantined")
                                         ELSE proc'[p] = r
      BY <1>2, <1>6 DEF CaptureState
    <2>2. /\ proc[p].sock # None => pc = "connect"
          /\ proc[p].sock = None /\ state # None => pc = "checkState"
          /\ proc[p].sock = None /\ state = None => pc = "listen"
      BY DEF AfterCaptures
    <2> HIDE DEF pc
    <2>3. r.pc = pc /\ r.sock = proc[p].sock /\ r.stat = state
            /\ r.attempt = proc[p].attempt /\ r.purpose = proc[p].purpose
      BY <1>0 DEF Lockers
    <2>4. proc[p].pc = "captureState" /\ UNCHANGED <<socket, state>>
      BY <1>6 DEF CaptureState, paths
    <2> HIDE DEF r
    <2>5. QED
      BY <1>1, <2>1, <2>2, <2>3, <2>4 DEF Captured, HalfMade
  <1>7. CASE SocketIsLive(p)
    BY <1>0, <1>1, <1>2, <1>3, <1>7 DEF SocketIsLive, IsLive, Serving, paths
  <1>8. CASE Listen(p)
    <2>1. proc[p].pc = "listen" /\ socket = None /\ state = None /\ state' = state
      BY <1>8 DEF Listen
    <2> DEFINE n == births + 1
               r == [proc[p] EXCEPT !.pc = "chmod", !.server = n]
    <2>2. r.pc = "chmod"
      BY <1>0 DEF Lockers
    <2>3. \/ proc'[p] = Over(p, "fault")
          \/ proc'[p] = r /\ \E i \in FreeInodes : socket' = NewFile(i)
      BY <1>2, <1>8, <2>1 DEF Listen
    <2> HIDE DEF r
    <2>4. CASE proc'[p] = Over(p, "fault")
      BY <1>1, <2>4
    <2>5. CASE proc'[p] = r /\ \E i \in FreeInodes : socket' = NewFile(i)
      <3>1. socket' # None
        BY <2>5, FileIsNotNone
      <3>2. QED BY <2>1, <2>2, <2>5, <3>1
    <2>6. QED BY <2>3, <2>4, <2>5
  <1>9. CASE Chmod(p)
    <2>1. proc[p].pc = "chmod" /\ socket # None /\ state = None /\ state' = state
      BY <1>9 DEF Chmod
    <2>2. proc'[p] = At(p, "captureOwned") /\ socket' = [socket EXCEPT !.ready = TRUE]
      BY <1>2, <1>9, <2>1 DEF Chmod
    <2>3. socket' \in Files /\ socket'.ready
      BY <2>1, <2>2 DEF TypeOK, Files
    <2>4. socket' # None
      BY <2>3, LockAssumption DEF Files
    <2>5. QED BY <1>3, <2>1, <2>2, <2>3, <2>4
  <1>10. CASE CaptureOwned(p)
    <2> DEFINE r == [proc[p] EXCEPT !.pc = "createState", !.sock = socket]
    <2>1. r.pc = "createState" /\ r.sock = socket
      BY <1>0 DEF Lockers
    <2>2. proc[p].pc = "captureOwned" /\ UNCHANGED <<socket, state>> /\ proc'[p] = r
      BY <1>2, <1>10 DEF CaptureOwned, Captured
    <2> HIDE DEF r
    <2>3. QED BY <2>1, <2>2
  <1>11. CASE CreateState(p)
    <2>1. PICK i \in FreeInodes : state' = NewFile(i)
      BY <1>11 DEF CreateState
    <2> DEFINE made == state'
               r == [proc[p] EXCEPT !.pc = "writeState", !.stat = made]
    <2>2. proc[p].pc = "createState" /\ socket' = socket /\ proc'[p] = r
      BY <1>2, <1>11 DEF CreateState
    <2>3. made # None
      BY <2>1, FileIsNotNone
    <2> HIDE DEF made
    <2>4. r.pc = "writeState" /\ r.stat = made /\ r.sock = proc[p].sock
      BY <1>0 DEF Lockers
    <2> HIDE DEF r
    <2>5. made = state'
      BY DEF made
    <2>6. QED BY <2>2, <2>3, <2>4, <2>5
  <1>12. CASE WriteState(p)
    <2>1. proc[p].pc = "writeState" /\ socket' = socket /\ proc'[p] = At(p, "captureWritten")
      BY <1>2, <1>12 DEF WriteState
    <2>2. state # None /\ state' = [state EXCEPT !.ready = TRUE]
      BY <1>12 DEF WriteState
    <2>3. state' \in Files /\ state'.ready
      BY <2>2 DEF TypeOK, Files
    <2>4. state' # None
      BY <2>3, LockAssumption DEF Files
    <2>5. QED BY <1>3, <2>1, <2>3, <2>4
  <1>13. CASE CaptureWritten(p)
    <2> DEFINE r == [proc[p] EXCEPT !.pc = "held", !.stat = state]
    <2>1. r.pc = "held" /\ r.stat = state /\ r.sock = proc[p].sock
      BY <1>0 DEF Lockers
    <2>2. proc[p].pc = "captureWritten" /\ UNCHANGED <<socket, state>> /\ proc'[p] = r
      BY <1>2, <1>13 DEF CaptureWritten, Captured, paths
    <2> HIDE DEF r
    <2>3. QED BY <2>1, <2>2
  <1>14. CASE Abandon(p)
    BY <1>14 DEF Abandon
  <1>15. CASE LeaveSocket(p)
    <2> DEFINE r == [proc[p] EXCEPT !.pc = "leaveState", !.found = socket]
    <2>1. r.pc = "leaveState" /\ r.found = socket /\ r.sock = proc[p].sock /\ r.stat = proc[p].stat
      BY <1>0 DEF Lockers
    <2>2. proc[p].pc = "held" /\ UNCHANGED <<socket, state>> /\ proc'[p] = r
      BY <1>2, <1>15 DEF LeaveSocket, paths
    <2> HIDE DEF r
    <2>3. QED BY <2>1, <2>2
  <1>16. CASE LeaveState(p)
    <2> DEFINE r == [proc[p] EXCEPT !.pc = "close", !.found = None]
    <2>1. r.pc = "close" /\ r.sock = proc[p].sock /\ r.stat = proc[p].stat
      BY <1>0 DEF Lockers
    <2>2. proc[p].pc = "leaveState" /\ UNCHANGED <<socket, state>>
      BY <1>16 DEF LeaveState, paths
    <2>3. Captured(proc[p].found) = "valid" /\ Captured(state) = "valid"
      BY <2>2 DEF Captured
    <2>4. SameIdentity(proc[p].found, proc[p].sock) /\ SameIdentity(state, proc[p].stat)
      BY <2>2 DEF SameIdentity
    <2>5. proc'[p] = r
      BY <1>2, <1>16, <2>3, <2>4 DEF LeaveState
    <2> HIDE DEF r
    <2>6. QED BY <2>1, <2>2, <2>5
  <1>17. CASE Close(p)
    <2> DEFINE r == [At(p, "checkSocket") EXCEPT !.purpose = "release", !.server = 0]
    <2>1. r.pc = "checkSocket" /\ r.purpose = "release" /\ r.stat = proc[p].stat
      BY <1>0 DEF Lockers, At
    <2>2. proc[p].pc = "close" /\ socket' = None /\ state' = state /\ proc'[p] = r
      BY <1>2, <1>17 DEF Close, CloseServer
    <2> HIDE DEF r
    <2>3. QED BY <2>1, <2>2
  <1>18. CASE CheckSocket(p)
    BY <1>0, <1>1, <1>2, <1>3, <1>18
      DEF CheckSocket, Revalidate, Captured, SameIdentity, SocketGone, paths
  <1>19. CASE UnlinkSocket(p)
    BY <1>0, <1>2, <1>3, <1>19 DEF UnlinkSocket
  <1>20. CASE RecheckSocket(p)
    <2>1. proc[p].pc = "recheckSocket" /\ socket = None /\ UNCHANGED <<socket, state>>
            /\ proc[p].purpose = "acquire" /\ proc[p].attempt = 1
      BY <1>20 DEF RecheckSocket, paths
    <2>2. IF proc[p].stat # None THEN proc'[p] = At(p, "checkState") ELSE proc'[p] = Retry(p)
      BY <1>2, <1>20, <2>1 DEF RecheckSocket, SocketGone
    <2>3. QED
      BY <1>3, <1>4, <2>1, <2>2
  <1>21. CASE CheckState(p)
    BY <1>0, <1>1, <1>2, <1>3, <1>21
      DEF CheckState, Revalidate, Captured, SameIdentity, paths
  <1>22. CASE UnlinkState(p)
    BY <1>0, <1>2, <1>3, <1>22 DEF UnlinkState
  <1>23. CASE RecheckState(p)
    <2>1. proc[p].pc = "recheckState" /\ Clean /\ UNCHANGED <<socket, state>>
      BY <1>23 DEF RecheckState, paths
    <2>2. IF proc[p].purpose = "acquire" THEN proc'[p] = Retry(p)
                                         ELSE proc'[p] = Over(p, "released")
      BY <1>2, <1>23, <2>1 DEF RecheckState, StateGone
    <2>3. QED
      BY <1>1, <1>4, <2>1, <2>2
  <1>24. QED
    BY <1>5, <1>6, <1>7, <1>8, <1>9, <1>10, <1>11, <1>12, <1>13, <1>14, <1>15, <1>16, <1>17,
       <1>18, <1>19, <1>20, <1>21, <1>22, <1>23 DEF Step

(* A step is its own process's alone. *)
LEMMA StepIsOwn ==
    ASSUME TypeOK, NEW p \in Processes, Step(p) \/ Crash(p)
    PROVE  \A q \in Processes \ {p} : proc'[q] = proc[q]
  BY DEF TypeOK, Step, CaptureSocket, CaptureState, SocketIsLive, Listen, Chmod,
     CaptureOwned, CreateState, WriteState, CaptureWritten, Abandon, LeaveSocket,
     LeaveState, Close, CheckSocket, UnlinkSocket, RecheckSocket, CheckState,
     UnlinkState, RecheckState, Revalidate, Goto, Crash

(* A step keeps its process's server, closes it, or opens one.               *)
LEMMA StepServes ==
    ASSUME IInv, NEW p \in Processes, Step(p)
    PROVE  \/ live' = live /\ proc[p].pc \notin Serving
           \/ live' = live /\ proc'[p].server = proc[p].server
           \/ live' = live \ {proc[p].server}
           \/ live' = live \cup {proc'[p].server} /\ proc[p].pc \notin Serving
  <1>0. proc \in [Processes -> Lockers] /\ proc[p] \in Lockers
    BY DEF IInv, TypeOK
  <1>1. \A r : Goto(p, r) => proc'[p] = r
    BY <1>0 DEF Goto
  <1>2. \A pc : At(p, pc).server = proc[p].server
    BY <1>0 DEF At, Lockers
  <1>3. \A o : Linger(p, o).server = proc[p].server
    BY <1>0 DEF Linger, Lockers
  <1>4. CASE \/ CaptureSocket(p) \/ CaptureState(p) \/ SocketIsLive(p)
             \/ CheckSocket(p) \/ UnlinkSocket(p) \/ RecheckSocket(p)
             \/ CheckState(p) \/ UnlinkState(p) \/ RecheckState(p)
    BY <1>4 DEF CaptureSocket, CaptureState, SocketIsLive, CheckSocket, UnlinkSocket,
       RecheckSocket, CheckState, UnlinkState, RecheckState, Serving
  <1>5. CASE Listen(p)
    <2> DEFINE n == births + 1
               r == [proc[p] EXCEPT !.pc = "chmod", !.server = n]
    <2>1. r.server = n
      BY <1>0 DEF Lockers
    <2>2. live' = live \/ (live' = live \cup {n} /\ proc'[p] = r)
      BY <1>1, <1>5 DEF Listen
    <2>3. proc[p].pc \notin Serving
      BY <1>5 DEF Listen, Serving
    <2> HIDE DEF n, r
    <2>4. QED BY <2>1, <2>2, <2>3
  <1>6. CASE Chmod(p) \/ CaptureOwned(p) \/ Abandon(p) \/ Close(p)
    <2>1. [proc[p] EXCEPT !.pc = "createState", !.sock = socket].server = proc[p].server
      BY <1>0 DEF Lockers
    <2>2. QED
      BY <1>1, <1>2, <1>6, <2>1 DEF Chmod, CaptureOwned, Abandon, Close, CloseServer
  <1>7. CASE CreateState(p) \/ WriteState(p) \/ CaptureWritten(p)
    <2>1. \A f : /\ [proc[p] EXCEPT !.pc = "writeState", !.stat = f].server = proc[p].server
                 /\ [proc[p] EXCEPT !.pc = "held", !.stat = f].server = proc[p].server
      BY <1>0 DEF Lockers
    <2>2. QED
      BY <1>1, <1>2, <1>7, <2>1 DEF CreateState, WriteState, CaptureWritten
  <1>8. CASE LeaveSocket(p) \/ LeaveState(p)
    <2>1. /\ [proc[p] EXCEPT !.pc = "leaveState", !.found = socket].server = proc[p].server
          /\ [proc[p] EXCEPT !.pc = "close", !.found = None].server = proc[p].server
      BY <1>0 DEF Lockers
    <2>2. QED
      BY <1>1, <1>3, <1>8, <2>1 DEF LeaveSocket, LeaveState
  <1>9. QED
    BY <1>4, <1>5, <1>6, <1>7, <1>8 DEF Step

(* Nobody listens but those who have not closed their server. *)
LEMMA ListenersStep ==
    ASSUME IInv, IInv', ListenersServe, [Next]_vars
    PROVE  ListenersServe'
  <1>0. proc \in [Processes -> Lockers] /\ 0 \notin live'
    BY DEF IInv, TypeOK, BirthsBound
  <1>1. CASE UNCHANGED vars
    BY <1>1 DEF vars, ListenersServe
  <1>2. CASE Next
    <2>1. PICK p \in Processes : Invoke(p) \/ Step(p) \/ Crash(p)
      BY <1>2 DEF Next
    <2>2. SUFFICES ASSUME NEW i \in live'
                   PROVE  \E q \in Processes : proc'[q].server = i
      BY <1>0 DEF IInv, ServersListen, ListenersServe
    <2>3. CASE Invoke(p)
      <3>1. i \in live /\ proc[p].server = 0
        BY <2>3 DEF Invoke, IInv, ServersListen, Serving
      <3>2. PICK q \in Processes : proc[q].server = i
        BY <3>1 DEF ListenersServe
      <3>3. q # p
        BY <1>0, <2>2, <2>3, <3>1, <3>2 DEF Invoke
      <3>4. proc'[q] = [proc[q] EXCEPT !.alone = FALSE]
        BY <2>3, <3>3 DEF Invoke
      <3>5. proc'[q].server = i
        BY <1>0, <3>2, <3>4 DEF Lockers
      <3>6. QED BY <3>5
    <2>4. CASE Step(p) \/ Crash(p)
      <3>1. \A q \in Processes \ {p} : proc'[q] = proc[q]
        BY <2>4, StepIsOwn DEF IInv
      <3>2. Crash(p) => live' = live \ {proc[p].server}
        BY DEF Crash
      <3>3. proc[p].pc \notin Serving => proc[p].server = 0
        BY DEF IInv, ServersListen
      <3>4. QED
        BY <1>0, <2>2, <2>4, <3>1, <3>2, <3>3, StepServes DEF ListenersServe
    <2>5. QED
      BY <2>1, <2>3, <2>4
  <1>3. QED
    BY <1>1, <1>2

(* No step of a process but its invocation says whether it is alone. *)
LEMMA StepKeepsAlone ==
    ASSUME TypeOK, NEW p \in Processes, Step(p) \/ Crash(p)
    PROVE  proc'[p].alone = proc[p].alone /\ proc[p].pc # "idle"
  <1>0. proc \in [Processes -> Lockers] /\ proc[p] \in Lockers
    BY DEF TypeOK
  <1> DEFINE lone == proc[p].alone
  <1>1. \A r : Goto(p, r) => proc'[p] = r
    BY <1>0 DEF Goto
  <1>2. \A x : /\ At(p, x).alone = lone /\ Over(p, x).alone = lone /\ Linger(p, x).alone = lone
               /\ Retry(p).alone = lone
    BY <1>0 DEF At, Over, Linger, Retry, Idle, Lockers, lone
  <1>3. SocketGone(p).alone = lone /\ StateGone(p).alone = lone /\ Changed(p).alone = lone
    BY <1>0, <1>2 DEF SocketGone, StateGone, Changed, Lockers, Purposes
  <1>5. proc[p].pc # "idle"
    BY DEF Step, CaptureSocket, CaptureState, SocketIsLive, Listen, Chmod,
       CaptureOwned, CreateState, WriteState, CaptureWritten, Abandon, LeaveSocket,
       LeaveState, Close, CheckSocket, UnlinkSocket, RecheckSocket, CheckState,
       UnlinkState, RecheckState, Crash
  <1> SUFFICES proc'[p].alone = lone
    BY <1>5
  <1> HIDE DEF lone
  <1>6. CASE CaptureSocket(p)
    BY <1>0, <1>1, <1>2, <1>6 DEF CaptureSocket, Lockers, lone
  <1>7. CASE CaptureState(p)
    BY <1>0, <1>1, <1>2, <1>7 DEF CaptureState, Lockers, lone
  <1>8. CASE SocketIsLive(p)
    BY <1>1, <1>2, <1>8 DEF SocketIsLive
  <1>9. CASE Listen(p)
    BY <1>0, <1>1, <1>2, <1>9 DEF Listen, Lockers, lone
  <1>10. CASE Chmod(p)
    BY <1>1, <1>2, <1>10 DEF Chmod
  <1>11. CASE CaptureOwned(p)
    BY <1>0, <1>1, <1>2, <1>11 DEF CaptureOwned, Lockers, lone
  <1>12. CASE CreateState(p)
    BY <1>0, <1>1, <1>2, <1>12 DEF CreateState, Lockers, lone
  <1>13. CASE WriteState(p)
    BY <1>1, <1>2, <1>13 DEF WriteState
  <1>14. CASE CaptureWritten(p)
    BY <1>0, <1>1, <1>2, <1>14 DEF CaptureWritten, Lockers, lone
  <1>15. CASE Abandon(p)
    BY <1>0, <1>1, <1>15 DEF Abandon, At, Lockers, lone
  <1>16. CASE LeaveSocket(p)
    BY <1>0, <1>1, <1>16 DEF LeaveSocket, Lockers, lone
  <1>17. CASE LeaveState(p)
    BY <1>0, <1>1, <1>2, <1>17 DEF LeaveState, Lockers, lone
  <1>18. CASE Close(p)
    BY <1>0, <1>1, <1>18 DEF Close, At, Lockers, lone
  <1>19. CASE CheckSocket(p)
    BY <1>1, <1>2, <1>3, <1>19 DEF CheckSocket, Revalidate
  <1>20. CASE UnlinkSocket(p)
    BY <1>1, <1>2, <1>3, <1>20 DEF UnlinkSocket
  <1>21. CASE RecheckSocket(p)
    BY <1>1, <1>3, <1>21 DEF RecheckSocket
  <1>22. CASE CheckState(p)
    BY <1>1, <1>2, <1>3, <1>22 DEF CheckState, Revalidate
  <1>23. CASE UnlinkState(p)
    BY <1>1, <1>2, <1>3, <1>23 DEF UnlinkState
  <1>24. CASE RecheckState(p)
    BY <1>1, <1>3, <1>24 DEF RecheckState
  <1>25. CASE Crash(p)
    BY <1>1, <1>2, <1>25 DEF Crash
  <1>26. QED
    BY <1>6, <1>7, <1>8, <1>9, <1>10, <1>11, <1>12, <1>13, <1>14, <1>15, <1>16,
       <1>17, <1>18, <1>19, <1>20, <1>21, <1>22, <1>23, <1>24, <1>25 DEF Step

(* What a process knows while it is alone, no other process can disturb: none  *)
(* runs, and whoever is invoked ends its being alone.                        *)
LEMMA LoneStep ==
    ASSUME IInv, ListenersServe, LoneInv, MaxAttempts >= 2, [Next]_vars
    PROVE  LoneInv'
  <1>0. proc \in [Processes -> Lockers]
    BY DEF IInv, TypeOK
  <1>1. CASE UNCHANGED vars
    BY <1>1 DEF vars, LoneInv, Alone, Seen, Current, Clean, HalfMade
  <1>2. CASE Next
    <2>1. PICK p \in Processes : Invoke(p) \/ Step(p) \/ Crash(p)
      BY <1>2 DEF Next
    <2>2. SUFFICES ASSUME NEW q \in Processes, proc'[q].alone
                   PROVE  /\ \A r \in Processes \ {q} : proc'[r].pc = "idle"
                          /\ Alone(proc[q])'
      BY DEF LoneInv
    <2>3. CASE Invoke(p)
      <3>1. q = p
        <4>1. ASSUME q # p PROVE FALSE
          <5>1. proc'[q] = [proc[q] EXCEPT !.alone = FALSE]
            BY <2>3, <4>1 DEF Invoke
          <5>2. QED
            BY <1>0, <2>2, <5>1 DEF Lockers
        <4>2. QED BY <4>1
      <3> DEFINE lone == \A r \in Processes \ {p} : proc[r].pc = "idle"
                 begun == [Idle EXCEPT !.pc = "captureSocket", !.attempt = 1, !.alone = lone]
      <3>2. proc'[p] = begun
        BY <2>3 DEF Invoke
      <3>3. \A r \in Processes \ {p} : proc'[r] = [proc[r] EXCEPT !.alone = FALSE]
        BY <2>3 DEF Invoke
      <3>4. \A r \in Processes \ {p} : proc'[r].pc = proc[r].pc
        BY <1>0, <3>3 DEF Lockers
      <3>5. begun.alone <=> lone
        BY DEF Idle
      <3>6. begun.pc = "captureSocket" /\ begun.attempt = 1 /\ begun.purpose = "acquire"
        BY DEF Idle
      <3> HIDE DEF begun
      <3>7. lone
        BY <2>2, <3>1, <3>2, <3>5
      <3>8. Alone(proc[p])'
        BY <3>2, <3>6 DEF Alone
      <3>9. QED
        BY <3>1, <3>4, <3>7, <3>8
    <2>4. CASE Step(p) \/ Crash(p)
      <3>1. /\ \A r \in Processes \ {p} : proc'[r] = proc[r]
            /\ proc'[p].alone = proc[p].alone /\ proc[p].pc # "idle"
        BY <2>4, StepIsOwn, StepKeepsAlone DEF IInv
      <3>2. q = p /\ proc[p].alone
        BY <2>2, <3>1 DEF LoneInv
      <3>3. /\ \A r \in Processes \ {p} : proc[r].pc = "idle"
            /\ Alone(proc[p])
        BY <3>2 DEF LoneInv
      <3>4. proc[p].pc \in Serving \/ live = {}
        BY <3>3 DEF ListenersServe, Serving
      <3>5. CASE Step(p)
        BY <3>1, <3>2, <3>3, <3>4, <3>5, AloneStep DEF IInv
      <3>6. CASE Crash(p)
        <4>1. proc'[p].pc = "idle" /\ proc'[p].outcome = "crashed"
          BY <1>0, <3>6 DEF Crash, Goto, Over, Idle
        <4>2. Alone(proc[p])'
          BY <4>1 DEF Alone
        <4>3. QED
          BY <3>1, <3>2, <3>3, <4>2
      <3>7. QED
        BY <2>4, <3>5, <3>6
    <2>5. QED
      BY <2>1, <2>3, <2>4
  <1>3. QED
    BY <1>1, <1>2

(* A contender that runs by itself gets the lock whatever a dead holder left,  *)
(* for any number of processes and inode numbers.  It needs a second attempt: *)
(* the first one only cleans up (MAX_ACQUIRE_ATTEMPTS is 4).                  *)
THEOREM LoneContenderAlwaysWins ==
    ASSUME MaxAttempts >= 2
    PROVE  Spec => []LoneContenderWins
  <1>1. Init => ListenersServe /\ LoneInv
    BY DEF Init, Idle, ListenersServe, LoneInv
  <1>2. IInv /\ IInv' /\ ListenersServe /\ LoneInv /\ [Next]_vars => ListenersServe' /\ LoneInv'
    BY ListenersStep, LoneStep
  <1>3. LoneInv => LoneContenderWins
    BY DEF LoneInv, Alone, LoneContenderWins
  <1>4. QED
    BY <1>1, <1>2, <1>3, LockInvariant, PTL DEF Spec

=============================================================================

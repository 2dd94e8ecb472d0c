------------------------ MODULE EmbeddedStoreProofs ------------------------
(***************************************************************************)
(* The embedded store for any number of controllers and clones: the shared *)
(* history is in order, and what a caller was told is applied is in it.    *)
(*                                                                         *)
(* Neither is inductive.  The remote becomes whatever history a clone       *)
(* pushes, so the order must already hold of every clone (Ordered), and of  *)
(* what is in its working set for when it is committed.  A working set is   *)
(* legal only if the run stands where its batch was planned, so the batch   *)
(* of every command must still fit when it is written (Writable): a pull    *)
(* in between may bring anything but commits of the run, because a clone    *)
(* and the remote differ by commits of the clone's own run on one side and  *)
(* of other runs on the other (Forked).                                     *)
(*                                                                         *)
(* An answer is safe where the clone is seen equal to the remote.  The one  *)
(* answer given without that is the reconciliation of a slot transition:    *)
(* it proves the transition in the clone, on a base without a later slot    *)
(* commit, and reads the slot on the remote.  SharedTransition is why that  *)
(* is enough: the base is shared ground, so if the remote lacked the        *)
(* transition its slot would still be what it was before it (SlotStays).    *)
(*                                                                         *)
(* A push that lands is one step of TakingTurns because a clone is never    *)
(* more than one commit ahead of the remote it is pushed to (OneAhead): a   *)
(* clone that is ahead commits nothing before it has pushed or pulled, and  *)
(* a pull leaves it behind or in sync.  A legal commit that ends the        *)
(* history is that step (PublicationSound).                                *)
(***************************************************************************)
EXTENDS EmbeddedStore, SequenceTheorems, FiniteSetTheorems, WellFoundedInduction, TLAPS

-----------------------------------------------------------------------------
(* The invariant.                                                          *)

Histories == Seq(Commits)
Batches == Commits \cup {None}
Pcs == {"idle", "loaded", "settling", "settled", "planned", "write", "pull",
        "pulling", "pulled", "initialized", "mutated", "committed", "republish",
        "stale", "push", "confirm", "proving", "slot push", "slot confirm"}
Commands == [pc : Pcs, batch : Batches, seen : Histories, said : Batches]

Typed ==
  /\ remote \in Histories
  /\ local \in [Controllers -> Histories]
  /\ work \in [Controllers -> Batches]
  /\ proc \in [Controllers -> Commands]

(* Every commit of a history was legal where it was made.                  *)
Ordered(h) == \A i \in DOMAIN h : Legal(SubSeq(h, 1, i - 1), h[i])

(* g is where h started from. *)
Extends(g, h) == Len(g) <= Len(h) /\ \A i \in 1 .. Len(g) : h[i] = g[i]

(* A transition was planned on a history no longer than n.                 *)
Anchored(k, n) == k.step \in Transitions => k.at <= n

(* The first n commits of clone h and remote r are shared: the clone adds  *)
(* commits of its own run to them, the remote only commits of others, and  *)
(* every plan of the run was made on shared ground.                        *)
Forked(c, r, h, w, b, n) ==
  /\ n <= Len(r) /\ n <= Len(h)
  /\ \A i \in 1 .. n : h[i] = r[i]
  /\ \A i \in n + 1 .. Len(h) : h[i].run = c
  /\ \A i \in n + 1 .. Len(r) : r[i].run # c
  /\ \A i \in 1 .. Len(h) : h[i].run = c => Anchored(h[i], n)
  /\ w # None => Anchored(w, n)
  /\ b # None => Anchored(b, n)

(* What a commit k of its run's root needs of the history before it, the   *)
(* slot left aside.                                                        *)
Fits(h, k) ==
  LET phase == Phase(h, k.run)
  IN  CASE k.step = "intent"   -> phase = "absent"
        [] k.step = "owned"    -> phase = "intent"
        [] k.step = "work"     -> phase = "owned"
        [] k.step = "closing"  -> phase \in {"owned", "work"}
        [] k.step = "noted"    -> phase \in Transitions
        [] k.step = "released" -> /\ phase = "closing"
                                  /\ \E i \in DOMAIN h : h[i] = Commit(k.run, "release", 0)
        [] OTHER -> FALSE

(* A batch still to be written follows the clone's history, or is its      *)
(* newest projection already.                                              *)
Writable(h, k) ==
  \/ Fits(h, k)
  \/ Newest(h, {k.run}, Projections) > 0 /\ k = Row(h, k.run)

(* The slot commit the journal of run c authorises, and that it was made.  *)
Turn(h, c) == Commit(c, IF Phase(h, c) = "intent" THEN "acquire" ELSE "release", 0)
Landed(h, c) ==
  /\ Phase(h, c) \in Transitions
  /\ \E i \in 1 .. Len(h) : h[i] = Turn(h, c)

(* What a command knows of remote r, clone h and working set w, by where   *)
(* it is with batch b.                                                     *)
Knows(c, r, h, w, b, pc) ==
  /\ pc \in {"planned", "write", "pull", "pulling", "pulled", "republish"} =>
       b # None /\ Writable(h, b)
  /\ pc = "pulling" => w = None /\ Extends(h, r)
  /\ pc \in {"initialized", "mutated"} => b # None /\ w # None
  /\ pc \in {"settling", "settled"} => h # <<>> /\ Last(h).step \in Projections
  /\ pc = "stale" => b # None /\ h # <<>>
  /\ pc = "committed" => b # None
  /\ pc \in {"push", "confirm"} => b # None /\ h # <<>> /\ Last(h) = b
  /\ pc = "proving" => Phase(h, c) \in Transitions
  /\ pc \in {"slot push", "slot confirm"} => Landed(h, c)

Stage(c, r, h, w, p) ==
  /\ p.batch # None => p.batch.run = c /\ p.batch.step \in Projections
  /\ Knows(c, r, h, w, p.batch, p.pc)
  /\ p.said # None =>
       /\ \E i \in 1 .. Len(r) : r[i] = p.said
       /\ p.said.step \in SlotSteps => p.pc = "loaded" /\ Landed(h, c)

Clone(c, r, h, w, p) ==
  /\ Ordered(h)
  /\ w # None => w.run = c /\ Legal(h, w)
  /\ \E n \in Nat : Forked(c, r, h, w, p.batch, n)
  /\ Stage(c, r, h, w, p)

IInv ==
  /\ Typed
  /\ Ordered(remote)
  /\ \A c \in Controllers : Clone(c, remote, local[c], work[c], proc[c])

-----------------------------------------------------------------------------
(* Histories.                                                              *)

LEMMA Greatest ==
  ASSUME NEW n \in Nat, NEW S \in SUBSET (0 .. n), S # {}
  PROVE  \E x \in S : \A y \in S : y <= x
  <1> DEFINE T == {m \in Nat : \E x \in S : m = n - x}
             R == OpToRel(<, Nat)
  <1>1. T \subseteq Nat /\ T # {}
    <2>1. PICK x \in S : TRUE
      OBVIOUS
    <2>2. n - x \in T
      BY <2>1
    <2> QED
      BY <2>2
  <1>2. IsWellFoundedOn(R, Nat) /\ \A x, y \in Nat : y < x => <<y, x>> \in R
    BY NatLessThanWellFounded DEF OpToRel
  <1> HIDE DEF R, T
  <1>3. PICK m \in T : \A k \in T : ~ (<<k, m>> \in R)
    BY <1>1, <1>2, WFMin
  <1>4. \A k \in T : k \in Nat /\ m \in Nat /\ m <= k
    <2>1. \A k \in T : k \in Nat /\ m \in Nat /\ ~ (k < m)
      BY <1>1, <1>2, <1>3
    <2> QED
      BY <2>1
  <1>5. PICK x \in S : m = n - x
    BY DEF T
  <1>6. \A y \in S : y <= x
    BY <1>4, <1>5 DEF T
  <1> QED
    BY <1>6

(* A position holds a commit of these runs and steps. *)
Match(h, i, runs, steps) == h[i].run \in runs /\ h[i].step \in steps

LEMMA Positions ==
  ASSUME NEW h \in Histories
  PROVE  /\ Len(h) \in Nat /\ DOMAIN h = 1 .. Len(h)
         /\ \A i \in 1 .. Len(h) : h[i] \in Commits
         /\ h # <<>> <=> Len(h) > 0
  BY EmptySeq DEF Histories

LEMMA NewestFacts ==
  ASSUME NEW h \in Histories, NEW runs, NEW steps, NEW p, p = Newest(h, runs, steps)
  PROVE  /\ p \in 0 .. Len(h)
         /\ p > 0 => Match(h, p, runs, steps)
         /\ \A i \in 1 .. Len(h) : Match(h, i, runs, steps) => i <= p
  <1> DEFINE n == Len(h)
             S == {0} \cup {i \in DOMAIN h : Match(h, i, runs, steps)}
             Back(k) == /\ k = n \/ Match(h, n - k, runs, steps)
                        /\ \A j \in n - k + 1 .. n : ~ Match(h, j, runs, steps)
  <1>1. n \in Nat /\ S \in SUBSET (0 .. n) /\ S # {}
    BY Positions
  <1>2. PICK x \in S : \A i \in S : i <= x
    BY <1>1, Greatest
  <1>3. n - x \in 0 .. n /\ Back(n - x)
    BY <1>1, <1>2, Positions
  <1>4. PICK k : k = CHOOSE back \in 0 .. n : Back(back)
    OBVIOUS
  <1>5. k \in 0 .. n /\ Back(k)
    BY <1>3, <1>4
  <1>6. p = n - k
    BY <1>4 DEF Newest, Match
  <1> QED
    BY <1>1, <1>5, <1>6 DEF Match

LEMMA NewestIs ==
  ASSUME NEW h \in Histories, NEW runs, NEW steps, NEW p \in 0 .. Len(h),
         p > 0 => Match(h, p, runs, steps),
         \A i \in 1 .. Len(h) : Match(h, i, runs, steps) => i <= p
  PROVE  Newest(h, runs, steps) = p
  <1>1. PICK q : q = Newest(h, runs, steps)
    OBVIOUS
  <1>2. /\ q \in 0 .. Len(h)
        /\ q > 0 => Match(h, q, runs, steps)
        /\ \A i \in 1 .. Len(h) : Match(h, i, runs, steps) => i <= q
    BY <1>1, NewestFacts
  <1>3. Len(h) \in Nat
    BY Positions
  <1>4. q = p
    BY <1>2, <1>3
  <1> QED
    BY <1>1, <1>4

LEMMA PrefixExtends ==
  ASSUME NEW g \in Histories, NEW h \in Histories
  PROVE  IsPrefix(g, h) <=> Extends(g, h)
  <1>0. Len(g) \in Nat /\ Len(h) \in Nat /\ \A i \in 1 .. Len(h) : h[i] \in Commits
    BY Positions
  <1>1. SubSeq(g, 1, Len(g)) = g
    BY SubSeqFull DEF Histories
  <1>2. ASSUME Len(g) <= Len(h)
        PROVE  /\ SubSeq(h, 1, Len(g)) \in Seq(Commits)
               /\ Len(SubSeq(h, 1, Len(g))) = Len(g)
               /\ \A i \in 1 .. Len(g) : SubSeq(h, 1, Len(g))[i] = h[i]
    <2>1. \A i \in 1 .. Len(g) : h[i] \in Commits
      BY <1>0, <1>2
    <2>2. 1 \in Int /\ Len(g) \in Int
      BY <1>0
    <2>3. /\ SubSeq(h, 1, Len(g)) \in Seq(Commits)
          /\ Len(SubSeq(h, 1, Len(g))) = (IF 1 <= Len(g) THEN Len(g) - 1 + 1 ELSE 0)
          /\ \A i \in 1 .. Len(g) - 1 + 1 : SubSeq(h, 1, Len(g))[i] = h[1 + i - 1]
      BY <2>1, <2>2, SubSeqProperties
    <2> QED
      BY <1>0, <2>3
  <1>3. IsPrefix(g, h) => Extends(g, h)
    BY <1>0, <1>1, <1>2 DEF IsPrefix, Extends
  <1>4. ASSUME Extends(g, h) PROVE IsPrefix(g, h)
    <2>1. SubSeq(h, 1, Len(g)) = g
      BY <1>0, <1>2, <1>4, SeqEqual DEF Extends, Histories
    <2> QED
      BY <1>1, <1>4, <2>1 DEF IsPrefix, Extends
  <1> QED
    BY <1>3, <1>4

(* The part of a history before position i + 1. *)
LEMMA PrefixFacts ==
  ASSUME NEW h \in Histories, NEW i \in 0 .. Len(h)
  PROVE  /\ SubSeq(h, 1, i) \in Histories
         /\ Len(SubSeq(h, 1, i)) = i
         /\ \A j \in 1 .. i : SubSeq(h, 1, i)[j] = h[j]
  <1>1. Len(h) \in Nat /\ \A j \in 1 .. Len(h) : h[j] \in Commits
    BY Positions
  <1>2. \A j \in 1 .. i : h[j] \in Commits
    BY <1>1
  <1>3. 1 \in Int /\ i \in Int
    BY <1>1
  <1>4. /\ SubSeq(h, 1, i) \in Seq(Commits)
        /\ Len(SubSeq(h, 1, i)) = (IF 1 <= i THEN i - 1 + 1 ELSE 0)
        /\ \A j \in 1 .. i - 1 + 1 : SubSeq(h, 1, i)[j] = h[1 + j - 1]
    BY <1>2, <1>3, SubSeqProperties
  <1> QED
    BY <1>1, <1>4 DEF Histories

(* Histories that agree so far are the same so far. *)
LEMMA SamePrefix ==
  ASSUME NEW g \in Histories, NEW h \in Histories,
         NEW i \in 0 .. Len(g), i <= Len(h), \A j \in 1 .. i : g[j] = h[j]
  PROVE  SubSeq(g, 1, i) = SubSeq(h, 1, i)
  <1>1. Len(g) \in Nat /\ Len(h) \in Nat /\ i \in 0 .. Len(h)
    BY Positions
  <1>2. /\ SubSeq(g, 1, i) \in Histories /\ Len(SubSeq(g, 1, i)) = i
        /\ \A j \in 1 .. i : SubSeq(g, 1, i)[j] = g[j]
    BY PrefixFacts
  <1>3. /\ SubSeq(h, 1, i) \in Histories /\ Len(SubSeq(h, 1, i)) = i
        /\ \A j \in 1 .. i : SubSeq(h, 1, i)[j] = h[j]
    BY <1>1, PrefixFacts
  <1> QED
    BY <1>2, <1>3, SeqEqual DEF Histories

LEMMA Appended ==
  ASSUME NEW h \in Histories, NEW k \in Commits, NEW g, g = Append(h, k)
  PROVE  /\ g \in Histories /\ Len(g) = Len(h) + 1 /\ Extends(h, g)
         /\ g[Len(h) + 1] = k /\ Last(g) = k
         /\ \A i \in 1 .. Len(h) : g[i] = h[i]
  BY Positions DEF Histories, Extends, Last

-----------------------------------------------------------------------------
(* Commits that leave a root alone.                                        *)

(* h adds nothing to g that writes the root of c. *)
Aside(g, h, c) ==
  /\ Extends(g, h)
  /\ \A i \in Len(g) + 1 .. Len(h) : ~ Match(h, i, {c}, Projections)

LEMMA NewestKept ==
  ASSUME NEW g \in Histories, NEW h \in Histories, NEW runs, NEW steps, Extends(g, h),
         \A i \in Len(g) + 1 .. Len(h) : ~ Match(h, i, runs, steps)
  PROVE  /\ Newest(h, runs, steps) = Newest(g, runs, steps)
         /\ Newest(g, runs, steps) > 0 =>
              h[Newest(h, runs, steps)] = g[Newest(g, runs, steps)]
  <1>1. PICK p : p = Newest(g, runs, steps)
    OBVIOUS
  <1>2. /\ p \in 0 .. Len(g)
        /\ p > 0 => Match(g, p, runs, steps)
        /\ \A i \in 1 .. Len(g) : Match(g, i, runs, steps) => i <= p
    BY <1>1, NewestFacts
  <1>3. Len(g) \in Nat /\ Len(h) \in Nat
    BY Positions
  <1>4. p \in 0 .. Len(h) /\ (p > 0 => h[p] = g[p])
    BY <1>2, <1>3 DEF Extends
  <1>5. p > 0 => Match(h, p, runs, steps)
    BY <1>2, <1>4 DEF Match
  <1>6. \A i \in 1 .. Len(h) : Match(h, i, runs, steps) => i <= p
    BY <1>2, <1>3 DEF Match, Extends
  <1>7. Newest(h, runs, steps) = p
    BY <1>4, <1>5, <1>6, NewestIs
  <1> QED
    BY <1>1, <1>4, <1>7

LEMMA PhaseCases ==
  ASSUME NEW h \in Histories, NEW c
  PROVE  /\ Phase(h, c) \in {"absent"} \cup (Projections \ {"noted"})
         /\ Phase(h, c) # "absent" =>
              Len(h) > 0 /\ Newest(h, {c}, Projections) > 0
         /\ Phase(h, c) = "absent" => Newest(h, {c}, Projections \ {"noted"}) = 0
  <1>1. PICK p : p = Newest(h, {c}, Projections \ {"noted"})
    OBVIOUS
  <1>2. PICK q : q = Newest(h, {c}, Projections)
    OBVIOUS
  <1>3. p \in 0 .. Len(h) /\ (p > 0 => Match(h, p, {c}, Projections \ {"noted"}))
    BY <1>1, NewestFacts
  <1>4. \A i \in 1 .. Len(h) : Match(h, i, {c}, Projections) => i <= q
    BY <1>2, NewestFacts
  <1>5. Len(h) \in Nat /\ q \in 0 .. Len(h)
    BY <1>2, NewestFacts, Positions
  <1>6. p > 0 => Match(h, p, {c}, Projections)
    BY <1>3 DEF Match
  <1>7. Phase(h, c) = IF p = 0 THEN "absent" ELSE h[p].step
    BY <1>1 DEF Phase, Stages
  <1>8. p > 0 => h[p].step \in Projections \ {"noted"}
    BY <1>3 DEF Match
  <1>9. "absent" \notin Projections
    BY DEF Projections
  <1>10. p = 0 \/ (p > 0 /\ q > 0 /\ Len(h) > 0)
    <2>1. p > 0 => p \in 1 .. Len(h)
      BY <1>3, <1>5
    <2>2. p > 0 => p <= q
      BY <1>4, <1>6, <2>1
    <2> QED
      BY <1>3, <1>5, <2>2
  <1>11. p = 0 => Phase(h, c) = "absent"
    BY <1>7
  <1>12. p # 0 => Phase(h, c) \in Projections \ {"noted"} /\ Phase(h, c) # "absent"
    BY <1>3, <1>5, <1>7, <1>8, <1>9, <1>10
  <1> QED
    BY <1>1, <1>2, <1>10, <1>11, <1>12

LEMMA AsideKept ==
  ASSUME NEW g \in Histories, NEW h \in Histories, NEW c, Aside(g, h, c)
  PROVE  /\ Phase(h, c) = Phase(g, c)
         /\ Newest(h, {c}, Projections) = Newest(g, {c}, Projections)
         /\ Newest(g, {c}, Projections) > 0 => Row(h, c) = Row(g, c)
  <1>0. PICK r : r = {c}
    OBVIOUS
  <1>1. PICK s : s = Projections \ {"noted"}
    OBVIOUS
  <1>2. PICK t : t = Projections
    OBVIOUS
  <1>3. /\ Extends(g, h)
        /\ \A i \in Len(g) + 1 .. Len(h) : ~ Match(h, i, r, t)
        /\ \A i \in Len(g) + 1 .. Len(h) : ~ Match(h, i, r, s)
    BY <1>0, <1>1, <1>2 DEF Aside, Match
  <1>4. /\ Newest(h, r, t) = Newest(g, r, t)
        /\ Newest(g, r, t) > 0 => h[Newest(h, r, t)] = g[Newest(g, r, t)]
    BY <1>3, NewestKept
  <1>5. /\ Newest(h, r, s) = Newest(g, r, s)
        /\ Newest(g, r, s) > 0 => h[Newest(h, r, s)] = g[Newest(g, r, s)]
    BY <1>3, NewestKept
  <1>6. Newest(g, r, s) \in 0 .. Len(g) /\ Len(g) \in Nat
    BY NewestFacts, Positions
  <1>7. Phase(h, c) = Phase(g, c)
    BY <1>0, <1>1, <1>5, <1>6 DEF Phase, Stages
  <1> QED
    BY <1>0, <1>2, <1>4, <1>7 DEF Row

LEMMA WritableKept ==
  ASSUME NEW g \in Histories, NEW h \in Histories, NEW k, Aside(g, h, k.run)
  PROVE  /\ Fits(g, k) => Fits(h, k)
         /\ Writable(g, k) => Writable(h, k)
  <1>1. Phase(h, k.run) = Phase(g, k.run)
    BY AsideKept
  <1>2. ASSUME NEW e, \E i \in DOMAIN g : g[i] = e
        PROVE  \E i \in DOMAIN h : h[i] = e
    BY <1>2, Positions DEF Aside, Extends
  <1>3. Fits(g, k) => Fits(h, k)
    BY <1>1, <1>2 DEF Fits
  <1>4. Writable(g, k) => Writable(h, k)
    BY <1>3, AsideKept DEF Writable
  <1> QED
    BY <1>3, <1>4

LEMMA RootLegal ==
  ASSUME NEW h, NEW k, Fits(h, k)
  PROVE  /\ k.step # "intent" /\ Admits(h, k.run, k.step) => Legal(h, k)
         /\ k.step = "intent" /\ Slot(h) = None => Legal(h, k)
  BY DEF Fits, Admits, Legal

LEMMA LegalSteps ==
  ASSUME NEW h, NEW k, k.step \in SlotSteps
  PROVE  /\ Legal(h, k) => Slot(h) = IF k.step = "acquire" THEN None ELSE k.run
         /\ k.step = "acquire" /\ Phase(h, k.run) = "intent" /\ Slot(h) = None => Legal(h, k)
         /\ k.step = "release" /\ Phase(h, k.run) = "closing" /\ Slot(h) = k.run => Legal(h, k)
  BY DEF Legal, SlotSteps

LEMMA OrderedAppend ==
  ASSUME NEW h \in Histories, NEW k \in Commits, Ordered(h), Legal(h, k)
  PROVE  Ordered(Append(h, k))
  <1>1. PICK g : g = Append(h, k)
    OBVIOUS
  <1>2. g \in Histories /\ Len(g) = Len(h) + 1 /\ Extends(h, g) /\ g[Len(h) + 1] = k
    BY <1>1, Appended
  <1>3. Len(h) \in Nat /\ DOMAIN h = 1 .. Len(h) /\ DOMAIN g = 1 .. Len(g)
    BY <1>2, Positions
  <1>4. ASSUME NEW i \in DOMAIN g
        PROVE  Legal(SubSeq(g, 1, i - 1), g[i])
    <2>1. i \in 1 .. Len(h) + 1 /\ i - 1 \in 0 .. Len(g) /\ i - 1 <= Len(h)
      BY <1>2, <1>3
    <2>2. \A j \in 1 .. Len(h) : g[j] = h[j]
      BY <1>2 DEF Extends
    <2>3. SubSeq(g, 1, i - 1) = SubSeq(h, 1, i - 1)
      <3>1. \A j \in 1 .. i - 1 : g[j] = h[j]
        BY <1>3, <2>1, <2>2
      <3> QED
        BY <1>2, <2>1, <3>1, SamePrefix
    <2>4. CASE i \in 1 .. Len(h)
      BY <1>3, <2>2, <2>3, <2>4 DEF Ordered
    <2>5. CASE i = Len(h) + 1
      <3>1. i - 1 = Len(h)
        BY <1>3, <2>5
      <3>2. SubSeq(h, 1, Len(h)) = h
        BY SubSeqFull DEF Histories
      <3> QED
        BY <1>2, <2>3, <2>5, <3>1, <3>2
    <2> QED
      BY <2>1, <2>4, <2>5, <1>3
  <1> QED
    BY <1>1, <1>4 DEF Ordered

(* A commit of the slot, or of another run, leaves a root as it was. *)
LEMMA AppendAside ==
  ASSUME NEW h \in Histories, NEW k \in Commits, NEW c,
         k.run # c \/ k.step \in SlotSteps
  PROVE  Aside(h, Append(h, k), c)
  <1>1. PICK g : g = Append(h, k)
    OBVIOUS
  <1>2. Len(g) = Len(h) + 1 /\ Extends(h, g) /\ g[Len(h) + 1] = k /\ Len(h) \in Nat
    BY <1>1, Appended, Positions
  <1>3. \A i \in Len(h) + 1 .. Len(g) : g[i] = k
    BY <1>2
  <1>4. k.run # c \/ k.step \notin Projections
    BY DEF SlotSteps, Projections
  <1> QED
    BY <1>1, <1>2, <1>3, <1>4 DEF Aside, Match

LEMMA ExtendsOnward ==
  ASSUME NEW f \in Histories, NEW g \in Histories, NEW h \in Histories,
         Extends(f, g), Extends(g, h)
  PROVE  Extends(f, h)
  BY Positions DEF Extends

-----------------------------------------------------------------------------
(* The slot, and what its reading proves.                                  *)

LEMMA SlotFacts ==
  ASSUME NEW h \in Histories, NEW s, s = SlotAt(h)
  PROVE  /\ s \in 0 .. Len(h)
         /\ s > 0 => IsSlotStep(h[s])
         /\ \A i \in 1 .. Len(h) : IsSlotStep(h[i]) => i <= s
         /\ Slot(h) = IF s = 0 \/ h[s].step = "release" THEN None ELSE h[s].run
  <1>1. PICK r : r = Controllers
    OBVIOUS
  <1>2. PICK t : t = SlotSteps
    OBVIOUS
  <1>3. /\ s \in 0 .. Len(h)
        /\ s > 0 => Match(h, s, r, t)
        /\ \A i \in 1 .. Len(h) : Match(h, i, r, t) => i <= s
    BY <1>1, <1>2, NewestFacts DEF SlotAt
  <1>4. \A i \in 1 .. Len(h) : IsSlotStep(h[i]) => Match(h, i, r, t)
    BY <1>1, <1>2, Positions DEF IsSlotStep, Match, Commits
  <1>5. s > 0 => IsSlotStep(h[s])
    BY <1>2, <1>3 DEF IsSlotStep, Match
  <1>6. Slot(h) = IF s = 0 \/ h[s].step = "release" THEN None ELSE h[s].run
    BY DEF Slot
  <1> QED
    BY <1>3, <1>4, <1>5, <1>6

(* What the last slot commit before position i + 1 says of the slot there. *)
LEMMA SlotOfPrefix ==
  ASSUME NEW h \in Histories, NEW i \in 0 .. Len(h), NEW s \in 0 .. i,
         s > 0 => IsSlotStep(h[s]), \A j \in s + 1 .. i : ~ IsSlotStep(h[j])
  PROVE  Slot(SubSeq(h, 1, i)) = IF s = 0 \/ h[s].step = "release" THEN None ELSE h[s].run
  <1>1. PICK g : g = SubSeq(h, 1, i)
    OBVIOUS
  <1>2. g \in Histories /\ Len(g) = i /\ \A j \in 1 .. i : g[j] = h[j]
    BY <1>1, PrefixFacts
  <1>3. PICK q : q = SlotAt(g)
    OBVIOUS
  <1>4. /\ q \in 0 .. Len(g)
        /\ q > 0 => IsSlotStep(g[q])
        /\ \A j \in 1 .. Len(g) : IsSlotStep(g[j]) => j <= q
        /\ Slot(g) = IF q = 0 \/ g[q].step = "release" THEN None ELSE g[q].run
    BY <1>2, <1>3, SlotFacts
  <1>5. Len(h) \in Nat
    BY Positions
  <1>6. s > 0 => s <= q
    BY <1>2, <1>4, <1>5
  <1>7. q > 0 => q <= s
    BY <1>2, <1>4, <1>5
  <1>8. q = s /\ (s > 0 => g[s] = h[s])
    BY <1>2, <1>4, <1>5, <1>6, <1>7
  <1>9. s = 0 \/ s > 0
    BY <1>5
  <1> QED
    BY <1>1, <1>4, <1>8, <1>9

LEMMA Least ==
  ASSUME NEW S \in SUBSET Nat, S # {}
  PROVE  \E x \in S : \A y \in S : x <= y
  <1> DEFINE R == OpToRel(<, Nat)
  <1>1. IsWellFoundedOn(R, Nat) /\ \A x, y \in Nat : y < x => <<y, x>> \in R
    BY NatLessThanWellFounded DEF OpToRel
  <1> HIDE DEF R
  <1>2. PICK x \in S : \A y \in S : ~ (<<y, x>> \in R)
    BY <1>1, WFMin
  <1>3. \A y \in S : y \in Nat /\ x \in Nat /\ ~ (y < x)
    BY <1>1, <1>2
  <1> QED
    BY <1>3

(* The slot leaves a run only by a commit of that run. *)
LEMMA SlotStays ==
  ASSUME NEW r \in Histories, Ordered(r), NEW c \in Controllers,
         NEW s \in 1 .. Len(r), r[s].step = "acquire", r[s].run = c,
         \A i \in s + 1 .. Len(r) : IsSlotStep(r[i]) => r[i].run # c
  PROVE  Slot(r) = c
  <1>1. Len(r) \in Nat /\ IsSlotStep(r[s]) /\ DOMAIN r = 1 .. Len(r)
    BY Positions DEF IsSlotStep, SlotSteps
  <1>2. None # c
    BY StoreAssumption
  <1> DEFINE S == {i \in s + 1 .. Len(r) : IsSlotStep(r[i])}
  <1>3. S = {}
    <2> SUFFICES ASSUME S # {} PROVE FALSE
      OBVIOUS
    <2>1. S \in SUBSET Nat
      BY <1>1
    <2>2. PICK f \in S : \A y \in S : f <= y
      BY <2>1, Least
    <2>3. f \in s + 1 .. Len(r) /\ f - 1 \in 0 .. Len(r) /\ s \in 0 .. f - 1 /\ s > 0
      BY <1>1, <2>2
    <2>4. \A j \in s + 1 .. f - 1 : ~ IsSlotStep(r[j])
      <3> SUFFICES ASSUME NEW j \in s + 1 .. f - 1, IsSlotStep(r[j]) PROVE FALSE
        OBVIOUS
      <3>1. j \in S
        BY <1>1, <2>3
      <3>2. f <= j
        BY <2>2, <3>1
      <3> QED
        BY <1>1, <2>3, <3>2
    <2>5. Slot(SubSeq(r, 1, f - 1)) = c
      <3>1. Slot(SubSeq(r, 1, f - 1)) =
              IF s = 0 \/ r[s].step = "release" THEN None ELSE r[s].run
        BY <1>1, <2>3, <2>4, SlotOfPrefix
      <3> QED
        BY <2>3, <3>1
    <2>6. Legal(SubSeq(r, 1, f - 1), r[f])
      BY <1>1, <2>3 DEF Ordered
    <2>7. r[f].step \in SlotSteps /\ r[f].run # c
      BY <2>2, <2>3 DEF IsSlotStep
    <2>8. Slot(SubSeq(r, 1, f - 1)) = IF r[f].step = "acquire" THEN None ELSE r[f].run
      BY <2>6, <2>7, LegalSteps
    <2> QED
      BY <1>2, <2>5, <2>7, <2>8
  <1>4. PICK q : q = SlotAt(r)
    OBVIOUS
  <1>5. /\ q \in 0 .. Len(r)
        /\ q > 0 => IsSlotStep(r[q])
        /\ \A i \in 1 .. Len(r) : IsSlotStep(r[i]) => i <= q
        /\ Slot(r) = IF q = 0 \/ r[q].step = "release" THEN None ELSE r[q].run
    BY <1>4, SlotFacts
  <1>6. s <= q
    BY <1>1, <1>5
  <1>7. q \notin S
    BY <1>3
  <1>8. q = s
    BY <1>1, <1>5, <1>6, <1>7
  <1> QED
    BY <1>1, <1>5, <1>8

(* A transition whose effect the remote shows, and that the clone proves   *)
(* was made on shared ground, is in the remote.                            *)
LEMMA SharedTransition ==
  ASSUME NEW h \in Histories, NEW r \in Histories, Ordered(h), Ordered(r),
         NEW c \in Controllers, NEW n \in Nat, n <= Len(h), n <= Len(r),
         \A i \in 1 .. n : h[i] = r[i],
         \A i \in n + 1 .. Len(r) : r[i].run # c,
         NEW kind \in SlotSteps, NEW p \in 1 .. Len(h), h[p] = Commit(c, kind, 0),
         NEW at \in 0 .. n, \A i \in at + 1 .. p - 1 : ~ IsSlotStep(h[i]),
         Slot(r) = IF kind = "acquire" THEN c ELSE None
  PROVE  \E i \in DOMAIN r : r[i] = Commit(c, kind, 0)
  <1>1. Len(h) \in Nat /\ Len(r) \in Nat /\ DOMAIN r = 1 .. Len(r) /\ DOMAIN h = 1 .. Len(h)
    BY Positions
  <1>2. CASE p <= n
    <2>1. p \in 1 .. n /\ p \in DOMAIN r
      BY <1>1, <1>2
    <2> QED
      BY <2>1
  <1>3. CASE p > n
    <2>1. /\ h[p].run = c /\ h[p].step = kind /\ p - 1 \in 0 .. Len(h) /\ p - 1 >= n
          /\ None # c
      BY <1>1, <1>3, StoreAssumption DEF Commit
    <2>2. PICK g : g = SubSeq(h, 1, p - 1)
      OBVIOUS
    <2>3. g \in Histories /\ Len(g) = p - 1 /\ \A j \in 1 .. p - 1 : g[j] = h[j]
      BY <2>1, <2>2, PrefixFacts
    <2>4. Legal(g, h[p])
      BY <1>1, <2>2 DEF Ordered
    <2>5. Slot(g) = IF kind = "acquire" THEN None ELSE c
      BY <2>1, <2>4, LegalSteps
    <2>6. PICK s : s = SlotAt(g)
      OBVIOUS
    <2>7. /\ s \in 0 .. Len(g)
          /\ s > 0 => IsSlotStep(g[s])
          /\ \A i \in 1 .. Len(g) : IsSlotStep(g[i]) => i <= s
          /\ Slot(g) = IF s = 0 \/ g[s].step = "release" THEN None ELSE g[s].run
      BY <2>3, <2>6, SlotFacts
    <2>8. s <= n
      <3> SUFFICES ASSUME s > n PROVE FALSE
        BY <1>1, <2>3, <2>7
      <3>1. s \in at + 1 .. p - 1 /\ s > 0 /\ s \in 1 .. p - 1
        BY <1>1, <2>3, <2>7
      <3> QED
        BY <2>3, <2>7, <3>1
    <2>9. s > 0 => /\ s \in 1 .. n /\ s \in 1 .. Len(r) /\ r[s] = g[s] /\ IsSlotStep(r[s])
      BY <1>1, <2>1, <2>3, <2>7, <2>8
    <2>10. CASE kind = "acquire"
      <3>1. PICK q : q = SlotAt(r)
        OBVIOUS
      <3>2. /\ q \in 0 .. Len(r)
            /\ q > 0 => IsSlotStep(r[q])
            /\ \A i \in 1 .. Len(r) : IsSlotStep(r[i]) => i <= q
            /\ Slot(r) = IF q = 0 \/ r[q].step = "release" THEN None ELSE r[q].run
        BY <3>1, SlotFacts
      <3>3. q > 0 /\ r[q].run = c /\ r[q].step # "release"
        BY <1>1, <2>1, <2>10, <3>2
      <3>4. q \in 1 .. n
        BY <1>1, <3>2, <3>3
      <3>5. q \in 1 .. Len(g) /\ g[q] = r[q]
        BY <1>1, <2>1, <2>3, <3>4
      <3>6. q <= s
        BY <2>7, <3>2, <3>3, <3>5
      <3>7. s <= q /\ s > 0
        BY <1>1, <2>7, <2>9, <3>2, <3>4, <3>6
      <3>8. q = s
        BY <1>1, <2>7, <2>3, <3>2, <3>6, <3>7
      <3>9. Slot(g) = c
        BY <2>7, <3>3, <3>5, <3>7, <3>8
      <3> QED
        BY <2>1, <2>5, <2>10, <3>9
    <2>11. CASE kind = "release"
      <3>1. Slot(g) = c
        BY <2>5, <2>11
      <3>2. s # 0 /\ g[s].step # "release" /\ g[s].run = c
        BY <2>1, <2>7, <3>1
      <3>3. s > 0 /\ s \in 1 .. Len(r) /\ r[s].step = "acquire" /\ r[s].run = c
        BY <1>1, <2>3, <2>7, <2>9, <3>2 DEF IsSlotStep, SlotSteps
      <3>4. \A i \in s + 1 .. Len(r) : IsSlotStep(r[i]) => r[i].run # c
        <4> SUFFICES ASSUME NEW i \in s + 1 .. Len(r), IsSlotStep(r[i]) PROVE r[i].run # c
          OBVIOUS
        <4>1. CASE i \in n + 1 .. Len(r)
          BY <4>1
        <4>2. CASE i \in 1 .. n
          <5>1. i \in 1 .. Len(g) /\ g[i] = r[i]
            BY <1>1, <2>1, <2>3, <4>2
          <5>2. i <= s
            BY <2>7, <5>1
          <5> QED
            BY <1>1, <3>3, <5>2
        <4> QED
          BY <1>1, <3>3, <4>1, <4>2
      <3>5. Slot(r) = c
        BY <3>3, <3>4, SlotStays
      <3> QED
        BY <2>1, <2>11, <3>5
    <2> QED
      BY <2>10, <2>11 DEF SlotSteps
  <1> QED
    BY <1>1, <1>2, <1>3

-----------------------------------------------------------------------------
(* One clone, in values.                                                   *)

LEMMA NoneApart == None \notin Commits /\ None \notin Controllers
  BY StoreAssumption

(* The values of one clone are typed. *)
Values(r, h, w, p) ==
  r \in Histories /\ h \in Histories /\ w \in Batches /\ p \in Commands

LEMMA CommandTyped ==
  ASSUME NEW p \in Commands
  PROVE  p.pc \in Pcs /\ p.batch \in Batches /\ p.seen \in Histories /\ p.said \in Batches
  BY DEF Commands

(* A remote that gains commits of other runs is no concern of the clone. *)
LEMMA CloneRemote ==
  ASSUME NEW c \in Controllers, NEW r, NEW h, NEW w, NEW p, Values(r, h, w, p),
         Clone(c, r, h, w, p), NEW s \in Histories, Extends(r, s),
         \A i \in Len(r) + 1 .. Len(s) : s[i].run # c
  PROVE  Clone(c, s, h, w, p)
  <1>1. /\ Len(r) \in Nat /\ Len(s) \in Nat /\ Len(h) \in Nat
        /\ Len(r) <= Len(s) /\ \A i \in 1 .. Len(r) : s[i] = r[i]
    BY Positions DEF Values, Extends
  <1>2. PICK n \in Nat : Forked(c, r, h, w, p.batch, n)
    BY DEF Clone
  <1>3. Forked(c, s, h, w, p.batch, n)
    <2>1. \A i \in n + 1 .. Len(s) : s[i].run # c
      <3> SUFFICES ASSUME NEW i \in n + 1 .. Len(s) PROVE s[i].run # c
        OBVIOUS
      <3>1. CASE i <= Len(r)
        BY <1>1, <1>2, <3>1 DEF Forked
      <3>2. CASE i > Len(r)
        BY <1>1, <3>2
      <3> QED
        BY <1>1, <3>1, <3>2
    <2>2. n <= Len(s) /\ \A i \in 1 .. n : h[i] = s[i]
      BY <1>1, <1>2 DEF Forked
    <2> QED
      BY <1>2, <2>1, <2>2 DEF Forked
  <1>4. Extends(h, r) => Extends(h, s)
    BY ExtendsOnward DEF Values
  <1>5. Knows(c, r, h, w, p.batch, p.pc) => Knows(c, s, h, w, p.batch, p.pc)
    BY <1>4 DEF Knows
  <1>6. (\E i \in 1 .. Len(r) : r[i] = p.said) => \E i \in 1 .. Len(s) : s[i] = p.said
    BY <1>1
  <1>7. Stage(c, s, h, w, p)
    BY <1>5, <1>6 DEF Clone, Stage
  <1> QED
    BY <1>3, <1>7 DEF Clone

(* Where a command may take a new batch from. *)
Source(r, h, w, b, c) ==
  \/ b.step \notin Transitions
  \/ h = r /\ b.at <= Len(h)
  \/ \E i \in 1 .. Len(h) : h[i] = b /\ b.run = c

(* A synchronised clone shares all it has. *)
LEMMA ForkedInSync ==
  ASSUME NEW c \in Controllers, NEW h \in Histories, NEW w \in Batches, NEW b \in Batches,
         NEW n \in Nat, Forked(c, h, h, w, b, n)
  PROVE  Forked(c, h, h, w, b, Len(h))
  <1>1. Len(h) \in Nat /\ n <= Len(h) /\ \A i \in 1 .. Len(h) : h[i].at \in Nat
    BY Positions DEF Forked, Commits
  <1>2. \A k : k.at \in Nat => (Anchored(k, n) => Anchored(k, Len(h)))
    BY <1>1 DEF Anchored
  <1>3. \A i \in 1 .. Len(h) : h[i].run = c => Anchored(h[i], Len(h))
    BY <1>1, <1>2 DEF Forked
  <1>4. (w # None => w.at \in Nat) /\ (b # None => b.at \in Nat)
    BY DEF Batches, Commits
  <1>5. (w # None => Anchored(w, Len(h))) /\ (b # None => Anchored(b, Len(h)))
    BY <1>2, <1>4 DEF Forked
  <1> QED
    BY <1>1, <1>3, <1>5 DEF Forked

LEMMA CloneProc ==
  ASSUME NEW c \in Controllers, NEW r, NEW h, NEW w, NEW p, Values(r, h, w, p),
         Clone(c, r, h, w, p), NEW q \in Commands, Stage(c, r, h, w, q),
         q.batch \in {None, p.batch} \/ Source(r, h, w, q.batch, c)
  PROVE  Clone(c, r, h, w, q)
  <1>1. PICK n \in Nat : Forked(c, r, h, w, p.batch, n)
    BY DEF Clone
  <1>2. r \in Histories /\ h \in Histories /\ w \in Batches /\ p.batch \in Batches
    BY CommandTyped DEF Values
  <1>3. \E m \in Nat : Forked(c, r, h, w, q.batch, m)
    <2>1. CASE q.batch \in {None, p.batch}
      <3>1. Forked(c, r, h, w, q.batch, n)
        BY <1>1, <2>1 DEF Forked
      <3> QED
        BY <3>1
    <2>2. CASE q.batch.step \notin Transitions
      <3>1. Forked(c, r, h, w, q.batch, n)
        BY <1>1, <2>2 DEF Forked, Anchored
      <3> QED
        BY <3>1
    <2>3. CASE h = r /\ q.batch.at <= Len(h)
      <3>1. Forked(c, r, h, w, p.batch, Len(h)) /\ Len(h) \in Nat
        BY <1>1, <1>2, <2>3, ForkedInSync, Positions
      <3>2. Forked(c, r, h, w, q.batch, Len(h))
        BY <2>3, <3>1 DEF Forked, Anchored
      <3> QED
        BY <3>1, <3>2
    <2>4. CASE \E i \in 1 .. Len(h) : h[i] = q.batch /\ q.batch.run = c
      <3>1. Anchored(q.batch, n)
        BY <1>1, <2>4 DEF Forked
      <3>2. Forked(c, r, h, w, q.batch, n)
        BY <1>1, <3>1 DEF Forked
      <3> QED
        BY <3>2
    <2> QED
      BY <2>1, <2>2, <2>3, <2>4 DEF Source
  <1> QED
    BY <1>3 DEF Clone

(* A legal commit of the clone's own run. *)
LEMMA CloneAppend ==
  ASSUME NEW c \in Controllers, NEW r, NEW h, NEW w, NEW p, Values(r, h, w, p),
         Clone(c, r, h, w, p), NEW k \in Commits, k.run = c, Legal(h, k),
         k = w \/ k.step \in SlotSteps,
         NEW g, g = Append(h, k), NEW q \in Commands, q.batch \in {None, p.batch},
         Stage(c, r, g, None, q)
  PROVE  Clone(c, r, g, None, q)
  <1>1. PICK n \in Nat : Forked(c, r, h, w, p.batch, n)
    BY DEF Clone
  <1>2. /\ Len(g) = Len(h) + 1 /\ g[Len(h) + 1] = k /\ Len(h) \in Nat
        /\ \A i \in 1 .. Len(h) : g[i] = h[i]
    BY Appended, Positions DEF Values
  <1>3. k # None
    BY NoneApart
  <1>4. Anchored(k, n)
    <2>1. CASE k = w
      BY <1>1, <1>3, <2>1 DEF Forked
    <2>2. CASE k.step \in SlotSteps
      BY <2>2 DEF Anchored, SlotSteps, Transitions
    <2> QED
      BY <2>1, <2>2
  <1>5. \A i \in 1 .. Len(g) : i \in 1 .. Len(h) \/ g[i] = k
    BY <1>2
  <1>6. n <= Len(r) /\ n <= Len(h) /\ n <= Len(g) /\ \A i \in 1 .. n : g[i] = r[i]
    BY <1>1, <1>2 DEF Forked
  <1>7. \A i \in n + 1 .. Len(g) : g[i].run = c
    BY <1>1, <1>2, <1>5 DEF Forked
  <1>8. \A i \in 1 .. Len(g) : g[i].run = c => Anchored(g[i], n)
    BY <1>1, <1>2, <1>4, <1>5 DEF Forked
  <1>9. Forked(c, r, g, None, q.batch, n)
    BY <1>1, <1>6, <1>7, <1>8 DEF Forked
  <1>10. Ordered(g)
    BY OrderedAppend DEF Clone, Values
  <1> QED
    BY <1>9, <1>10 DEF Clone

(* A legal change of the working set. *)
LEMMA CloneWork ==
  ASSUME NEW c \in Controllers, NEW r, NEW h, NEW w, NEW p, Values(r, h, w, p),
         Clone(c, r, h, w, p), NEW k \in Batches,
         k # None => /\ k.run = c /\ Legal(h, k)
                     /\ k = p.batch \/ k.step \in SlotSteps,
         NEW q \in Commands, q.batch \in {None, p.batch}, Stage(c, r, h, k, q)
  PROVE  Clone(c, r, h, k, q)
  <1>1. PICK n \in Nat : Forked(c, r, h, w, p.batch, n)
    BY DEF Clone
  <1>2. k # None => Anchored(k, n)
    <2>1. CASE k = p.batch
      BY <1>1, <2>1 DEF Forked
    <2>2. CASE k.step \in SlotSteps
      BY <2>2 DEF Anchored, SlotSteps, Transitions
    <2> QED
      BY <2>1, <2>2
  <1>3. Forked(c, r, h, k, q.batch, n)
    BY <1>1, <1>2 DEF Forked
  <1> QED
    BY <1>3 DEF Clone

(* The remote takes over the clone's history, or the clone the remote's. *)
LEMMA CloneMeets ==
  ASSUME NEW c \in Controllers, NEW r, NEW h, NEW w, NEW p, Values(r, h, w, p),
         Clone(c, r, h, w, p), NEW g \in Histories, Ordered(g),
         \/ g = h
         \/ g = r /\ Extends(h, r) /\ w = None,
         NEW q \in Commands, q.batch \in {None, p.batch}, Stage(c, g, g, w, q)
  PROVE  Clone(c, g, g, w, q)
  <1>1. PICK n \in Nat : Forked(c, r, h, w, p.batch, n)
    BY DEF Clone
  <1>2. /\ Len(g) \in Nat /\ Len(h) \in Nat /\ Len(r) \in Nat
        /\ p.batch \in Batches /\ w \in Batches
        /\ \A i \in 1 .. Len(g) : g[i].at \in Nat
    BY Positions, CommandTyped DEF Values, Commits
  <1>3. (w # None => w.at \in Nat) /\ (p.batch # None => p.batch.at \in Nat)
    BY <1>2 DEF Batches, Commits
  <1>4. n <= Len(g)
    BY <1>1, <1>2 DEF Forked, Extends
  <1>5. \A k : k.at \in Nat => (Anchored(k, n) => Anchored(k, Len(g)))
    BY <1>2, <1>4 DEF Anchored
  <1>6. \A i \in 1 .. Len(g) : g[i].run = c => Anchored(g[i], n)
    <2>1. CASE g = h
      BY <1>1, <2>1 DEF Forked
    <2>2. CASE g = r /\ Extends(h, r)
      <3> SUFFICES ASSUME NEW i \in 1 .. Len(g), g[i].run = c PROVE Anchored(g[i], n)
        OBVIOUS
      <3>1. i \in 1 .. n
        BY <1>1, <1>2, <2>2 DEF Forked
      <3>2. i \in 1 .. Len(h) /\ h[i] = g[i]
        BY <1>1, <1>2, <2>2, <3>1 DEF Forked
      <3> QED
        BY <1>1, <3>2 DEF Forked
    <2> QED
      BY <2>1, <2>2
  <1>7. \A i \in 1 .. Len(g) : g[i].run = c => Anchored(g[i], Len(g))
    BY <1>2, <1>5, <1>6
  <1>8. (w # None => Anchored(w, Len(g))) /\ (p.batch # None => Anchored(p.batch, Len(g)))
    BY <1>1, <1>3, <1>5 DEF Forked
  <1>9. Forked(c, g, g, w, q.batch, Len(g))
    BY <1>2, <1>7, <1>8 DEF Forked
  <1>10. w # None => w.run = c /\ Legal(g, w)
    BY DEF Clone
  <1> QED
    BY <1>2, <1>9, <1>10 DEF Clone

-----------------------------------------------------------------------------
(* Steps.                                                                  *)

(* A step of run c, in values. *)
Moves(c, r, h, w, q) ==
  /\ remote' = r
  /\ local' = [local EXCEPT ![c] = h]
  /\ work' = [work EXCEPT ![c] = w]
  /\ proc' = [proc EXCEPT ![c] = q]

LEMMA InvValues ==
  ASSUME IInv, NEW c \in Controllers
  PROVE  /\ Values(remote, local[c], work[c], proc[c])
         /\ Clone(c, remote, local[c], work[c], proc[c])
         /\ Stage(c, remote, local[c], work[c], proc[c])
         /\ Knows(c, remote, local[c], work[c], proc[c].batch, proc[c].pc)
         /\ Ordered(remote) /\ Ordered(local[c])
  <1>1. Values(remote, local[c], work[c], proc[c])
    BY DEF IInv, Typed, Values
  <1>2. Clone(c, remote, local[c], work[c], proc[c]) /\ Ordered(remote)
    BY DEF IInv
  <1> QED
    BY <1>1, <1>2 DEF Clone, Stage

LEMMA MovesKeep ==
  ASSUME IInv, NEW c \in Controllers, NEW r, NEW h, NEW w, NEW q, Values(r, h, w, q),
         Moves(c, r, h, w, q), Ordered(r), Extends(remote, r),
         \A i \in Len(remote) + 1 .. Len(r) : r[i].run = c,
         Clone(c, r, h, w, q)
  PROVE  IInv'
  <1>1. Typed
    BY DEF IInv
  <1>2. Typed'
    BY <1>1 DEF Typed, Moves, Values
  <1>3. Ordered(remote')
    BY DEF Moves
  <1>4. ASSUME NEW d \in Controllers
        PROVE  Clone(d, remote', local'[d], work'[d], proc'[d])
    <2>1. CASE d = c
      <3>1. local'[c] = h /\ work'[c] = w /\ proc'[c] = q /\ remote' = r
        BY <1>1 DEF Typed, Moves
      <3> QED
        BY <2>1, <3>1
    <2>2. CASE d # c
      <3>1. local'[d] = local[d] /\ work'[d] = work[d] /\ proc'[d] = proc[d] /\ remote' = r
        BY <1>1, <2>2 DEF Typed, Moves
      <3>2. /\ Values(remote, local[d], work[d], proc[d])
            /\ Clone(d, remote, local[d], work[d], proc[d])
        BY InvValues
      <3>3. \A i \in Len(remote) + 1 .. Len(r) : r[i].run # d
        BY <2>2
      <3>4. r \in Histories
        BY DEF Values
      <3>5. Clone(d, r, local[d], work[d], proc[d])
        BY <3>2, <3>3, <3>4, CloneRemote
      <3> QED
        BY <3>1, <3>5
    <2> QED
      BY <2>1, <2>2
  <1> QED
    BY <1>2, <1>3, <1>4 DEF IInv

(* The same, for a step that leaves the remote alone. *)
LEMMA MovesHere ==
  ASSUME IInv, NEW c \in Controllers, NEW h, NEW w, NEW q, Values(remote, h, w, q),
         Moves(c, remote, h, w, q), Clone(c, remote, h, w, q)
  PROVE  IInv'
  <1>1. remote \in Histories /\ Ordered(remote)
    BY DEF IInv, Typed
  <1>2. Len(remote) \in Nat
    BY <1>1, Positions
  <1>3. Extends(remote, remote) /\ \A i \in Len(remote) + 1 .. Len(remote) : remote[i].run = c
    BY <1>2 DEF Extends
  <1> QED
    BY <1>1, <1>3, MovesKeep

LEMMA IdleCommand ==
  Idle \in Commands /\ Idle.pc = "idle" /\ Idle.batch = None /\ Idle.said = None
  BY EmptySeq DEF Idle, Commands, Pcs, Batches, Histories

LEMMA IdleStage ==
  ASSUME NEW c, NEW r, NEW h, NEW w
  PROVE  Stage(c, r, h, w, Idle)
  BY IdleCommand DEF Stage, Knows

(* The last answer, if any, was not of a slot transition. *)
Untold(p) == p.said # None => p.said.step \notin SlotSteps

LEMMA NotTold ==
  ASSUME NEW c, NEW r, NEW h, NEW w, NEW p, Stage(c, r, h, w, p), p.pc # "loaded"
  PROVE  Untold(p)
  BY DEF Stage, Untold

LEMMA GotoStage ==
  ASSUME NEW c, NEW r \in Histories, NEW h, NEW w, NEW p \in Commands,
         Stage(c, r, h, w, p), Untold(p),
         NEW s \in Histories, NEW g, NEW v, Extends(r, s), NEW y \in Pcs,
         Knows(c, s, g, v, p.batch, y), NEW q, q = [p EXCEPT !.pc = y]
  PROVE  /\ q \in Commands /\ q.batch = p.batch /\ q.pc = y
         /\ Stage(c, s, g, v, q)
  <1>1. q \in Commands /\ q.batch = p.batch /\ q.pc = y /\ q.said = p.said
    BY DEF Commands
  <1>2. (\E i \in 1 .. Len(r) : r[i] = p.said) => \E i \in 1 .. Len(s) : s[i] = p.said
    BY Positions DEF Extends
  <1>3. Stage(c, s, g, v, q)
    BY <1>1, <1>2 DEF Stage, Untold
  <1> QED
    BY <1>1, <1>3

LEMMA AnswerStage ==
  ASSUME NEW c, NEW r, NEW h, NEW w, NEW k \in Commits,
         \E i \in 1 .. Len(r) : r[i] = k, k.step \in SlotSteps => Landed(h, c),
         NEW q, q = [Idle EXCEPT !.pc = "loaded", !.said = k]
  PROVE  q \in Commands /\ q.batch = None /\ Stage(c, r, h, w, q)
  <1>1. q \in Commands /\ q.batch = None /\ q.pc = "loaded" /\ q.said = k
    BY EmptySeq DEF Commands, Idle, Pcs, Batches, Histories
  <1> QED
    BY <1>1 DEF Stage, Knows

LEMMA GotoKeeps ==
  ASSUME IInv, NEW c \in Controllers, NEW y \in Pcs, Goto(c, y), Untold(proc[c]),
         UNCHANGED <<remote, local, work>>,
         Knows(c, remote, local[c], work[c], proc[c].batch, y)
  PROVE  IInv'
  <1>1. PICK q : q = [proc[c] EXCEPT !.pc = y]
    OBVIOUS
  <1>2. /\ Values(remote, local[c], work[c], proc[c])
        /\ Clone(c, remote, local[c], work[c], proc[c])
        /\ Stage(c, remote, local[c], work[c], proc[c])
    BY InvValues
  <1>3. remote \in Histories /\ proc[c] \in Commands /\ Extends(remote, remote)
    BY <1>2 DEF Values, Extends
  <1>4. q \in Commands /\ q.batch = proc[c].batch /\ Stage(c, remote, local[c], work[c], q)
    BY <1>1, <1>2, <1>3, GotoStage
  <1>5. Clone(c, remote, local[c], work[c], q)
    BY <1>2, <1>4, CloneProc
  <1>6. Moves(c, remote, local[c], work[c], q)
    BY <1>1 DEF Goto, Moves, IInv, Typed
  <1>7. Values(remote, local[c], work[c], q)
    BY <1>2, <1>4 DEF Values
  <1> QED
    BY <1>5, <1>6, <1>7, MovesHere

LEMMA AnswerKeeps ==
  ASSUME IInv, NEW c \in Controllers, NEW k \in Commits, Answer(c, k),
         \E i \in 1 .. Len(remote) : remote[i] = k,
         k.step \in SlotSteps => Landed(local[c], c)
  PROVE  IInv'
  <1>1. PICK q : q = [Idle EXCEPT !.pc = "loaded", !.said = k]
    OBVIOUS
  <1>2. /\ Values(remote, local[c], work[c], proc[c])
        /\ Clone(c, remote, local[c], work[c], proc[c])
    BY InvValues
  <1>3. q \in Commands /\ q.batch = None /\ Stage(c, remote, local[c], work[c], q)
    BY <1>1, AnswerStage
  <1>4. Clone(c, remote, local[c], work[c], q)
    BY <1>2, <1>3, CloneProc
  <1>5. Moves(c, remote, local[c], work[c], q)
    BY <1>1 DEF Answer, Moves, IInv, Typed
  <1>6. Values(remote, local[c], work[c], q)
    BY <1>2, <1>3 DEF Values
  <1> QED
    BY <1>4, <1>5, <1>6, MovesHere

LEMMA SubmitKeeps ==
  ASSUME IInv, NEW c \in Controllers, NEW b \in Commits, NEW y \in Pcs, Submit(c, b, y),
         b.run = c, b.step \in Projections, Source(remote, local[c], work[c], b, c),
         Knows(c, remote, local[c], work[c], b, y)
  PROVE  IInv'
  <1>1. PICK q : q = [Idle EXCEPT !.batch = b, !.pc = y]
    OBVIOUS
  <1>2. /\ Values(remote, local[c], work[c], proc[c])
        /\ Clone(c, remote, local[c], work[c], proc[c])
    BY InvValues
  <1>3. q \in Commands /\ q.batch = b /\ Stage(c, remote, local[c], work[c], q)
    <2>1. q \in Commands /\ q.batch = b /\ q.pc = y /\ q.said = None
      BY <1>1, EmptySeq DEF Commands, Idle, Batches, Histories
    <2> QED
      BY <2>1 DEF Stage
  <1>4. Clone(c, remote, local[c], work[c], q)
    BY <1>2, <1>3, CloneProc
  <1>5. Moves(c, remote, local[c], work[c], q)
    BY <1>1 DEF Submit, Moves, IInv, Typed
  <1>6. Values(remote, local[c], work[c], q)
    BY <1>2, <1>3 DEF Values
  <1> QED
    BY <1>4, <1>5, <1>6, MovesHere

(* The working set becomes the head. *)
LEMMA CommitKeeps ==
  ASSUME IInv, NEW c \in Controllers, DoCommit(c), work[c] # None,
         NEW q \in Commands, q.batch \in {None, proc[c].batch},
         proc' = [proc EXCEPT ![c] = q],
         NEW g, g = Append(local[c], work[c]), Stage(c, remote, g, None, q)
  PROVE  IInv'
  <1>1. /\ Values(remote, local[c], work[c], proc[c])
        /\ Clone(c, remote, local[c], work[c], proc[c])
    BY InvValues
  <1>2. work[c] \in Commits /\ work[c].run = c /\ Legal(local[c], work[c])
    BY <1>1 DEF Values, Batches, Clone
  <1>3. Clone(c, remote, g, None, q)
    BY <1>1, <1>2, CloneAppend
  <1>4. Moves(c, remote, g, None, q)
    BY DEF DoCommit, Moves
  <1>5. Values(remote, g, None, q)
    BY <1>1, <1>2, Appended DEF Values, Batches
  <1> QED
    BY <1>3, <1>4, <1>5, MovesHere

(* The remote takes over the clone's history. *)
LEMMA MeetKeeps ==
  ASSUME IInv, NEW c \in Controllers, IsPrefix(remote, local[c]),
         remote' = local[c], UNCHANGED <<local, work>>,
         NEW q \in Commands, q.batch \in {None, proc[c].batch},
         proc' = [proc EXCEPT ![c] = q],
         Stage(c, local[c], local[c], work[c], q)
  PROVE  IInv'
  <1>1. /\ Values(remote, local[c], work[c], proc[c])
        /\ Clone(c, remote, local[c], work[c], proc[c])
        /\ Ordered(local[c])
    BY InvValues
  <1>2. remote \in Histories /\ local[c] \in Histories
    BY <1>1 DEF Values
  <1>3. Extends(remote, local[c])
    BY <1>2, PrefixExtends
  <1>4. Clone(c, local[c], local[c], work[c], q)
    BY <1>1, <1>2, CloneMeets
  <1>5. PICK n \in Nat : Forked(c, remote, local[c], work[c], proc[c].batch, n)
    BY <1>1 DEF Clone
  <1>6. Len(remote) \in Nat /\ Len(local[c]) \in Nat
    BY <1>2, Positions
  <1>7. \A i \in Len(remote) + 1 .. Len(local[c]) : local[c][i].run = c
    BY <1>5, <1>6 DEF Forked
  <1>8. Moves(c, local[c], local[c], work[c], q)
    BY DEF Moves, IInv, Typed
  <1>9. Values(local[c], local[c], work[c], q)
    BY <1>1 DEF Values
  <1> QED
    BY <1>1, <1>3, <1>4, <1>7, <1>8, <1>9, MovesKeep

LEMMA PushKeeps ==
  ASSUME IInv, NEW c \in Controllers, NEW y \in Pcs, DoPush(c, y), Untold(proc[c]),
         Knows(c, local[c], local[c], work[c], proc[c].batch, y)
  PROVE  IInv'
  <1>1. /\ IsPrefix(remote, local[c]) /\ remote' = local[c] /\ UNCHANGED <<local, work>>
        /\ Goto(c, y) \/ proc' = [proc EXCEPT ![c] = Idle]
    BY DEF DoPush
  <1>2. /\ Values(remote, local[c], work[c], proc[c])
        /\ Stage(c, remote, local[c], work[c], proc[c])
    BY InvValues
  <1>3. remote \in Histories /\ local[c] \in Histories /\ proc[c] \in Commands
    BY <1>2 DEF Values
  <1>4. Extends(remote, local[c])
    BY <1>1, <1>3, PrefixExtends
  <1>5. CASE Goto(c, y)
    <2>1. PICK q : q = [proc[c] EXCEPT !.pc = y]
      OBVIOUS
    <2>2. q \in Commands /\ q.batch = proc[c].batch /\ Stage(c, local[c], local[c], work[c], q)
      BY <1>2, <1>3, <1>4, <2>1, GotoStage
    <2>3. proc' = [proc EXCEPT ![c] = q]
      BY <1>5, <2>1 DEF Goto
    <2> QED
      BY <1>1, <2>2, <2>3, MeetKeeps
  <1>6. CASE proc' = [proc EXCEPT ![c] = Idle]
    BY <1>1, <1>6, IdleCommand, IdleStage, MeetKeeps
  <1> QED
    BY <1>1, <1>5, <1>6

(* A change of the working set. *)
LEMMA WorkKeeps ==
  ASSUME IInv, NEW c \in Controllers, NEW k \in Batches,
         k # None => /\ k.run = c /\ Legal(local[c], k)
                     /\ k = proc[c].batch \/ k.step \in SlotSteps,
         UNCHANGED <<remote, local>>, work' = [work EXCEPT ![c] = k],
         NEW q \in Commands, q.batch \in {None, proc[c].batch},
         proc' = [proc EXCEPT ![c] = q], Stage(c, remote, local[c], k, q)
  PROVE  IInv'
  <1>1. /\ Values(remote, local[c], work[c], proc[c])
        /\ Clone(c, remote, local[c], work[c], proc[c])
    BY InvValues
  <1>2. Clone(c, remote, local[c], k, q)
    BY <1>1, CloneWork
  <1>3. Moves(c, remote, local[c], k, q)
    BY DEF Moves, IInv, Typed
  <1>4. Values(remote, local[c], k, q)
    BY <1>1 DEF Values
  <1> QED
    BY <1>2, <1>3, <1>4, MovesHere

-----------------------------------------------------------------------------
(* Loading, planning and submitting.                                       *)

LEMMA CommitGotoKeeps ==
  ASSUME IInv, NEW c \in Controllers, NEW y \in Pcs, DoCommit(c), Goto(c, y),
         Untold(proc[c]), work[c] # None, NEW g, g = Append(local[c], work[c]),
         Knows(c, remote, g, None, proc[c].batch, y)
  PROVE  IInv'
  <1>1. PICK q : q = [proc[c] EXCEPT !.pc = y]
    OBVIOUS
  <1>2. /\ Values(remote, local[c], work[c], proc[c])
        /\ Stage(c, remote, local[c], work[c], proc[c])
    BY InvValues
  <1>3. remote \in Histories /\ proc[c] \in Commands /\ Extends(remote, remote)
    BY <1>2 DEF Values, Extends
  <1>4. q \in Commands /\ q.batch = proc[c].batch /\ Stage(c, remote, g, None, q)
    BY <1>1, <1>2, <1>3, GotoStage
  <1>5. proc' = [proc EXCEPT ![c] = q]
    BY <1>1 DEF Goto
  <1> QED
    BY <1>4, <1>5, CommitKeeps

LEMMA WorkGotoKeeps ==
  ASSUME IInv, NEW c \in Controllers, NEW y \in Pcs, Goto(c, y), Untold(proc[c]),
         UNCHANGED <<remote, local>>, NEW k \in Commits, work' = [work EXCEPT ![c] = k],
         k.run = c, Legal(local[c], k), k = proc[c].batch \/ k.step \in SlotSteps,
         Knows(c, remote, local[c], k, proc[c].batch, y)
  PROVE  IInv'
  <1>1. PICK q : q = [proc[c] EXCEPT !.pc = y]
    OBVIOUS
  <1>2. /\ Values(remote, local[c], work[c], proc[c])
        /\ Stage(c, remote, local[c], work[c], proc[c])
    BY InvValues
  <1>3. remote \in Histories /\ proc[c] \in Commands /\ Extends(remote, remote)
    BY <1>2 DEF Values, Extends
  <1>4. q \in Commands /\ q.batch = proc[c].batch /\ Stage(c, remote, local[c], k, q)
    BY <1>1, <1>2, <1>3, GotoStage
  <1>5. proc' = [proc EXCEPT ![c] = q] /\ k \in Batches
    BY <1>1 DEF Goto, Batches
  <1> QED
    BY <1>4, <1>5, WorkKeeps

LEMMA LoadKeeps ==
  ASSUME IInv, NEW c \in Controllers, Load(c)
  PROVE  IInv'
  <1>1. /\ proc[c].pc = "idle" /\ Goto(c, "loaded") /\ UNCHANGED <<remote, local, work>>
        /\ "loaded" \in Pcs
    BY DEF Load, At, Pcs
  <1>2. Untold(proc[c])
    BY <1>1, InvValues, NotTold
  <1>3. Knows(c, remote, local[c], work[c], proc[c].batch, "loaded")
    BY DEF Knows
  <1> QED
    BY <1>1, <1>2, <1>3, GotoKeeps

LEMMA LoadSettlesKeeps ==
  ASSUME IInv, NEW c \in Controllers, LoadSettles(c)
  PROVE  IInv'
  <1>1. /\ proc[c].pc = "idle" /\ Goto(c, "settling") /\ DoCommit(c) /\ "settling" \in Pcs
        /\ work[c] # None /\ work[c].step \in Projections
    BY DEF LoadSettles, Settles, At, Pcs
  <1>2. Untold(proc[c])
    BY <1>1, InvValues, NotTold
  <1>3. PICK g : g = Append(local[c], work[c])
    OBVIOUS
  <1>4. local[c] \in Histories /\ work[c] \in Commits
    BY <1>1, InvValues DEF Values, Batches
  <1>5. g # <<>> /\ Last(g) = work[c]
    <2>1. PICK h \in Histories, k \in Commits : h = local[c] /\ k = work[c]
      BY <1>4
    <2>2. g = Append(h, k)
      BY <1>3, <2>1
    <2>3. g \in Histories /\ Len(g) = Len(h) + 1 /\ Last(g) = k
      BY <2>2, Appended
    <2> QED
      BY <2>1, <2>3, Positions
  <1>6. Knows(c, remote, g, None, proc[c].batch, "settling")
    BY <1>1, <1>5 DEF Knows
  <1> QED
    BY <1>1, <1>2, <1>3, <1>6, CommitGotoKeeps

LEMMA SettlePushKeeps ==
  ASSUME IInv, NEW c \in Controllers, SettlePush(c)
  PROVE  IInv'
  <1>1. proc[c].pc = "settling" /\ DoPush(c, "settled") /\ "settled" \in Pcs
    BY DEF SettlePush, At, Pcs
  <1>2. Untold(proc[c])
    BY <1>1, InvValues, NotTold
  <1>3. Knows(c, local[c], local[c], work[c], proc[c].batch, "settled")
    BY <1>1, InvValues DEF Knows
  <1> QED
    BY <1>1, <1>2, <1>3, PushKeeps

(* The newest commit of a synchronised clone is published. *)
LEMMA LastPublished ==
  ASSUME NEW h \in Histories, h # <<>>
  PROVE  Last(h) \in Commits /\ \E i \in 1 .. Len(h) : h[i] = Last(h)
  BY Positions DEF Last

LEMMA RootSteps ==
  ASSUME NEW s \in Projections
  PROVE  s \notin SlotSteps
  BY DEF Projections, SlotSteps

LEMMA SettleConfirmKeeps ==
  ASSUME IInv, NEW c \in Controllers, SettleConfirm(c)
  PROVE  IInv'
  <1>1. proc[c].pc = "settled" /\ remote = local[c] /\ Answer(c, Last(local[c]))
    BY DEF SettleConfirm, At, InSync
  <1>2. local[c] # <<>> /\ Last(local[c]).step \in Projections /\ local[c] \in Histories
    BY <1>1, InvValues DEF Knows, Values
  <1>3. PICK k : k = Last(local[c])
    OBVIOUS
  <1>4. k \in Commits /\ \E i \in 1 .. Len(remote) : remote[i] = k
    BY <1>1, <1>2, <1>3, LastPublished
  <1>5. k.step \notin SlotSteps
    BY <1>2, <1>3, RootSteps
  <1> QED
    BY <1>1, <1>3, <1>4, <1>5, AnswerKeeps

LEMMA CommitFields ==
  ASSUME NEW c \in Controllers, NEW s \in SlotSteps \cup Projections, NEW at \in Nat,
         NEW k, k = Commit(c, s, at)
  PROVE  k \in Commits /\ k.run = c /\ k.step = s /\ k.at = at /\ k # None
  <1>1. k \in Commits /\ k.run = c /\ k.step = s /\ k.at = at
    BY DEF Commit, Commits
  <1> QED
    BY <1>1, NoneApart

LEMMA PlanAcquireKeeps ==
  ASSUME IInv, NEW c \in Controllers, PlanAcquire(c)
  PROVE  IInv'
  <1>1. /\ Phase(local[c], c) = "absent" /\ remote = local[c]
        /\ Submit(c, Commit(c, "intent", Len(local[c])), "planned")
        /\ "planned" \in Pcs /\ "intent" \in Projections
    BY DEF PlanAcquire, InSync, Pcs, Projections
  <1>2. local[c] \in Histories /\ Len(local[c]) \in Nat
    BY InvValues, Positions DEF Values
  <1>3. PICK b : b = Commit(c, "intent", Len(local[c]))
    OBVIOUS
  <1>4. b \in Commits /\ b.run = c /\ b.step = "intent" /\ b.at = Len(local[c]) /\ b # None
    BY <1>1, <1>2, <1>3, CommitFields
  <1>5. Source(remote, local[c], work[c], b, c)
    BY <1>1, <1>2, <1>4 DEF Source
  <1>6. Writable(local[c], b)
    BY <1>1, <1>4 DEF Writable, Fits
  <1>7. Knows(c, remote, local[c], work[c], b, "planned")
    BY <1>4, <1>6 DEF Knows
  <1> QED
    BY <1>1, <1>3, <1>4, <1>5, <1>7, SubmitKeeps

LEMMA PlanReleaseKeeps ==
  ASSUME IInv, NEW c \in Controllers, PlanRelease(c)
  PROVE  IInv'
  <1>1. /\ Phase(local[c], c) \in {"owned", "work"} /\ remote = local[c]
        /\ Submit(c, Commit(c, "closing", Len(local[c])), "planned")
        /\ "planned" \in Pcs /\ "closing" \in Projections
    BY DEF PlanRelease, InSync, Pcs, Projections
  <1>2. local[c] \in Histories /\ Len(local[c]) \in Nat
    BY InvValues, Positions DEF Values
  <1>3. PICK b : b = Commit(c, "closing", Len(local[c]))
    OBVIOUS
  <1>4. b \in Commits /\ b.run = c /\ b.step = "closing" /\ b.at = Len(local[c]) /\ b # None
    BY <1>1, <1>2, <1>3, CommitFields
  <1>5. Source(remote, local[c], work[c], b, c)
    BY <1>1, <1>2, <1>4 DEF Source
  <1>6. Writable(local[c], b)
    BY <1>1, <1>4 DEF Writable, Fits
  <1>7. Knows(c, remote, local[c], work[c], b, "planned")
    BY <1>4, <1>6 DEF Knows
  <1> QED
    BY <1>1, <1>3, <1>4, <1>5, <1>7, SubmitKeeps

LEMMA PlanConfirmKeeps ==
  ASSUME IInv, NEW c \in Controllers, PlanConfirm(c)
  PROVE  IInv'
  <1>1. /\ proc[c].pc = "planned" /\ Goto(c, "write") /\ UNCHANGED <<remote, local, work>>
        /\ "write" \in Pcs
    BY DEF PlanConfirm, At, Pcs
  <1>2. Untold(proc[c])
    BY <1>1, InvValues, NotTold
  <1>3. Knows(c, remote, local[c], work[c], proc[c].batch, "write")
    BY <1>1, InvValues DEF Knows
  <1> QED
    BY <1>1, <1>2, <1>3, GotoKeeps

LEMMA ToldLanded ==
  ASSUME IInv, NEW c \in Controllers, Told(c)
  PROVE  Landed(local[c], c)
  <1>1. proc[c].said # None /\ proc[c].said.step \in SlotSteps
    BY DEF Told, IsSlotStep
  <1>2. Stage(c, remote, local[c], work[c], proc[c])
    BY InvValues
  <1> QED
    BY <1>1, <1>2 DEF Stage

LEMMA WriteNextKeeps ==
  ASSUME IInv, NEW c \in Controllers, WriteNext(c)
  PROVE  IInv'
  <1>0. local[c] \in Histories /\ "write" \in Pcs /\ 0 \in Nat
        /\ {"work", "owned", "released"} \subseteq Projections
    BY InvValues DEF Values, Pcs, Projections
  <1>1. ASSUME NEW s \in {"work", "owned", "released"}, Submit(c, Commit(c, s, 0), "write"),
               \A b : b.run = c /\ b.step = s => Fits(local[c], b)
        PROVE  IInv'
    <2>1. PICK b : b = Commit(c, s, 0)
      OBVIOUS
    <2>2. s \in SlotSteps \cup Projections /\ s \in Projections
      BY <1>0
    <2>3. b \in Commits /\ b.run = c /\ b.step = s /\ b # None
      BY <1>0, <2>1, <2>2, CommitFields
    <2>4. Writable(local[c], b)
      BY <1>1, <2>3 DEF Writable
    <2>5. Knows(c, remote, local[c], work[c], b, "write")
      BY <2>3, <2>4 DEF Knows
    <2>6. Source(remote, local[c], work[c], b, c)
      BY <2>3 DEF Source, Transitions
    <2> QED
      BY <1>0, <1>1, <2>1, <2>2, <2>3, <2>5, <2>6, SubmitKeeps
  <1>2. CASE Phase(local[c], c) = "owned" /\ Submit(c, Commit(c, "work", 0), "write")
    <2>1. \A b : b.run = c /\ b.step = "work" => Fits(local[c], b)
      BY <1>2 DEF Fits
    <2> QED
      BY <1>1, <1>2, <2>1
  <1>3. CASE /\ Phase(local[c], c) \in Transitions /\ Told(c)
             /\ Submit(c, Commit(c, IF Kind(c) = "acquire" THEN "owned" ELSE "released", 0), "write")
    <2>1. Landed(local[c], c) /\ DOMAIN local[c] = 1 .. Len(local[c])
      BY <1>0, <1>3, ToldLanded, Positions
    <2>2. CASE Phase(local[c], c) = "intent"
      <3>1. \A b : b.run = c /\ b.step = "owned" => Fits(local[c], b)
        BY <2>2 DEF Fits
      <3>2. Submit(c, Commit(c, "owned", 0), "write")
        BY <1>3, <2>2 DEF Kind
      <3> QED
        BY <1>1, <3>1, <3>2
    <2>3. CASE Phase(local[c], c) = "closing"
      <3>1. \E i \in DOMAIN local[c] : local[c][i] = Commit(c, "release", 0)
        BY <2>1, <2>3 DEF Landed, Turn
      <3>2. \A b : b.run = c /\ b.step = "released" => Fits(local[c], b)
        BY <2>3, <3>1 DEF Fits
      <3>3. Submit(c, Commit(c, "released", 0), "write")
        BY <1>3, <2>3 DEF Kind
      <3> QED
        BY <1>1, <3>2, <3>3
    <2> QED
      BY <1>3, <2>2, <2>3 DEF Transitions
  <1> QED
    BY <1>2, <1>3 DEF WriteNext

LEMMA RowFacts ==
  ASSUME NEW h \in Histories, NEW c, Newest(h, {c}, Projections) > 0
  PROVE  /\ Row(h, c) \in Commits /\ Row(h, c).run = c /\ Row(h, c).step \in Projections
         /\ \E i \in 1 .. Len(h) : h[i] = Row(h, c)
  <1>1. PICK p : p = Newest(h, {c}, Projections)
    OBVIOUS
  <1>2. p \in 0 .. Len(h) /\ p > 0 /\ Match(h, p, {c}, Projections)
    BY <1>1, NewestFacts
  <1>3. p \in 1 .. Len(h) /\ Row(h, c) = h[p]
    BY <1>1, <1>2, Positions DEF Row
  <1> QED
    BY <1>2, <1>3, Positions DEF Match

LEMMA ResubmitKeeps ==
  ASSUME IInv, NEW c \in Controllers, Resubmit(c)
  PROVE  IInv'
  <1>1. /\ Phase(local[c], c) # "absent" /\ Submit(c, Row(local[c], c), "write")
        /\ "write" \in Pcs /\ local[c] \in Histories
    BY InvValues DEF Resubmit, Pcs, Values
  <1>2. Newest(local[c], {c}, Projections) > 0
    BY <1>1, PhaseCases
  <1>3. PICK b : b = Row(local[c], c)
    OBVIOUS
  <1>4. /\ b \in Commits /\ b.run = c /\ b.step \in Projections
        /\ \E i \in 1 .. Len(local[c]) : local[c][i] = b
    BY <1>1, <1>2, <1>3, RowFacts
  <1>5. Writable(local[c], b) /\ b # None
    BY <1>2, <1>3, <1>4, NoneApart DEF Writable
  <1>6. Source(remote, local[c], work[c], b, c)
    BY <1>4 DEF Source
  <1>7. Knows(c, remote, local[c], work[c], b, "write")
    BY <1>5 DEF Knows
  <1> QED
    BY <1>1, <1>3, <1>4, <1>6, <1>7, SubmitKeeps

LEMMA RowsCounted ==
  ASSUME NEW h \in Histories, NEW c
  PROVE  Cardinality(Rows(h, c)) \in Nat
  <1>1. Len(h) \in Nat /\ Rows(h, c) \subseteq 1 .. Len(h)
    BY Positions DEF Rows
  <1>2. IsFiniteSet(1 .. Len(h))
    BY <1>1, FS_Interval
  <1> QED
    BY <1>1, <1>2, FS_Subset, FS_CardinalityType

LEMMA UnsureKeeps ==
  ASSUME IInv, NEW c \in Controllers, Unsure(c)
  PROVE  IInv'
  <1>1. /\ Phase(local[c], c) \in Transitions
        /\ Submit(c, Commit(c, "noted", Cardinality(Rows(local[c], c))), "write")
        /\ "write" \in Pcs /\ "noted" \in Projections /\ local[c] \in Histories
    BY InvValues DEF Unsure, Pcs, Projections, Values
  <1>2. Cardinality(Rows(local[c], c)) \in Nat
    BY <1>1, RowsCounted
  <1>3. PICK b : b = Commit(c, "noted", Cardinality(Rows(local[c], c)))
    OBVIOUS
  <1>4. b \in Commits /\ b.run = c /\ b.step = "noted" /\ b # None
    BY <1>1, <1>2, <1>3, CommitFields
  <1>5. Writable(local[c], b)
    BY <1>1, <1>4 DEF Writable, Fits
  <1>6. Source(remote, local[c], work[c], b, c)
    BY <1>4 DEF Source, Transitions
  <1>7. Knows(c, remote, local[c], work[c], b, "write")
    BY <1>4, <1>5 DEF Knows
  <1> QED
    BY <1>1, <1>3, <1>4, <1>6, <1>7, SubmitKeeps

-----------------------------------------------------------------------------
(* Writing.                                                                *)

LEMMA PullKeeps ==
  ASSUME IInv, NEW c \in Controllers, Pull(c)
  PROVE  IInv'
  <1>1. /\ proc[c].pc \in {"write", "pull"} /\ work[c] = None /\ IsPrefix(local[c], remote)
        /\ UNCHANGED <<remote, local, work>>
        /\ {"pulled", "pulling"} \subseteq Pcs
    BY DEF Pull, Clean, Pcs
  <1>2. /\ Values(remote, local[c], work[c], proc[c])
        /\ Clone(c, remote, local[c], work[c], proc[c])
        /\ Stage(c, remote, local[c], work[c], proc[c])
        /\ Knows(c, remote, local[c], work[c], proc[c].batch, proc[c].pc)
    BY InvValues
  <1>3. remote \in Histories /\ local[c] \in Histories /\ proc[c] \in Commands
    BY <1>2 DEF Values
  <1>4. Extends(local[c], remote)
    BY <1>1, <1>3, PrefixExtends
  <1>5. PICK s, y : /\ s = IF remote = local[c] THEN <<>> ELSE remote
                    /\ y = IF remote = local[c] THEN "pulled" ELSE "pulling"
    OBVIOUS
  <1>6. s \in Histories /\ y \in {"pulled", "pulling"}
    BY <1>3, <1>5, EmptySeq DEF Histories
  <1>7. PICK q : q = [proc[c] EXCEPT !.seen = s, !.pc = y]
    OBVIOUS
  <1>8. /\ q \in Commands /\ q.batch = proc[c].batch /\ q.pc = y /\ q.said = proc[c].said
    BY <1>1, <1>3, <1>6, <1>7 DEF Commands
  <1>9. Untold(proc[c])
    BY <1>1, <1>2, NotTold
  <1>10. Knows(c, remote, local[c], work[c], proc[c].batch, y)
    BY <1>1, <1>2, <1>4, <1>6 DEF Knows
  <1>11. Stage(c, remote, local[c], work[c], q)
    BY <1>2, <1>8, <1>9, <1>10 DEF Stage, Untold
  <1>12. Clone(c, remote, local[c], work[c], q)
    BY <1>2, <1>8, <1>11, CloneProc
  <1>13. proc' = [proc EXCEPT ![c] = q]
    BY <1>5, <1>7 DEF Pull, IInv, Typed
  <1>14. Moves(c, remote, local[c], work[c], q)
    BY <1>1, <1>13 DEF Moves, IInv, Typed
  <1>15. Values(remote, local[c], work[c], q)
    BY <1>2, <1>8 DEF Values
  <1> QED
    BY <1>12, <1>14, <1>15, MovesHere

LEMMA PullApplyKeeps ==
  ASSUME IInv, NEW c \in Controllers, PullApply(c)
  PROVE  IInv'
  <1>1. /\ proc[c].pc = "pulling" /\ local' = [local EXCEPT ![c] = remote]
        /\ UNCHANGED <<remote, work>> /\ "pulled" \in Pcs
    BY DEF PullApply, At, Pcs
  <1>2. /\ Values(remote, local[c], work[c], proc[c])
        /\ Clone(c, remote, local[c], work[c], proc[c])
        /\ Stage(c, remote, local[c], work[c], proc[c])
        /\ Knows(c, remote, local[c], work[c], proc[c].batch, proc[c].pc)
        /\ Ordered(remote)
    BY InvValues
  <1>3. remote \in Histories /\ local[c] \in Histories /\ proc[c] \in Commands
    BY <1>2 DEF Values
  <1>4. /\ work[c] = None /\ Extends(local[c], remote)
        /\ proc[c].batch # None /\ Writable(local[c], proc[c].batch)
    BY <1>1, <1>2 DEF Knows
  <1>5. ASSUME NEW q \in Commands, q.batch \in {None, proc[c].batch},
               proc' = [proc EXCEPT ![c] = q], Stage(c, remote, remote, work[c], q)
        PROVE  IInv'
    <2>1. Clone(c, remote, remote, work[c], q)
      BY <1>2, <1>3, <1>4, <1>5, CloneMeets
    <2>2. Moves(c, remote, remote, work[c], q)
      BY <1>1, <1>5 DEF Moves, IInv, Typed
    <2>3. Values(remote, remote, work[c], q)
      BY <1>2, <1>5 DEF Values
    <2> QED
      BY <2>1, <2>2, <2>3, MovesHere
  <1>6. CASE proc' = [proc EXCEPT ![c] = Idle]
    BY <1>5, <1>6, IdleCommand, IdleStage
  <1>7. CASE proc' = [proc EXCEPT ![c].pc = "pulled", ![c].seen = <<>>]
    <2>1. PICK q : q = [proc[c] EXCEPT !.pc = "pulled", !.seen = <<>>]
      OBVIOUS
    <2>2. q \in Commands /\ q.batch = proc[c].batch /\ q.pc = "pulled" /\ q.said = proc[c].said
      BY <1>1, <1>3, <2>1, EmptySeq DEF Commands, Histories
    <2>3. proc' = [proc EXCEPT ![c] = q]
      BY <1>7, <2>1 DEF IInv, Typed
    <2>4. Aside(local[c], remote, c)
      <3>1. PICK n \in Nat : Forked(c, remote, local[c], work[c], proc[c].batch, n)
        BY <1>2 DEF Clone
      <3>2. Len(remote) \in Nat /\ Len(local[c]) \in Nat
        BY <1>3, Positions
      <3>3. \A i \in Len(local[c]) + 1 .. Len(remote) : remote[i].run # c
        BY <3>1, <3>2 DEF Forked
      <3> QED
        BY <1>4, <3>3 DEF Aside, Match
    <2>5. proc[c].batch.run = c
      BY <1>2, <1>4 DEF Stage
    <2>6. Writable(remote, proc[c].batch)
      BY <1>3, <1>4, <2>4, <2>5, WritableKept
    <2>7. Knows(c, remote, remote, work[c], proc[c].batch, "pulled")
      BY <1>4, <2>6 DEF Knows
    <2>8. Untold(proc[c])
      BY <1>1, <1>2, NotTold
    <2>9. Stage(c, remote, remote, work[c], q)
      BY <1>2, <2>2, <2>7, <2>8 DEF Stage, Untold
    <2> QED
      BY <1>5, <2>2, <2>3, <2>9
  <1> QED
    BY <1>6, <1>7 DEF PullApply

(* What the invariant says of a command with a batch. *)
LEMMA BatchFacts ==
  ASSUME IInv, NEW c \in Controllers, proc[c].batch # None
  PROVE  /\ proc[c].batch \in Commits /\ proc[c].batch.run = c
         /\ proc[c].batch.step \in Projections /\ proc[c].batch.step \notin SlotSteps
  <1>1. /\ Values(remote, local[c], work[c], proc[c])
        /\ Stage(c, remote, local[c], work[c], proc[c])
    BY InvValues
  <1>2. proc[c].batch \in Batches
    BY <1>1, CommandTyped DEF Values
  <1> QED
    BY <1>1, <1>2, RootSteps DEF Stage, Batches

LEMMA InitializeKeeps ==
  ASSUME IInv, NEW c \in Controllers, Initialize(c)
  PROVE  IInv'
  <1>1. /\ proc[c].pc = "pulled" /\ proc[c].batch.step = "intent"
        /\ Slot(local[c]) = None /\ Phase(local[c], c) = "absent"
        /\ work' = [work EXCEPT ![c] = proc[c].batch] /\ Goto(c, "initialized")
        /\ UNCHANGED <<remote, local>> /\ "initialized" \in Pcs
    BY DEF Initialize, At, Pcs
  <1>2. Knows(c, remote, local[c], work[c], proc[c].batch, proc[c].pc)
    BY InvValues
  <1>3. proc[c].batch # None
    BY <1>1, <1>2 DEF Knows
  <1>4. proc[c].batch \in Commits /\ proc[c].batch.run = c
    BY <1>3, BatchFacts
  <1>5. Legal(local[c], proc[c].batch)
    BY <1>1, <1>4 DEF Legal
  <1>6. Knows(c, remote, local[c], proc[c].batch, proc[c].batch, "initialized")
    BY <1>3 DEF Knows
  <1>7. Untold(proc[c])
    BY <1>1, InvValues, NotTold
  <1> QED
    BY <1>1, <1>4, <1>5, <1>6, <1>7, WorkGotoKeeps

LEMMA CommittedKeeps ==
  ASSUME IInv, NEW c \in Controllers, proc[c].pc # "loaded", DoCommit(c),
         Goto(c, "committed"), work[c] # None, proc[c].batch # None
  PROVE  IInv'
  <1>1. PICK g : g = Append(local[c], work[c])
    OBVIOUS
  <1>2. Knows(c, remote, g, None, proc[c].batch, "committed")
    BY DEF Knows
  <1>3. Untold(proc[c]) /\ "committed" \in Pcs
    BY InvValues, NotTold DEF Pcs
  <1> QED
    BY <1>1, <1>2, <1>3, CommitGotoKeeps

LEMMA InitialCommitKeeps ==
  ASSUME IInv, NEW c \in Controllers, InitialCommit(c)
  PROVE  IInv'
  <1>1. proc[c].pc = "initialized" /\ DoCommit(c) /\ Goto(c, "committed")
    BY DEF InitialCommit, At
  <1>2. proc[c].batch # None /\ work[c] # None
    BY <1>1, InvValues DEF Knows
  <1> QED
    BY <1>1, <1>2, CommittedKeeps

LEMMA CommitBatchKeeps ==
  ASSUME IInv, NEW c \in Controllers, CommitBatch(c)
  PROVE  IInv'
  <1>1. proc[c].pc = "mutated" /\ DoCommit(c) /\ Goto(c, "committed")
    BY DEF CommitBatch, At
  <1>2. proc[c].batch # None /\ work[c] # None
    BY <1>1, InvValues DEF Knows
  <1> QED
    BY <1>1, <1>2, CommittedKeeps

LEMMA WritePendingKeeps ==
  ASSUME IInv, NEW c \in Controllers, WritePending(c)
  PROVE  IInv'
  <1>1. proc[c].pc = "write" /\ DoCommit(c) /\ Goto(c, "committed") /\ work[c] # None
    BY DEF WritePending, At
  <1>2. proc[c].batch # None
    BY <1>1, InvValues DEF Knows
  <1> QED
    BY <1>1, <1>2, CommittedKeeps

LEMMA WriteAheadKeeps ==
  ASSUME IInv, NEW c \in Controllers, WriteAhead(c)
  PROVE  IInv'
  <1>1. /\ proc[c].pc = "write" /\ Goto(c, "committed") /\ UNCHANGED <<remote, local, work>>
        /\ "committed" \in Pcs
    BY DEF WriteAhead, At, Pcs
  <1>2. Untold(proc[c])
    BY <1>1, InvValues, NotTold
  <1>3. Knows(c, remote, local[c], work[c], proc[c].batch, "committed")
    BY <1>1, InvValues DEF Knows
  <1> QED
    BY <1>1, <1>2, <1>3, GotoKeeps

LEMMA PublishAheadKeeps ==
  ASSUME IInv, NEW c \in Controllers, PublishAhead(c)
  PROVE  IInv'
  <1>1. /\ proc[c].pc = "write" /\ Goto(c, "republish") /\ UNCHANGED <<remote, local, work>>
        /\ "republish" \in Pcs
    BY DEF PublishAhead, At, Pcs
  <1>2. Untold(proc[c])
    BY <1>1, InvValues, NotTold
  <1>3. Knows(c, remote, local[c], work[c], proc[c].batch, "republish")
    BY <1>1, InvValues DEF Knows
  <1> QED
    BY <1>1, <1>2, <1>3, GotoKeeps

LEMMA RepublishKeeps ==
  ASSUME IInv, NEW c \in Controllers, Republish(c)
  PROVE  IInv'
  <1>1. proc[c].pc = "republish" /\ DoPush(c, "pull") /\ "pull" \in Pcs
    BY DEF Republish, At, Pcs
  <1>2. Untold(proc[c])
    BY <1>1, InvValues, NotTold
  <1>3. Knows(c, local[c], local[c], work[c], proc[c].batch, "pull")
    BY <1>1, InvValues DEF Knows
  <1> QED
    BY <1>1, <1>2, <1>3, PushKeeps

LEMMA WritableMade ==
  ASSUME NEW h \in Histories, NEW k, Writable(h, k), k.step # "intent"
  PROVE  h # <<>>
  <1>1. Fits(h, k) => Phase(h, k.run) # "absent"
    BY DEF Fits, Transitions
  <1>2. Newest(h, {k.run}, Projections) > 0
    BY <1>1, PhaseCases DEF Writable
  <1>3. Len(h) > 0
    BY <1>2, NewestFacts, Positions
  <1> QED
    BY <1>3, Positions

LEMMA MutateKeeps ==
  ASSUME IInv, NEW c \in Controllers, Mutate(c)
  PROVE  IInv'
  <1>1. /\ proc[c].pc = "pulled" /\ proc[c].batch.step # "intent"
        /\ Admits(local[c], c, proc[c].batch.step)
        /\ UNCHANGED <<remote, local>>
        /\ {"stale", "mutated"} \subseteq Pcs /\ local[c] \in Histories
    BY InvValues DEF Mutate, At, Pcs, Values
  <1>2. Untold(proc[c])
    BY <1>1, InvValues, NotTold
  <1>3. proc[c].batch # None /\ Writable(local[c], proc[c].batch)
    BY <1>1, InvValues DEF Knows
  <1>4. proc[c].batch \in Commits /\ proc[c].batch.run = c
    BY <1>3, BatchFacts
  <1>5. CASE Row(local[c], c) = proc[c].batch
    <2>1. Goto(c, "stale") /\ UNCHANGED work
      BY <1>5 DEF Mutate
    <2>2. local[c] # <<>>
      BY <1>1, <1>3, WritableMade
    <2>3. Knows(c, remote, local[c], work[c], proc[c].batch, "stale")
      BY <1>3, <2>2 DEF Knows
    <2> QED
      BY <1>1, <1>2, <2>1, <2>3, GotoKeeps
  <1>6. CASE Row(local[c], c) # proc[c].batch
    <2>1. Goto(c, "mutated") /\ work' = [work EXCEPT ![c] = proc[c].batch]
      BY <1>6 DEF Mutate
    <2>2. Fits(local[c], proc[c].batch)
      BY <1>3, <1>4, <1>6 DEF Writable
    <2>3. Legal(local[c], proc[c].batch)
      BY <1>1, <1>4, <2>2, RootLegal
    <2>4. Knows(c, remote, local[c], proc[c].batch, proc[c].batch, "mutated")
      BY <1>3 DEF Knows
    <2> QED
      BY <1>1, <1>2, <1>4, <2>1, <2>3, <2>4, WorkGotoKeeps
  <1> QED
    BY <1>5, <1>6

LEMMA BatchConfirmed ==
  ASSUME IInv, NEW c \in Controllers, proc[c].batch # None, local[c] # <<>>,
         Last(local[c]) = proc[c].batch, remote = local[c], Answer(c, proc[c].batch)
  PROVE  IInv'
  <1>1. local[c] \in Histories
    BY InvValues DEF Values
  <1>2. proc[c].batch \in Commits /\ proc[c].batch.step \notin SlotSteps
    BY BatchFacts
  <1>3. \E i \in 1 .. Len(remote) : remote[i] = proc[c].batch
    BY <1>1, LastPublished
  <1> QED
    BY <1>2, <1>3, AnswerKeeps

LEMMA StaleConfirmKeeps ==
  ASSUME IInv, NEW c \in Controllers, StaleConfirm(c)
  PROVE  IInv'
  <1>1. /\ proc[c].pc = "stale" /\ remote = local[c] /\ Last(local[c]) = proc[c].batch
        /\ Answer(c, proc[c].batch)
    BY DEF StaleConfirm, At, InSync
  <1>2. proc[c].batch # None /\ local[c] # <<>>
    BY <1>1, InvValues DEF Knows
  <1> QED
    BY <1>1, <1>2, BatchConfirmed

LEMMA ProvePushKeeps ==
  ASSUME IInv, NEW c \in Controllers, ProvePush(c)
  PROVE  IInv'
  <1>1. /\ proc[c].pc = "committed" /\ Goto(c, "push") /\ UNCHANGED <<remote, local, work>>
        /\ "push" \in Pcs /\ local[c] # <<>> /\ Last(local[c]) = proc[c].batch
    BY DEF ProvePush, AheadByOne, At, Pcs
  <1>2. Untold(proc[c])
    BY <1>1, InvValues, NotTold
  <1>3. Knows(c, remote, local[c], work[c], proc[c].batch, "push")
    BY <1>1, InvValues DEF Knows
  <1> QED
    BY <1>1, <1>2, <1>3, GotoKeeps

LEMMA PushBatchKeeps ==
  ASSUME IInv, NEW c \in Controllers, PushBatch(c)
  PROVE  IInv'
  <1>1. proc[c].pc = "push" /\ DoPush(c, "confirm") /\ "confirm" \in Pcs
    BY DEF PushBatch, At, Pcs
  <1>2. Untold(proc[c])
    BY <1>1, InvValues, NotTold
  <1>3. Knows(c, local[c], local[c], work[c], proc[c].batch, "confirm")
    BY <1>1, InvValues DEF Knows
  <1> QED
    BY <1>1, <1>2, <1>3, PushKeeps

LEMMA ConfirmBatchKeeps ==
  ASSUME IInv, NEW c \in Controllers, ConfirmBatch(c)
  PROVE  IInv'
  <1>1. proc[c].pc = "confirm" /\ remote = local[c] /\ Answer(c, proc[c].batch)
    BY DEF ConfirmBatch, At, InSync
  <1>2. proc[c].batch # None /\ local[c] # <<>> /\ Last(local[c]) = proc[c].batch
    BY <1>1, InvValues DEF Knows
  <1> QED
    BY <1>1, <1>2, BatchConfirmed

-----------------------------------------------------------------------------
(* The slot transitions, the end of a command and the operator.            *)

LEMMA KindFacts ==
  ASSUME NEW c \in Controllers
  PROVE  /\ Kind(c) \in SlotSteps /\ Commit(c, Kind(c), 0) = Turn(local[c], c)
         /\ Commit(c, Kind(c), 0) \in Commits
         /\ Commit(c, Kind(c), 0).run = c /\ Commit(c, Kind(c), 0).step = Kind(c)
         /\ After(c) = IF Kind(c) = "acquire" THEN c ELSE None
  <1>1. Kind(c) \in SlotSteps /\ Commit(c, Kind(c), 0) = Turn(local[c], c)
    BY DEF Kind, Turn, SlotSteps
  <1>2. Kind(c) \in SlotSteps \cup Projections
    BY <1>1
  <1>3. PICK k : k = Commit(c, Kind(c), 0)
    OBVIOUS
  <1>4. k \in Commits /\ k.run = c /\ k.step = Kind(c)
    BY <1>2, <1>3, CommitFields
  <1> QED
    BY <1>1, <1>3, <1>4 DEF After

(* A proved transition of a clean clone is in its history. *)
LEMMA ProvedLanded ==
  ASSUME IInv, NEW c \in Controllers, Proof(c), work[c] = None,
         Phase(local[c], c) \in Transitions
  PROVE  /\ SlotAt(local[c]) \in 1 .. Len(local[c])
         /\ local[c][SlotAt(local[c])] = Commit(c, Kind(c), 0)
         /\ Lineage(Base(c), SubSeq(local[c], 1, SlotAt(local[c]) - 1))
         /\ Landed(local[c], c)
  <1>1. PICK p : p = SlotAt(local[c])
    OBVIOUS
  <1>2. /\ p > 0 /\ local[c][p] = Commit(c, Kind(c), 0)
        /\ Lineage(Base(c), SubSeq(local[c], 1, p - 1))
    BY <1>1 DEF Proof
  <1>3. local[c] \in Histories
    BY InvValues DEF Values
  <1>4. p \in 0 .. Len(local[c]) /\ Len(local[c]) \in Nat
    BY <1>1, <1>3, SlotFacts, Positions
  <1>5. p \in 1 .. Len(local[c])
    BY <1>2, <1>4
  <1>6. Landed(local[c], c)
    BY <1>2, <1>5, KindFacts DEF Landed
  <1> QED
    BY <1>1, <1>2, <1>5, <1>6

(* The base of a transition is shared ground. *)
LEMMA BaseShared ==
  ASSUME IInv, NEW c \in Controllers, Phase(local[c], c) \in Transitions, NEW n \in Nat,
         Forked(c, remote, local[c], work[c], proc[c].batch, n)
  PROVE  Base(c) \in Histories /\ Len(Base(c)) \in 0 .. n
  <1>1. PICK h, r, t : h = local[c] /\ r = {c} /\ t = Transitions
    OBVIOUS
  <1>2. h \in Histories
    BY <1>1, InvValues DEF Values
  <1>3. PICK p : p = Newest(h, r, t)
    OBVIOUS
  <1>4. /\ p \in 0 .. Len(h) /\ Len(h) \in Nat
        /\ p > 0 => Match(h, p, r, t)
        /\ \A i \in 1 .. Len(h) : Match(h, i, r, t) => i <= p
    BY <1>2, <1>3, NewestFacts, Positions
  <1>5. PICK s, q : s = Projections \ {"noted"} /\ q = Newest(h, r, s)
    OBVIOUS
  <1>6. q \in 0 .. Len(h) /\ (q > 0 => Match(h, q, r, s))
    BY <1>2, <1>5, NewestFacts
  <1>7. Phase(h, c) = IF q = 0 THEN "absent" ELSE h[q].step
    BY <1>1, <1>5 DEF Phase, Stages
  <1>8. q \in 1 .. Len(h) /\ Match(h, q, r, t)
    <2>1. q # 0 /\ h[q].step \in Transitions
      BY <1>1, <1>7 DEF Transitions
    <2> QED
      BY <1>1, <1>4, <1>6, <2>1 DEF Match
  <1>9. p \in 1 .. Len(h) /\ Match(h, p, r, t)
    BY <1>4, <1>8
  <1>10. h[p].at <= n /\ h[p].at \in Nat /\ n <= Len(h)
    BY <1>1, <1>2, <1>9, Positions DEF Forked, Anchored, Match, Commits
  <1>11. Base(c) = SubSeq(h, 1, h[p].at)
    BY <1>1, <1>3 DEF Base
  <1>12. h[p].at \in 0 .. Len(h)
    BY <1>4, <1>10
  <1>13. SubSeq(h, 1, h[p].at) \in Histories /\ Len(SubSeq(h, 1, h[p].at)) = h[p].at
    BY <1>2, <1>12, PrefixFacts
  <1> QED
    BY <1>10, <1>11, <1>13

(* What the reconciliation reads on the remote proves the transition there. *)
LEMMA ReadBack ==
  ASSUME IInv, NEW c \in Controllers, Proof(c), work[c] = None,
         Phase(local[c], c) \in Transitions, Slot(remote) = After(c)
  PROVE  \E i \in 1 .. Len(remote) : remote[i] = Commit(c, Kind(c), 0)
  <1>1. PICK h, p, at, kind, g :
          /\ h = local[c] /\ p = SlotAt(h) /\ at = Len(Base(c)) /\ kind = Kind(c)
          /\ g = SubSeq(h, 1, p - 1)
    OBVIOUS
  <1>2. /\ Values(remote, local[c], work[c], proc[c])
        /\ Clone(c, remote, local[c], work[c], proc[c])
        /\ Ordered(remote) /\ Ordered(local[c])
    BY InvValues
  <1>3. h \in Histories /\ remote \in Histories /\ Ordered(h) /\ Ordered(remote)
    BY <1>1, <1>2 DEF Values
  <1>4. p \in 1 .. Len(h) /\ h[p] = Commit(c, kind, 0) /\ Lineage(Base(c), g)
    BY <1>1, ProvedLanded
  <1>5. PICK n \in Nat : Forked(c, remote, h, work[c], proc[c].batch, n)
    BY <1>1, <1>2 DEF Clone
  <1>6. Base(c) \in Histories /\ at \in 0 .. n
    BY <1>1, <1>5, BaseShared
  <1>7. kind \in SlotSteps /\ Slot(remote) = IF kind = "acquire" THEN c ELSE None
    BY <1>1, KindFacts
  <1>8. \A i \in at + 1 .. p - 1 : ~ IsSlotStep(h[i])
    <2>1. Len(h) \in Nat /\ p - 1 \in 0 .. Len(h)
      BY <1>3, <1>4, Positions
    <2>2. Len(g) = p - 1 /\ \A j \in 1 .. p - 1 : g[j] = h[j]
      BY <1>1, <1>3, <2>1, PrefixFacts
    <2>3. \A i \in at + 1 .. p - 1 : ~ IsSlotStep(g[i])
      BY <1>1, <1>4, <2>2 DEF Lineage
    <2>4. \A i \in at + 1 .. p - 1 : i \in 1 .. p - 1
      BY <1>6, <2>1
    <2> QED
      BY <2>2, <2>3, <2>4
  <1>9. /\ n <= Len(h) /\ n <= Len(remote)
        /\ \A i \in 1 .. n : h[i] = remote[i]
        /\ \A i \in n + 1 .. Len(remote) : remote[i].run # c
    BY <1>5 DEF Forked
  <1>10. \E i \in DOMAIN remote : remote[i] = Commit(c, kind, 0)
    BY ZenonT(60), <1>3, <1>4, <1>6, <1>7, <1>8, <1>9, SharedTransition
  <1> QED
    BY <1>1, <1>3, <1>10, Positions

LEMMA AuthorisedFacts ==
  ASSUME IInv, NEW c \in Controllers, Authorised(c)
  PROVE  Untold(proc[c]) /\ Phase(local[c], c) \in Transitions
  BY DEF Authorised, Told, Untold, IsSlotStep

LEMMA SlotLostKeeps ==
  ASSUME IInv, NEW c \in Controllers, SlotLost(c)
  PROVE  IInv'
  <1>1. /\ Authorised(c) /\ work[c] = None /\ remote = local[c] /\ Proof(c)
        /\ Answer(c, Commit(c, Kind(c), 0))
    BY DEF SlotLost, InSync
  <1>2. /\ Landed(local[c], c) /\ SlotAt(local[c]) \in 1 .. Len(local[c])
        /\ local[c][SlotAt(local[c])] = Commit(c, Kind(c), 0)
    BY <1>1, AuthorisedFacts, ProvedLanded
  <1>3. PICK k : k = Commit(c, Kind(c), 0)
    OBVIOUS
  <1>4. k \in Commits /\ \E i \in 1 .. Len(remote) : remote[i] = k
    BY <1>1, <1>2, <1>3, KindFacts
  <1> QED
    BY <1>1, <1>2, <1>3, <1>4, AnswerKeeps

LEMMA ReconcileKeeps ==
  ASSUME IInv, NEW c \in Controllers, Reconcile(c)
  PROVE  IInv'
  <1>1. /\ Authorised(c) /\ work[c] = None /\ Proof(c) /\ Slot(remote) = After(c)
        /\ Answer(c, Commit(c, Kind(c), 0))
    BY DEF Reconcile, Clean
  <1>2. Phase(local[c], c) \in Transitions
    BY <1>1, AuthorisedFacts
  <1>3. PICK k : k = Commit(c, Kind(c), 0)
    OBVIOUS
  <1>4. k \in Commits /\ Landed(local[c], c) /\ \E i \in 1 .. Len(remote) : remote[i] = k
    BY <1>1, <1>2, <1>3, KindFacts, ProvedLanded, ReadBack
  <1> QED
    BY <1>1, <1>3, <1>4, AnswerKeeps

LEMMA SlotRecoverKeeps ==
  ASSUME IInv, NEW c \in Controllers, SlotRecover(c)
  PROVE  IInv'
  <1>1. /\ Authorised(c) /\ Goto(c, "proving") /\ UNCHANGED <<remote, local, work>>
        /\ "proving" \in Pcs
    BY DEF SlotRecover, Pcs
  <1>2. Untold(proc[c]) /\ Phase(local[c], c) \in Transitions
    BY <1>1, AuthorisedFacts
  <1>3. Knows(c, remote, local[c], work[c], proc[c].batch, "proving")
    BY <1>2 DEF Knows
  <1> QED
    BY <1>1, <1>2, <1>3, GotoKeeps

LEMMA SlotProveKeeps ==
  ASSUME IInv, NEW c \in Controllers, SlotProve(c)
  PROVE  IInv'
  <1>1. /\ proc[c].pc = "proving" /\ work[c] = None /\ Proof(c) /\ Goto(c, "slot push")
        /\ UNCHANGED <<remote, local, work>> /\ "slot push" \in Pcs
    BY DEF SlotProve, Clean, At, Pcs
  <1>2. Phase(local[c], c) \in Transitions
    BY <1>1, InvValues DEF Knows
  <1>3. Landed(local[c], c)
    BY <1>1, <1>2, ProvedLanded
  <1>4. Untold(proc[c])
    BY <1>1, InvValues, NotTold
  <1>5. Knows(c, remote, local[c], work[c], proc[c].batch, "slot push")
    BY <1>3 DEF Knows
  <1> QED
    BY <1>1, <1>4, <1>5, GotoKeeps

LEMMA SlotPushKeeps ==
  ASSUME IInv, NEW c \in Controllers, SlotPush(c)
  PROVE  IInv'
  <1>1. proc[c].pc = "slot push" /\ DoPush(c, "slot confirm") /\ "slot confirm" \in Pcs
    BY DEF SlotPush, At, Pcs
  <1>2. Untold(proc[c])
    BY <1>1, InvValues, NotTold
  <1>3. Knows(c, local[c], local[c], work[c], proc[c].batch, "slot confirm")
    BY <1>1, InvValues DEF Knows
  <1> QED
    BY <1>1, <1>2, <1>3, PushKeeps

LEMMA SlotConfirmKeeps ==
  ASSUME IInv, NEW c \in Controllers, SlotConfirm(c)
  PROVE  IInv'
  <1>1. proc[c].pc = "slot confirm" /\ remote = local[c] /\ Answer(c, Commit(c, Kind(c), 0))
    BY DEF SlotConfirm, InSync, At
  <1>2. Landed(local[c], c)
    BY <1>1, InvValues DEF Knows
  <1>3. PICK k : k = Commit(c, Kind(c), 0)
    OBVIOUS
  <1>4. k \in Commits /\ \E i \in 1 .. Len(remote) : remote[i] = k
    BY <1>1, <1>2, <1>3, KindFacts DEF Landed
  <1> QED
    BY <1>1, <1>2, <1>3, <1>4, AnswerKeeps

(* A slot commit does not move the run. *)
LEMMA PhaseStays ==
  ASSUME NEW h \in Histories, NEW k \in Commits, k.step \in SlotSteps, NEW c,
         NEW g, g = Append(h, k)
  PROVE  Phase(g, c) = Phase(h, c)
  <1>1. g \in Histories
    BY Appended
  <1>2. Aside(h, g, c)
    BY AppendAside
  <1> QED
    BY <1>1, <1>2, AsideKept

LEMMA SlotCommandKeeps ==
  ASSUME IInv, NEW c \in Controllers, SlotCommand(c)
  PROVE  IInv'
  <1>1. /\ Authorised(c) /\ work[c] = None /\ Slot(local[c]) = Before(c)
        /\ Goto(c, "proving") /\ UNCHANGED remote /\ "proving" \in Pcs
    BY DEF SlotCommand, InSync, Pcs
  <1>2. Untold(proc[c]) /\ Phase(local[c], c) \in Transitions
    BY <1>1, AuthorisedFacts
  <1>3. PICK k : k = Commit(c, Kind(c), 0)
    OBVIOUS
  <1>4. k \in Commits /\ k.run = c /\ k.step = Kind(c) /\ k.step \in SlotSteps
    BY <1>3, KindFacts
  <1>5. Legal(local[c], k)
    <2>1. CASE Phase(local[c], c) = "intent"
      <3>1. k.step = "acquire" /\ Slot(local[c]) = None
        BY <1>1, <1>4, <2>1 DEF Kind, Before
      <3> QED
        BY <1>4, <2>1, <3>1, LegalSteps
    <2>2. CASE Phase(local[c], c) = "closing"
      <3>1. k.step = "release" /\ Slot(local[c]) = c
        BY <1>1, <1>4, <2>2 DEF Kind, Before
      <3> QED
        BY <1>4, <2>2, <3>1, LegalSteps
    <2> QED
      BY <1>2, <2>1, <2>2 DEF Transitions
  <1>6. CASE work' = [work EXCEPT ![c] = k] /\ UNCHANGED local
    <2>1. Knows(c, remote, local[c], k, proc[c].batch, "proving")
      BY <1>2 DEF Knows
    <2> QED
      BY <1>1, <1>2, <1>4, <1>5, <1>6, <2>1, WorkGotoKeeps
  <1>7. CASE local' = [local EXCEPT ![c] = Append(@, k)] /\ UNCHANGED work
    <2>1. /\ Values(remote, local[c], work[c], proc[c])
          /\ Clone(c, remote, local[c], work[c], proc[c])
          /\ Stage(c, remote, local[c], work[c], proc[c])
      BY InvValues
    <2>2. remote \in Histories /\ local[c] \in Histories /\ proc[c] \in Commands
      BY <2>1 DEF Values
    <2>3. PICK g : g = Append(local[c], k)
      OBVIOUS
    <2>4. g \in Histories /\ Phase(g, c) = Phase(local[c], c)
      <3>1. PICK h \in Histories : h = local[c]
        BY <2>2
      <3>2. g = Append(h, k)
        BY <2>3, <3>1
      <3>3. g \in Histories
        BY <1>4, <3>2, Appended
      <3>4. Phase(g, c) = Phase(h, c)
        BY <1>4, <3>2, PhaseStays
      <3> QED
        BY <3>1, <3>3, <3>4
    <2>5. Knows(c, remote, g, None, proc[c].batch, "proving")
      BY <1>2, <2>4 DEF Knows
    <2>6. PICK q : q = [proc[c] EXCEPT !.pc = "proving"]
      OBVIOUS
    <2>7. Extends(remote, remote)
      BY DEF Extends
    <2>8. q \in Commands /\ q.batch = proc[c].batch /\ Stage(c, remote, g, None, q)
      BY <1>1, <1>2, <2>1, <2>2, <2>5, <2>6, <2>7, GotoStage
    <2>9. Clone(c, remote, g, None, q)
      BY <1>4, <1>5, <2>1, <2>3, <2>8, CloneAppend
    <2>10. Moves(c, remote, g, None, q)
      BY <1>1, <1>7, <2>3, <2>6 DEF Goto, Moves, IInv, Typed
    <2>11. Values(remote, g, None, q)
      BY <2>2, <2>4, <2>8 DEF Values, Batches
    <2> QED
      BY <2>9, <2>10, <2>11, MovesHere
  <1> QED
    BY <1>3, <1>6, <1>7 DEF SlotCommand

LEMMA SlotCommitKeeps ==
  ASSUME IInv, NEW c \in Controllers, SlotCommit(c)
  PROVE  IInv'
  <1>1. /\ proc[c].pc = "proving" /\ work[c] # None /\ DoCommit(c) /\ UNCHANGED proc
        /\ work[c] = Commit(c, Kind(c), 0)
    BY DEF SlotCommit, Proof, At
  <1>2. /\ Values(remote, local[c], work[c], proc[c])
        /\ Stage(c, remote, local[c], work[c], proc[c])
        /\ Phase(local[c], c) \in Transitions
    BY <1>1, InvValues DEF Knows
  <1>3. local[c] \in Histories /\ proc[c] \in Commands
    BY <1>2 DEF Values
  <1>4. work[c] \in Commits /\ work[c].step \in SlotSteps
    BY <1>1, KindFacts
  <1>5. PICK g : g = Append(local[c], work[c])
    OBVIOUS
  <1>6. Phase(g, c) \in Transitions
    BY <1>2, <1>3, <1>4, <1>5, PhaseStays
  <1>7. Knows(c, remote, g, None, proc[c].batch, proc[c].pc)
    BY <1>1, <1>6 DEF Knows
  <1>8. Untold(proc[c])
    BY <1>1, <1>2, NotTold
  <1>9. Stage(c, remote, g, None, proc[c])
    BY <1>2, <1>7, <1>8 DEF Stage, Untold
  <1>10. proc' = [proc EXCEPT ![c] = proc[c]]
    BY <1>1 DEF IInv, Typed
  <1> QED
    BY <1>1, <1>3, <1>5, <1>9, <1>10, CommitKeeps

LEMMA EndKeeps ==
  ASSUME IInv, NEW c \in Controllers, End(c)
  PROVE  IInv'
  <1>1. /\ Values(remote, local[c], work[c], proc[c])
        /\ Clone(c, remote, local[c], work[c], proc[c])
    BY InvValues
  <1>2. Clone(c, remote, local[c], work[c], Idle)
    BY <1>1, IdleCommand, IdleStage, CloneProc
  <1>3. Moves(c, remote, local[c], work[c], Idle)
    BY DEF End, Moves, IInv, Typed
  <1>4. Values(remote, local[c], work[c], Idle)
    BY <1>1, IdleCommand DEF Values
  <1> QED
    BY <1>2, <1>3, <1>4, MovesHere

LEMMA OperatorKeeps ==
  ASSUME IInv, NEW c \in Controllers, Operator(c)
  PROVE  IInv'
  <1>1. proc[c].pc = "idle" /\ UNCHANGED proc
    BY DEF Operator, At
  <1>2. /\ Values(remote, local[c], work[c], proc[c])
        /\ Stage(c, remote, local[c], work[c], proc[c])
    BY InvValues
  <1>3. remote \in Histories /\ local[c] \in Histories /\ proc[c] \in Commands
    BY <1>2 DEF Values
  <1>4. proc' = [proc EXCEPT ![c] = proc[c]]
    BY <1>1 DEF IInv, Typed
  <1>5. ASSUME NEW s \in Histories, NEW g, NEW v, Extends(remote, s)
        PROVE  Stage(c, s, g, v, proc[c])
    <2>1. Knows(c, s, g, v, proc[c].batch, proc[c].pc)
      BY <1>1 DEF Knows
    <2>2. (\E i \in 1 .. Len(remote) : remote[i] = proc[c].said) =>
            \E i \in 1 .. Len(s) : s[i] = proc[c].said
      BY <1>3, <1>5, Positions DEF Extends
    <2>3. Untold(proc[c])
      BY <1>1, <1>2, NotTold
    <2> QED
      BY <1>2, <2>1, <2>2, <2>3 DEF Stage, Untold
  <1>6. Extends(remote, remote)
    BY DEF Extends
  <1>7. CASE work[c] # None /\ DoCommit(c)
    <2>1. PICK g : g = Append(local[c], work[c])
      OBVIOUS
    <2>2. Stage(c, remote, g, None, proc[c])
      BY <1>3, <1>5, <1>6
    <2> QED
      BY <1>3, <1>4, <1>7, <2>1, <2>2, CommitKeeps
  <1>8. CASE work' = [work EXCEPT ![c] = None] /\ UNCHANGED <<remote, local>>
    <2>1. Stage(c, remote, local[c], None, proc[c])
      BY <1>3, <1>5, <1>6
    <2>2. None \in Batches
      BY DEF Batches
    <2> QED
      BY <1>3, <1>4, <1>8, <2>1, <2>2, WorkKeeps
  <1>9. CASE IsPrefix(remote, local[c]) /\ remote' = local[c] /\ UNCHANGED <<local, work>>
    <2>1. Extends(remote, local[c])
      BY <1>3, <1>9, PrefixExtends
    <2>2. Stage(c, local[c], local[c], work[c], proc[c])
      BY <1>3, <1>5, <2>1
    <2> QED
      BY <1>3, <1>4, <1>9, <2>2, MeetKeeps
  <1> QED
    BY <1>7, <1>8, <1>9 DEF Operator

LEMMA InitIInv == Init => IInv
  <1> SUFFICES ASSUME Init PROVE IInv
    OBVIOUS
  <1>1. <<>> \in Histories /\ Len(<<>>) = 0 /\ DOMAIN <<>> = {}
    BY EmptySeq, Positions DEF Histories
  <1>2. Typed
    BY <1>1, IdleCommand DEF Init, Typed, Batches
  <1>3. Ordered(<<>>)
    BY <1>1 DEF Ordered
  <1>4. \A c \in Controllers : Forked(c, <<>>, <<>>, None, None, 0)
    BY <1>1 DEF Forked
  <1>5. \A c \in Controllers : Clone(c, <<>>, <<>>, None, Idle)
    BY <1>3, <1>4, IdleCommand, IdleStage DEF Clone
  <1> QED
    BY <1>2, <1>3, <1>5 DEF Init, IInv

LEMMA NextIInv == IInv /\ [Next]_vars => IInv'
  <1> SUFFICES ASSUME IInv, [Next]_vars PROVE IInv'
    OBVIOUS
  <1>1. CASE UNCHANGED vars
    BY <1>1 DEF vars, IInv, Typed
  <1>2. CASE Next
    <2>1. PICK c \in Controllers :
            \/ Load(c) \/ LoadSettles(c) \/ SettlePush(c) \/ SettleConfirm(c)
            \/ PlanAcquire(c) \/ PlanRelease(c) \/ PlanConfirm(c)
            \/ WriteNext(c) \/ Resubmit(c) \/ Unsure(c)
            \/ Pull(c) \/ PullApply(c) \/ Initialize(c) \/ InitialCommit(c)
            \/ WritePending(c) \/ WriteAhead(c) \/ PublishAhead(c) \/ Republish(c)
            \/ Mutate(c) \/ StaleConfirm(c) \/ CommitBatch(c)
            \/ ProvePush(c) \/ PushBatch(c) \/ ConfirmBatch(c)
            \/ SlotCommand(c) \/ SlotLost(c) \/ SlotRecover(c) \/ Reconcile(c)
            \/ SlotCommit(c) \/ SlotProve(c) \/ SlotPush(c) \/ SlotConfirm(c)
            \/ End(c) \/ Operator(c)
      BY <1>2 DEF Next
    <2>2. CASE Load(c) \/ LoadSettles(c) \/ SettlePush(c) \/ SettleConfirm(c)
      BY <2>2, LoadKeeps, LoadSettlesKeeps, SettlePushKeeps, SettleConfirmKeeps
    <2>3. CASE PlanAcquire(c) \/ PlanRelease(c) \/ PlanConfirm(c)
      BY <2>3, PlanAcquireKeeps, PlanReleaseKeeps, PlanConfirmKeeps
    <2>4. CASE WriteNext(c) \/ Resubmit(c) \/ Unsure(c)
      BY <2>4, WriteNextKeeps, ResubmitKeeps, UnsureKeeps
    <2>5. CASE Pull(c) \/ PullApply(c) \/ Initialize(c) \/ InitialCommit(c)
      BY <2>5, PullKeeps, PullApplyKeeps, InitializeKeeps, InitialCommitKeeps
    <2>6. CASE WritePending(c) \/ WriteAhead(c) \/ PublishAhead(c) \/ Republish(c)
      BY <2>6, WritePendingKeeps, WriteAheadKeeps, PublishAheadKeeps, RepublishKeeps
    <2>7. CASE Mutate(c) \/ StaleConfirm(c) \/ CommitBatch(c)
      BY <2>7, MutateKeeps, StaleConfirmKeeps, CommitBatchKeeps
    <2>8. CASE ProvePush(c) \/ PushBatch(c) \/ ConfirmBatch(c)
      BY <2>8, ProvePushKeeps, PushBatchKeeps, ConfirmBatchKeeps
    <2>9. CASE SlotCommand(c) \/ SlotLost(c) \/ SlotRecover(c) \/ Reconcile(c)
      BY <2>9, SlotCommandKeeps, SlotLostKeeps, SlotRecoverKeeps, ReconcileKeeps
    <2>10. CASE SlotCommit(c) \/ SlotProve(c) \/ SlotPush(c) \/ SlotConfirm(c)
      BY <2>10, SlotCommitKeeps, SlotProveKeeps, SlotPushKeeps, SlotConfirmKeeps
    <2>11. CASE End(c) \/ Operator(c)
      BY <2>11, EndKeeps, OperatorKeeps
    <2> QED
      BY <2>1, <2>2, <2>3, <2>4, <2>5, <2>6, <2>7, <2>8, <2>9, <2>10, <2>11
  <1> QED
    BY <1>1, <1>2 DEF Next

(* The invariant of the clones holds throughout.                           *)
THEOREM ClonesHold == Spec => []IInv
  BY InitIInv, NextIInv, PTL DEF Spec

(* Whatever clones interleave, lose and recover, no commit reaches the      *)
(* shared history under a slot another run holds, out of its run's order,   *)
(* or twice.                                                               *)
THEOREM HistoryInOrder == Spec => []PublishedInOrder
  <1>1. IInv => PublishedInOrder
    BY DEF IInv, Ordered, PublishedInOrder
  <1> QED
    BY <1>1, ClonesHold, PTL

(* A caller that was told a commit is applied can rely on finding it in the *)
(* shared history, whichever answers were lost before.                     *)
THEOREM AnswersPublished == Spec => []AppliedIsPublished
  <1>1. IInv => AppliedIsPublished
    <2> SUFFICES ASSUME IInv, NEW c \in Controllers, proc[c].said # None
                 PROVE  proc[c].said \in ToSet(remote)
      BY DEF AppliedIsPublished
    <2>1. \E i \in 1 .. Len(remote) : remote[i] = proc[c].said
      BY InvValues DEF Stage
    <2>2. remote \in Histories
      BY DEF IInv, Typed
    <2> QED
      BY <2>1, <2>2, Positions DEF ToSet
  <1> QED
    BY <1>1, ClonesHold, PTL

-----------------------------------------------------------------------------
(* A clone is one change ahead at most.                                    *)

(* All of clone h but its last commit is in the remote, and all of it when  *)
(* its working set is not empty or a pull is about to write into it.       *)
Slim(r, h, w, pc) ==
  /\ Len(h) <= Len(r) + 1
  /\ \A i \in 1 .. Len(h) - 1 : h[i] = r[i]
  /\ w # None \/ pc \in {"pulling", "pulled"} => Extends(h, r)

OneAhead == \A c \in Controllers : Slim(remote, local[c], work[c], proc[c].pc)

LEMMA SlimRemote ==
  ASSUME NEW r \in Histories, NEW s \in Histories, NEW h \in Histories, NEW w, NEW pc,
         Slim(r, h, w, pc), Extends(r, s)
  PROVE  Slim(s, h, w, pc)
  <1>1. Len(r) \in Nat /\ Len(s) \in Nat /\ Len(h) \in Nat
    BY Positions
  <1>2. Len(h) <= Len(s) + 1 /\ \A i \in 1 .. Len(h) - 1 : h[i] = s[i]
    BY <1>1 DEF Slim, Extends
  <1>3. Extends(h, r) => Extends(h, s)
    BY ExtendsOnward
  <1> QED
    BY <1>2, <1>3 DEF Slim

LEMMA SlimBehind ==
  ASSUME NEW r \in Histories, NEW h \in Histories, NEW w, NEW pc, Extends(h, r)
  PROVE  Slim(r, h, w, pc)
  BY Positions DEF Slim, Extends

LEMMA SlimAppended ==
  ASSUME NEW r \in Histories, NEW h \in Histories, NEW k \in Commits, NEW g,
         NEW pc, g = Append(h, k), Extends(h, r), pc \notin {"pulling", "pulled"}
  PROVE  g \in Histories /\ Slim(r, g, None, pc)
  <1>0. PICK f : f = Append(h, k)
    OBVIOUS
  <1>1. /\ f \in Histories /\ Len(f) = Len(h) + 1
        /\ Extends(h, f)
    BY <1>0, Appended
  <1>2. Len(r) \in Nat /\ Len(h) \in Nat
    BY Positions
  <1> QED
    BY <1>0, <1>1, <1>2 DEF Slim, Extends

(* Where a step of clone c leaves its own clone. *)
Keeps(c, h, w, q) ==
  /\ local' = [local EXCEPT ![c] = h]
  /\ work' = [work EXCEPT ![c] = w]
  /\ proc' = [proc EXCEPT ![c] = q]
  /\ h \in Histories
  /\ remote' \in Histories /\ Extends(remote, remote')
  /\ Slim(remote', h, w, q.pc)

LEMMA KeepsAhead ==
  ASSUME IInv, OneAhead, NEW c \in Controllers, NEW h, NEW w, NEW q, Keeps(c, h, w, q)
  PROVE  OneAhead'
  <1>1. SUFFICES ASSUME NEW d \in Controllers
                 PROVE  Slim(remote', local'[d], work'[d], proc'[d].pc)
    BY DEF OneAhead
  <1>2. /\ remote \in Histories /\ local[d] \in Histories
        /\ local \in [Controllers -> Histories] /\ work \in [Controllers -> Batches]
        /\ proc \in [Controllers -> Commands]
    BY DEF IInv, Typed
  <1>3. CASE d = c
    <2>1. local'[d] = h /\ work'[d] = w /\ proc'[d] = q
      BY <1>2, <1>3 DEF Keeps
    <2> QED
      BY <2>1 DEF Keeps
  <1>4. CASE d # c
    <2>1. local'[d] = local[d] /\ work'[d] = work[d] /\ proc'[d] = proc[d]
      BY <1>2, <1>4 DEF Keeps
    <2>2. Slim(remote, local[d], work[d], proc[d].pc)
      BY DEF OneAhead
    <2>3. Slim(remote', local[d], work[d], proc[d].pc)
      BY <1>2, <2>2, SlimRemote DEF Keeps
    <2> QED
      BY <2>1, <2>3
  <1> QED
    BY <1>3, <1>4

(* A step that changes the command alone. *)
LEMMA StillAhead ==
  ASSUME IInv, OneAhead, NEW c \in Controllers, NEW q,
         UNCHANGED <<remote, local, work>>, proc' = [proc EXCEPT ![c] = q],
         q.pc \in {"pulling", "pulled"} => Extends(local[c], remote)
  PROVE  OneAhead'
  <1>1. /\ remote \in Histories /\ local[c] \in Histories
        /\ local \in [Controllers -> Histories] /\ work \in [Controllers -> Batches]
    BY DEF IInv, Typed
  <1>2. Slim(remote, local[c], work[c], proc[c].pc)
    BY DEF OneAhead
  <1>3. Slim(remote, local[c], work[c], q.pc)
    BY <1>2 DEF Slim
  <1>4. Extends(remote, remote)
    BY <1>1, Positions DEF Extends
  <1>5. local' = [local EXCEPT ![c] = local[c]] /\ work' = [work EXCEPT ![c] = work[c]]
    BY <1>1
  <1>6. remote' = remote /\ remote' \in Histories /\ Extends(remote, remote')
    BY <1>1, <1>4
  <1>7. Slim(remote', local[c], work[c], q.pc)
    BY <1>3, <1>6
  <1>8. Keeps(c, local[c], work[c], q)
    BY <1>1, <1>5, <1>6, <1>7 DEF Keeps
  <1> QED
    BY <1>8, KeepsAhead

LEMMA GotoAhead ==
  ASSUME IInv, OneAhead, NEW c \in Controllers, NEW y,
         UNCHANGED <<remote, local, work>>, Goto(c, y),
         y \in {"pulling", "pulled"} => Extends(local[c], remote)
  PROVE  OneAhead'
  <1>1. PICK q : q = [proc[c] EXCEPT !.pc = y]
    OBVIOUS
  <1>2. q.pc = y
    BY <1>1 DEF IInv, Typed, Commands
  <1>3. proc' = [proc EXCEPT ![c] = q]
    BY <1>1 DEF Goto
  <1> QED
    BY <1>2, <1>3, StillAhead

LEMMA AnswerAhead ==
  ASSUME IInv, OneAhead, NEW c \in Controllers, NEW k, Answer(c, k)
  PROVE  OneAhead'
  <1>1. PICK q : q = [Idle EXCEPT !.pc = "loaded", !.said = k]
    OBVIOUS
  <1>2. q.pc = "loaded"
    BY <1>1 DEF Idle
  <1>3. proc' = [proc EXCEPT ![c] = q] /\ UNCHANGED <<remote, local, work>>
    BY <1>1 DEF Answer
  <1> QED
    BY <1>2, <1>3, StillAhead

LEMMA SubmitAhead ==
  ASSUME IInv, OneAhead, NEW c \in Controllers, NEW k, NEW y, Submit(c, k, y),
         y \notin {"pulling", "pulled"}
  PROVE  OneAhead'
  <1>1. PICK q : q = [Idle EXCEPT !.batch = k, !.pc = y]
    OBVIOUS
  <1>2. q.pc = y
    BY <1>1 DEF Idle
  <1>3. proc' = [proc EXCEPT ![c] = q] /\ UNCHANGED <<remote, local, work>>
    BY <1>1 DEF Submit
  <1> QED
    BY <1>2, <1>3, StillAhead

(* A commit of the working set, whose clone was behind till then. *)
LEMMA CommitAhead ==
  ASSUME IInv, OneAhead, NEW c \in Controllers, NEW q, work[c] # None, DoCommit(c),
         proc' = [proc EXCEPT ![c] = q], q.pc \notin {"pulling", "pulled"}
  PROVE  OneAhead'
  <1>1. /\ remote \in Histories /\ local[c] \in Histories
        /\ local \in [Controllers -> Histories] /\ work[c] \in Batches
    BY DEF IInv, Typed
  <1>2. work[c] \in Commits
    BY <1>1 DEF Batches
  <1>3. Extends(local[c], remote)
    BY DEF OneAhead, Slim
  <1>4. PICK g : g = Append(local[c], work[c])
    OBVIOUS
  <1>5. PICK pc : pc = q.pc
    OBVIOUS
  <1>6. g \in Histories /\ Slim(remote, g, None, pc)
    BY <1>1, <1>2, <1>3, <1>4, <1>5, SlimAppended
  <1>7. Extends(remote, remote)
    BY <1>1, Positions DEF Extends
  <1>8. remote' = remote /\ remote' \in Histories /\ Extends(remote, remote')
    BY <1>1, <1>7 DEF DoCommit
  <1>9. local' = [local EXCEPT ![c] = g] /\ work' = [work EXCEPT ![c] = None]
    BY <1>1, <1>4 DEF DoCommit
  <1>10. Slim(remote', g, None, q.pc)
    BY <1>5, <1>6, <1>8
  <1>11. Keeps(c, g, None, q)
    BY <1>6, <1>8, <1>9, <1>10 DEF Keeps
  <1> QED
    BY <1>11, KeepsAhead

LEMMA CommitGotoAhead ==
  ASSUME IInv, OneAhead, NEW c \in Controllers, NEW y, work[c] # None, DoCommit(c),
         Goto(c, y), y \notin {"pulling", "pulled"}
  PROVE  OneAhead'
  <1>1. PICK q : q = [proc[c] EXCEPT !.pc = y]
    OBVIOUS
  <1>2. q.pc = y
    BY <1>1 DEF IInv, Typed, Commands
  <1>3. proc' = [proc EXCEPT ![c] = q]
    BY <1>1 DEF Goto
  <1> QED
    BY <1>2, <1>3, CommitAhead

(* A new working set on a clone that is behind. *)
LEMMA WorkAhead ==
  ASSUME IInv, OneAhead, NEW c \in Controllers, NEW w, NEW q,
         Extends(local[c], remote), UNCHANGED <<remote, local>>,
         work' = [work EXCEPT ![c] = w], proc' = [proc EXCEPT ![c] = q]
  PROVE  OneAhead'
  <1>1. /\ remote \in Histories /\ local[c] \in Histories
        /\ local \in [Controllers -> Histories]
    BY DEF IInv, Typed
  <1>2. PICK pc : pc = q.pc
    OBVIOUS
  <1>3. Slim(remote, local[c], w, pc)
    BY <1>1, SlimBehind
  <1>4. Extends(remote, remote)
    BY <1>1, Positions DEF Extends
  <1>5. remote' = remote /\ remote' \in Histories /\ Extends(remote, remote')
    BY <1>1, <1>4
  <1>6. local' = [local EXCEPT ![c] = local[c]]
    BY <1>1
  <1>7. Slim(remote', local[c], w, q.pc)
    BY <1>2, <1>3, <1>5
  <1>8. Keeps(c, local[c], w, q)
    BY <1>1, <1>5, <1>6, <1>7 DEF Keeps
  <1> QED
    BY <1>8, KeepsAhead

LEMMA WorkGotoAhead ==
  ASSUME IInv, OneAhead, NEW c \in Controllers, NEW w, NEW y,
         Extends(local[c], remote), UNCHANGED <<remote, local>>,
         work' = [work EXCEPT ![c] = w], Goto(c, y)
  PROVE  OneAhead'
  <1>1. PICK q : q = [proc[c] EXCEPT !.pc = y]
    OBVIOUS
  <1>2. proc' = [proc EXCEPT ![c] = q]
    BY <1>1 DEF Goto
  <1> QED
    BY <1>2, WorkAhead

(* The remote meets the clone. *)
LEMMA MeetAhead ==
  ASSUME IInv, OneAhead, NEW c \in Controllers, NEW q,
         IsPrefix(remote, local[c]), remote' = local[c], UNCHANGED <<local, work>>,
         proc' = [proc EXCEPT ![c] = q]
  PROVE  OneAhead'
  <1>1. /\ remote \in Histories /\ local[c] \in Histories
        /\ local \in [Controllers -> Histories] /\ work \in [Controllers -> Batches]
    BY DEF IInv, Typed
  <1>2. PICK h : h = local[c]
    OBVIOUS
  <1>3. h \in Histories /\ Extends(h, h) /\ Extends(remote, h)
    BY <1>1, <1>2, Positions, PrefixExtends DEF Extends
  <1>4. PICK pc : pc = q.pc
    OBVIOUS
  <1>5. PICK w : w = work[c]
    OBVIOUS
  <1>6. Slim(h, h, w, pc)
    BY <1>3, SlimBehind
  <1>7. local' = [local EXCEPT ![c] = h] /\ work' = [work EXCEPT ![c] = w] /\ remote' = h
    BY <1>1, <1>2, <1>5
  <1>8. Keeps(c, h, w, q)
    BY <1>3, <1>4, <1>6, <1>7 DEF Keeps
  <1> QED
    BY <1>8, KeepsAhead

LEMMA PushAhead ==
  ASSUME IInv, OneAhead, NEW c \in Controllers, NEW y, DoPush(c, y)
  PROVE  OneAhead'
  <1>1. \E q : proc' = [proc EXCEPT ![c] = q]
    BY DEF DoPush, Goto
  <1>2. PICK q : proc' = [proc EXCEPT ![c] = q]
    BY <1>1
  <1> QED
    BY <1>2, MeetAhead DEF DoPush

LEMMA BehindInSync ==
  ASSUME IInv, NEW c \in Controllers, remote = local[c]
  PROVE  Extends(local[c], remote)
  BY Positions DEF IInv, Typed, Extends

LEMMA InitAhead == Init => OneAhead
  <1>1. <<>> \in Histories /\ Len(<<>>) = 0 /\ Idle.pc = "idle"
    BY EmptySeq DEF Histories, Idle
  <1>2. Slim(<<>>, <<>>, None, "idle")
    BY <1>1 DEF Slim
  <1> QED
    BY <1>1, <1>2 DEF Init, OneAhead

LEMMA LoadingAhead ==
  ASSUME IInv, OneAhead, NEW c \in Controllers,
         \/ Load(c) \/ LoadSettles(c) \/ SettlePush(c) \/ SettleConfirm(c)
         \/ PlanAcquire(c) \/ PlanRelease(c) \/ PlanConfirm(c)
         \/ WriteNext(c) \/ Resubmit(c) \/ Unsure(c)
  PROVE  OneAhead'
  <1>1. CASE Load(c)
    BY <1>1, GotoAhead DEF Load
  <1>2. CASE LoadSettles(c)
    BY <1>2, CommitGotoAhead DEF LoadSettles, Settles
  <1>3. CASE SettlePush(c)
    BY <1>3, PushAhead DEF SettlePush
  <1>4. CASE SettleConfirm(c)
    BY <1>4, AnswerAhead DEF SettleConfirm
  <1>5. CASE PlanAcquire(c)
    BY <1>5, SubmitAhead DEF PlanAcquire
  <1>6. CASE PlanRelease(c)
    BY <1>6, SubmitAhead DEF PlanRelease
  <1>7. CASE PlanConfirm(c)
    BY <1>7, GotoAhead DEF PlanConfirm
  <1>8. CASE WriteNext(c)
    <2>1. \E k : Submit(c, k, "write")
      BY <1>8 DEF WriteNext
    <2> QED
      BY <2>1, SubmitAhead
  <1>9. CASE Resubmit(c)
    BY <1>9, SubmitAhead DEF Resubmit
  <1>10. CASE Unsure(c)
    <2>1. PICK k : k = Commit(c, "noted", Cardinality(Rows(local[c], c)))
      OBVIOUS
    <2>2. Submit(c, k, "write")
      BY <1>10, <2>1 DEF Unsure
    <2> QED
      BY <2>2, SubmitAhead
  <1> QED
    BY <1>1, <1>2, <1>3, <1>4, <1>5, <1>6, <1>7, <1>8, <1>9, <1>10

LEMMA PullingAhead ==
  ASSUME IInv, OneAhead, NEW c \in Controllers,
         Pull(c) \/ PullApply(c) \/ Initialize(c) \/ InitialCommit(c)
  PROVE  OneAhead'
  <1>1. CASE Pull(c)
    <2>1. PICK q : q = [proc[c] EXCEPT
                          !.seen = IF remote = local[c] THEN <<>> ELSE remote,
                          !.pc = IF remote = local[c] THEN "pulled" ELSE "pulling"]
      OBVIOUS
    <2>2. proc' = [proc EXCEPT ![c] = q]
      BY <1>1, <2>1 DEF Pull
    <2>3. remote \in Histories /\ local[c] \in Histories
      BY DEF IInv, Typed
    <2>4. Extends(local[c], remote)
      BY <1>1, <2>3, PrefixExtends DEF Pull
    <2> QED
      BY <1>1, <2>2, <2>4, StillAhead DEF Pull
  <1>2. CASE PullApply(c)
    <2>1. \E q : proc' = [proc EXCEPT ![c] = q]
      <3>1. CASE remote = proc[c].seen
        <4>1. PICK q : q = [proc[c] EXCEPT !.pc = "pulled", !.seen = <<>>]
          OBVIOUS
        <4>2. proc' = [proc EXCEPT ![c] = q]
          BY <1>2, <3>1, <4>1 DEF PullApply
        <4> QED
          BY <4>2
      <3>2. CASE remote # proc[c].seen
        BY <1>2, <3>2 DEF PullApply
      <3> QED
        BY <3>1, <3>2
    <2>2. PICK q : proc' = [proc EXCEPT ![c] = q]
      BY <2>1
    <2>3. PICK w : w = work[c]
      OBVIOUS
    <2>4. PICK pc : pc = q.pc
      OBVIOUS
    <2>5. /\ remote \in Histories /\ Extends(remote, remote)
          /\ work \in [Controllers -> Batches]
      BY Positions DEF IInv, Typed, Extends
    <2>6. Slim(remote, remote, w, pc)
      BY <2>5, SlimBehind
    <2>7. remote' = remote /\ work' = [work EXCEPT ![c] = w] /\ local' = [local EXCEPT ![c] = remote]
      BY <1>2, <2>3, <2>5 DEF PullApply
    <2>8. Keeps(c, remote, w, q)
      BY <2>2, <2>4, <2>5, <2>6, <2>7 DEF Keeps
    <2> QED
      BY <2>8, KeepsAhead
  <1>3. CASE Initialize(c)
    <2>1. PICK w : w = proc[c].batch
      OBVIOUS
    <2>2. /\ remote = local[c] /\ UNCHANGED <<remote, local>>
          /\ work' = [work EXCEPT ![c] = w] /\ Goto(c, "initialized")
      BY <1>3, <2>1 DEF Initialize, InSync
    <2> QED
      BY <2>2, BehindInSync, WorkGotoAhead
  <1>4. CASE InitialCommit(c)
    <2>1. work[c] # None
      BY <1>4, InvValues DEF InitialCommit, At, Stage, Knows
    <2> QED
      BY <1>4, <2>1, CommitGotoAhead DEF InitialCommit
  <1> QED
    BY <1>1, <1>2, <1>3, <1>4

LEMMA WritingAhead ==
  ASSUME IInv, OneAhead, NEW c \in Controllers,
         \/ WritePending(c) \/ WriteAhead(c) \/ PublishAhead(c) \/ Republish(c)
         \/ Mutate(c) \/ StaleConfirm(c) \/ CommitBatch(c)
         \/ ProvePush(c) \/ PushBatch(c) \/ ConfirmBatch(c)
  PROVE  OneAhead'
  <1>1. CASE WritePending(c)
    BY <1>1, CommitGotoAhead DEF WritePending
  <1>2. CASE WriteAhead(c)
    BY <1>2, GotoAhead DEF WriteAhead
  <1>3. CASE PublishAhead(c)
    BY <1>3, GotoAhead DEF PublishAhead
  <1>4. CASE Republish(c)
    BY <1>4, PushAhead DEF Republish
  <1>5. CASE Mutate(c)
    <2>1. Extends(local[c], remote)
      BY <1>5 DEF Mutate, At, OneAhead, Slim
    <2>2. CASE Row(local[c], c) = proc[c].batch
      BY <1>5, <2>2, GotoAhead DEF Mutate
    <2>3. CASE Row(local[c], c) # proc[c].batch
      <3>1. PICK w : w = proc[c].batch
        OBVIOUS
      <3>2. /\ UNCHANGED <<remote, local>>
            /\ work' = [work EXCEPT ![c] = w] /\ Goto(c, "mutated")
        BY <1>5, <2>3, <3>1 DEF Mutate
      <3> QED
        BY <2>1, <3>2, WorkGotoAhead
    <2> QED
      BY <2>2, <2>3
  <1>6. CASE StaleConfirm(c)
    BY <1>6, AnswerAhead DEF StaleConfirm
  <1>7. CASE CommitBatch(c)
    <2>1. work[c] # None
      BY <1>7, InvValues DEF CommitBatch, At, Stage, Knows
    <2> QED
      BY <1>7, <2>1, CommitGotoAhead DEF CommitBatch
  <1>8. CASE ProvePush(c)
    BY <1>8, GotoAhead DEF ProvePush
  <1>9. CASE PushBatch(c)
    BY <1>9, PushAhead DEF PushBatch
  <1>10. CASE ConfirmBatch(c)
    BY <1>10, AnswerAhead DEF ConfirmBatch
  <1> QED
    BY <1>1, <1>2, <1>3, <1>4, <1>5, <1>6, <1>7, <1>8, <1>9, <1>10

LEMMA SlotAhead ==
  ASSUME IInv, OneAhead, NEW c \in Controllers,
         \/ SlotCommand(c) \/ SlotLost(c) \/ SlotRecover(c) \/ Reconcile(c)
         \/ SlotCommit(c) \/ SlotProve(c) \/ SlotPush(c) \/ SlotConfirm(c)
  PROVE  OneAhead'
  <1>1. CASE SlotCommand(c)
    <2>1. /\ remote = local[c] /\ Phase(local[c], c) \in Transitions
          /\ UNCHANGED remote /\ Goto(c, "proving")
      BY <1>1 DEF SlotCommand, Authorised, InSync
    <2>2. PICK k : k = Commit(c, Kind(c), 0)
      OBVIOUS
    <2>3. k \in Commits
      BY <2>2 DEF Commit, Commits, Kind, SlotSteps
    <2>4. \/ work' = [work EXCEPT ![c] = k] /\ UNCHANGED local
          \/ local' = [local EXCEPT ![c] = Append(local[c], k)] /\ UNCHANGED work
      BY <1>1, <2>2 DEF SlotCommand, IInv, Typed
    <2>5. CASE work' = [work EXCEPT ![c] = k] /\ UNCHANGED local
      BY <2>1, <2>5, BehindInSync, WorkGotoAhead
    <2>6. CASE local' = [local EXCEPT ![c] = Append(local[c], k)] /\ UNCHANGED work
      <3>1. /\ remote \in Histories /\ local[c] \in Histories
            /\ work \in [Controllers -> Batches] /\ work[c] = None
        BY <1>1 DEF IInv, Typed, SlotCommand, InSync
      <3>2. PICK g : g = Append(local[c], k)
        OBVIOUS
      <3>3. PICK q : q = [proc[c] EXCEPT !.pc = "proving"]
        OBVIOUS
      <3>4. q.pc \notin {"pulling", "pulled"} /\ proc' = [proc EXCEPT ![c] = q]
        BY <2>1, <3>3 DEF Goto, IInv, Typed, Commands
      <3>5. Extends(local[c], remote) /\ Extends(remote, remote)
        BY <2>1, <3>1, BehindInSync
      <3>6. g \in Histories /\ Slim(remote, g, None, q.pc)
        <4>1. PICK pc : pc = q.pc
          OBVIOUS
        <4>2. g \in Histories /\ Slim(remote, g, None, pc)
          BY <2>3, <3>1, <3>2, <3>4, <3>5, <4>1, SlimAppended
        <4> QED
          BY <4>1, <4>2
      <3>7. /\ local' = [local EXCEPT ![c] = g] /\ work' = [work EXCEPT ![c] = None]
            /\ remote' = remote
        BY <2>1, <2>6, <3>1, <3>2
      <3>8. Keeps(c, g, None, q)
        BY <3>1, <3>4, <3>5, <3>6, <3>7 DEF Keeps
      <3> QED
        BY <3>8, KeepsAhead
    <2> QED
      BY <2>4, <2>5, <2>6
  <1>2. CASE SlotLost(c)
    BY <1>2, AnswerAhead DEF SlotLost
  <1>3. CASE SlotRecover(c)
    BY <1>3, GotoAhead DEF SlotRecover
  <1>4. CASE Reconcile(c)
    BY <1>4, AnswerAhead DEF Reconcile
  <1>5. CASE SlotCommit(c)
    <2>1. proc[c].pc = "proving" /\ work[c] # None /\ DoCommit(c)
          /\ proc' = [proc EXCEPT ![c] = proc[c]]
      BY <1>5 DEF SlotCommit, At, IInv, Typed
    <2> QED
      BY <2>1, CommitAhead
  <1>6. CASE SlotProve(c)
    BY <1>6, GotoAhead DEF SlotProve
  <1>7. CASE SlotPush(c)
    BY <1>7, PushAhead DEF SlotPush
  <1>8. CASE SlotConfirm(c)
    BY <1>8, AnswerAhead DEF SlotConfirm
  <1> QED
    BY <1>1, <1>2, <1>3, <1>4, <1>5, <1>6, <1>7, <1>8

LEMMA EndingAhead ==
  ASSUME IInv, OneAhead, NEW c \in Controllers, End(c) \/ Operator(c)
  PROVE  OneAhead'
  <1>1. CASE End(c)
    <2>1. PICK q : q = Idle
      OBVIOUS
    <2>2. q.pc = "idle" /\ proc' = [proc EXCEPT ![c] = q] /\ UNCHANGED <<remote, local, work>>
      BY <1>1, <2>1 DEF End, Idle
    <2> QED
      BY <2>2, StillAhead
  <1>2. CASE Operator(c)
    <2>1. /\ proc[c].pc = "idle" /\ proc' = [proc EXCEPT ![c] = proc[c]]
          /\ UNCHANGED proc
      BY <1>2 DEF Operator, At, IInv, Typed
    <2>2. CASE work[c] # None /\ DoCommit(c)
      BY <2>1, <2>2, CommitAhead
    <2>3. CASE /\ work[c] # None /\ work' = [work EXCEPT ![c] = None]
               /\ UNCHANGED <<remote, local>>
      <3>1. Extends(local[c], remote)
        BY <2>3 DEF OneAhead, Slim
      <3> QED
        BY <2>1, <2>3, <3>1, WorkAhead
    <2>4. CASE /\ IsPrefix(remote, local[c]) /\ remote' = local[c]
               /\ UNCHANGED <<local, work>>
      BY <2>1, <2>4, MeetAhead
    <2> QED
      BY <1>2, <2>2, <2>3, <2>4 DEF Operator
  <1> QED
    BY <1>1, <1>2

LEMMA NextAhead == IInv /\ OneAhead /\ [Next]_vars => OneAhead'
  <1> SUFFICES ASSUME IInv, OneAhead, [Next]_vars PROVE OneAhead'
    OBVIOUS
  <1>1. CASE UNCHANGED vars
    BY <1>1 DEF vars, OneAhead
  <1>2. CASE Next
    <2>1. PICK c \in Controllers :
            \/ Load(c) \/ LoadSettles(c) \/ SettlePush(c) \/ SettleConfirm(c)
            \/ PlanAcquire(c) \/ PlanRelease(c) \/ PlanConfirm(c)
            \/ WriteNext(c) \/ Resubmit(c) \/ Unsure(c)
            \/ Pull(c) \/ PullApply(c) \/ Initialize(c) \/ InitialCommit(c)
            \/ WritePending(c) \/ WriteAhead(c) \/ PublishAhead(c) \/ Republish(c)
            \/ Mutate(c) \/ StaleConfirm(c) \/ CommitBatch(c)
            \/ ProvePush(c) \/ PushBatch(c) \/ ConfirmBatch(c)
            \/ SlotCommand(c) \/ SlotLost(c) \/ SlotRecover(c) \/ Reconcile(c)
            \/ SlotCommit(c) \/ SlotProve(c) \/ SlotPush(c) \/ SlotConfirm(c)
            \/ End(c) \/ Operator(c)
      BY <1>2 DEF Next
    <2> QED
      BY <2>1, LoadingAhead, PullingAhead, WritingAhead, SlotAhead, EndingAhead
  <1> QED
    BY <1>1, <1>2

-----------------------------------------------------------------------------
(* What the store promises: a publication is one step of TakingTurns.      *)

(* g is h and one commit more. *)
Adds(h, k, g) ==
  /\ g \in Histories /\ Len(g) = Len(h) + 1 /\ Extends(h, g)
  /\ g[Len(h) + 1] = k

LEMMA SlotAppended ==
  ASSUME NEW h \in Histories, NEW k \in Commits, NEW g, Adds(h, k, g)
  PROVE  Slot(g) = IF k.step = "acquire" THEN k.run
                   ELSE IF k.step = "release" THEN None ELSE Slot(h)
  <1>1. g \in Histories /\ Len(g) = Len(h) + 1 /\ Extends(h, g) /\ g[Len(h) + 1] = k
    BY DEF Adds
  <1>2. Len(h) \in Nat
    BY Positions
  <1>3. PICK s : s = SlotAt(h)
    OBVIOUS
  <1>4. /\ s \in 0 .. Len(h)
        /\ s > 0 => IsSlotStep(h[s])
        /\ \A i \in 1 .. Len(h) : IsSlotStep(h[i]) => i <= s
        /\ Slot(h) = IF s = 0 \/ h[s].step = "release" THEN None ELSE h[s].run
    BY <1>3, SlotFacts
  <1>5. PICK t : t = SlotAt(g)
    OBVIOUS
  <1>6. /\ t \in 0 .. Len(g)
        /\ t > 0 => IsSlotStep(g[t])
        /\ \A i \in 1 .. Len(g) : IsSlotStep(g[i]) => i <= t
        /\ Slot(g) = IF t = 0 \/ g[t].step = "release" THEN None ELSE g[t].run
    BY <1>1, <1>5, SlotFacts
  <1>7. CASE k.step \in SlotSteps
    <2>1. Len(h) + 1 \in 1 .. Len(g) /\ IsSlotStep(g[Len(h) + 1])
      BY <1>1, <1>2, <1>7 DEF IsSlotStep
    <2>2. t = Len(h) + 1
      BY <1>1, <1>2, <1>6, <2>1
    <2>3. g[t] = k /\ t # 0
      BY <1>1, <1>2, <2>2
    <2>4. Slot(g) = IF k.step = "release" THEN None ELSE k.run
      BY <1>6, <2>3
    <2> QED
      BY <1>7, <2>4 DEF SlotSteps
  <1>8. CASE k.step \notin SlotSteps
    <2>1. ~ IsSlotStep(g[Len(h) + 1])
      BY <1>1, <1>8 DEF IsSlotStep
    <2>2. t # Len(h) + 1
      BY <1>2, <1>6, <2>1
    <2>3. t \in 0 .. Len(h)
      BY <1>1, <1>2, <1>6, <2>2
    <2>4. \A i \in 1 .. Len(h) : g[i] = h[i]
      BY <1>1 DEF Extends
    <2>5. t > 0 => t \in 1 .. Len(h) /\ IsSlotStep(h[t]) /\ g[t] = h[t]
      BY <1>2, <1>6, <2>3, <2>4
    <2>6. s > 0 => s \in 1 .. Len(g) /\ IsSlotStep(g[s]) /\ g[s] = h[s]
      BY <1>1, <1>2, <1>4, <2>4
    <2>7. t > 0 => t <= s
      BY <1>4, <2>5
    <2>8. s > 0 => s <= t
      BY <1>6, <2>6
    <2>9. t = s
      BY <1>2, <1>4, <2>3, <2>7, <2>8
    <2>10. Slot(g) = Slot(h)
      BY <1>4, <1>6, <2>3, <2>5, <2>9, <1>2
    <2> QED
      BY <1>8, <2>10 DEF SlotSteps
  <1> QED
    BY <1>7, <1>8

LEMMA PhaseAppended ==
  ASSUME NEW h \in Histories, NEW k \in Commits, NEW g, Adds(h, k, g), NEW c
  PROVE  Phase(g, c) = IF k.run = c /\ k.step \in Projections \ {"noted"}
                       THEN k.step ELSE Phase(h, c)
  <1>1. g \in Histories /\ Len(g) = Len(h) + 1 /\ Extends(h, g) /\ g[Len(h) + 1] = k
    BY DEF Adds
  <1>2. Len(h) \in Nat
    BY Positions
  <1>3. PICK r : r = {c}
    OBVIOUS
  <1>4. PICK s : s = Projections \ {"noted"}
    OBVIOUS
  <1>5. Match(g, Len(h) + 1, r, s) <=> k.run = c /\ k.step \in Projections \ {"noted"}
    BY <1>1, <1>3, <1>4 DEF Match
  <1>6. CASE Match(g, Len(h) + 1, r, s)
    <2>1. PICK p : p = Len(h) + 1
      OBVIOUS
    <2>2. p \in 0 .. Len(g) /\ p > 0 /\ p = Len(g)
      BY <1>1, <1>2, <2>1
    <2>3. Match(g, p, r, s) /\ \A i \in 1 .. Len(g) : i <= p
      BY <1>6, <2>1, <2>2
    <2>6. Newest(g, r, s) = p
      BY <1>1, <2>2, <2>3, NewestIs
    <2>4. Phase(g, c) = g[p].step
      BY <1>3, <1>4, <2>2, <2>6 DEF Phase, Stages
    <2> QED
      BY <1>1, <1>5, <1>6, <2>1, <2>4
  <1>7. CASE ~ Match(g, Len(h) + 1, r, s)
    <2>1. \A i \in Len(h) + 1 .. Len(g) : i = Len(h) + 1
      BY <1>1, <1>2
    <2>2. \A i \in Len(h) + 1 .. Len(g) : ~ Match(g, i, r, s)
      BY <1>7, <2>1
    <2>3. PICK p : p = Newest(h, r, s)
      OBVIOUS
    <2>4. Newest(g, r, s) = p /\ (p > 0 => g[p] = h[p])
      BY <1>1, <2>2, <2>3, NewestKept
    <2>5. p \in 0 .. Len(h)
      BY <2>3, NewestFacts
    <2>6. Phase(g, c) = Phase(h, c)
      BY <1>2, <1>3, <1>4, <2>3, <2>4, <2>5 DEF Phase, Stages
    <2> QED
      BY <1>5, <1>7, <2>6
  <1> QED
    BY <1>6, <1>7

(* The remote gains one legal commit at a time. *)
LEMMA OnePublished ==
  ASSUME IInv, IInv', OneAhead, Next, remote' # remote
  PROVE  \E k \in Commits : remote' = Append(remote, k) /\ Legal(remote, k)
  <1>1. PICK c \in Controllers : IsPrefix(remote, local[c]) /\ remote' = local[c]
    BY ZenonT(60) DEF Next, Load, LoadSettles, SettlePush, SettleConfirm, PlanAcquire, PlanRelease,
       PlanConfirm, WriteNext, Resubmit, Unsure, Pull, PullApply, Initialize, InitialCommit,
       WritePending, WriteAhead, PublishAhead, Republish, Mutate, StaleConfirm, CommitBatch,
       ProvePush, PushBatch, ConfirmBatch, SlotCommand, SlotLost, SlotRecover, Reconcile,
       SlotCommit, SlotProve, SlotPush, SlotConfirm, End, Operator, DoPush, DoCommit,
       Answer, Submit
  <1>2. PICK h : h = local[c]
    OBVIOUS
  <1>3. remote \in Histories /\ h \in Histories /\ remote' = h
    BY <1>1, <1>2 DEF IInv, Typed
  <1>4. Extends(remote, h)
    BY <1>1, <1>2, <1>3, PrefixExtends
  <1>5. Len(h) <= Len(remote) + 1
    BY <1>2 DEF OneAhead, Slim
  <1>6. Len(remote) \in Nat /\ Len(h) \in Nat /\ Len(remote) <= Len(h)
        /\ \A i \in 1 .. Len(remote) : h[i] = remote[i]
    BY <1>3, <1>4, Positions DEF Extends
  <1>7. Len(h) # Len(remote)
    BY <1>3, <1>6, SeqEqual DEF Histories
  <1>8. Len(h) = Len(remote) + 1
    BY <1>5, <1>6, <1>7
  <1>9. PICK k : k = h[Len(h)]
    OBVIOUS
  <1>10. k \in Commits
    BY <1>3, <1>6, <1>8, <1>9, Positions
  <1>11. PICK g : g = Append(remote, k)
    OBVIOUS
  <1>12. /\ g \in Histories /\ Len(g) = Len(remote) + 1 /\ Extends(remote, g)
         /\ g[Len(remote) + 1] = k
    BY <1>3, <1>10, <1>11, Appended
  <1>13. g = h
    <2>1. \A i \in 1 .. Len(g) : g[i] = h[i]
      BY <1>6, <1>8, <1>9, <1>12 DEF Extends
    <2> QED
      BY <1>3, <1>8, <1>12, <2>1, SeqEqual DEF Histories
  <1>14. Ordered(h)
    BY <1>3 DEF IInv
  <1>15. Legal(SubSeq(h, 1, Len(h) - 1), h[Len(h)])
    BY <1>3, <1>6, <1>8, <1>14, Positions DEF Ordered
  <1>16. SubSeq(h, 1, Len(remote)) = SubSeq(remote, 1, Len(remote))
    BY <1>3, <1>6, SamePrefix
  <1>17. SubSeq(remote, 1, Len(remote)) = remote
    BY <1>3, SubSeqFull DEF Histories
  <1>18. Len(h) - 1 = Len(remote)
    BY <1>6, <1>8
  <1>19. Legal(remote, k)
    BY <1>9, <1>15, <1>16, <1>17, <1>18
  <1> QED
    BY <1>3, <1>10, <1>11, <1>13, <1>19

(* Where a run stands, as TakingTurns tells it. *)
Stands(h) ==
  [c \in Controllers |-> IF Phase(h, c) = "work" THEN "owned" ELSE Phase(h, c)]

LEMMA StandsAppended ==
  ASSUME NEW h \in Histories, NEW k \in Commits, NEW g, Adds(h, k, g)
  PROVE  /\ k.step \in SlotSteps \cup {"noted"} => Stands(g) = Stands(h)
         /\ k.step \in Projections \ {"noted", "work"} =>
              Stands(g) = [Stands(h) EXCEPT ![k.run] = k.step]
         /\ k.step = "work" => Stands(g) = [Stands(h) EXCEPT ![k.run] = "owned"]
  <1>1. \A c \in Controllers :
          Phase(g, c) = IF k.run = c /\ k.step \in Projections \ {"noted"}
                        THEN k.step ELSE Phase(h, c)
    BY PhaseAppended
  <1>2. k.step \in SlotSteps \cup {"noted"} => k.step \notin Projections \ {"noted"}
    BY DEF SlotSteps, Projections
  <1>3. ASSUME k.step \in SlotSteps \cup {"noted"}
        PROVE  Stands(g) = Stands(h)
    BY <1>1, <1>2, <1>3 DEF Stands
  <1>4. ASSUME k.step \in Projections \ {"noted", "work"}
        PROVE  Stands(g) = [Stands(h) EXCEPT ![k.run] = k.step]
    BY <1>1, <1>4 DEF Stands
  <1>5. ASSUME k.step = "work"
        PROVE  Stands(g) = [Stands(h) EXCEPT ![k.run] = "owned"]
    BY <1>1, <1>5 DEF Stands, Projections
  <1> QED
    BY <1>3, <1>4, <1>5

LEMMA PublicationSound ==
  ASSUME NEW k \in Commits, remote \in Histories, remote' = Append(remote, k),
         Legal(remote, k)
  PROVE  Turns!Next \/ UNCHANGED Turns!vars
  <1>1. PICK h : h = remote
    OBVIOUS
  <1>2. PICK g : g = Append(h, k)
    OBVIOUS
  <1>3. PICK c : c = k.run
    OBVIOUS
  <1>21. Adds(h, k, g)
    <2>1. h \in Histories
      BY <1>1
    <2>2. g \in Histories /\ Len(g) = Len(h) + 1 /\ Extends(h, g) /\ g[Len(h) + 1] = k
      BY <1>2, <2>1, Appended
    <2> QED
      BY <2>2 DEF Adds
  <1>4. c \in Controllers /\ c # None /\ k.step \in SlotSteps \cup Projections
    BY <1>3, NoneApart DEF Commits
  <1>5. /\ Slot(g) = IF k.step = "acquire" THEN c
                     ELSE IF k.step = "release" THEN None ELSE Slot(h)
        /\ k.step \in SlotSteps \cup {"noted"} => Stands(g) = Stands(h)
        /\ k.step \in Projections \ {"noted", "work"} =>
              Stands(g) = [Stands(h) EXCEPT ![c] = k.step]
        /\ k.step = "work" => Stands(g) = [Stands(h) EXCEPT ![c] = "owned"]
    BY <1>1, <1>3, <1>21, SlotAppended, StandsAppended
  <1>6. Stands(h)[c] = IF Phase(h, c) = "work" THEN "owned" ELSE Phase(h, c)
    BY <1>4 DEF Stands
  <1>7. remote = h /\ remote' = g
    BY <1>1, <1>2
  <1>8. Legal(h, k)
    BY <1>1
  <1>9. PICK s : s = Slot(h)
    OBVIOUS
  <1>10. PICK t : t = Slot(g)
    OBVIOUS
  <1>11. PICK p : p = Stands(h)
    OBVIOUS
  <1>12. PICK q : q = Stands(g)
    OBVIOUS
  <1>13. /\ Slot(remote) = s /\ Slot(remote') = t
         /\ Stands(remote) = p /\ Stands(remote') = q
    BY <1>7, <1>9, <1>10, <1>11, <1>12
  <1>14. CASE k.step = "intent"
    <2>1. p[c] = "absent" /\ q = [p EXCEPT ![c] = "intent"] /\ t = s
      BY <1>3, <1>5, <1>6, <1>8, <1>9, <1>10, <1>11, <1>12, <1>14 DEF Legal, Projections
    <2>2. Turns!Intend(c)
      BY <1>13, <2>1 DEF Turns!Intend, Turns!Record, Stands
    <2> QED
      BY <1>4, <2>2 DEF Turns!Next
  <1>15. CASE k.step = "acquire"
    <2>1. p[c] = "intent" /\ q = p /\ s = None /\ t = c
      BY <1>3, <1>5, <1>6, <1>8, <1>9, <1>10, <1>11, <1>12, <1>15 DEF Legal, SlotSteps
    <2>2. Turns!Take(c)
      BY <1>13, <2>1 DEF Turns!Take, Stands
    <2> QED
      BY <1>4, <2>2 DEF Turns!Next
  <1>16. CASE k.step = "owned"
    <2>1. p[c] = "intent" /\ q = [p EXCEPT ![c] = "owned"] /\ t = s /\ s = c
      BY <1>3, <1>5, <1>6, <1>8, <1>9, <1>10, <1>11, <1>12, <1>16 DEF Legal, Projections
    <2>2. Turns!Own(c)
      BY <1>13, <2>1 DEF Turns!Own, Turns!Record, Stands
    <2> QED
      BY <1>4, <2>2 DEF Turns!Next
  <1>17. CASE k.step \in {"work", "noted"}
    <2>1. q = p /\ t = s
      <3>1. t = s
        BY <1>5, <1>9, <1>10, <1>17
      <3>2. k.step = "noted" => q = p
        BY <1>5, <1>11, <1>12
      <3>3. k.step = "work" => p[c] = "owned" /\ q = [p EXCEPT ![c] = "owned"]
        BY <1>3, <1>5, <1>6, <1>8, <1>11, <1>12 DEF Legal
      <3>4. DOMAIN p = Controllers /\ p = [d \in Controllers |-> p[d]]
        BY <1>11 DEF Stands
      <3>5. k.step = "work" => q = p
        BY <3>3, <3>4
      <3> QED
        BY <1>17, <3>1, <3>2, <3>5
    <2>2. UNCHANGED Turns!vars
      BY <1>13, <2>1 DEF Turns!vars, Stands
    <2> QED
      BY <2>2
  <1>18. CASE k.step = "closing"
    <2>1. p[c] = "owned" /\ q = [p EXCEPT ![c] = "closing"] /\ t = s /\ s = c
      BY <1>3, <1>5, <1>6, <1>8, <1>9, <1>10, <1>11, <1>12, <1>18 DEF Legal, Projections
    <2>2. Turns!Close(c)
      BY <1>13, <2>1 DEF Turns!Close, Turns!Record, Stands
    <2> QED
      BY <1>4, <2>2 DEF Turns!Next
  <1>19. CASE k.step = "release"
    <2>1. p[c] = "closing" /\ q = p /\ s = c /\ t = None
      BY <1>3, <1>5, <1>6, <1>8, <1>9, <1>10, <1>11, <1>12, <1>19 DEF Legal, SlotSteps
    <2>2. Turns!GiveUp(c)
      BY <1>13, <2>1 DEF Turns!GiveUp, Stands
    <2> QED
      BY <1>4, <2>2 DEF Turns!Next
  <1>20. CASE k.step = "released"
    <2>1. p[c] = "closing" /\ q = [p EXCEPT ![c] = "released"] /\ t = s /\ s = None
      BY <1>3, <1>5, <1>6, <1>8, <1>9, <1>10, <1>11, <1>12, <1>20 DEF Legal, Projections
    <2>2. Turns!Leave(c)
      BY <1>4, <1>13, <2>1 DEF Turns!Leave, Turns!Record, Stands
    <2> QED
      BY <1>4, <2>2 DEF Turns!Next
  <1> QED
    BY <1>4, <1>14, <1>15, <1>16, <1>17, <1>18, <1>19, <1>20 DEF SlotSteps, Projections

LEMMA TurnsBegin == Init => Turns!Init
  <1> SUFFICES ASSUME Init PROVE Turns!Init
    OBVIOUS
  <1>1. PICK h : h = remote
    OBVIOUS
  <1>2. h \in Histories /\ Len(h) = 0
    BY <1>1, EmptySeq DEF Init, Histories
  <1>3. SlotAt(h) = 0
    BY <1>2, SlotFacts
  <1>4. Slot(h) = None
    BY <1>3 DEF Slot
  <1>5. ASSUME NEW c \in Controllers PROVE Phase(h, c) = "absent"
    <2>1. Phase(h, c) # "absent" => Len(h) > 0
      BY <1>2, PhaseCases
    <2> QED
      BY <1>2, <2>1
  <1> QED
    BY <1>1, <1>4, <1>5 DEF Turns!Init

LEMMA StepSound ==
  ASSUME IInv, IInv', OneAhead, [Next]_vars
  PROVE  Turns!Next \/ UNCHANGED Turns!vars
  <1>1. CASE remote' = remote
    BY <1>1 DEF Turns!vars
  <1>2. CASE remote' # remote
    <2>1. Next
      BY <1>2 DEF vars
    <2>2. PICK k \in Commits : remote' = Append(remote, k) /\ Legal(remote, k)
      BY <1>2, <2>1, OnePublished
    <2>3. remote \in Histories
      BY DEF IInv, Typed
    <2> QED
      BY <2>2, <2>3, PublicationSound
  <1> QED
    BY <1>1, <1>2

LEMMA StepsTaken == Spec => [][Turns!Next]_(Turns!vars)
  <1>1. IInv /\ OneAhead /\ [Next]_vars /\ IInv' => OneAhead'
    BY NextAhead
  <1>2. IInv /\ IInv' /\ OneAhead /\ [Next]_vars => [Turns!Next]_(Turns!vars)
    BY StepSound
  <1> QED
    BY <1>1, <1>2, ClonesHold, InitAhead, PTL DEF Spec

(* The embedded store implements TakingTurns for any controllers and clones: *)
(* a push that lands changes one run's projection or the slot, once and in   *)
(* turn, and what other clones published before it stays published.          *)
THEOREM StoreTakesTurns == Spec => TurnsTaken /\ Turns!Spec
  <1>1. [Turns!Next]_(Turns!vars) => [remote' # remote => [Turns!Next]_(Turns!vars)]_remote
    OBVIOUS
  <1> QED
    BY <1>1, StepsTaken, TurnsBegin, PTL DEF Spec, TurnsTaken, Turns!Spec

(* In the shared history a run that is at work holds the slot, so no two runs *)
(* are ever at work.                                                         *)
THEOREM OneRunAtWork == Spec => []Turns!TurnsHold
  <1>1. Init => Turns!TurnsHold
    BY TurnsBegin DEF Turns!Init, Turns!TurnsHold, Turns!AtWork
  <1>2. Turns!TurnsHold /\ [Turns!Next]_(Turns!vars) => Turns!TurnsHold'
    <2> SUFFICES ASSUME Turns!TurnsHold, [Turns!Next]_(Turns!vars) PROVE Turns!TurnsHold'
      OBVIOUS
    <2>1. PICK s, t, p, q :
            s = Slot(remote) /\ t = Slot(remote)' /\ p = Stands(remote) /\ q = Stands(remote)'
      OBVIOUS
    <2>2. DOMAIN p = Controllers /\ p = [c \in Controllers |-> p[c]]
      BY <2>1 DEF Stands
    <2>3. \A c \in Controllers :
            /\ p[c] \in Turns!AtWork => s = c
            /\ p[c] \notin {"imported", "refused"}
      BY <2>1, NoneApart DEF Turns!TurnsHold, Stands
    <2>4. \/ q = p /\ t = s
          \/ \E c \in Controllers :
               \/ q = p /\ s = None /\ t = c
               \/ q = p /\ p[c] = "closing" /\ s = c /\ t = None
               \/ q = [p EXCEPT ![c] = "intent"] /\ t = s
               \/ q = [p EXCEPT ![c] = "owned"] /\ t = s /\ s = c
               \/ q = [p EXCEPT ![c] = "claiming"] /\ t = s /\ s = c
               \/ q = [p EXCEPT ![c] = "closing"] /\ t = s
               \/ q = [p EXCEPT ![c] = "released"] /\ t = s
      <3>1. CASE UNCHANGED Turns!vars
        BY <2>1, <3>1 DEF Turns!vars, Stands
      <3>2. CASE Turns!Next
        <4>1. PICK c \in Controllers :
                \/ Turns!Take(c) \/ Turns!GiveUp(c) \/ Turns!Claim(c)
                \/ Turns!Intend(c) \/ Turns!Own(c) \/ Turns!AskFor(c)
                \/ Turns!Learn(c) \/ Turns!Close(c) \/ Turns!Leave(c)
          BY <3>2 DEF Turns!Next
        <4>2. ~ Turns!Claim(c) /\ ~ Turns!Learn(c)
          BY NoneApart DEF Turns!Claim, Turns!Learn
        <4>3. CASE Turns!Take(c) \/ Turns!GiveUp(c)
          BY <2>1, <4>3 DEF Turns!Take, Turns!GiveUp, Stands
        <4>4. CASE Turns!Intend(c) \/ Turns!Own(c) \/ Turns!AskFor(c)
          BY <2>1, <4>4 DEF Turns!Intend, Turns!Own, Turns!AskFor, Turns!Record, Stands
        <4>5. CASE Turns!Close(c) \/ Turns!Leave(c)
          BY <2>1, <4>5 DEF Turns!Close, Turns!Leave, Turns!Record, Stands
        <4> QED
          BY <4>1, <4>2, <4>3, <4>4, <4>5
      <3> QED
        BY <3>1, <3>2
    <2>5. \A c \in Controllers :
            /\ q[c] \in Turns!AtWork => t = c
            /\ q[c] \notin {"imported", "refused"}
      BY <2>2, <2>3, <2>4, NoneApart DEF Turns!AtWork
    <2> QED
      BY <2>1, <2>5 DEF Turns!TurnsHold, Stands
  <1> QED
    BY <1>1, <1>2, StepsTaken, PTL DEF Spec
=============================================================================

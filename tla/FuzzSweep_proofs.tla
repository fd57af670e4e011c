-------------------------- MODULE FuzzSweep_proofs --------------------------
(***************************************************************************)
(* Theorems of FuzzSweep, for any set of entries and any number of pool    *)
(* threads: the slots are exclusive, none is ever lost, and an entry is    *)
(* credited for its own request only.  Theorems of ReachTargets, for any   *)
(* decode, any number of levels and any addresses: the arms the observer   *)
(* comes to are the defined ones, and the score tells the entries apart.   *)
(***************************************************************************)
EXTENDS FuzzSweep, ReachTargets, FiniteSetTheorems, SequenceTheorems, TLAPS

Jobs == [pc : {"queued", "running", "done"}, slot : Slots \cup {NoSlot}]
RunSet == {e \in Entries : Running(e)}

PoolTypeOK == free \in Seq(Slots) /\ job \in [Entries -> Jobs]

\* The list of free slots names none twice.
FreeDistinct == \A i, j \in 1 .. Len(free) : free[i] = free[j] => i = j

\* A running entry has a slot, and that one is not in the list.
HeldApart ==
  \A e \in Entries : Running(e) =>
    /\ job[e].slot \in Slots
    /\ \A i \in 1 .. Len(free) : free[i] # job[e].slot

HeldOnce ==
  \A e, f \in Entries : Running(e) /\ Running(f) /\ job[e].slot = job[f].slot => e = f

\* Free slots and running entries together are as many as the workers.
Conserved == IsFiniteSet(RunSet) /\ Len(free) + Cardinality(RunSet) = Workers

SlotInv == PoolTypeOK /\ FreeDistinct /\ HeldApart /\ HeldOnce /\ Conserved

-----------------------------------------------------------------------------
\* The list of all slots.
LEMMA AllSlots ==
  ASSUME free = [i \in 1 .. Workers |-> i - 1]
  PROVE  /\ free \in Seq(Slots) /\ Len(free) = Workers
         /\ \A i \in 1 .. Workers : free[i] = i - 1
<1>1. Workers \in Nat /\ \A i \in 1 .. Workers : i - 1 \in Slots
  BY FuzzAssumption DEF Slots
<1>2. free \in [1 .. Workers -> Slots]
  BY <1>1
<1> QED
  BY <1>1, <1>2

LEMMA InitHolds == Init => SlotInv
<1> SUFFICES ASSUME Init PROVE SlotInv
  OBVIOUS
<1>1. free = [i \in 1 .. Workers |-> i - 1]
  BY DEF Init
<1>2. /\ free \in Seq(Slots) /\ Len(free) = Workers
      /\ \A i \in 1 .. Workers : free[i] = i - 1
  BY <1>1, AllSlots
<1>3. job \in [Entries -> Jobs] /\ \A e \in Entries : ~Running(e)
  BY DEF Init, Jobs, Running
<1>4. RunSet = {}
  BY <1>3 DEF RunSet
<1>5. IsFiniteSet(RunSet) /\ Cardinality(RunSet) = 0
  BY <1>4, FS_EmptySet
<1>6. Workers \in Nat
  BY FuzzAssumption
<1> QED
  BY <1>2, <1>3, <1>5, <1>6
     DEF SlotInv, PoolTypeOK, FreeDistinct, HeldApart, HeldOnce, Conserved

\* A thread of the pool takes the first free slot.
LEMMA TakeKeeps ==
  ASSUME SlotInv, NEW e \in Entries, Take(e)
  PROVE  SlotInv'
<1> USE DEF SlotInv
<1>1. /\ job[e].pc = "queued" /\ free # <<>>
      /\ job' = [job EXCEPT ![e].pc = "running", ![e].slot = Head(free)]
      /\ free' = Tail(free)
  BY DEF Take, Popped
<1>2. /\ Head(free) \in Slots /\ Head(free) = free[1] /\ 1 \in 1 .. Len(free)
      /\ free' \in Seq(Slots) /\ Len(free') = Len(free) - 1
      /\ \A i \in 1 .. Len(free') : i + 1 \in 1 .. Len(free) /\ free'[i] = free[i + 1]
  BY <1>1 DEF PoolTypeOK
<1>3. /\ job' \in [Entries -> Jobs]
      /\ job'[e].pc = "running" /\ job'[e].slot = Head(free)
      /\ \A f \in Entries \ {e} : job'[f] = job[f]
  BY <1>1, <1>2 DEF PoolTypeOK, Jobs
<1>4. /\ Running(e)' /\ ~Running(e)
      /\ \A f \in Entries \ {e} : Running(f)' <=> Running(f)
  BY <1>1, <1>3 DEF Running
<1>5. FreeDistinct'
  <2> SUFFICES ASSUME NEW i \in 1 .. Len(free'), NEW j \in 1 .. Len(free'),
                      free'[i] = free'[j]
               PROVE  i = j
    BY DEF FreeDistinct
  <2>1. i + 1 = j + 1
    BY <1>2 DEF FreeDistinct
  <2> QED
    BY <2>1
<1>6. \A i \in 1 .. Len(free') : free'[i] # Head(free)
  <2> SUFFICES ASSUME NEW i \in 1 .. Len(free'), free'[i] = Head(free)
               PROVE  FALSE
    OBVIOUS
  <2>1. i + 1 = 1
    BY <1>2 DEF FreeDistinct
  <2> QED
    BY <2>1
<1>7. HeldApart'
  BY <1>2, <1>3, <1>4, <1>6 DEF HeldApart
<1>8. HeldOnce'
  <2>1. \A f \in Entries \ {e} : Running(f)' => job'[f].slot # job'[e].slot
    BY <1>2, <1>3, <1>4 DEF HeldApart
  <2>2. \A f, g \in Entries \ {e} :
          Running(f)' /\ Running(g)' /\ job'[f].slot = job'[g].slot => f = g
    BY <1>3, <1>4 DEF HeldOnce
  <2> QED
    BY <2>1, <2>2 DEF HeldOnce
<1>9. Conserved'
  <2>1. RunSet' = RunSet \cup {e} /\ e \notin RunSet
    BY <1>4 DEF RunSet
  <2>2. IsFiniteSet(RunSet') /\ Cardinality(RunSet') = Cardinality(RunSet) + 1
    BY <2>1, FS_AddElement DEF Conserved
  <2>3. Cardinality(RunSet) \in Nat /\ Len(free) \in Nat
    BY FS_CardinalityType DEF Conserved, PoolTypeOK
  <2> QED
    BY <1>2, <2>2, <2>3 DEF Conserved
<1> QED
  BY <1>2, <1>3, <1>5, <1>7, <1>8, <1>9 DEF PoolTypeOK

\* An entry that is done with, whichever way, puts its slot back.
LEMMA ReturnKeeps ==
  ASSUME SlotInv, NEW e \in Entries, Running(e), Answered(e), Release(e)
  PROVE  SlotInv'
<1> USE DEF SlotInv
<1> DEFINE s == job[e].slot
<1>1. job' = [job EXCEPT ![e].pc = "done"] /\ free' = Append(free, s)
  BY DEF Answered, Release
<1>2. s \in Slots /\ \A i \in 1 .. Len(free) : free[i] # s
  BY DEF HeldApart
<1>3. /\ free' \in Seq(Slots) /\ Len(free) \in Nat /\ Len(free') = Len(free) + 1
      /\ free'[Len(free')] = s
      /\ \A i \in 1 .. Len(free) : free'[i] = free[i]
  BY <1>1, <1>2 DEF PoolTypeOK
<1>4. /\ job' \in [Entries -> Jobs] /\ job'[e].pc = "done"
      /\ \A f \in Entries \ {e} : job'[f] = job[f]
  BY <1>1 DEF PoolTypeOK, Jobs
<1>5. /\ ~Running(e)'
      /\ \A f \in Entries \ {e} : Running(f)' <=> Running(f)
  BY <1>4 DEF Running
<1>6. FreeDistinct'
  BY <1>2, <1>3 DEF FreeDistinct
<1>7. HeldApart'
  <2> SUFFICES ASSUME NEW f \in Entries, Running(f)'
               PROVE  /\ job'[f].slot \in Slots
                      /\ \A i \in 1 .. Len(free') : free'[i] # job'[f].slot
    BY DEF HeldApart
  <2>1. f # e /\ Running(f) /\ job'[f].slot = job[f].slot
    BY <1>4, <1>5
  <2>2. job[f].slot \in Slots /\ job[f].slot # s
    BY <2>1 DEF HeldApart, HeldOnce
  <2>3. \A i \in 1 .. Len(free) : free'[i] # job[f].slot
    BY <1>3, <2>1 DEF HeldApart
  <2> QED
    BY <1>3, <2>1, <2>2, <2>3
<1>8. HeldOnce'
  BY <1>4, <1>5 DEF HeldOnce
<1>9. Conserved'
  <2>1. RunSet' = RunSet \ {e} /\ e \in RunSet
    BY <1>5 DEF RunSet
  <2>2. IsFiniteSet(RunSet') /\ Cardinality(RunSet') = Cardinality(RunSet) - 1
    BY <2>1, FS_RemoveElement DEF Conserved
  <2>3. Cardinality(RunSet) \in Nat
    BY FS_CardinalityType DEF Conserved
  <2> QED
    BY <1>3, <2>2, <2>3 DEF Conserved
<1> QED
  BY <1>3, <1>4, <1>6, <1>7, <1>8, <1>9 DEF PoolTypeOK

\* Nothing else looks at the slots.
LEMMA OthersKeep ==
  ASSUME SlotInv, UNCHANGED <<free, job>>
  PROVE  SlotInv'
BY DEF SlotInv, PoolTypeOK, FreeDistinct, HeldApart, HeldOnce, Conserved, RunSet,
       Running

LEMMA StepKeepsInv == SlotInv /\ [Next]_vars => SlotInv'
<1> SUFFICES ASSUME SlotInv, [Next]_vars PROVE SlotInv'
  OBVIOUS
<1>1. ASSUME NEW e \in Entries, Take(e) PROVE SlotInv'
  BY <1>1, TakeKeeps
<1>2. ASSUME NEW e \in Entries, Collect(e) PROVE SlotInv'
  BY <1>2, ReturnKeeps DEF Collect
<1>3. ASSUME NEW e \in Entries, Expire(e) PROVE SlotInv'
  BY <1>3, ReturnKeeps DEF Expire
<1>4. ASSUME NEW e \in Entries, ReachOne(e) PROVE UNCHANGED <<free, job>>
  BY <1>4 DEF ReachOne, Booted, NotReady, SendEntry, AskAddress, NoLiveness,
              AskDevice, DeviceSettle, Fail, Teardown
<1>5. ASSUME NEW e \in Entries, Emulator(e) PROVE UNCHANGED <<free, job>>
  BY <1>5 DEF Emulator, Boot, Serve, Crash, Exit, Vanish
<1>6. ASSUME UNCHANGED vars PROVE UNCHANGED <<free, job>>
  BY <1>6 DEF vars
<1> QED
  BY <1>1, <1>2, <1>3, <1>4, <1>5, <1>6, OthersKeep DEF Next, Pool

-----------------------------------------------------------------------------
\* Where the slots are in every reachable state, and how many.
THEOREM Invariant == Spec => []SlotInv
BY InitHolds, StepKeepsInv, PTL DEF Spec

\* No two entries under way share a slot, no slot under way is free, and none
\* is lost, however the children end (sweep's job and its `finally').
THEOREM SlotsAreExclusive == Spec => []SlotsExclusive
<1>1. SlotInv => SlotsExclusive
  <2> SUFFICES ASSUME SlotInv PROVE SlotsExclusive
    OBVIOUS
  <2>1. \A e \in Entries : Running(e) => ~Contains(free, job[e].slot)
    BY DEF SlotInv, HeldApart, Contains
  <2>2. {e \in Entries : Running(e)} = RunSet
    BY DEF RunSet
  <2> QED
    BY <2>1, <2>2 DEF SlotInv, HeldOnce, Conserved, SlotsExclusive
<1> QED
  BY Invariant, <1>1, PTL

-----------------------------------------------------------------------------
(* The requests of a run, and what is credited *)

Tags == {"enum", "e", "la", "ld"}

\* A run asks for these in this order, each once at the most.
Rank(t) == IF t = "enum" THEN 1 ELSE IF t = "e" THEN 2 ELSE IF t = "la" THEN 3 ELSE 4

\* The last that a child has sent when it is there, or that the host may have
\* queued by itself.
Asked(pc) ==
  IF pc \in {"none", "boot", "pre"} THEN 1
  ELSE IF pc = "after" THEN 2 ELSE IF pc = "la" THEN 3 ELSE 4

Children == [pc : {"none", "boot", "pre", "after", "la", "ld", "exited"},
             entryMark : Nat, liveMark : Nat, hit : BOOLEAN, live : BOOLEAN]
Emulators == [life : {"none", "booting", "serving", "failed", "dying", "gone"},
              queue : Seq(Tags), log : Seq(Tags \ {"la"}), took : BOOLEAN]

SweepTypes ==
  /\ mode \in Modes
  /\ child \in [Entries -> Children] /\ emu \in [Entries -> Emulators]
  /\ port \in [Slots -> Entries \cup {NoOne}]

\* No tag comes twice, and what is logged was asked for before what is queued.
Rising(s) == \A i, j \in 1 .. Len(s) : i < j => Rank(s[i]) < Rank(s[j])
Within(s, low, top) == \A i \in 1 .. Len(s) : low <= Rank(s[i]) /\ Rank(s[i]) <= top
Before(s, t) == \A i \in 1 .. Len(s), j \in 1 .. Len(t) : Rank(s[i]) < Rank(t[j])

Ordered(log, queue, low, top) ==
  /\ Rising(log) /\ Rising(queue) /\ Before(log, queue)
  /\ Within(log, low, top) /\ Within(queue, low, top)

Lowest == IF mode = "withEnum" THEN 1 ELSE 2

\* Who is not under way has left nothing behind, and a child that has exited
\* and an emulator that still boots have nothing queued.
Cleared(runs, c, m) ==
  /\ ~runs => c = NoChild /\ m.queue = <<>> /\ m.log = <<>>
  /\ c.pc \in {"none", "exited"} => m.queue = <<>>
  /\ m.life = "booting" => c.pc = "boot" /\ m.queue = <<>> /\ m.log = <<>>

MarksKept(c, m) ==
  /\ c.entryMark <= Len(m.log)
  /\ c.pc \in {"la", "ld", "exited"} => c.entryMark <= c.liveMark
  /\ c.pc # "exited" => ~c.hit

\* Without the host's own enumeration only the entry has run before the second
\* mark.
Earned(c, m) ==
  /\ c.pc \in {"after", "la", "ld"} => c.entryMark = 0
  /\ c.pc \in {"la", "ld"} =>
       c.liveMark = 0 \/ (c.liveMark = 1 /\ Len(m.log) > 0 /\ m.log[1] = "e")
  /\ c.hit => SubSeq(m.log, c.entryMark + 1, c.liveMark) = <<"e">>

Fits(runs, c, m, low) ==
  /\ Cleared(runs, c, m)
  /\ Ordered(m.log, m.queue, low, Asked(c.pc))
  /\ MarksKept(c, m)
  /\ low = 2 => Earned(c, m)

EntryInv(e) == Fits(Running(e), child[e], emu[e], Lowest)

SweepInv == SweepTypes /\ \A e \in Entries : EntryInv(e)

LEMMA EmptyIs == <<>> \in Seq(Tags) /\ <<>> \in Seq(Tags \ {"la"})
OBVIOUS

LEMMA SingleIs ==
  ASSUME NEW s \in Seq(Tags \ {"la"}), Len(s) = 1, s[1] = "e"
  PROVE  s = <<"e">>
OBVIOUS

LEMMA RankIs ==
  /\ Rank("enum") = 1 /\ Rank("e") = 2 /\ Rank("la") = 3 /\ Rank("ld") = 4
  /\ \A t \in Tags : Rank(t) \in 1 .. 4
  /\ \A t \in Tags : Rank(t) = 2 => t = "e"
  /\ \A t \in Tags \ {"la"} : t \in Tags /\ Rank(t) \in {1, 2, 4}
BY DEF Rank, Tags

\* An order of nothing queued.
LEMMA EmptyOrder ==
  ASSUME NEW log \in Seq(Tags \ {"la"}), NEW queue \in Seq(Tags), NEW low, NEW top,
         Ordered(log, queue, low, top)
  PROVE  Ordered(log, <<>>, low, top)
BY DEF Ordered, Rising, Within, Before

\* One more request is asked for.
LEMMA SendOrder ==
  ASSUME NEW log \in Seq(Tags \ {"la"}), NEW queue \in Seq(Tags), NEW low \in Nat,
         NEW top \in Nat, Ordered(log, queue, low, top), NEW t \in Tags,
         top < Rank(t), low <= Rank(t)
  PROVE  Ordered(log, Append(queue, t), low, Rank(t))
<1> DEFINE q == Append(queue, t)
<1>1. /\ q \in Seq(Tags) /\ Len(q) = Len(queue) + 1 /\ q[Len(queue) + 1] = t
      /\ \A i \in 1 .. Len(queue) : q[i] = queue[i]
      /\ Len(queue) \in Nat /\ Len(log) \in Nat
  OBVIOUS
<1> HIDE DEF q
<1>2. /\ \A i \in 1 .. Len(log) : Rank(log[i]) \in 1 .. 4
      /\ \A i \in 1 .. Len(queue) : Rank(queue[i]) \in 1 .. 4
      /\ Rank(t) \in 1 .. 4
  BY RankIs
<1>3. \A i \in 1 .. Len(q) : i \in 1 .. Len(queue) \/ i = Len(queue) + 1
  BY <1>1
<1>4. /\ \A i \in 1 .. Len(log) : low <= Rank(log[i]) /\ Rank(log[i]) < Rank(t)
      /\ \A i \in 1 .. Len(queue) : low <= Rank(queue[i]) /\ Rank(queue[i]) < Rank(t)
  <2>1. ASSUME NEW i \in 1 .. Len(log)
        PROVE  low <= Rank(log[i]) /\ Rank(log[i]) < Rank(t)
    <3>1. Rank(log[i]) \in 1 .. 4 /\ low <= Rank(log[i]) /\ Rank(log[i]) <= top
      BY <1>2 DEF Ordered, Within
    <3> QED
      BY <1>2, <3>1
  <2>2. ASSUME NEW i \in 1 .. Len(queue)
        PROVE  low <= Rank(queue[i]) /\ Rank(queue[i]) < Rank(t)
    <3>1. Rank(queue[i]) \in 1 .. 4 /\ low <= Rank(queue[i]) /\ Rank(queue[i]) <= top
      BY <1>2 DEF Ordered, Within
    <3> QED
      BY <1>2, <3>1
  <2> QED
    BY <2>1, <2>2
<1>5. Rising(q)
  <2> SUFFICES ASSUME NEW i \in 1 .. Len(q), NEW j \in 1 .. Len(q), i < j
               PROVE  Rank(q[i]) < Rank(q[j])
    BY DEF Rising
  <2>1. i \in 1 .. Len(queue)
    BY <1>1
  <2>2. CASE j \in 1 .. Len(queue)
    BY <1>1, <2>1, <2>2 DEF Ordered, Rising
  <2>3. CASE j = Len(queue) + 1
    BY <1>1, <1>4, <2>1, <2>3
  <2> QED
    BY <1>3, <2>2, <2>3
<1>6. Before(log, q)
  <2> SUFFICES ASSUME NEW i \in 1 .. Len(log), NEW j \in 1 .. Len(q)
               PROVE  Rank(log[i]) < Rank(q[j])
    BY DEF Before
  <2>2. CASE j \in 1 .. Len(queue)
    BY <1>1, <2>2 DEF Ordered, Before
  <2>3. CASE j = Len(queue) + 1
    BY <1>1, <1>4, <2>3
  <2> QED
    BY <1>3, <2>2, <2>3
<1>7. Within(log, low, Rank(t))
  BY <1>2, <1>4 DEF Within
<1>8. Within(q, low, Rank(t))
  <2> SUFFICES ASSUME NEW i \in 1 .. Len(q)
               PROVE  low <= Rank(q[i]) /\ Rank(q[i]) <= Rank(t)
    BY DEF Within
  <2>1. CASE i \in 1 .. Len(queue)
    <3>1. q[i] = queue[i] /\ low <= Rank(queue[i]) /\ Rank(queue[i]) < Rank(t)
      BY <1>1, <1>4, <2>1
    <3>2. Rank(queue[i]) \in 1 .. 4
      BY <1>2, <2>1
    <3> QED
      BY <1>2, <3>1, <3>2
  <2>2. CASE i = Len(queue) + 1
    BY <1>1, <1>2, <2>2
  <2> QED
    BY <1>3, <2>1, <2>2
<1> QED
  BY <1>5, <1>6, <1>7, <1>8 DEF Ordered, q

\* The first request is worked off, with or without a trace in the log.
LEMMA ServeOrder ==
  ASSUME NEW log \in Seq(Tags \ {"la"}), NEW queue \in Seq(Tags), NEW low, NEW top,
         Ordered(log, queue, low, top), queue # <<>>
  PROVE  /\ Ordered(log, Tail(queue), low, top)
         /\ Ordered(Append(log, Head(queue)), Tail(queue), low, top)
<1> DEFINE q == Tail(queue)
           l == Append(log, Head(queue))
<1>1. /\ Len(q) = Len(queue) - 1 /\ Len(queue) \in Nat /\ Len(queue) > 0
      /\ \A i \in 1 .. Len(q) : q[i] = queue[i + 1] /\ i + 1 \in 1 .. Len(queue)
      /\ 1 \in 1 .. Len(queue) /\ Head(queue) = queue[1]
  OBVIOUS
<1>2. /\ Len(l) = Len(log) + 1 /\ Len(log) \in Nat /\ l[Len(log) + 1] = queue[1]
      /\ \A i \in 1 .. Len(log) : l[i] = log[i]
  BY <1>1
<1> HIDE DEF q, l
<1>3. \A i \in 1 .. Len(l) : i \in 1 .. Len(log) \/ i = Len(log) + 1
  BY <1>2
<1>4. Rising(q) /\ Within(q, low, top)
  <2>1. ASSUME NEW i \in 1 .. Len(q), NEW j \in 1 .. Len(q), i < j
        PROVE  Rank(q[i]) < Rank(q[j])
    <3>1. i + 1 < j + 1 /\ i + 1 \in 1 .. Len(queue) /\ j + 1 \in 1 .. Len(queue)
      BY <1>1, <2>1
    <3>2. Rank(queue[i + 1]) < Rank(queue[j + 1])
      BY <3>1 DEF Ordered, Rising
    <3> QED
      BY <1>1, <3>2
  <2>2. Within(q, low, top)
    BY <1>1 DEF Ordered, Within
  <2> QED
    BY <2>1, <2>2 DEF Rising
<1>5. Before(log, q)
  BY <1>1 DEF Ordered, Before
<1>6. Rising(l)
  <2> SUFFICES ASSUME NEW i \in 1 .. Len(l), NEW j \in 1 .. Len(l), i < j
               PROVE  Rank(l[i]) < Rank(l[j])
    BY DEF Rising
  <2>1. i \in 1 .. Len(log)
    BY <1>2
  <2>2. CASE j \in 1 .. Len(log)
    BY <1>2, <2>1, <2>2 DEF Ordered, Rising
  <2>3. CASE j = Len(log) + 1
    BY <1>1, <1>2, <2>1, <2>3 DEF Ordered, Before
  <2> QED
    BY <1>3, <2>2, <2>3
<1>7. Within(l, low, top)
  BY <1>1, <1>2, <1>3 DEF Ordered, Within
<1>8. Before(l, q)
  <2> SUFFICES ASSUME NEW i \in 1 .. Len(l), NEW j \in 1 .. Len(q)
               PROVE  Rank(l[i]) < Rank(q[j])
    BY DEF Before
  <2>1. CASE i \in 1 .. Len(log)
    BY <1>2, <1>5, <2>1 DEF Before
  <2>2. CASE i = Len(log) + 1
    <3>1. Rank(queue[1]) < Rank(queue[j + 1])
      BY <1>1 DEF Ordered, Rising
    <3> QED
      BY <1>1, <1>2, <2>2, <3>1
  <2> QED
    BY <1>3, <2>1, <2>2
<1> QED
  BY <1>4, <1>5, <1>6, <1>7, <1>8 DEF Ordered, q, l

\* Three tags may be logged, so there are no more than three records.
LEMMA ShortLog ==
  ASSUME NEW log \in Seq(Tags \ {"la"}), Rising(log)
  PROVE  Len(log) <= 3
<1>1. SUFFICES ASSUME Len(log) > 3 PROVE FALSE
  OBVIOUS
<1>2. Len(log) \in Nat
  OBVIOUS
<1>3. 1 \in 1 .. Len(log) /\ 2 \in 1 .. Len(log) /\ 3 \in 1 .. Len(log) /\ 4 \in 1 .. Len(log)
  BY <1>1, <1>2
<1>4. /\ Rank(log[1]) \in {1, 2, 4} /\ Rank(log[2]) \in {1, 2, 4}
      /\ Rank(log[3]) \in {1, 2, 4} /\ Rank(log[4]) \in {1, 2, 4}
  BY <1>3, RankIs
<1>5. /\ Rank(log[1]) < Rank(log[2]) /\ Rank(log[2]) < Rank(log[3])
      /\ Rank(log[3]) < Rank(log[4])
  BY <1>3 DEF Rising
<1> QED
  BY <1>4, <1>5

\* When nothing but the entry can have run, at most the entry has.
LEMMA OnlyEntry ==
  ASSUME NEW log \in Seq(Tags \ {"la"}), Rising(log), Within(log, 2, 2)
  PROVE  log = <<>> \/ (Len(log) = 1 /\ log[1] = "e" /\ log = <<"e">>)
<1>1. Len(log) \in Nat /\ \A i \in 1 .. Len(log) : Rank(log[i]) \in {1, 2, 4}
  BY RankIs
<1>2. \A i \in 1 .. Len(log) : Rank(log[i]) = 2
  BY <1>1 DEF Within
<1>3. \A i \in 1 .. Len(log) : log[i] = "e"
  BY <1>2, RankIs
<1>4. ~(Len(log) > 1)
  <2>1. SUFFICES ASSUME Len(log) > 1 PROVE FALSE
    OBVIOUS
  <2>2. 1 \in 1 .. Len(log) /\ 2 \in 1 .. Len(log) /\ 1 < 2
    BY <1>1, <2>1
  <2>3. Rank(log[1]) < Rank(log[2]) /\ Rank(log[1]) = 2 /\ Rank(log[2]) = 2
    BY <1>2, <2>2 DEF Rising
  <2> QED
    BY <2>3
<1>5. CASE Len(log) = 0
  BY <1>5
<1>6. CASE Len(log) = 1
  <2>1. log[1] = "e"
    BY <1>3, <1>6
  <2> QED
    BY <1>6, <2>1
<1>7. Len(log) = 0 \/ Len(log) = 1
  <2> DEFINE n == Len(log)
  <2>1. n \in Nat /\ ~(n > 1)
    BY <1>1, <1>4
  <2> HIDE DEF n
  <2>2. n = 0 \/ n = 1
    BY <2>1
  <2> QED
    BY <2>2 DEF n
<1> QED
  BY <1>5, <1>6, <1>7

\* A later last request allows the same.
LEMMA WiderOrder ==
  ASSUME NEW log \in Seq(Tags \ {"la"}), NEW queue \in Seq(Tags), NEW low,
         NEW top \in 1 .. 4, Ordered(log, queue, low, top)
  PROVE  Ordered(log, queue, low, 4)
<1>1. /\ \A i \in 1 .. Len(log) : Rank(log[i]) \in 1 .. 4
      /\ \A i \in 1 .. Len(queue) : Rank(queue[i]) \in 1 .. 4
  BY RankIs
<1>2. Within(log, low, 4)
  <2>1. \A i \in 1 .. Len(log) : low <= Rank(log[i])
    BY DEF Ordered, Within
  <2> QED
    BY <1>1, <2>1 DEF Within
<1>3. Within(queue, low, 4)
  <2>1. \A i \in 1 .. Len(queue) : low <= Rank(queue[i])
    BY DEF Ordered, Within
  <2> QED
    BY <1>1, <2>1 DEF Within
<1> QED
  BY <1>2, <1>3 DEF Ordered

LEMMA NoOrder ==
  ASSUME NEW low, NEW top
  PROVE  Ordered(<<>>, <<>>, low, top)
BY DEF Ordered, Rising, Before, Within

LEMMA AskedIs ==
  /\ Asked("none") = 1 /\ Asked("boot") = 1 /\ Asked("pre") = 1
  /\ Asked("after") = 2 /\ Asked("la") = 3 /\ Asked("ld") = 4 /\ Asked("exited") = 4
BY DEF Asked

\* A step of one entry leaves the others alone.
LEMMA StepOf ==
  ASSUME SweepInv, NEW e \in Entries, NEW c \in Children, NEW m \in Emulators,
         child' = [child EXCEPT ![e] = c], emu' = [emu EXCEPT ![e] = m],
         mode' = mode, port' \in [Slots -> Entries \cup {NoOne}],
         \A f \in Entries \ {e} : Running(f)' = Running(f),
         Fits(Running(e)', c, m, Lowest)
  PROVE  SweepInv'
<1>1. /\ child \in [Entries -> Children] /\ emu \in [Entries -> Emulators]
      /\ mode \in Modes
  BY DEF SweepInv, SweepTypes
<1>2. SweepTypes'
  BY <1>1 DEF SweepTypes
<1>3. Lowest' = Lowest
  BY DEF Lowest
<1>4. ASSUME NEW f \in Entries
      PROVE  EntryInv(f)'
  <2>1. CASE f = e
    <3>1. child'[f] = c /\ emu'[f] = m
      BY <1>1, <2>1
    <3> QED
      BY <1>3, <2>1, <3>1, Zenon DEF EntryInv
  <2>2. CASE f # e
    <3>1. child'[f] = child[f] /\ emu'[f] = emu[f] /\ Running(f)' = Running(f)
      BY <1>1, <2>2
    <3>2. EntryInv(f)
      BY DEF SweepInv
    <3> QED
      BY <1>3, <3>1, <3>2, Zenon DEF EntryInv
  <2> QED
    BY <2>1, <2>2
<1> QED
  BY <1>2, <1>4 DEF SweepInv

\* What the invariant says of one entry.
LEMMA EntryOf ==
  ASSUME SweepInv, NEW e \in Entries
  PROVE  /\ child[e] \in Children /\ emu[e] \in Emulators
         /\ Fits(Running(e), child[e], emu[e], Lowest)
         /\ port \in [Slots -> Entries \cup {NoOne}] /\ Lowest \in {1, 2}
         /\ mode # "withEnum" => Lowest = 2
         /\ child = [child EXCEPT ![e] = child[e]] /\ emu = [emu EXCEPT ![e] = emu[e]]
BY DEF SweepInv, SweepTypes, EntryInv, Lowest

LEMMA SweepInit ==
  ASSUME Init
  PROVE  SweepInv
<1>1. SweepTypes
  BY DEF Init, SweepTypes, Children, Emulators, NoChild, Tags
<1>2. ASSUME NEW e \in Entries
      PROVE  EntryInv(e)
  <2>1. /\ child[e] = NoChild /\ emu[e].life = "none" /\ emu[e].queue = <<>>
        /\ emu[e].log = <<>>
    BY DEF Init
  <2>2. child[e].pc = "none" /\ child[e].hit = FALSE /\ child[e].entryMark = 0
    BY <2>1 DEF NoChild
  <2>3. Cleared(Running(e), child[e], emu[e])
    BY <2>1 DEF Cleared
  <2>4. Ordered(emu[e].log, emu[e].queue, Lowest, Asked(child[e].pc))
    BY <2>1, NoOrder
  <2>5. MarksKept(child[e], emu[e]) /\ Earned(child[e], emu[e])
    BY <2>1, <2>2 DEF MarksKept, Earned
  <2> QED
    BY <2>3, <2>4, <2>5 DEF EntryInv, Fits
<1> QED
  BY <1>1, <1>2 DEF SweepInv

-----------------------------------------------------------------------------
(* The pool *)

LEMMA TakeSweep ==
  ASSUME SlotInv, SweepInv, NEW e \in Entries, Take(e)
  PROVE  SweepInv'
<1> DEFINE c == [child[e] EXCEPT !.pc = "boot"]
           m == [emu[e] EXCEPT !.life = "booting"]
<1>1. /\ job[e].pc = "queued" /\ mode' = mode /\ port' = port
      /\ job' = [job EXCEPT ![e].pc = "running", ![e].slot = Head(free)]
      /\ child' = [child EXCEPT ![e] = c]
      /\ emu' = [emu EXCEPT ![e] = m]
  BY DEF Take
<1>2. /\ child[e] \in Children /\ emu[e] \in Emulators
      /\ Fits(Running(e), child[e], emu[e], Lowest)
      /\ port \in [Slots -> Entries \cup {NoOne}]
  BY EntryOf
<1>3. job \in [Entries -> Jobs]
  BY DEF SlotInv, PoolTypeOK
<1>4. /\ ~Running(e) /\ Running(e)'
      /\ \A f \in Entries \ {e} : Running(f)' = Running(f)
  BY <1>1, <1>3 DEF Running
<1>5. child[e] = NoChild /\ emu[e].queue = <<>> /\ emu[e].log = <<>>
  BY <1>2, <1>4 DEF Fits, Cleared
<1>6. c \in Children /\ c.pc = "boot" /\ c.hit = FALSE /\ c.entryMark = 0
  <2>1. c \in Children
    BY <1>2 DEF Children
  <2>2. /\ c.pc = "boot" /\ c.hit = child[e].hit
        /\ c.entryMark = child[e].entryMark
    BY <1>2 DEF Children
  <2>3. child[e].hit = FALSE /\ child[e].entryMark = 0
    BY <1>5 DEF NoChild
  <2> QED
    BY <2>1, <2>2, <2>3
<1>7. m \in Emulators /\ m.queue = <<>> /\ m.log = <<>>
  BY <1>2, <1>5 DEF Emulators
<1> HIDE DEF c, m
<1>8. Fits(Running(e)', c, m, Lowest)
  <2>1. Cleared(Running(e)', c, m)
    BY <1>4, <1>6, <1>7 DEF Cleared
  <2>2. Ordered(m.log, m.queue, Lowest, Asked(c.pc))
    BY <1>7, NoOrder
  <2>3. MarksKept(c, m) /\ Earned(c, m)
    BY <1>6, <1>7 DEF MarksKept, Earned
  <2> QED
    BY <2>1, <2>2, <2>3 DEF Fits
<1>9. port' \in [Slots -> Entries \cup {NoOne}]
  BY <1>1, <1>2
<1> QED
  BY <1>1, <1>4, <1>6, <1>7, <1>8, <1>9, StepOf

LEMMA AnsweredSweep ==
  ASSUME SlotInv, SweepInv, NEW e \in Entries, Running(e), Answered(e),
         child[e].pc \in {"ld", "exited"}, UNCHANGED <<mode, port>>
  PROVE  SweepInv'
<1> DEFINE m == [emu[e] EXCEPT !.queue = <<>>, !.log = <<>>, !.took = FALSE]
<1>1. /\ job' = [job EXCEPT ![e].pc = "done"]
      /\ child' = [child EXCEPT ![e] = NoChild]
      /\ emu' = [emu EXCEPT ![e] = m]
  BY DEF Answered
<1>2. /\ child[e] \in Children /\ emu[e] \in Emulators
      /\ Fits(Running(e), child[e], emu[e], Lowest)
      /\ port \in [Slots -> Entries \cup {NoOne}]
  BY EntryOf
<1>3. job \in [Entries -> Jobs] /\ NoChild \in Children
  BY DEF SlotInv, PoolTypeOK, NoChild, Children
<1>4. \A f \in Entries \ {e} : Running(f)' = Running(f)
  BY <1>1, <1>3 DEF Running
<1>5. NoChild.pc = "none" /\ NoChild.hit = FALSE /\ NoChild.entryMark = 0
  BY DEF NoChild
<1>6. m \in Emulators /\ m.queue = <<>> /\ m.log = <<>> /\ m.life # "booting"
  <2>1. emu[e].life # "booting"
    BY <1>2 DEF Fits, Cleared
  <2>2. m \in Emulators
    BY <1>2, EmptyIs DEF Emulators
  <2>3. m.queue = <<>> /\ m.log = <<>> /\ m.life = emu[e].life
    BY <1>2 DEF Emulators
  <2> QED
    BY <2>1, <2>2, <2>3
<1> HIDE DEF m
<1>7. Fits(Running(e)', NoChild, m, Lowest)
  <2>1. Cleared(Running(e)', NoChild, m)
    BY <1>6 DEF Cleared
  <2>2. Ordered(m.log, m.queue, Lowest, Asked(NoChild.pc))
    BY <1>6, NoOrder
  <2>3. MarksKept(NoChild, m) /\ Earned(NoChild, m)
    BY <1>5, <1>6 DEF MarksKept, Earned
  <2> QED
    BY <2>1, <2>2, <2>3 DEF Fits
<1>8. port' \in [Slots -> Entries \cup {NoOne}] /\ mode' = mode
  BY <1>2
<1> QED
  BY <1>1, <1>3, <1>4, <1>6, <1>7, <1>8, StepOf

-----------------------------------------------------------------------------
(* The emulator *)

\* What the host model queues by itself is the first of all requests.
LEMMA BootOrder ==
  ASSUME NEW top \in 1 .. 4
  PROVE  Script \in Seq(Tags) /\ Ordered(<<>>, Script, Lowest, top)
<1>1. CASE mode = "withEnum"
  <2>1. Script = <<"enum">> /\ Lowest = 1
    BY <1>1 DEF Script, Lowest
  <2>2. <<"enum">> \in Seq(Tags)
    BY DEF Tags
  <2>3. \A i \in 1 .. Len(<<"enum">>) : i = 1 /\ Rank(<<"enum">>[i]) = 1
    BY RankIs
  <2>4. Ordered(<<>>, <<"enum">>, 1, top)
    BY <2>3 DEF Ordered, Rising, Before, Within
  <2> QED
    BY <2>1, <2>2, <2>4
<1>2. CASE mode # "withEnum"
  <2>1. Script = <<>>
    BY <1>2 DEF Script
  <2> QED
    BY <2>1, NoOrder
<1> QED
  BY <1>1, <1>2

LEMMA BootSweep ==
  ASSUME SweepInv, NEW e \in Entries, Boot(e)
  PROVE  SweepInv'
<1>1. /\ child[e] \in Children /\ emu[e] \in Emulators
      /\ Fits(Running(e), child[e], emu[e], Lowest)
      /\ port \in [Slots -> Entries \cup {NoOne}]
      /\ child = [child EXCEPT ![e] = child[e]]
  BY EntryOf
<1>2. /\ emu[e].life = "booting" /\ child[e].pc = "boot"
      /\ emu[e].queue = <<>> /\ emu[e].log = <<>>
  BY <1>1 DEF Boot, Fits, Cleared
<1>3. Running(e)
  <2>1. child[e] # NoChild
    BY <1>2 DEF NoChild
  <2> QED
    BY <1>1, <2>1 DEF Fits, Cleared
<1>4. \A f \in Entries : Running(f)' = Running(f)
  BY DEF Boot, Running
<1>5. Script \in Seq(Tags) /\ Ordered(<<>>, Script, Lowest, Asked(child[e].pc))
  BY <1>2, AskedIs, BootOrder
<1>6. ASSUME NEW m \in Emulators, m.life \in {"serving", "failed"}, m.log = <<>>,
             m.queue \in {Script, <<>>}
      PROVE  Fits(Running(e)', child[e], m, Lowest)
  <2>1. Cleared(Running(e)', child[e], m)
    BY <1>2, <1>3, <1>4, <1>6 DEF Cleared
  <2>2. Ordered(m.log, m.queue, Lowest, Asked(child[e].pc))
    BY <1>5, <1>6, NoOrder
  <2>3. MarksKept(child[e], m)
    BY <1>1, <1>2, <1>6 DEF Fits, MarksKept
  <2>4. Earned(child[e], m)
    BY <1>1, <1>2 DEF Fits, MarksKept, Earned
  <2> QED
    BY <2>1, <2>2, <2>3, <2>4 DEF Fits
<1>7. mode' = mode /\ child' = [child EXCEPT ![e] = child[e]]
  BY <1>1 DEF Boot
<1>8. CASE port[job[e].slot] = NoOne
  <2> DEFINE m == [emu[e] EXCEPT !.life = "serving", !.queue = Script]
  <2>1. /\ emu' = [emu EXCEPT ![e] = m]
        /\ port' = [port EXCEPT ![job[e].slot] = e]
    BY <1>8 DEF Boot
  <2>2. m \in Emulators /\ m.life = "serving" /\ m.log = <<>> /\ m.queue = Script
    BY <1>1, <1>2, <1>5 DEF Emulators
  <2>3. port' \in [Slots -> Entries \cup {NoOne}]
    BY <1>1, <2>1
  <2> HIDE DEF m
  <2>4. Fits(Running(e)', child[e], m, Lowest)
    BY <1>6, <2>2
  <2> QED
    BY <1>1, <1>4, <1>7, <2>1, <2>2, <2>3, <2>4, StepOf
<1>9. CASE port[job[e].slot] # NoOne
  <2> DEFINE m == [emu[e] EXCEPT !.life = "failed"]
  <2>1. emu' = [emu EXCEPT ![e] = m] /\ port' = port
    BY <1>9 DEF Boot
  <2>2. m \in Emulators /\ m.life = "failed" /\ m.log = <<>> /\ m.queue = <<>>
    BY <1>1, <1>2 DEF Emulators
  <2>3. port' \in [Slots -> Entries \cup {NoOne}]
    BY <1>1, <2>1
  <2> HIDE DEF m
  <2>4. Fits(Running(e)', child[e], m, Lowest)
    BY <1>6, <2>2
  <2> QED
    BY <1>1, <1>4, <1>7, <2>1, <2>2, <2>3, <2>4, StepOf
<1> QED
  BY <1>8, <1>9

LEMMA ServeSweep ==
  ASSUME SweepInv, NEW e \in Entries, Serve(e)
  PROVE  SweepInv'
<1> DEFINE tag == Head(emu[e].queue)
           rest == [emu[e] EXCEPT !.queue = Tail(@)]
           taken == [rest EXCEPT !.took = TRUE]
           reacts == [rest EXCEPT !.log = Append(@, tag)]
<1>1. /\ child[e] \in Children /\ emu[e] \in Emulators
      /\ Fits(Running(e), child[e], emu[e], Lowest)
      /\ port \in [Slots -> Entries \cup {NoOne}]
      /\ child = [child EXCEPT ![e] = child[e]]
  BY EntryOf
<1>2. /\ emu[e].life = "serving" /\ emu[e].queue # <<>>
      /\ emu[e].queue \in Seq(Tags) /\ emu[e].log \in Seq(Tags \ {"la"})
  BY <1>1 DEF Serve, Emulators
<1>3. Running(e) /\ child[e].pc \notin {"none", "exited"} /\ ~child[e].hit
  <2>1. Running(e) /\ child[e].pc \notin {"none", "exited"}
    BY <1>1, <1>2 DEF Fits, Cleared
  <2> QED
    BY <1>1, <2>1 DEF Fits, MarksKept
<1>4. \A f \in Entries : Running(f)' = Running(f)
  BY DEF Serve, Running
<1>5. /\ mode' = mode /\ child' = [child EXCEPT ![e] = child[e]]
      /\ port' \in [Slots -> Entries \cup {NoOne}]
  BY <1>1 DEF Serve
<1>6. \/ emu' = [emu EXCEPT ![e] = rest]
      \/ emu' = [emu EXCEPT ![e] = taken]
      \/ tag \in {"enum", "e", "ld"} /\ emu' = [emu EXCEPT ![e] = reacts]
  BY DEF Serve
<1>7. /\ rest \in Emulators /\ rest.life = "serving"
      /\ rest.queue = Tail(emu[e].queue) /\ rest.log = emu[e].log
      /\ taken \in Emulators /\ taken.life = "serving"
      /\ taken.queue = Tail(emu[e].queue) /\ taken.log = emu[e].log
  <2>1. Tail(emu[e].queue) \in Seq(Tags)
    BY <1>2
  <2>2. rest \in Emulators
    BY <1>1, <2>1 DEF Emulators
  <2>3. /\ rest.life = "serving" /\ rest.queue = Tail(emu[e].queue)
        /\ rest.log = emu[e].log
    BY <1>1, <1>2 DEF Emulators
  <2> HIDE DEF rest
  <2>4. taken \in Emulators
    BY <2>2 DEF Emulators
  <2>5. taken.life = rest.life /\ taken.queue = rest.queue /\ taken.log = rest.log
    BY <2>2 DEF Emulators
  <2> QED
    BY <2>2, <2>3, <2>4, <2>5
<1>8. ASSUME tag \in {"enum", "e", "ld"}
      PROVE  /\ reacts \in Emulators /\ reacts.life = "serving"
             /\ reacts.queue = Tail(emu[e].queue) /\ reacts.log = Append(emu[e].log, tag)
  <2>1. Append(emu[e].log, tag) \in Seq(Tags \ {"la"})
    BY <1>2, <1>8 DEF Tags
  <2>2. /\ rest \in Emulators /\ rest.life = "serving"
        /\ rest.queue = Tail(emu[e].queue) /\ rest.log = emu[e].log
    BY <1>7
  <2> HIDE DEF rest
  <2>3. reacts \in Emulators
    BY <2>1, <2>2 DEF Emulators
  <2>4. /\ reacts.life = rest.life /\ reacts.queue = rest.queue
        /\ reacts.log = Append(rest.log, tag)
    BY <2>2 DEF Emulators
  <2> QED
    BY <2>2, <2>3, <2>4
<1>9. ASSUME NEW m \in Emulators, m.life = "serving", m.queue = Tail(emu[e].queue),
             m.log \in {emu[e].log, Append(emu[e].log, Head(emu[e].queue))}
      PROVE  Fits(Running(e)', child[e], m, Lowest)
  <2>1. Cleared(Running(e)', child[e], m)
    BY <1>3, <1>4, <1>9 DEF Cleared
  <2>2. Ordered(m.log, m.queue, Lowest, Asked(child[e].pc))
    <3>1. Ordered(emu[e].log, emu[e].queue, Lowest, Asked(child[e].pc))
      BY <1>1 DEF Fits
    <3>2. /\ Ordered(emu[e].log, Tail(emu[e].queue), Lowest, Asked(child[e].pc))
          /\ Ordered(Append(emu[e].log, Head(emu[e].queue)), Tail(emu[e].queue),
                     Lowest, Asked(child[e].pc))
      BY <1>2, <3>1, ServeOrder, Zenon
    <3> QED
      BY <1>9, <3>2
  <2>3. /\ Len(m.log) >= Len(emu[e].log) /\ Len(emu[e].log) \in Nat /\ Len(m.log) \in Nat
        /\ Len(emu[e].log) > 0 => m.log[1] = emu[e].log[1]
    <3>1. CASE m.log = emu[e].log
      BY <1>2, <3>1
    <3>2. CASE m.log = Append(emu[e].log, Head(emu[e].queue))
      <4> DEFINE g == emu[e].log
                 h == Head(emu[e].queue)
      <4>1. g \in Seq(Tags \ {"la"}) /\ m.log = Append(g, h)
        BY <1>2, <3>2
      <4> HIDE DEF g, h
      <4>2. /\ Len(g) \in Nat /\ Len(m.log) = Len(g) + 1
            /\ Len(g) > 0 => m.log[1] = g[1]
        BY <4>1
      <4>3. Len(m.log) >= Len(g) /\ Len(m.log) \in Nat
        BY <4>2
      <4> QED
        BY <4>2, <4>3 DEF g
    <3> QED
      BY <1>9, <3>1, <3>2
  <2>4. MarksKept(child[e], m)
    <3>1. /\ child[e].entryMark <= Len(emu[e].log) /\ child[e].entryMark \in Nat
          /\ child[e].pc \in {"la", "ld", "exited"} => child[e].entryMark <= child[e].liveMark
      BY <1>1 DEF Fits, MarksKept, Children
    <3> QED
      BY <1>3, <2>3, <3>1 DEF MarksKept
  <2>5. Lowest = 2 => Earned(child[e], m)
    BY <1>1, <1>3, <2>3 DEF Fits, Earned
  <2> QED
    BY <2>1, <2>2, <2>4, <2>5 DEF Fits
<1> HIDE DEF rest, taken, reacts
<1>10. CASE emu' = [emu EXCEPT ![e] = rest]
  <2>1. Fits(Running(e)', child[e], rest, Lowest)
    BY <1>7, <1>9
  <2> QED
    BY <1>1, <1>4, <1>5, <1>7, <1>10, <2>1, StepOf
<1>11. CASE emu' = [emu EXCEPT ![e] = taken]
  <2>1. Fits(Running(e)', child[e], taken, Lowest)
    BY <1>7, <1>9
  <2> QED
    BY <1>1, <1>4, <1>5, <1>7, <1>11, <2>1, StepOf
<1>12. CASE tag \in {"enum", "e", "ld"} /\ emu' = [emu EXCEPT ![e] = reacts]
  <2>1. Fits(Running(e)', child[e], reacts, Lowest)
    BY <1>8, <1>9, <1>12
  <2> QED
    BY <1>1, <1>4, <1>5, <1>8, <1>12, <2>1, StepOf
<1> QED
  BY <1>6, <1>10, <1>11, <1>12

\* An emulator that ends takes its queue with it, and leaves its log.
LEMMA EndedFits ==
  ASSUME NEW runs, NEW c \in Children, NEW n \in Emulators, NEW m \in Emulators,
         NEW low, Fits(runs, c, n, low), m.life # "booting", m.queue = <<>>,
         m.log = n.log
  PROVE  Fits(runs, c, m, low)
<1>1. Cleared(runs, c, m)
  BY DEF Fits, Cleared
<1>2. Ordered(m.log, m.queue, low, Asked(c.pc))
  <2>1. n.log \in Seq(Tags \ {"la"}) /\ n.queue \in Seq(Tags)
    BY DEF Emulators
  <2>2. Ordered(n.log, n.queue, low, Asked(c.pc))
    BY DEF Fits
  <2>3. Ordered(n.log, <<>>, low, Asked(c.pc))
    BY <2>1, <2>2, EmptyOrder, Zenon
  <2> QED
    BY <2>3
<1>3. MarksKept(c, m)
  BY DEF Fits, MarksKept
<1>4. low = 2 => Earned(c, m)
  BY DEF Fits, Earned
<1> QED
  BY <1>1, <1>2, <1>3, <1>4 DEF Fits

LEMMA VanishSweep ==
  ASSUME SweepInv, NEW e \in Entries, Vanish(e)
  PROVE  SweepInv'
<1> DEFINE m == [emu[e] EXCEPT !.life = "gone", !.queue = <<>>]
<1>1. /\ child[e] \in Children /\ emu[e] \in Emulators
      /\ Fits(Running(e), child[e], emu[e], Lowest)
      /\ port \in [Slots -> Entries \cup {NoOne}]
      /\ child = [child EXCEPT ![e] = child[e]]
  BY EntryOf
<1>2. /\ mode' = mode /\ child' = [child EXCEPT ![e] = child[e]]
      /\ emu' = [emu EXCEPT ![e] = m] /\ port' = Unbound(e)
  BY <1>1 DEF Vanish
<1>3. port' \in [Slots -> Entries \cup {NoOne}]
  BY <1>1, <1>2 DEF Unbound
<1>4. \A f \in Entries : Running(f)' = Running(f)
  BY DEF Vanish, Running
<1>5. m \in Emulators /\ m.life = "gone" /\ m.queue = <<>> /\ m.log = emu[e].log
  <2>1. m \in Emulators
    BY <1>1, EmptyIs DEF Emulators
  <2>2. m.life = "gone" /\ m.queue = <<>> /\ m.log = emu[e].log
    BY <1>1 DEF Emulators
  <2> QED
    BY <2>1, <2>2
<1> HIDE DEF m
<1>6. Fits(Running(e)', child[e], m, Lowest)
  <2>1. m.life # "booting"
    BY <1>5
  <2>2. Fits(Running(e), child[e], m, Lowest)
    BY <1>1, <1>5, <2>1, EndedFits, Zenon
  <2> QED
    BY <1>4, <2>2
<1> QED
  BY <1>1, <1>2, <1>3, <1>4, <1>5, <1>6, StepOf

-----------------------------------------------------------------------------
(* The child *)

\* A child moves on and sends one more request.
LEMMA SendSweep ==
  ASSUME SweepInv, NEW e \in Entries, NEW c \in Children, NEW t \in Tags,
         child' = [child EXCEPT ![e] = c], Send(e, t), Sendable(e),
         UNCHANGED <<mode, free, job, port>>,
         child[e].pc \notin {"none", "exited"}, c.pc \notin {"none", "exited"},
         Asked(child[e].pc) \in Nat, Asked(child[e].pc) < Rank(t), Rank(t) >= 2,
         Asked(c.pc) = Rank(t),
         MarksKept(c, emu[e]), Lowest = 2 => Earned(c, emu[e])
  PROVE  SweepInv'
<1> DEFINE m == [emu[e] EXCEPT !.queue = Append(@, t)]
<1>1. /\ emu[e] \in Emulators /\ Fits(Running(e), child[e], emu[e], Lowest)
      /\ port \in [Slots -> Entries \cup {NoOne}] /\ Lowest \in {1, 2}
  BY EntryOf
<1>2. /\ mode' = mode /\ emu' = [emu EXCEPT ![e] = m]
      /\ port' \in [Slots -> Entries \cup {NoOne}]
      /\ \A f \in Entries : Running(f)' = Running(f)
  BY <1>1 DEF Send, Running
<1>3. emu[e].queue \in Seq(Tags) /\ emu[e].log \in Seq(Tags \ {"la"})
  BY <1>1 DEF Emulators
<1>4. /\ m \in Emulators /\ m.life = "serving"
      /\ m.queue = Append(emu[e].queue, t) /\ m.log = emu[e].log
  <2>1. Append(emu[e].queue, t) \in Seq(Tags)
    BY <1>3
  <2>2. m \in Emulators
    BY <1>1, <2>1 DEF Emulators
  <2>3. /\ m.life = emu[e].life /\ m.queue = Append(emu[e].queue, t)
        /\ m.log = emu[e].log
    BY <1>1 DEF Emulators
  <2> QED
    BY <2>2, <2>3 DEF Sendable
<1> HIDE DEF m
<1>5. Running(e)
  BY <1>1 DEF Fits, Cleared, NoChild
<1>6. Fits(Running(e)', c, m, Lowest)
  <2>1. Cleared(Running(e)', c, m)
    BY <1>2, <1>4, <1>5 DEF Cleared
  <2>2. Ordered(m.log, m.queue, Lowest, Asked(c.pc))
    <3>1. Ordered(emu[e].log, emu[e].queue, Lowest, Asked(child[e].pc))
      BY <1>1 DEF Fits
    <3>2. Lowest \in Nat /\ Lowest <= Rank(t)
      BY <1>1, RankIs
    <3>3. Ordered(emu[e].log, Append(emu[e].queue, t), Lowest, Rank(t))
      BY <1>3, <3>1, <3>2, SendOrder, Zenon
    <3> QED
      BY <1>4, <3>3
  <2>3. MarksKept(c, m)
    BY <1>4 DEF MarksKept
  <2>4. Lowest = 2 => Earned(c, m)
    BY <1>4 DEF Earned
  <2> QED
    BY <2>1, <2>2, <2>3, <2>4 DEF Fits
<1> QED
  BY <1>2, <1>4, <1>6, StepOf

\* A child scores and exits: what it credits has run between the marks.
LEMMA TeardownSweep ==
  ASSUME SweepInv, NEW e \in Entries, NEW from \in Nat, NEW to \in Nat,
         NEW replied \in BOOLEAN, Teardown(e, from, to, replied),
         child[e].pc # "none", from <= Len(emu[e].log), from <= to,
         Lowest = 2 => SubSeq(emu[e].log, from + 1, to) \in {<<>>, <<"e">>}
  PROVE  SweepInv'
<1> DEFINE c == [pc |-> "exited", entryMark |-> from, liveMark |-> to,
                 hit |-> HandlerHit(e, from, to), live |-> LiveAfter(e, replied, to)]
           m == [emu[e] EXCEPT !.life = IF @ = "gone" THEN @ ELSE "dying", !.queue = <<>>]
<1>1. /\ emu[e] \in Emulators /\ Fits(Running(e), child[e], emu[e], Lowest)
      /\ port \in [Slots -> Entries \cup {NoOne}] /\ child[e] \in Children
  BY EntryOf
<1>2. /\ mode' = mode /\ emu' = [emu EXCEPT ![e] = m] /\ child' = [child EXCEPT ![e] = c]
      /\ port' \in [Slots -> Entries \cup {NoOne}]
      /\ \A f \in Entries : Running(f)' = Running(f)
  BY <1>1 DEF Teardown, Running
<1>3. m \in Emulators /\ m.life # "booting" /\ m.queue = <<>> /\ m.log = emu[e].log
  <2> DEFINE l == IF emu[e].life = "gone" THEN emu[e].life ELSE "dying"
  <2>1. m = [emu[e] EXCEPT !.life = l, !.queue = <<>>] /\ l \in {"gone", "dying"}
    BY <1>1 DEF Emulators
  <2> HIDE DEF l, m
  <2>2. m \in Emulators
    BY <1>1, <2>1, EmptyIs DEF Emulators
  <2>3. m.life = l /\ m.queue = <<>> /\ m.log = emu[e].log
    BY <1>1, <2>1 DEF Emulators
  <2> QED
    BY <2>1, <2>2, <2>3
<1>4. /\ HandlerHit(e, from, to) \in BOOLEAN /\ LiveAfter(e, replied, to) \in BOOLEAN
  BY <1>1 DEF HandlerHit, LiveAfter, Emulators
<1>5. /\ c \in Children /\ c.pc = "exited" /\ c.entryMark = from /\ c.liveMark = to
      /\ c.hit = HandlerHit(e, from, to)
  BY <1>4 DEF Children
<1> HIDE DEF c, m
<1>6. Running(e)
  BY <1>1 DEF Fits, Cleared, NoChild
<1>7. Fits(Running(e)', c, m, Lowest)
  <2>1. Cleared(Running(e)', c, m)
    BY <1>2, <1>3, <1>6 DEF Cleared
  <2>2. Ordered(m.log, m.queue, Lowest, Asked(c.pc))
    <3>1. Ordered(emu[e].log, emu[e].queue, Lowest, Asked(child[e].pc))
      BY <1>1 DEF Fits
    <3>2. emu[e].queue \in Seq(Tags) /\ emu[e].log \in Seq(Tags \ {"la"})
      BY <1>1 DEF Emulators
    <3>3. Asked(child[e].pc) \in 1 .. 4
      BY DEF Asked
    <3>4. Ordered(emu[e].log, emu[e].queue, Lowest, 4)
      BY <3>1, <3>2, <3>3, WiderOrder, Zenon
    <3>5. Ordered(emu[e].log, <<>>, Lowest, 4)
      BY <3>2, <3>4, EmptyOrder, Zenon
    <3> QED
      BY <1>3, <1>5, <3>5, AskedIs
  <2>3. MarksKept(c, m)
    BY <1>3, <1>5 DEF MarksKept
  <2>4. Lowest = 2 => Earned(c, m)
    BY <1>3, <1>5 DEF Earned, HandlerHit
  <2> QED
    BY <2>1, <2>2, <2>3, <2>4 DEF Fits
<1> QED
  BY <1>2, <1>3, <1>5, <1>7, StepOf

LEMMA BootedSweep ==
  ASSUME SweepInv, NEW e \in Entries, Booted(e)
  PROVE  SweepInv'
<1> DEFINE c == [child[e] EXCEPT !.pc = "pre"]
<1>1. /\ emu[e] \in Emulators /\ Fits(Running(e), child[e], emu[e], Lowest)
      /\ port \in [Slots -> Entries \cup {NoOne}] /\ child[e] \in Children
      /\ emu = [emu EXCEPT ![e] = emu[e]]
  BY EntryOf
<1>2. /\ mode' = mode /\ emu' = [emu EXCEPT ![e] = emu[e]]
      /\ child' = [child EXCEPT ![e] = c]
      /\ port' \in [Slots -> Entries \cup {NoOne}]
      /\ \A f \in Entries : Running(f)' = Running(f)
      /\ child[e].pc = "boot" /\ emu[e].life = "serving"
  BY <1>1 DEF Booted, Goto, Running, Ready
<1>3. c \in Children /\ c.pc = "pre" /\ c.entryMark = child[e].entryMark /\ c.hit = child[e].hit
  BY <1>1 DEF Children
<1> HIDE DEF c
<1>4. Running(e)
  BY <1>1, <1>2 DEF Fits, Cleared, NoChild
<1>5. Fits(Running(e)', c, emu[e], Lowest)
  <2>1. Cleared(Running(e)', c, emu[e])
    BY <1>2, <1>3, <1>4 DEF Cleared
  <2>2. Ordered(emu[e].log, emu[e].queue, Lowest, Asked(c.pc))
    <3>1. Asked(c.pc) = Asked(child[e].pc)
      BY <1>2, <1>3, AskedIs
    <3> QED
      BY <1>1, <3>1 DEF Fits
  <2>3. MarksKept(c, emu[e])
    BY <1>1, <1>2, <1>3 DEF Fits, MarksKept
  <2>4. Earned(c, emu[e])
    BY <1>1, <1>2, <1>3 DEF Fits, MarksKept, Earned
  <2> QED
    BY <2>1, <2>2, <2>3, <2>4 DEF Fits
<1> QED
  BY <1>1, <1>2, <1>3, <1>5, StepOf

\* What the log of an entry can hold before a second mark.
LEMMA LogBefore ==
  ASSUME SweepInv, NEW e \in Entries
  PROVE  /\ emu[e].log \in Seq(Tags \ {"la"}) /\ Len(emu[e].log) \in Nat
         /\ Lowest = 2 /\ child[e].pc \in {"none", "boot", "pre"} => emu[e].log = <<>>
         /\ Lowest = 2 /\ child[e].pc = "after" =>
              emu[e].log = <<>> \/ (Len(emu[e].log) = 1 /\ emu[e].log[1] = "e"
                                    /\ emu[e].log = <<"e">>)
<1>1. emu[e] \in Emulators /\ Fits(Running(e), child[e], emu[e], Lowest)
  BY EntryOf
<1>2. emu[e].log \in Seq(Tags \ {"la"}) /\ Len(emu[e].log) \in Nat
  BY <1>1 DEF Emulators
<1>3. Rising(emu[e].log) /\ Within(emu[e].log, Lowest, Asked(child[e].pc))
  BY <1>1 DEF Fits, Ordered
<1>4. ASSUME Lowest = 2, child[e].pc \in {"none", "boot", "pre"}
      PROVE  emu[e].log = <<>>
  <2>1. Within(emu[e].log, 2, 1)
    BY <1>3, <1>4, AskedIs
  <2>2. SUFFICES ASSUME emu[e].log # <<>> PROVE FALSE
    OBVIOUS
  <2>3. 1 \in 1 .. Len(emu[e].log) /\ emu[e].log[1] \in Tags
    BY <1>2, <2>2
  <2>4. Rank(emu[e].log[1]) \in 1 .. 4
    BY <2>3, RankIs
  <2> QED
    BY <2>1, <2>3, <2>4 DEF Within
<1>5. ASSUME Lowest = 2, child[e].pc = "after"
      PROVE  emu[e].log = <<>> \/ (Len(emu[e].log) = 1 /\ emu[e].log[1] = "e"
                                   /\ emu[e].log = <<"e">>)
  <2>1. Within(emu[e].log, 2, 2)
    BY <1>3, <1>5, AskedIs
  <2> QED
    BY <1>2, <1>3, <2>1, OnlyEntry, Zenon
<1> QED
  BY <1>2, <1>4, <1>5

LEMMA SendEntrySweep ==
  ASSUME SweepInv, NEW e \in Entries, SendEntry(e)
  PROVE  SweepInv'
<1> DEFINE c == [child[e] EXCEPT !.pc = "after", !.entryMark = LogLen(e)]
<1>1. child[e] \in Children /\ Fits(Running(e), child[e], emu[e], Lowest)
  BY EntryOf
<1>2. child[e].pc = "pre" /\ child' = [child EXCEPT ![e] = c]
  BY DEF SendEntry
<1>3. /\ c \in Children /\ c.pc = "after" /\ c.entryMark = Len(emu[e].log)
      /\ c.hit = child[e].hit
  BY <1>1, LogBefore DEF Children, LogLen
<1> HIDE DEF c
<1>4. ~child[e].hit
  BY <1>1, <1>2 DEF Fits, MarksKept
<1>5. MarksKept(c, emu[e])
  BY <1>3, <1>4, LogBefore DEF MarksKept
<1>6. Lowest = 2 => Earned(c, emu[e])
  <2>1. Lowest = 2 => Len(emu[e].log) = 0
    BY <1>2, LogBefore
  <2> QED
    BY <1>3, <1>4, <2>1 DEF Earned
<1>7. /\ Asked(child[e].pc) = 1 /\ Rank("e") = 2 /\ Asked(c.pc) = 2 /\ "e" \in Tags
  BY <1>2, <1>3, AskedIs, RankIs DEF Tags
<1>9. /\ Asked(child[e].pc) \in Nat /\ Asked(child[e].pc) < Rank("e")
      /\ Rank("e") >= 2 /\ Asked(c.pc) = Rank("e")
  BY <1>7
<1>8. /\ Send(e, "e") /\ Sendable(e) /\ UNCHANGED <<mode, free, job, port>>
      /\ child[e].pc \notin {"none", "exited"} /\ c.pc \notin {"none", "exited"}
  BY <1>2, <1>3 DEF SendEntry
<1> QED
  BY <1>2, <1>3, <1>5, <1>6, <1>7, <1>8, <1>9, SendSweep, ZenonT(30)

LEMMA AskAddressSweep ==
  ASSUME SweepInv, NEW e \in Entries, AskAddress(e)
  PROVE  SweepInv'
<1> DEFINE c == [child[e] EXCEPT !.pc = "la", !.liveMark = LogLen(e)]
<1>1. child[e] \in Children /\ Fits(Running(e), child[e], emu[e], Lowest)
  BY EntryOf
<1>2. child[e].pc = "after" /\ child' = [child EXCEPT ![e] = c]
  BY DEF AskAddress
<1>3. /\ c \in Children /\ c.pc = "la" /\ c.liveMark = Len(emu[e].log)
      /\ c.hit = child[e].hit /\ c.entryMark = child[e].entryMark
  BY <1>1, LogBefore DEF Children, LogLen
<1> HIDE DEF c
<1>4. ~child[e].hit /\ child[e].entryMark <= Len(emu[e].log)
  BY <1>1, <1>2 DEF Fits, MarksKept
<1>5. MarksKept(c, emu[e])
  BY <1>3, <1>4 DEF MarksKept
<1>6. Lowest = 2 => Earned(c, emu[e])
  <2>1. Lowest = 2 => child[e].entryMark = 0
    BY <1>1, <1>2 DEF Fits, Earned
  <2>2. Lowest = 2 => \/ Len(emu[e].log) = 0
                      \/ Len(emu[e].log) = 1 /\ emu[e].log[1] = "e"
    BY <1>2, LogBefore
  <2> QED
    BY <1>3, <1>4, <2>1, <2>2 DEF Earned
<1>7. /\ Asked(child[e].pc) = 2 /\ Rank("la") = 3 /\ Asked(c.pc) = 3 /\ "la" \in Tags
  BY <1>2, <1>3, AskedIs, RankIs DEF Tags
<1>9. /\ Asked(child[e].pc) \in Nat /\ Asked(child[e].pc) < Rank("la")
      /\ Rank("la") >= 2 /\ Asked(c.pc) = Rank("la")
  BY <1>7
<1>8. /\ Send(e, "la") /\ Sendable(e) /\ UNCHANGED <<mode, free, job, port>>
      /\ child[e].pc \notin {"none", "exited"} /\ c.pc \notin {"none", "exited"}
  BY <1>2, <1>3 DEF AskAddress
<1> QED
  BY <1>2, <1>3, <1>5, <1>6, <1>7, <1>8, <1>9, SendSweep, ZenonT(30)

LEMMA AskDeviceSweep ==
  ASSUME SweepInv, NEW e \in Entries, AskDevice(e)
  PROVE  SweepInv'
<1> DEFINE c == [child[e] EXCEPT !.pc = "ld"]
<1>1. child[e] \in Children /\ Fits(Running(e), child[e], emu[e], Lowest)
  BY EntryOf
<1>2. child[e].pc = "la" /\ child' = [child EXCEPT ![e] = c]
  BY DEF AskDevice, Goto
<1>3. /\ c \in Children /\ c.pc = "ld" /\ c.liveMark = child[e].liveMark
      /\ c.hit = child[e].hit /\ c.entryMark = child[e].entryMark
  BY <1>1 DEF Children
<1> HIDE DEF c
<1>4. ~child[e].hit
  BY <1>1, <1>2 DEF Fits, MarksKept
<1>5. MarksKept(c, emu[e])
  BY <1>1, <1>2, <1>3, <1>4 DEF Fits, MarksKept
<1>6. Lowest = 2 => Earned(c, emu[e])
  BY <1>1, <1>2, <1>3, <1>4 DEF Fits, Earned
<1>7. /\ Asked(child[e].pc) = 3 /\ Rank("ld") = 4 /\ Asked(c.pc) = 4 /\ "ld" \in Tags
  BY <1>2, <1>3, AskedIs, RankIs DEF Tags
<1>9. /\ Asked(child[e].pc) \in Nat /\ Asked(child[e].pc) < Rank("ld")
      /\ Rank("ld") >= 2 /\ Asked(c.pc) = Rank("ld")
  BY <1>7
<1>8. /\ Send(e, "ld") /\ Sendable(e) /\ UNCHANGED <<mode, free, job, port>>
      /\ child[e].pc \notin {"none", "exited"} /\ c.pc \notin {"none", "exited"}
  BY <1>2, <1>3 DEF AskDevice
<1> QED
  BY <1>2, <1>3, <1>5, <1>6, <1>7, <1>8, <1>9, SendSweep, ZenonT(30)

\* What lies between the marks of a child that is after the second one.
LEMMA BetweenMarks ==
  ASSUME SweepInv, NEW e \in Entries, child[e].pc \in {"la", "ld"}, Lowest = 2
  PROVE  SubSeq(emu[e].log, child[e].entryMark + 1, child[e].liveMark) \in {<<>>, <<"e">>}
<1>1. Fits(Running(e), child[e], emu[e], Lowest)
  BY EntryOf
<1>2. /\ child[e].entryMark = 0
      /\ \/ child[e].liveMark = 0
         \/ child[e].liveMark = 1 /\ Len(emu[e].log) > 0 /\ emu[e].log[1] = "e"
  BY <1>1 DEF Fits, Earned
<1>3. emu[e].log \in Seq(Tags \ {"la"}) /\ Len(emu[e].log) \in Nat
  BY LogBefore
<1>4. CASE child[e].liveMark = 0
  BY <1>2, <1>3, <1>4
<1>5. CASE child[e].liveMark = 1 /\ Len(emu[e].log) > 0 /\ emu[e].log[1] = "e"
  <2>1. SubSeq(emu[e].log, 1, 1) = <<"e">>
    <3>1. SubSeq(emu[e].log, 1, 1) \in Seq(Tags \ {"la"}) /\ Len(SubSeq(emu[e].log, 1, 1)) = 1
      BY <1>3, <1>5
    <3>2. SubSeq(emu[e].log, 1, 1)[1] = emu[e].log[1]
      BY <1>3, <1>5
    <3> QED
      BY <1>5, <3>1, <3>2, SingleIs, ZenonT(30)
  <2> QED
    BY <1>2, <1>5, <2>1
<1> QED
  BY <1>2, <1>4, <1>5

LEMMA ScoreSweep ==
  ASSUME SweepInv, NEW e \in Entries,
         NotReady(e) \/ NoLiveness(e) \/ DeviceSettle(e) \/ Fail(e)
  PROVE  SweepInv'
<1>1. child[e] \in Children /\ Fits(Running(e), child[e], emu[e], Lowest)
  BY EntryOf
<1>2. /\ emu[e].log \in Seq(Tags \ {"la"}) /\ LogLen(e) = Len(emu[e].log)
      /\ LogLen(e) \in Nat /\ child[e].entryMark \in Nat /\ child[e].liveMark \in Nat
      /\ child[e].entryMark <= Len(emu[e].log)
  BY <1>1, LogBefore DEF LogLen, Children, Fits, MarksKept
<1>3. SubSeq(emu[e].log, LogLen(e) + 1, LogLen(e)) = <<>>
  BY <1>2
<1>4. ASSUME child[e].pc \in {"boot", "pre"}, Teardown(e, LogLen(e), LogLen(e), FALSE)
      PROVE  SweepInv'
  <2>1. child[e].pc # "none" /\ LogLen(e) <= Len(emu[e].log) /\ LogLen(e) <= LogLen(e)
    BY <1>2, <1>4
  <2> QED
    BY <1>2, <1>3, <1>4, <2>1, TeardownSweep
<1>5. CASE NoLiveness(e)
  <2>1. child[e].pc = "after" /\ Teardown(e, child[e].entryMark, LogLen(e), FALSE)
    BY <1>5 DEF NoLiveness
  <2>2. Lowest = 2 => SubSeq(emu[e].log, child[e].entryMark + 1, LogLen(e)) \in {<<>>, <<"e">>}
    <3>1. SUFFICES ASSUME Lowest = 2
                   PROVE  SubSeq(emu[e].log, child[e].entryMark + 1, LogLen(e)) = emu[e].log
      BY <2>1, LogBefore
    <3>2. child[e].entryMark = 0
      BY <1>1, <2>1, <3>1 DEF Fits, Earned
    <3> QED
      BY <1>2, <3>2
  <2> QED
    BY <1>2, <2>1, <2>2, TeardownSweep
<1>6. ASSUME NEW replied \in BOOLEAN, child[e].pc \in {"la", "ld"},
             Teardown(e, child[e].entryMark, child[e].liveMark, replied)
      PROVE  SweepInv'
  <2>1. child[e].pc # "none" /\ child[e].entryMark <= child[e].liveMark
    BY <1>1, <1>6 DEF Fits, MarksKept
  <2> QED
    BY <1>2, <1>6, <2>1, BetweenMarks, TeardownSweep
<1>7. CASE NotReady(e)
  BY <1>4, <1>7 DEF NotReady
<1>8. CASE DeviceSettle(e)
  <2>1. Contains(emu[e].log, "ld") \in BOOLEAN
    BY DEF Contains
  <2> QED
    BY <1>6, <1>8, <2>1 DEF DeviceSettle
<1>9. CASE Fail(e)
  BY <1>4, <1>6, <1>9 DEF Fail
<1> QED
  BY <1>5, <1>7, <1>8, <1>9

LEMMA SweepStep ==
  ASSUME SlotInv, SweepInv, [Next]_vars
  PROVE  SweepInv'
<1>1. ASSUME NEW e \in Entries, Pool(e)
      PROVE  SweepInv'
  <2>1. CASE Collect(e) \/ Expire(e)
    <3>1. /\ Running(e) /\ Answered(e) /\ child[e].pc \in {"ld", "exited"}
          /\ UNCHANGED <<mode, port>>
      BY <2>1 DEF Collect, Expire
    <3> QED
      BY <3>1, AnsweredSweep
  <2> QED
    BY <1>1, <2>1, TakeSweep DEF Pool
<1>2. ASSUME NEW e \in Entries, ReachOne(e)
      PROVE  SweepInv'
  BY <1>2, BootedSweep, SendEntrySweep, AskAddressSweep, AskDeviceSweep, ScoreSweep
     DEF ReachOne
<1>3. ASSUME NEW e \in Entries, Emulator(e)
      PROVE  SweepInv'
  BY <1>3, BootSweep, ServeSweep, VanishSweep DEF Emulator, Crash, Exit
<1>4. CASE UNCHANGED vars
  <2>1. \A e \in Entries : EntryInv(e)' = EntryInv(e)
    BY <1>4 DEF vars, EntryInv, Running, Lowest
  <2> QED
    BY <1>4, <2>1 DEF vars, SweepInv, SweepTypes
<1> QED
  BY <1>1, <1>2, <1>3, <1>4 DEF Next

\* The requests of a run in their order, and the marks between them.
THEOREM RunsInOrder == Spec => []SweepInv
<1>1. Init => SweepInv
  BY SweepInit
<1>2. SlotInv /\ SweepInv /\ [Next]_vars => SweepInv'
  BY SweepStep
<1> QED
  BY Invariant, <1>1, <1>2, PTL DEF Spec

\* The slots are slots, a mark lies within the log and the second one not
\* before the first, and no log has more than three records.
THEOREM TypeCorrect == Spec => []TypeOK
<1>1. SlotInv /\ SweepInv => TypeOK
  <2> SUFFICES ASSUME SlotInv, SweepInv PROVE TypeOK
    OBVIOUS
  <2>1. mode \in Modes /\ \A s \in Slots : port[s] \in Entries \cup {NoOne}
    BY DEF SweepInv, SweepTypes
  <2>2. \A i \in DOMAIN free : free[i] \in Slots
    BY DEF SlotInv, PoolTypeOK
  <2>3. ASSUME NEW e \in Entries
        PROVE  /\ job[e].slot \in Slots \cup {NoSlot}
               /\ child[e].entryMark <= Len(emu[e].log)
               /\ child[e].pc \in {"la", "ld", "exited"}
                    => child[e].entryMark <= child[e].liveMark
               /\ Len(emu[e].log) <= 3
    <3>1. job[e].slot \in Slots \cup {NoSlot}
      BY DEF SlotInv, PoolTypeOK, Jobs
    <3>2. emu[e] \in Emulators /\ Fits(Running(e), child[e], emu[e], Lowest)
      BY EntryOf
    <3>3. emu[e].log \in Seq(Tags \ {"la"}) /\ Rising(emu[e].log)
      BY <3>2 DEF Emulators, Fits, Ordered
    <3>4. Len(emu[e].log) <= 3
      BY <3>3, ShortLog
    <3> QED
      BY <3>1, <3>2, <3>4 DEF Fits, MarksKept
  <2> QED
    BY <2>1, <2>2, <2>3 DEF TypeOK
<1> QED
  BY Invariant, RunsInOrder, <1>1, PTL

\* A sweep that runs without the host's own enumeration credits an entry for
\* its own request only, however late the host gets to it: reach_one marks the
\* log before the input and before the liveness question.
THEOREM CreditEarned == Spec => []CreditIsEarned
<1>1. SweepInv => CreditIsEarned
  <2> SUFFICES ASSUME SweepInv, NEW e \in Entries, child[e].hit, mode # "withEnum"
               PROVE  SubSeq(emu[e].log, child[e].entryMark + 1, child[e].liveMark) = <<"e">>
    BY DEF CreditIsEarned
  <2>1. Fits(Running(e), child[e], emu[e], Lowest) /\ Lowest = 2
    BY EntryOf
  <2> QED
    BY <2>1 DEF Fits, Earned
<1> QED
  BY RunsInOrder, <1>1, PTL

-----------------------------------------------------------------------------
(* The observer of Arm.run, for any trace and any number of levels.        *)

Levels == [arm : Nat, dec : BOOLEAN]
Observers == [levels : Seq(Levels), stop : {"none", "ret", "store", "call"},
              skipping : {"nothing", "callee", "helper"}]
Branches == {"cond", "jump", "case"}

\* The decisions of a level, and whether the observer waits for the
\* instruction after one.
Decisions(k) == {i \in DOMAIN trace : trace[i] \in Branches /\ LevelAt(i) = k}
Waiting == seen.stop = "none" /\ trace # <<>> /\ trace[Len(trace)] \in Branches

\* The moment whose level the observer is at: the instruction to come, or the
\* one that ended the run.
Moment == IF seen.stop = "none" THEN Len(trace) + 1 ELSE Len(trace)

ObserverOK ==
  /\ code \in {"none", "qmk", "std"}
  /\ trace \in Seq(Ops)
  /\ place \in {"body", "callee", "helper"}
  /\ seen \in Observers

\* Nothing is kept from one run to the next, and the observer skips while the
\* firmware is elsewhere.
BetweenRuns == code = "none" => trace = <<>> /\ place = "body" /\ seen = Start
SkipsTogether == seen.stop = "none" /\ place # "body" => seen.skipping = place

\* A run ends at its first effect.
EndsAtEffect == IF seen.stop = "none" THEN Effects = {} ELSE Effects = {Len(trace)}

\* The functions entered are as many as the followed calls say, and no decision
\* lies in one not entered yet.
LevelsMatch ==
  /\ Len(seen.levels) = LevelAt(Moment)
  /\ \A i \in DOMAIN trace : LevelAt(i) <= Len(seen.levels)

\* Every level has the arm the definition gives, but for one: the last, between
\* a decision and the next instruction.
ArmsSoFar ==
  \A k \in 1 .. Len(seen.levels) :
    IF k = Len(seen.levels) /\ Waiting
    THEN seen.levels[k].dec
    ELSE seen.levels[k].arm = DefinedArm(k) /\ ~seen.levels[k].dec

ObserverInv ==
  /\ ObserverOK /\ BetweenRuns /\ SkipsTogether
  /\ EndsAtEffect /\ LevelsMatch /\ ArmsSoFar

\* The calls that are followed can be counted.
LEMMA FollowedType ==
  ASSUME NEW t \in Seq(Ops)
  PROVE  /\ Followed(t) \in Nat
         /\ IsFiniteSet({i \in DOMAIN t : t[i] = "follow"})
<1>1. Len(t) \in Nat /\ DOMAIN t = 1 .. Len(t)
  OBVIOUS
<1>2. IsFiniteSet(1 .. Len(t))
  BY <1>1, FS_Interval
<1>3. {i \in DOMAIN t : t[i] = "follow"} \subseteq 1 .. Len(t)
  BY <1>1
<1>4. IsFiniteSet({i \in DOMAIN t : t[i] = "follow"})
  BY <1>2, <1>3, FS_Subset
<1> QED
  BY <1>4, FS_CardinalityType DEF Followed

\* What one more instruction does to a trace.
LEMMA OneMore ==
  ASSUME NEW t \in Seq(Ops), NEW op \in Ops
  PROVE  /\ Append(t, op) \in Seq(Ops)
         /\ Len(t) \in Nat /\ Len(Append(t, op)) = Len(t) + 1
         /\ DOMAIN t = 1 .. Len(t)
         /\ DOMAIN Append(t, op) = 1 .. Len(t) + 1
         /\ \A i \in 1 .. Len(t) : Append(t, op)[i] = t[i]
         /\ Append(t, op)[Len(t) + 1] = op
  BY AppendProperties

\* One more instruction counts if it is such a call.
LEMMA FollowedAppend ==
  ASSUME NEW t \in Seq(Ops), NEW op \in Ops
  PROVE  Followed(Append(t, op)) =
           IF op = "follow" THEN Followed(t) + 1 ELSE Followed(t)
<1> DEFINE s == Append(t, op)
           n == Len(t)
           F == {i \in DOMAIN t : t[i] = "follow"}
           G == {i \in DOMAIN s : s[i] = "follow"}
<1>1. /\ n \in Nat /\ DOMAIN t = 1 .. n /\ DOMAIN s = 1 .. n + 1
      /\ \A i \in 1 .. n : s[i] = t[i]
      /\ s[n + 1] = op
  BY OneMore
<1>2. IsFiniteSet(F)
  BY FollowedType
<1>3. Followed(s) = Cardinality(G) /\ Followed(t) = Cardinality(F)
  BY DEF Followed
<1> HIDE DEF n, s
<1>4. n + 1 \notin F
  BY <1>1
<1>5. ASSUME NEW i \in 1 .. n + 1 PROVE i \in 1 .. n \/ i = n + 1
  BY <1>1
<1>6. \A i \in 1 .. n : i \in 1 .. n + 1
  BY <1>1
<1>7. n + 1 \in 1 .. n + 1
  BY <1>1
<1>8. CASE op = "follow"
  <2>1. G = F \cup {n + 1}
    BY <1>1, <1>5, <1>6, <1>7, <1>8
  <2>2. Cardinality(G) = Cardinality(F) + 1
    BY <1>2, <1>4, <2>1, FS_AddElement
  <2> QED
    BY <1>3, <1>8, <2>2 DEF s
<1>9. CASE op # "follow"
  <2>1. G = F
    BY <1>1, <1>5, <1>6, <1>9
  <2> QED
    BY <1>3, <1>9, <2>1 DEF s
<1> QED
  BY <1>8, <1>9

\* What was executed before a moment does not change.
LEMMA SamePrefix ==
  ASSUME NEW t \in Seq(Ops), NEW op \in Ops, NEW i \in 1 .. Len(t) + 1
  PROVE  /\ SubSeq(Append(t, op), 1, i - 1) = SubSeq(t, 1, i - 1)
         /\ SubSeq(t, 1, i - 1) \in Seq(Ops)
<1> DEFINE s == Append(t, op)
           n == Len(t)
           p == SubSeq(s, 1, i - 1)
           q == SubSeq(t, 1, i - 1)
<1>1. /\ s \in Seq(Ops) /\ n \in Nat /\ Len(s) = n + 1
      /\ \A j \in 1 .. n : s[j] = t[j]
  BY OneMore
<1>2. i \in Int /\ i >= 1 /\ i - 1 <= n /\ i - 1 >= 0
  BY <1>1
<1>3. ASSUME NEW u \in Seq(Ops), i - 1 <= Len(u)
      PROVE  /\ SubSeq(u, 1, i - 1) \in Seq(Ops)
             /\ Len(SubSeq(u, 1, i - 1)) = i - 1
             /\ \A j \in 1 .. i - 1 : SubSeq(u, 1, i - 1)[j] = u[j]
  BY <1>2, <1>3
<1>4. p \in Seq(Ops) /\ Len(p) = i - 1 /\ \A j \in 1 .. i - 1 : p[j] = s[j]
  BY <1>1, <1>2, <1>3
<1>5. q \in Seq(Ops) /\ Len(q) = i - 1 /\ \A j \in 1 .. i - 1 : q[j] = t[j]
  BY <1>1, <1>2, <1>3
<1>6. \A j \in 1 .. i - 1 : j \in 1 .. n
  BY <1>1, <1>2
<1> HIDE DEF p, q, s, n
<1>7. \A j \in 1 .. Len(p) : p[j] = q[j]
  BY <1>1, <1>4, <1>5, <1>6
<1>8. p = q
  BY <1>4, <1>5, <1>7, SeqEqual
<1> QED
  BY <1>5, <1>8 DEF p, q, s, n

\* The level of a moment is fixed by what is executed before it.
LEMMA LevelType ==
  ASSUME ObserverOK, NEW i \in 1 .. Len(trace) + 1
  PROVE  /\ LevelAt(i) \in Nat /\ LevelAt(i) >= 1 /\ LevelAt(i) <= MaxLevels
<1>1. trace \in Seq(Ops) /\ "plain" \in Ops
  BY DEF ObserverOK, Ops
<1>2. SubSeq(trace, 1, i - 1) \in Seq(Ops)
  BY <1>1, SamePrefix
<1>3. Followed(SubSeq(trace, 1, i - 1)) \in Nat
  BY <1>2, FollowedType
<1> QED
  BY <1>3, ReachAssumption DEF LevelAt

\* The level the observer is at while it watches.
LEMMA LevelNow ==
  ASSUME trace \in Seq(Ops)
  PROVE  /\ LevelAt(Len(trace) + 1) =
              (IF Followed(trace) < MaxLevels THEN Followed(trace) + 1 ELSE MaxLevels)
         /\ Followed(trace) \in Nat
<1>1. (Len(trace) + 1) - 1 = Len(trace)
  OBVIOUS
<1>2. SubSeq(trace, 1, Len(trace)) = trace
  BY SubSeqFull
<1> QED
  BY <1>1, <1>2, FollowedType DEF LevelAt

\* The level of a moment does not change once it is reached.
LEMMA LevelsKept ==
  ASSUME trace \in Seq(Ops), NEW op \in Ops, trace' = Append(trace, op),
         NEW i \in 1 .. Len(trace) + 1
  PROVE  LevelAt(i)' = LevelAt(i)
<1>1. SubSeq(Append(trace, op), 1, i - 1) = SubSeq(trace, 1, i - 1)
  BY SamePrefix
<1> QED
  BY <1>1 DEF LevelAt

\* What marking does to an observer: nothing but the last level changes.
LEMMA MarkedIs ==
  ASSUME NEW st \in Observers, NEW at \in Nat, Len(st.levels) >= 1
  PROVE  /\ Marked(st, at) \in Observers
         /\ Len(Marked(st, at).levels) = Len(st.levels)
         /\ Marked(st, at).stop = st.stop
         /\ \A k \in 1 .. Len(st.levels) :
              Marked(st, at).levels[k] =
                IF k = Len(st.levels) /\ st.levels[k].dec
                THEN [arm |-> at, dec |-> FALSE] ELSE st.levels[k]
<1> DEFINE l == st.levels
           n == Len(l)
           e == [arm |-> at, dec |-> FALSE]
           m == [l EXCEPT ![n] = e]
<1>1. /\ l \in Seq(Levels)
      /\ st.stop \in {"none", "ret", "store", "call"}
      /\ st.skipping \in {"nothing", "callee", "helper"}
      /\ st = [levels |-> l, stop |-> st.stop, skipping |-> st.skipping]
  BY DEF Observers
<1>9. n \in Nat /\ n >= 1 /\ n \in 1 .. n
  BY <1>1
<1>2. e \in Levels
  BY DEF Levels
<1>3. /\ m \in Seq(Levels) /\ Len(m) = n
      /\ \A k \in 1 .. n : m[k] = IF k = n THEN e ELSE l[k]
  BY <1>9, <1>1, <1>2, ExceptSeq
<1>4. Marked(st, at) = IF l[n].dec THEN [st EXCEPT !.levels = m] ELSE st
  BY DEF Marked
<1> HIDE DEF n, l, m, e
<1>5. CASE l[n].dec
  <2>1. Marked(st, at) = [st EXCEPT !.levels = m]
    BY <1>4, <1>5
  <2>2. /\ [st EXCEPT !.levels = m].levels = m
        /\ [st EXCEPT !.levels = m].stop = st.stop
        /\ [st EXCEPT !.levels = m] \in Observers
    BY <1>1, <1>3 DEF Observers
  <2>3. \A k \in 1 .. n : m[k] = IF k = n /\ l[k].dec THEN e ELSE l[k]
    BY <1>3, <1>5
  <2> QED
    BY <1>3, <2>1, <2>2, <2>3 DEF l, n, e
<1>6. CASE ~l[n].dec
  <2>1. Marked(st, at) = st
    BY <1>4, <1>6
  <2>2. \A k \in 1 .. n : l[k] = IF k = n /\ l[k].dec THEN e ELSE l[k]
    BY <1>6
  <2> QED
    BY <2>1, <2>2 DEF l, n, e
<1> QED
  BY <1>5, <1>6

\* What a decision does: only the last level changes, and only its flag.
LEMMA DecidesIs ==
  ASSUME NEW st \in Observers, Len(st.levels) >= 1
  PROVE  /\ Decides(st) \in Observers
         /\ Len(Decides(st).levels) = Len(st.levels)
         /\ Decides(st).stop = st.stop /\ Decides(st).skipping = st.skipping
         /\ \A k \in 1 .. Len(st.levels) :
              Decides(st).levels[k] =
                IF k = Len(st.levels) THEN [arm |-> st.levels[k].arm, dec |-> TRUE]
                ELSE st.levels[k]
<1> DEFINE l == st.levels
           n == Len(l)
           e == [l[n] EXCEPT !.dec = TRUE]
           m == [l EXCEPT ![n] = e]
<1>1. /\ l \in Seq(Levels)
      /\ st.stop \in {"none", "ret", "store", "call"}
      /\ st.skipping \in {"nothing", "callee", "helper"}
  BY DEF Observers
<1>9. n \in Nat /\ n >= 1 /\ n \in 1 .. n
  BY <1>1
<1>2. l[n] \in Levels
  BY <1>9, <1>1
<1>3. e \in Levels /\ e = [arm |-> l[n].arm, dec |-> TRUE]
  <2>1. \A r \in Levels, v \in BOOLEAN :
          /\ [r EXCEPT !.dec = v] \in Levels
          /\ [r EXCEPT !.dec = v] = [arm |-> r.arm, dec |-> v]
    BY DEF Levels
  <2>2. TRUE \in BOOLEAN
    OBVIOUS
  <2> QED
    BY <1>2, <2>1, <2>2, Zenon
<1>4. /\ m \in Seq(Levels) /\ Len(m) = n
      /\ \A k \in 1 .. n : m[k] = IF k = n THEN e ELSE l[k]
  BY <1>9, <1>1, <1>3, ExceptSeq
<1>5. Decides(st) = [st EXCEPT !.levels = m]
  BY DEF Decides
<1> HIDE DEF n, l, m, e
<1>6. /\ [st EXCEPT !.levels = m].levels = m
      /\ [st EXCEPT !.levels = m].stop = st.stop
      /\ [st EXCEPT !.levels = m].skipping = st.skipping
      /\ [st EXCEPT !.levels = m] \in Observers
  BY <1>1, <1>4 DEF Observers
<1>7. \A k \in 1 .. n : m[k] = IF k = n THEN [arm |-> l[k].arm, dec |-> TRUE] ELSE l[k]
  BY <1>3, <1>4
<1> QED
  BY <1>4, <1>5, <1>6, <1>7 DEF l, n

\* What a followed call does: a level that has no arm yet is added.
LEMMA EntersIs ==
  ASSUME NEW st \in Observers
  PROVE  LET new == Append(st.levels, [arm |-> None, dec |-> FALSE])
             now == [st EXCEPT !.levels = new]
         IN /\ now \in Observers /\ now.levels = new
            /\ now.stop = st.stop /\ now.skipping = st.skipping
            /\ Len(new) = Len(st.levels) + 1
            /\ \A k \in 1 .. Len(st.levels) : new[k] = st.levels[k]
            /\ new[Len(st.levels) + 1] = [arm |-> None, dec |-> FALSE]
<1> DEFINE new == Append(st.levels, [arm |-> None, dec |-> FALSE])
<1>1. /\ st.levels \in Seq(Levels)
      /\ st.stop \in {"none", "ret", "store", "call"}
      /\ st.skipping \in {"nothing", "callee", "helper"}
  BY DEF Observers
<1>2. [arm |-> None, dec |-> FALSE] \in Levels
  BY DEF Levels, None
<1>3. /\ new \in Seq(Levels) /\ Len(new) = Len(st.levels) + 1
      /\ \A k \in 1 .. Len(st.levels) : new[k] = st.levels[k]
      /\ new[Len(st.levels) + 1] = [arm |-> None, dec |-> FALSE]
  BY <1>1, <1>2, AppendProperties
<1> HIDE DEF new
<1>4. /\ [st EXCEPT !.levels = new] \in Observers
      /\ [st EXCEPT !.levels = new].levels = new
      /\ [st EXCEPT !.levels = new].stop = st.stop
      /\ [st EXCEPT !.levels = new].skipping = st.skipping
  BY <1>1, <1>3 DEF Observers
<1> QED
  BY <1>3, <1>4 DEF new

\* The greatest decision of a level gives its arm.
LEMMA ArmAfter ==
  ASSUME ObserverOK, NEW k, NEW m \in Decisions(k), \A j \in Decisions(k) : j <= m
  PROVE  DefinedArm(k) = m + 1
<1>1. \A j \in Decisions(k) : j \in Nat
  BY DEF Decisions, ObserverOK
<1> DEFINE c == CHOOSE i \in Decisions(k) : \A j \in Decisions(k) : j <= i
<1>2. c \in Decisions(k) /\ \A j \in Decisions(k) : j <= c
  OBVIOUS
<1>3. Decisions(k) # {} => DefinedArm(k) = 1 + c
  BY DEF DefinedArm, Decisions, Branches
<1> HIDE DEF c
<1>4. c = m
  BY <1>1, <1>2
<1> QED
  BY <1>1, <1>3, <1>4

\* A level that has no decision has no arm.
LEMMA NoArm ==
  ASSUME NEW k, Decisions(k) = {}
  PROVE  DefinedArm(k) = None
  BY DEF DefinedArm, Decisions, Branches

\* The arm of a level changes with its decisions only.
LEMMA ArmsKept ==
  ASSUME ObserverOK, NEW op \in Ops, trace' = Append(trace, op), NEW k,
         op \notin Branches \/ k # LevelAt(Len(trace) + 1)
  PROVE  Decisions(k)' = Decisions(k) /\ DefinedArm(k)' = DefinedArm(k)
<1> DEFINE n == Len(trace)
<1>1. /\ n \in Nat /\ DOMAIN trace = 1 .. n /\ DOMAIN trace' = 1 .. n + 1
      /\ \A i \in 1 .. n : trace'[i] = trace[i]
      /\ trace'[n + 1] = op
  BY OneMore DEF ObserverOK
<1>2. ASSUME NEW i \in 1 .. n + 1 PROVE LevelAt(i)' = LevelAt(i)
  BY <1>2, LevelsKept DEF ObserverOK
<1> HIDE DEF n
<1>3. \A i \in 1 .. n : i \in 1 .. n + 1
  BY <1>1
<1>4. ASSUME NEW i \in 1 .. n + 1 PROVE i \in 1 .. n \/ i = n + 1
  BY <1>1
<1>5. n + 1 \in 1 .. n + 1
  BY <1>1
<1>6. ASSUME NEW i \in Decisions(k)' PROVE i \in Decisions(k)
  <2>1. i \in 1 .. n + 1 /\ trace'[i] \in Branches /\ LevelAt(i)' = k
    BY <1>1, <1>6 DEF Decisions, Branches
  <2>2. i # n + 1
    BY <1>1, <1>2, <1>5, <2>1 DEF n
  <2>3. i \in 1 .. n
    BY <1>4, <2>1, <2>2
  <2>4. trace[i] \in Branches /\ LevelAt(i) = k
    BY <1>1, <1>2, <2>1, <2>3
  <2> QED
    BY <1>1, <2>3, <2>4 DEF Decisions
<1>7. ASSUME NEW i \in Decisions(k) PROVE i \in Decisions(k)'
  <2>1. i \in 1 .. n /\ trace[i] \in Branches /\ LevelAt(i) = k
    BY <1>1, <1>7 DEF Decisions
  <2>2. trace'[i] \in Branches /\ LevelAt(i)' = k /\ i \in 1 .. n + 1
    BY <1>1, <1>2, <1>3, <2>1
  <2> QED
    BY <1>1, <2>2 DEF Decisions, Branches
<1>8. Decisions(k)' = Decisions(k)
  BY <1>6, <1>7
<1>9. /\ DefinedArm(k) =
           IF Decisions(k) = {} THEN None
           ELSE 1 + CHOOSE i \in Decisions(k) : \A j \in Decisions(k) : j <= i
      /\ DefinedArm(k)' =
           IF Decisions(k)' = {} THEN None
           ELSE 1 + CHOOSE i \in Decisions(k)' : \A j \in Decisions(k)' : j <= i
  BY DEF DefinedArm, Decisions, None, Branches
<1> QED
  BY <1>8, <1>9

\* A decision that is the last instruction decides the level that goes on, and
\* the next instruction is its arm.
LEMMA LastArm ==
  ASSUME ObserverOK, trace # <<>>, trace[Len(trace)] \in Branches
  PROVE  DefinedArm(LevelAt(Len(trace) + 1)) = Len(trace) + 1
<1> DEFINE n == Len(trace)
           t == SubSeq(trace, 1, n - 1)
           k == LevelAt(n + 1)
<1>1. trace \in Seq(Ops) /\ DOMAIN trace = 1 .. n
  BY DEF ObserverOK
<1>2. n \in Nat /\ n >= 1 /\ n \in 1 .. n
  BY <1>1
<1>3. trace[n] \in Ops /\ trace[n] # "follow"
  BY <1>1, <1>2 DEF Branches
<1>4. t \in Seq(Ops) /\ trace = Append(t, trace[n])
  <2>1. t \in Seq(Ops) /\ Len(t) = n - 1 /\ \A i \in 1 .. n - 1 : t[i] = trace[i]
    BY <1>1, <1>2
  <2>2. /\ Append(t, trace[n]) \in Seq(Ops) /\ Len(Append(t, trace[n])) = n
        /\ \A i \in 1 .. n - 1 : Append(t, trace[n])[i] = t[i]
        /\ Append(t, trace[n])[n] = trace[n]
    BY <1>2, <1>3, <2>1, AppendProperties
  <2>3. \A i \in 1 .. n : i \in 1 .. n - 1 \/ i = n
    BY <1>2
  <2>4. \A i \in 1 .. n : trace[i] = Append(t, trace[n])[i]
    BY <2>1, <2>2, <2>3
  <2> QED
    BY <1>1, <2>1, <2>2, <2>4, SeqEqual
<1>5. Followed(trace) = Followed(t)
  BY <1>3, <1>4, FollowedAppend
<1>6. LevelAt(n) = (IF Followed(t) < MaxLevels THEN Followed(t) + 1 ELSE MaxLevels)
  BY DEF LevelAt
<1>7. LevelAt(n) = k
  BY <1>1, <1>5, <1>6, LevelNow
<1> HIDE DEF k, t
<1>8. n \in Decisions(k)
  BY <1>1, <1>2, <1>7 DEF Decisions
<1>9. \A j \in Decisions(k) : j <= n
  BY <1>1, <1>2 DEF Decisions
<1>10. DefinedArm(k) = n + 1
  BY <1>8, <1>9, ArmAfter
<1> QED
  BY <1>10 DEF k

\* The next instruction of a body settles the arms of every level.
LEMMA CaughtUp ==
  ASSUME ObserverInv, seen.stop = "none",
         NEW now, now = [Marked(seen, Len(trace) + 1) EXCEPT !.skipping = "nothing"]
  PROVE  /\ now \in Observers /\ now.stop = "none" /\ now.skipping = "nothing"
         /\ Len(now.levels) = LevelAt(Len(trace) + 1)
         /\ Len(now.levels) = Len(seen.levels)
         /\ Len(now.levels) \in Nat /\ Len(now.levels) >= 1
         /\ \A k \in 1 .. Len(now.levels) :
              now.levels[k].arm = DefinedArm(k) /\ ~now.levels[k].dec
<1> DEFINE n == Len(trace)
           L == Len(seen.levels)
           m == Marked(seen, n + 1)
<1>1. ObserverOK /\ trace \in Seq(Ops) /\ seen \in Observers /\ n \in Nat
  BY DEF ObserverInv, ObserverOK
<1>2. L = LevelAt(n + 1)
  BY DEF ObserverInv, LevelsMatch, Moment
<1>3. n + 1 \in 1 .. n + 1 /\ n + 1 \in Nat
  BY <1>1
<1>4. L \in Nat /\ L >= 1
  BY <1>1, <1>2, <1>3, LevelType
<1>5. /\ m \in Observers /\ Len(m.levels) = L /\ m.stop = "none"
      /\ \A k \in 1 .. L :
           m.levels[k] = IF k = L /\ seen.levels[k].dec
                         THEN [arm |-> n + 1, dec |-> FALSE] ELSE seen.levels[k]
  BY <1>1, <1>3, <1>4, MarkedIs
<1>6. now = [m EXCEPT !.skipping = "nothing"]
  OBVIOUS
<1>7. ASSUME NEW k \in 1 .. L
      PROVE  m.levels[k].arm = DefinedArm(k) /\ ~m.levels[k].dec
  <2>1. IF k = L /\ Waiting THEN seen.levels[k].dec
        ELSE seen.levels[k].arm = DefinedArm(k) /\ ~seen.levels[k].dec
    BY DEF ObserverInv, ArmsSoFar
  <2>2. CASE k = L /\ Waiting
    <3>1. DefinedArm(k) = n + 1
      BY <1>1, <1>2, <2>2, LastArm DEF Waiting
    <3>2. m.levels[k] = [arm |-> n + 1, dec |-> FALSE]
      BY <1>5, <2>1, <2>2
    <3> QED
      BY <3>1, <3>2
  <2>3. CASE ~(k = L /\ Waiting)
    <3>1. m.levels[k] = seen.levels[k]
      BY <1>5, <2>1, <2>3
    <3> QED
      BY <2>1, <2>3, <3>1
  <2> QED
    BY <2>2, <2>3
<1> HIDE DEF n, L, m
<1>8. /\ now \in Observers /\ now.skipping = "nothing"
      /\ now.stop = m.stop /\ now.levels = m.levels
  BY <1>5, <1>6 DEF Observers
<1> QED
  BY <1>2, <1>4, <1>5, <1>7, <1>8 DEF n, L

\* An observer has come to the arm of a level, and a call it follows.
ArmsTo(st, k) == st.levels[k].arm = DefinedArm(k) /\ ~st.levels[k].dec

Enters(op) ==
  op = "follow" /\ code # "std" /\ LevelAt(Len(trace) + 1) < MaxLevels

\* What the observer makes of an instruction of the body: a flag for a decision,
\* a level for a followed call, the end of the run for an effect.
LEMMA Watched ==
  ASSUME ObserverInv, NEW op \in Ops, Execute(op)
  PROVE  /\ seen' \in Observers
         /\ seen'.stop # "none" <=> IsEffect(op)
         /\ LevelAt(Len(trace) + 1) \in Nat /\ LevelAt(Len(trace) + 1) >= 1
         /\ \A k \in 1 .. LevelAt(Len(trace) + 1) - 1 : ArmsTo(seen', k)
         /\ Len(seen'.levels) =
              LevelAt(Len(trace) + 1) + (IF Enters(op) THEN 1 ELSE 0)
         /\ op \in Branches => seen'.levels[LevelAt(Len(trace) + 1)].dec
         /\ op \notin Branches => ArmsTo(seen', LevelAt(Len(trace) + 1))
         /\ Enters(op) =>
              seen'.levels[LevelAt(Len(trace) + 1) + 1] = [arm |-> None, dec |-> FALSE]
         /\ op = "case" => seen'.skipping = "helper"
         /\ op = "call" \/ (op = "follow" /\ ~Enters(op)) =>
              seen'.skipping = "callee" \/ IsEffect(op)
<1> DEFINE L == LevelAt(Len(trace) + 1)
           now == [Marked(seen, Len(trace) + 1) EXCEPT !.skipping = "nothing"]
<1>1. seen.stop = "none" /\ seen' = Observe(op, "body", Len(trace) + 1)
  BY DEF Execute
<1>2. /\ now \in Observers /\ now.stop = "none" /\ now.skipping = "nothing"
      /\ Len(now.levels) = L /\ Len(now.levels) \in Nat /\ Len(now.levels) >= 1
      /\ \A k \in 1 .. Len(now.levels) : ArmsTo(now, k)
  BY <1>1, CaughtUp DEF ArmsTo
<1>3. seen.skipping # "body"
  BY DEF ObserverInv, ObserverOK, Observers
<1>4. seen' = (IF op \in {"cond", "jump"} THEN Decides(now)
               ELSE IF op = "case" THEN [Decides(now) EXCEPT !.skipping = "helper"]
               ELSE IF op \in Calls THEN Call(now, op)
               ELSE IF op = "return" THEN [now EXCEPT !.stop = "ret"]
               ELSE IF op = "store" THEN [now EXCEPT !.stop = "store"]
               ELSE now)
  BY <1>1, <1>3 DEF Observe, Skipped
<1>5. L \in Nat /\ L >= 1 /\ L \in 1 .. L /\ L - 1 \in Int /\ \A k \in 1 .. L - 1 : k \in 1 .. L /\ k # L
  BY <1>2
<1> HIDE DEF now
<1>6. CASE op \in Branches
  <2> DEFINE d == Decides(now)
  <2>1. /\ d \in Observers /\ Len(d.levels) = L /\ d.stop = "none"
        /\ d.skipping = "nothing"
        /\ \A k \in 1 .. L :
             d.levels[k] = IF k = L THEN [arm |-> now.levels[k].arm, dec |-> TRUE]
                           ELSE now.levels[k]
    BY <1>2, DecidesIs
  <2>2. \A k \in 1 .. L - 1 : ArmsTo(d, k)
    <3>1. \A k \in 1 .. L - 1 : d.levels[k] = now.levels[k]
      BY <1>5, <2>1
    <3> QED
      BY <1>2, <1>5, <3>1 DEF ArmsTo
  <2>3. d.levels[L] = [arm |-> now.levels[L].arm, dec |-> TRUE]
    BY <1>5, <2>1
  <2>4. d.levels[L].dec
    BY <2>3
  <2> HIDE DEF d, L
  <2>5. ~IsEffect(op) /\ op \notin Calls /\ op # "follow" /\ op # "call" /\ ~Enters(op)
    BY <1>6 DEF IsEffect, Branches, Calls, Enters
  <2>6. /\ seen' \in Observers /\ seen'.levels = d.levels /\ seen'.stop = "none"
        /\ op = "case" => seen'.skipping = "helper"
    <3>1. CASE op = "case"
      <4>1. seen' = [d EXCEPT !.skipping = "helper"]
        BY <1>4, <3>1 DEF d
      <4> QED
        BY <2>1, <4>1 DEF Observers
    <3>2. CASE op # "case"
      <4>1. seen' = d
        BY <1>4, <1>6, <3>2 DEF Branches, d
      <4> QED
        BY <2>1, <3>2, <4>1
    <3> QED
      BY <3>1, <3>2
  <2>7. \A k \in 1 .. L - 1 : ArmsTo(seen', k)
    BY <2>2, <2>6 DEF ArmsTo
  <2> QED
    BY <1>5, <1>6, <2>1, <2>4, <2>5, <2>6, <2>7 DEF L
<1>7. CASE Enters(op) 
  <2> DEFINE new == Append(now.levels, [arm |-> None, dec |-> FALSE])
  <2>1. op = "follow" /\ code # "std" /\ L < MaxLevels /\ op \notin Branches
    BY <1>7 DEF Enters, Branches
  <2>2. seen' = [now EXCEPT !.levels = new]
    BY <1>2, <1>4, <2>1 DEF Calls, Call
  <2>3. /\ seen' \in Observers /\ seen'.levels = new /\ seen'.stop = "none"
        /\ Len(new) = L + 1 /\ \A k \in 1 .. L : new[k] = now.levels[k]
        /\ new[L + 1] = [arm |-> None, dec |-> FALSE]
    BY <1>2, <2>2, EntersIs
  <2> HIDE DEF new, L
  <2>4. \A k \in 1 .. L : ArmsTo(seen', k)
    BY <1>2, <2>3 DEF ArmsTo
  <2>5. ~IsEffect(op)
    BY <2>1 DEF IsEffect
  <2> QED
    BY <1>5, <1>7, <2>1, <2>3, <2>4, <2>5 DEF L
<1>8. CASE op \notin Branches /\ ~Enters(op)
  <2>1. /\ seen' \in Observers /\ seen'.levels = now.levels
        /\ seen'.stop # "none" <=> IsEffect(op)
        /\ op = "call" \/ op = "follow" => seen'.skipping = "callee" \/ IsEffect(op)
    <3>1. CASE op \in Calls /\ IsEffect(op)
      <4>1. seen' = [now EXCEPT !.stop = "call"]
        BY <1>4, <1>8, <3>1 DEF Calls, Call, IsEffect, Branches
      <4> QED
        BY <1>2, <3>1, <4>1 DEF Observers
    <3>2. CASE op \in Calls /\ ~IsEffect(op)
      <4>1. op # "descriptor" /\ code # "std"
        BY <3>2 DEF IsEffect
      <4>2. ~(op = "follow" /\ Len(now.levels) < MaxLevels)
        BY <1>2, <1>8, <4>1 DEF Enters
      <4>3. seen' = [now EXCEPT !.skipping = "callee"]
        BY <1>4, <3>2, <4>1, <4>2 DEF Calls, Call
      <4> QED
        BY <1>2, <3>2, <4>3 DEF Observers
    <3>3. CASE op = "return"
      <4>1. seen' = [now EXCEPT !.stop = "ret"]
        BY <1>4, <3>3 DEF Calls
      <4> QED
        BY <1>2, <3>3, <4>1 DEF Observers, IsEffect
    <3>4. CASE op = "store"
      <4>1. seen' = [now EXCEPT !.stop = "store"]
        BY <1>4, <3>4 DEF Calls
      <4> QED
        BY <1>2, <3>4, <4>1 DEF Observers, IsEffect
    <3>5. CASE op = "plain"
      <4>1. seen' = now
        BY <1>4, <3>5 DEF Calls
      <4> QED
        BY <1>2, <3>5, <4>1 DEF Calls, IsEffect
    <3> QED
      BY <1>8, <3>1, <3>2, <3>3, <3>4, <3>5 DEF Ops, Calls, Branches
  <2>2. \A k \in 1 .. L : ArmsTo(seen', k)
    BY <1>2, <2>1 DEF ArmsTo
  <2>3. op # "case"
    BY <1>8 DEF Branches
  <2> QED
    BY <1>2, <1>5, <1>8, <2>1, <2>2, <2>3
<1>9. Enters(op) => op \notin Branches
  BY DEF Enters, Branches
<1> QED
  BY <1>6, <1>7, <1>8

\* An instruction of the body keeps the invariant.
LEMMA ExecuteStep ==
  ASSUME ObserverInv, NEW op \in Ops, Execute(op)
  PROVE  ObserverInv'
<1> PICK n \in Nat : n = Len(trace)
  BY DEF ObserverInv, ObserverOK
<1> DEFINE L == LevelAt(n + 1)
<1>1. /\ trace' = Append(trace, op) /\ code' = code /\ code # "none"
      /\ place' = IF op = "case" THEN "helper"
                  ELSE IF op = "call" \/ (op = "follow" /\ Followed(trace) >= MaxLevels - 1)
                       THEN "callee" ELSE "body"
      /\ seen.stop = "none"
  BY DEF Execute
<1>2. ObserverOK /\ trace \in Seq(Ops) /\ n \in Nat /\ Len(trace) = n
  BY DEF ObserverInv, ObserverOK
<1>3. /\ trace' \in Seq(Ops) /\ Len(trace') = n + 1
      /\ DOMAIN trace = 1 .. n /\ DOMAIN trace' = 1 .. n + 1
      /\ \A i \in 1 .. n : trace'[i] = trace[i]
      /\ trace'[n + 1] = op
  BY <1>1, <1>2, OneMore
<1>4. /\ seen' \in Observers
      /\ seen'.stop # "none" <=> IsEffect(op)
      /\ L \in Nat /\ L >= 1
      /\ \A k \in 1 .. L - 1 : ArmsTo(seen', k)
      /\ Len(seen'.levels) = L + (IF Enters(op) THEN 1 ELSE 0)
      /\ op \in Branches => seen'.levels[L].dec
      /\ op \notin Branches => ArmsTo(seen', L)
      /\ Enters(op) => seen'.levels[L + 1] = [arm |-> None, dec |-> FALSE]
      /\ op = "case" => seen'.skipping = "helper"
      /\ op = "call" \/ (op = "follow" /\ ~Enters(op)) =>
           seen'.skipping = "callee" \/ IsEffect(op)
  BY Watched
<1>5. ASSUME NEW i \in 1 .. n + 1 PROVE LevelAt(i)' = LevelAt(i)
  BY <1>1, <1>2, <1>5, LevelsKept
<1>6. /\ L = (IF Followed(trace) < MaxLevels THEN Followed(trace) + 1 ELSE MaxLevels)
      /\ Followed(trace) \in Nat
  BY <1>2, LevelNow
<1>7. LevelAt(n + 2)' = (IF Followed(trace') < MaxLevels THEN Followed(trace') + 1
                         ELSE MaxLevels)
  <2>1. (n + 2) - 1 = n + 1
    BY <1>2
  <2>2. SubSeq(trace', 1, n + 1) = trace'
    BY <1>3, SubSeqFull
  <2>3. LevelAt(n + 2)' =
          (IF Followed(SubSeq(trace', 1, (n + 2) - 1)) < MaxLevels
           THEN Followed(SubSeq(trace', 1, (n + 2) - 1)) + 1 ELSE MaxLevels)
    BY DEF LevelAt
  <2> QED
    BY <2>1, <2>2, <2>3
<1>8. Followed(trace') = IF op = "follow" THEN Followed(trace) + 1 ELSE Followed(trace)
  BY <1>1, <1>2, FollowedAppend
<1>9. MaxLevels \in Nat /\ MaxLevels >= 1
  BY ReachAssumption
<1>10. n + 1 \in 1 .. n + 1 /\ \A i \in 1 .. n : i \in 1 .. n + 1
  BY <1>2
<1>11. ASSUME NEW i \in 1 .. n + 1 PROVE i \in 1 .. n \/ i = n + 1
  BY <1>2
<1>12. \A i \in 1 .. n : LevelAt(i) <= L /\ Len(seen.levels) = L
  BY <1>1, <1>3 DEF ObserverInv, LevelsMatch, Moment
<1>13. ASSUME NEW k, op \notin Branches \/ k # L
       PROVE  Decisions(k)' = Decisions(k) /\ DefinedArm(k)' = DefinedArm(k)
  BY <1>1, <1>2, <1>13, ArmsKept
<1> HIDE DEF L
<1>14. /\ ObserverOK' /\ BetweenRuns'
  BY <1>1, <1>3, <1>4 DEF ObserverOK, BetweenRuns, ObserverInv
<1>15. SkipsTogether'
  <2>1. op = "follow" /\ Followed(trace) >= MaxLevels - 1 => ~Enters(op)
    BY <1>6, <1>9 DEF Enters, L
  <2> QED
    BY <1>1, <1>4, <2>1 DEF SkipsTogether
<1>16. EndsAtEffect'
  <2>1. Effects = {}
    BY <1>1 DEF ObserverInv, EndsAtEffect
  <2>2. \A i \in 1 .. n : ~IsEffect(trace[i])
    BY <1>3, <2>1 DEF Effects
  <2>3. \A o : IsEffect(o)' <=> IsEffect(o)
    BY <1>1 DEF IsEffect
  <2>4. \A i \in 1 .. n + 1 : i \in Effects' <=> i = n + 1 /\ IsEffect(op)
    BY <1>1, <1>3, <1>10, <1>11, <2>2, <2>3 DEF Effects, IsEffect
  <2>5. Effects' \subseteq 1 .. n + 1
    BY <1>3 DEF Effects
  <2>6. Effects' = IF IsEffect(op) THEN {n + 1} ELSE {}
    BY <1>10, <2>4, <2>5
  <2> QED
    BY <1>3, <1>4, <2>6 DEF EndsAtEffect
<1>17. Moment' = IF IsEffect(op) THEN n + 1 ELSE n + 2
  BY <1>2, <1>3, <1>4 DEF Moment
<1>18. Enters(op) => ~IsEffect(op)
  BY DEF Enters, IsEffect
<1>19. LevelsMatch'
  <2>1. Len(seen'.levels) >= L
    BY <1>4
  <2>2. ASSUME NEW i \in 1 .. n + 1 PROVE LevelAt(i)' <= Len(seen'.levels)
    <3>1. CASE i = n + 1
      BY <1>4, <1>5, <2>1, <3>1 DEF L
    <3>2. CASE i \in 1 .. n
      <4>1. LevelAt(i) <= L /\ LevelAt(i) \in Nat
        BY <1>2, <1>10, <1>12, <3>2, LevelType
      <4> QED
        BY <1>4, <1>5, <2>1, <4>1
    <3> QED
      BY <1>11, <3>1, <3>2
  <2>3. CASE IsEffect(op)
    <3>1. LevelAt(n + 1)' = L
      BY <1>5, <1>10 DEF L
    <3>2. Len(seen'.levels) = L /\ Moment' = n + 1
      BY <1>4, <1>17, <1>18, <2>3
    <3> QED
      BY <1>3, <2>2, <3>1, <3>2 DEF LevelsMatch
  <2>4. CASE ~IsEffect(op)
    <3>1. op = "follow" => code # "std"
      BY <2>4 DEF IsEffect, Calls
    <3>2. LevelAt(n + 2)' = Len(seen'.levels)
      BY <1>4, <1>6, <1>7, <1>8, <1>9, <3>1 DEF Enters, L
    <3>3. Moment' = n + 2
      BY <1>17, <2>4
    <3> QED
      BY <1>3, <2>2, <3>2, <3>3 DEF LevelsMatch
  <2> QED
    BY <2>3, <2>4
<1>20. ArmsSoFar'
  <2>1. Waiting' <=> op \in Branches
    <3>1. trace' # <<>>
      BY <1>2, <1>3
    <3>2. op \in Branches => ~IsEffect(op)
      BY DEF Branches, IsEffect, Calls
    <3> QED
      BY <1>3, <1>4, <3>1, <3>2 DEF Waiting
  <2>2. SUFFICES ASSUME NEW k \in 1 .. Len(seen'.levels)
                 PROVE  IF k = Len(seen'.levels) /\ Waiting'
                        THEN seen'.levels[k].dec
                        ELSE seen'.levels[k].arm = DefinedArm(k)' /\ ~seen'.levels[k].dec
    BY DEF ArmsSoFar
  <2>3. op \in Branches => ~Enters(op)
    BY DEF Branches, Enters
  <2>4. k \in 1 .. L - 1 \/ k = L \/ (k = L + 1 /\ Enters(op))
    BY <1>4
  <2>5. CASE k \in 1 .. L - 1
    <3>1. k # L /\ k # Len(seen'.levels)
      BY <1>4, <2>5
    <3> QED
      BY <1>4, <1>13, <2>5, <3>1 DEF ArmsTo
  <2>6. CASE k = L /\ op \in Branches
    <3>1. Len(seen'.levels) = L
      BY <1>4, <2>3, <2>6
    <3> QED
      BY <1>4, <2>1, <2>6, <3>1
  <2>7. CASE k = L /\ op \notin Branches
    BY <1>4, <1>13, <2>1, <2>7 DEF ArmsTo
  <2>8. CASE k = L + 1 /\ Enters(op)
    <3>1. op \notin Branches /\ seen'.levels[k] = [arm |-> None, dec |-> FALSE]
      BY <1>4, <2>3, <2>8
    <3>2. Decisions(k) = {}
      <4>1. \A i \in 1 .. n : LevelAt(i) \in Nat
        BY <1>2, <1>10, LevelType
      <4>2. \A i \in 1 .. n : LevelAt(i) # k
        BY <1>4, <1>12, <2>8, <4>1
      <4> QED
        BY <1>3, <4>2 DEF Decisions
    <3>3. DefinedArm(k)' = None
      BY <1>13, <3>1, <3>2, NoArm
    <3> QED
      BY <2>1, <3>1, <3>3
  <2> QED
    BY <2>4, <2>5, <2>6, <2>7, <2>8
<1> QED
  BY <1>14, <1>15, <1>16, <1>19, <1>20 DEF ObserverInv

\* An instruction of skipped code is not looked at.
LEMMA InsideStep ==
  ASSUME ObserverInv, NEW op, Inside(op)
  PROVE  ObserverInv'
<1>1. /\ place # "body" /\ seen.stop = "none"
      /\ seen' = Observe(op, place, None)
      /\ place' \in {"body", place}
      /\ code' = code /\ trace' = trace
  BY DEF Inside
<1>2. seen.skipping = place
  BY <1>1 DEF ObserverInv, SkipsTogether
<1>3. seen' = seen
  BY <1>1, <1>2 DEF Observe, Skipped
<1>4. /\ Effects' = Effects /\ Waiting' = Waiting /\ Moment' = Moment
      /\ \A i : LevelAt(i)' = LevelAt(i)
      /\ \A k : DefinedArm(k)' = DefinedArm(k)
  BY <1>1, <1>3 DEF Effects, IsEffect, Waiting, Moment, LevelAt, DefinedArm
<1>5. code # "none"
  BY <1>1 DEF ObserverInv, BetweenRuns
<1>6. ObserverOK' /\ BetweenRuns' /\ SkipsTogether'
  BY <1>1, <1>2, <1>3, <1>5 DEF ObserverInv, ObserverOK, BetweenRuns, SkipsTogether
<1>7. EndsAtEffect' /\ LevelsMatch' /\ ArmsSoFar'
  BY <1>1, <1>3, <1>4 DEF ObserverInv, EndsAtEffect, LevelsMatch, ArmsSoFar
<1> QED
  BY <1>6, <1>7 DEF ObserverInv

\* The observer before the first instruction, whichever code is run.
FreshState ==
  /\ code \in {"none", "qmk", "std"}
  /\ trace = <<>> /\ place = "body" /\ seen = Start

LEMMA FreshHolds == FreshState => ObserverInv
<1> SUFFICES ASSUME FreshState PROVE ObserverInv
  OBVIOUS
<1>1. code \in {"none", "qmk", "std"} /\ trace = <<>> /\ place = "body" /\ seen = Start
  BY DEF FreshState
<1> DEFINE s == [arm |-> None, dec |-> FALSE]
<1>2. s \in Levels
  BY DEF Levels, None
<1>3. /\ <<s>> \in Seq(Levels) /\ Len(<<s>>) = 1 /\ <<s>>[1] = s
  BY <1>2
<1> HIDE DEF s
<1>4. /\ seen.levels = <<s>> /\ seen.stop = "none" /\ seen \in Observers
      /\ seen = Start
  BY <1>1, <1>3 DEF Start, Observers, s
<1>5. /\ trace \in Seq(Ops) /\ Len(trace) = 0 /\ DOMAIN trace = {}
      /\ Moment = 1
  BY <1>1, <1>4 DEF Moment
<1>6. Effects = {} /\ ~Waiting /\ \A k : DefinedArm(k) = None
  BY <1>5 DEF Effects, Waiting, DefinedArm
<1>7. LevelAt(1) = 1
  <2> DEFINE t == SubSeq(trace, 1, 1 - 1)
  <2>1. DOMAIN t = {}
    BY <1>1
  <2> HIDE DEF t
  <2>2. {i \in DOMAIN t : t[i] = "follow"} = {}
    BY <2>1
  <2>3. Followed(t) = 0
    BY <2>2, FS_EmptySet DEF Followed
  <2>4. LevelAt(1) =
          (IF Followed(t) < MaxLevels THEN Followed(t) + 1 ELSE MaxLevels)
    BY DEF LevelAt, t
  <2>5. 0 < MaxLevels
    BY ReachAssumption
  <2> QED
    BY <2>3, <2>4, <2>5
<1>8. s.arm = None /\ ~s.dec
  BY DEF s
<1>9. ObserverOK /\ BetweenRuns /\ SkipsTogether
  BY <1>1, <1>4, <1>5 DEF ObserverOK, BetweenRuns, SkipsTogether
<1>10. EndsAtEffect /\ LevelsMatch
  BY <1>3, <1>4, <1>5, <1>6, <1>7 DEF EndsAtEffect, LevelsMatch
<1>11. ArmsSoFar
  <2>1. \A k \in 1 .. Len(seen.levels) : k = 1
    BY <1>3, <1>4
  <2> QED
    BY <1>3, <1>4, <1>6, <1>8, <2>1 DEF ArmsSoFar
<1> QED
  BY <1>9, <1>10, <1>11 DEF ObserverInv

\* The same where a run begins or has ended.
LEMMA FreshNext == FreshState' => ObserverInv'
  BY FreshHolds, PTL

\* A step that leaves the run alone keeps its invariant.
LEMMA SameRun ==
  ASSUME ObserverInv, code' = code, trace' = trace, place' = place, seen' = seen
  PROVE  ObserverInv'
<1>1. /\ Effects' = Effects /\ Waiting' = Waiting /\ Moment' = Moment
      /\ \A i : LevelAt(i)' = LevelAt(i)
      /\ \A k : DefinedArm(k)' = DefinedArm(k)
  BY DEF Effects, IsEffect, Waiting, Moment, LevelAt, DefinedArm
<1>2. ObserverOK' /\ BetweenRuns' /\ SkipsTogether'
  BY DEF ObserverInv, ObserverOK, BetweenRuns, SkipsTogether
<1>3. EndsAtEffect' /\ LevelsMatch' /\ ArmsSoFar'
  BY <1>1 DEF ObserverInv, EndsAtEffect, LevelsMatch, ArmsSoFar
<1> QED
  BY <1>2, <1>3 DEF ObserverInv

-----------------------------------------------------------------------------
(* The tables of derive, and the score.                                    *)

\* chain: what is kept of the hook's levels are arms.
LEMMA DecidedType ==
  ASSUME NEW h \in SeqOf(Addresses \cup {None}, 2), h # <<>>
  PROVE  Decided(h) \in Seq(Addresses)
<1>1. PICK m \in 0 .. 2 : h \in [1 .. m -> Addresses \cup {None}]
  BY DEF SeqOf
<1>2. m = 1 \/ m = 2
  <2>1. m = 0 => h = <<>>
    BY <1>1
  <2> QED
    BY <2>1
<1>3. h \in Seq(Addresses \cup {None}) /\ Len(h) = m
  BY <1>1
<1>4. ASSUME NEW k \in 1 .. m
      PROVE  (IF h[k] = None THEN <<>> ELSE <<h[k]>>) \in Seq(Addresses)
  <2>1. h[k] \in Addresses \cup {None}
    BY <1>1, <1>4
  <2>2. CASE h[k] = None
    BY <2>2
  <2>3. CASE h[k] # None
    BY <2>1, <2>3
  <2> QED
    BY <2>2, <2>3
<1>5. CASE m = 1
  <2>1. (IF h[1] = None THEN <<>> ELSE <<h[1]>>) \in Seq(Addresses)
    BY <1>4, <1>5
  <2> QED
    BY <1>3, <1>5, <2>1 DEF Decided
<1>6. CASE m = 2
  <2> DEFINE a == IF h[1] = None THEN <<>> ELSE <<h[1]>>
             b == IF h[2] = None THEN <<>> ELSE <<h[2]>>
  <2>1. a \in Seq(Addresses) /\ b \in Seq(Addresses)
    BY <1>4, <1>6
  <2>2. Decided(h) = a \o b
    BY <1>3, <1>6 DEF Decided
  <2> HIDE DEF a, b
  <2> QED
    BY <2>1, <2>2, ConcatProperties
<1> QED
  BY <1>2, <1>5, <1>6

\* chain: a request that is not refused has a sequence of arms.
LEMMA ChainsType ==
  ASSUME NEW c \in Chains
  PROVE  c \in Seq(Addresses) /\ c # <<>>
<1>1. PICK q \in Requests : c = Chain(q)
  BY DEF Chains
<1> DEFINE after == IF q.ends = "descriptor" THEN <<q.gud>>
                    ELSE IF ~Declined(q) THEN <<>>
                    ELSE IF q.stdAsks THEN <<q.std, q.gud>> ELSE <<q.std>>
           out == IF q.out /\ ~Declined(q) THEN <<q.cb>> ELSE <<>>
<1>2. /\ q.hook \in SeqOf(Addresses \cup {None}, 2) /\ q.hook # <<>>
      /\ q.std \in Addresses /\ q.gud \in Addresses /\ q.cb \in Addresses
  BY DEF Requests
<1>3. Decided(q.hook) \in Seq(Addresses)
  BY <1>2, DecidedType
<1>4. after \in Seq(Addresses) /\ out \in Seq(Addresses)
  BY <1>2
<1>5. c = Decided(q.hook) \o after \o out
  BY <1>1 DEF Chain
<1> HIDE DEF after, out
<1>6. c \in Seq(Addresses)
  BY <1>3, <1>4, <1>5, ConcatProperties
<1>7. c # <<>>
  BY DEF Chains
<1> QED
  BY <1>6, <1>7

\* In an accepted table of however many entries the chain of an entry ends
\* at its own handler and passes no own handler before.
LEMMA FirstOwn ==
  ASSUME NEW ids, NEW t, t.chain \in [ids -> Chains], Accepted(t), NEW e \in ids
  PROVE  /\ t.chain[e] \in Seq(Addresses)
         /\ Len(t.chain[e]) \in Nat /\ Len(t.chain[e]) >= 1
         /\ t.chain[e][Len(t.chain[e])] = Own(t.chain[e])
         /\ Own(t.chain[e]) \in OwnArms(t)
         /\ \A i \in 1 .. Len(t.chain[e]) - 1 : t.chain[e][i] \notin OwnArms(t)
<1> DEFINE c == t.chain[e]
<1>1. c \in Chains /\ DOMAIN t.chain = ids
  OBVIOUS
<1>2. c \in Seq(Addresses) /\ c # <<>>
  BY <1>1, ChainsType
<1>3. Len(c) \in Nat /\ Len(c) >= 1
  BY <1>2
<1>4. Own(c) = c[Len(c)] /\ Own(c) \in OwnArms(t)
  BY <1>1 DEF Own, Last, OwnArms
<1>5. Route(c) \cap OwnArms(t) = {}
  BY <1>1 DEF Accepted
<1>6. ASSUME NEW i \in 1 .. Len(c) - 1 PROVE c[i] \in Route(c)
  <2> DEFINE s == SubSeq(c, 1, Len(c) - 1)
  <2>1. DOMAIN s = 1 .. Len(c) - 1 /\ \A j \in 1 .. Len(c) - 1 : s[j] = c[j]
    BY <1>2, <1>3
  <2>2. Route(c) = {s[j] : j \in DOMAIN s}
    BY DEF Route, ToSet, Front
  <2> HIDE DEF s
  <2> QED
    BY <1>6, <2>1, <2>2
<1> QED
  BY <1>2, <1>3, <1>4, <1>5, <1>6

\* The first own record of a boot is the one of its entry's own handler, so
\* that entry, when the rest of the record agrees, and no other is hit, however
\* many there are and however the firmware goes on.
LEMMA OneHit ==
  ASSUME NEW ids, NEW t, t.chain \in [ids -> Chains], Accepted(t),
         NEW e \in ids, NEW f \in ids, NEW later \in Seq(Addresses), NEW rest \in Rests
  PROVE  HitFor(Logged(t, e, later, rest), f, t) <=> e = f /\ rest = "agrees"
<1> DEFINE c == t.chain[e]
           n == Len(c)
           p == c \o later
           log == Logged(t, e, later, rest)
<1>1. /\ c \in Seq(Addresses) /\ n \in Nat /\ n >= 1
      /\ c[n] = Own(c) /\ Own(c) \in OwnArms(t)
      /\ \A i \in 1 .. n - 1 : c[i] \notin OwnArms(t)
  BY FirstOwn
<1>2. /\ p \in Seq(Addresses) /\ Len(p) \in Nat /\ Len(p) >= n
      /\ \A i \in 1 .. n : p[i] = c[i]
  BY <1>1, ConcatProperties
<1>3. DOMAIN p = 1 .. Len(p)
  BY <1>2
<1>4. /\ DOMAIN log = {i \in DOMAIN p : HookKind(t, p[i]) # "unhooked"}
      /\ \A i \in DOMAIN log :
           log[i] = [k |-> HookKind(t, p[i]), pc |-> p[i], setup |-> e, rest |-> rest]
  BY DEF Logged
<1> HIDE DEF p, log
<1>5. \A a : HookKind(t, a) = "own" <=> a \in OwnArms(t)
  BY DEF HookKind
<1>6. n \in DOMAIN p /\ p[n] = c[n] /\ HookKind(t, p[n]) = "own"
  BY <1>1, <1>2, <1>3, <1>5
<1>7. /\ n \in DOMAIN log /\ log[n].k = "own" /\ log[n].pc = Own(c)
      /\ log[n].setup = e /\ log[n].rest = rest
  <2>1. n \in DOMAIN log
    BY <1>4, <1>6
  <2>2. log[n] = [k |-> "own", pc |-> Own(c), setup |-> e, rest |-> rest]
    BY <1>1, <1>4, <1>6, <2>1
  <2> QED
    BY <2>1, <2>2
<1>8. ASSUME NEW j \in DOMAIN log, j < n PROVE log[j].k # "own"
  <2>1. j \in 1 .. Len(p)
    BY <1>3, <1>4
  <2>2. j \in 1 .. n - 1 /\ j \in 1 .. n
    BY <1>1, <1>2, <1>8, <2>1
  <2>3. p[j] \notin OwnArms(t)
    BY <1>1, <1>2, <2>2
  <2>4. log[j].k = HookKind(t, p[j])
    BY <1>4
  <2> QED
    BY <1>5, <2>3, <2>4
<1>9. ASSUME NEW i \in DOMAIN log, log[i].k = "own",
              \A j \in DOMAIN log : j < i => log[j].k # "own"
       PROVE  i = n
  <2>1. i \in 1 .. Len(p)
    BY <1>3, <1>4
  <2>2. ~(i < n) /\ ~(n < i)
    BY <1>7, <1>8, <1>9
  <2> QED
    BY <1>1, <1>2, <2>1, <2>2
<1>10. HitFor(log, f, t) <=> Identity(log[n], f, t)
  BY <1>7, <1>8, <1>9 DEF HitFor
<1>11. Identity(log[n], f, t) <=> e = f /\ rest = "agrees"
  BY <1>7 DEF Identity
<1> QED
  BY <1>10, <1>11 DEF log

\* The observer's part, and the tables that derive accepts.
ReachInv == ObserverInv /\ table \in Tables \cup {NoTable}

\* While a run is watched the observer's levels, flags and arms are those of the
\* instructions seen so far: settled for every level but the one that waits for
\* the instruction after a decision; a run stops at its first effect; and derive
\* keeps no table but an accepted one.
THEOREM ReachInvariant == ReachSpec => []ReachInv
<1>1. ReachInit => ReachInv
  <2>1. ReachInit => FreshState
    BY DEF ReachInit, FreshState
  <2> QED
    BY <2>1, FreshHolds DEF ReachInit, ReachInv
<1>2. ReachInv /\ [ReachNext]_reachVars => ReachInv'
  <2> SUFFICES ASSUME ReachInv, [ReachNext]_reachVars PROVE ReachInv'
    OBVIOUS
  <2>1. ObserverInv /\ table \in Tables \cup {NoTable}
    BY DEF ReachInv
  <2>2. ASSUME code' = code, trace' = trace, place' = place, seen' = seen
        PROVE  ObserverInv'
    BY <2>1, <2>2, SameRun
  <2>3. CASE \E c \in {"qmk", "std"} : BeginRun(c)
    <3>1. code = "none" /\ code' \in {"qmk", "std"} /\ UNCHANGED <<trace, place, seen, table>>
      BY <2>3 DEF BeginRun, Idle
    <3>2. trace = <<>> /\ place = "body" /\ seen = Start
      BY <2>1, <3>1 DEF ObserverInv, BetweenRuns
    <3>3. FreshState'
      BY <3>1, <3>2 DEF FreshState, Start, None
    <3> QED
      BY <2>1, <3>1, <3>3, FreshNext DEF ReachInv, NoTable
  <2>4. CASE \E op \in Ops : Execute(op)
    <3>1. PICK op \in Ops : Execute(op)
      BY <2>4
    <3>2. table' = table
      BY <3>1 DEF Execute
    <3> QED
      BY <2>1, <3>1, <3>2, ExecuteStep DEF ReachInv
  <2>5. CASE \E op \in {"plain", "cond", "store", "return"} : Inside(op)
    <3>1. PICK op \in {"plain", "cond", "store", "return"} : Inside(op)
      BY <2>5
    <3>2. table' = table
      BY <3>1 DEF Inside
    <3> QED
      BY <2>1, <3>1, <3>2, InsideStep DEF ReachInv
  <2>6. CASE EndRun
    <3>1. FreshState' /\ table' = table
      BY <2>6 DEF EndRun, FreshState
    <3> QED
      BY <2>1, <3>1, FreshNext DEF ReachInv
  <2>7. CASE Derive
    BY <2>1, <2>2, <2>7 DEF Derive, ReachInv
  <2>8. CASE Written
    BY <2>1, <2>2, <2>8 DEF Written, ReachInv
  <2>9. CASE UNCHANGED reachVars
    BY <2>1, <2>2, <2>9 DEF reachVars, ReachInv
  <2> QED
    BY <2>3, <2>4, <2>5, <2>6, <2>7, <2>8, <2>9 DEF ReachNext
<1> QED
  BY <1>1, <1>2, PTL DEF ReachSpec

\* A run of the tool ends at the first effect of the decode, and the arms it
\* has come to are those of the definition, for any decode and any MaxLevels.
THEOREM ArmsCorrect == ReachSpec => []ArmsAsDefined
<1>1. ReachInv => ArmsAsDefined
  <2> SUFFICES ASSUME ReachInv PROVE ArmsAsDefined
    OBVIOUS
  <2>1. ObserverOK /\ EndsAtEffect /\ LevelsMatch /\ ArmsSoFar
    BY DEF ReachInv, ObserverInv
  <2>2. seen.stop # "none" <=> Effects # {}
    BY <2>1 DEF EndsAtEffect
  <2>3. SUFFICES ASSUME seen.stop # "none"
                 PROVE  /\ Effects = {Len(trace)}
                        /\ Len(seen.levels) = LevelAt(Len(trace))
                        /\ \A k \in DOMAIN seen.levels :
                             seen.levels[k] = [arm |-> DefinedArm(k), dec |-> FALSE]
    BY <2>2 DEF ArmsAsDefined
  <2>4. Effects = {Len(trace)} /\ Len(seen.levels) = LevelAt(Len(trace))
    BY <2>1, <2>3 DEF EndsAtEffect, LevelsMatch, Moment
  <2>5. ASSUME NEW k \in DOMAIN seen.levels
        PROVE  seen.levels[k] = [arm |-> DefinedArm(k), dec |-> FALSE]
    <3>1. seen.levels \in Seq(Levels)
      BY <2>1 DEF ObserverOK, Observers
    <3>2. k \in 1 .. Len(seen.levels) /\ seen.levels[k] \in Levels
      BY <2>5, <3>1
    <3>3. seen.levels[k].arm = DefinedArm(k) /\ ~seen.levels[k].dec
      BY <2>1, <2>3, <3>2 DEF ArmsSoFar, Waiting
    <3>4. \A r \in Levels : ~r.dec => r = [arm |-> r.arm, dec |-> FALSE]
      BY DEF Levels
    <3> QED
      BY <3>2, <3>3, <3>4
  <2> QED
    BY <2>4, <2>5
<1> QED
  BY <1>1, ReachInvariant, PTL

\* Of the tables derive accepts: the first own record of a boot makes it a hit
\* for the entry it is about, when its registers and OUT bytes are the
\* request's, and for no other, wherever the firmware runs on to.
THEOREM HitsCorrect == ReachSpec => []HitsTellApart
<1>1. ReachInv => HitsTellApart
  <2> SUFFICES ASSUME ReachInv, NEW e \in DOMAIN table.chain, NEW f \in DOMAIN table.chain,
                      NEW later \in SeqOf(Addresses, 1), NEW rest \in Rests
               PROVE  HitFor(Logged(table, e, later, rest), f, table)
                        <=> e = f /\ rest = "agrees"
    BY DEF HitsTellApart
  <2>1. table # NoTable
    <3>1. DOMAIN NoTable.chain = {}
      BY DEF NoTable
    <3> QED
      BY <3>1
  <2>2. later \in Seq(Addresses)
    <3>1. PICK m \in 0 .. 1 : later \in [1 .. m -> Addresses]
      BY DEF SeqOf
    <3> QED
      BY <3>1
  <2>3. /\ table.chain \in [1 .. 2 -> Chains] /\ Accepted(table)
        /\ e \in 1 .. 2 /\ f \in 1 .. 2
    BY <2>1 DEF ReachInv, Tables
  <2> QED
    BY <2>2, <2>3, OneHit
<1> QED
  BY <1>1, ReachInvariant, PTL
=============================================================================

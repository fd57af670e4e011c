---------------------------- MODULE Panel_proofs ----------------------------
(***************************************************************************)
(* Theorems of Panel, for any number of runs and of probes of the port.    *)
(***************************************************************************)
EXTENDS Panel, TLAPS

Before == {"idle", "posted", "probe", "classify", "spawn"}
Unasked == Before \cup {"boot", "connect", "challenge"}
Over == {"wait", "ended", "done"}

\* Nothing has been graded before the challenge, and only a run whose peer is
\* its own guest comes to grade anything.
PeerChallenged ==
  \A r \in Runs : /\ run[r].pc \in Unasked => ~run[r].graded
                  /\ run[r].pc \in {"marker", "ask"} \/ run[r].graded
                       => run[r].peer = r

\* A run has no process before it spawns one, and leaves none that has not
\* been told to end, unless it is a command's that was interrupted unguarded.
GuestBounded ==
  \A r \in Runs :
    /\ run[r].pc \in Before => guest[r] = "none"
    /\ run[r].pc \in Over /\ ~run[r].lost => guest[r] \in {"none", "dying", "gone"}
    /\ run[r].lost => run[r].pc \in Over /\ run[r].origin # "panel"

PanelInv == TypeOK /\ PeerChallenged /\ GuestBounded

\* What the local variables of one run's thread may be.
RunStates == [pc : Places, origin : Origins, probes : 0 .. PortProbes,
              peer : Runs \cup {Decoy, NoOne},
              graded : BOOLEAN, raised : BOOLEAN, lost : BOOLEAN]

\* A run that has not begun satisfies every part.
LEMMA InitHolds == Init => PanelInv
<1> SUFFICES ASSUME Init PROVE PanelInv
  OBVIOUS
<1> DEFINE idle == [pc |-> "idle", origin |-> "panel", probes |-> 0,
                    peer |-> NoOne, graded |-> FALSE, raised |-> FALSE,
                    lost |-> FALSE]
<1>1. idle \in RunStates
  <2>1. FALSE \in BOOLEAN
    BY Zenon
  <2>2. "idle" \in Places /\ "panel" \in Origins /\ 0 \in 0 .. PortProbes
        /\ NoOne \in Runs \cup {Decoy, NoOne}
    BY PanelAssumption DEF Places, Origins
  <2> QED
    BY <2>1, <2>2, Zenon DEF RunStates
<1>2. run = [r \in Runs |-> idle]
  BY Zenon DEF Init
<1>3. run \in [Runs -> RunStates]
  <2> HIDE DEF idle
  <2> QED BY <1>1, <1>2
<1>4. TypeOK
  BY <1>3 DEF Init, TypeOK, RunStates, Lives
<1>5. PeerChallenged /\ GuestBounded
  BY DEF Init, PeerChallenged, GuestBounded, Unasked, Before, Over
<1> QED
  BY <1>4, <1>5 DEF PanelInv

\* What the actions make of one run's record is a record again.
LEMMA RecordKept ==
  ASSUME run \in [Runs -> RunStates], NEW r \in Runs, NEW pc \in Places,
         NEW flag \in BOOLEAN
  PROVE  /\ [run EXCEPT ![r].pc = pc] \in [Runs -> RunStates]
         /\ [run EXCEPT ![r].pc = pc, ![r].raised = flag] \in [Runs -> RunStates]
         /\ [run EXCEPT ![r].pc = pc, ![r].lost = flag] \in [Runs -> RunStates]
         /\ [run EXCEPT ![r].graded = flag] \in [Runs -> RunStates]
<1>1. [run EXCEPT ![r].pc = pc] \in [Runs -> RunStates]
  BY ZenonT(60) DEF RunStates
<1>2. [run EXCEPT ![r].pc = pc, ![r].raised = flag] \in [Runs -> RunStates]
  BY ZenonT(60) DEF RunStates
<1>3. [run EXCEPT ![r].pc = pc, ![r].lost = flag] \in [Runs -> RunStates]
  BY ZenonT(60) DEF RunStates
<1>4. [run EXCEPT ![r].graded = flag] \in [Runs -> RunStates]
  BY ZenonT(60) DEF RunStates
<1> QED
  BY <1>1, <1>2, <1>3, <1>4

LEMMA OriginKept ==
  ASSUME run \in [Runs -> RunStates], NEW r \in Runs, NEW pc \in Places,
         NEW origin \in Origins
  PROVE  [run EXCEPT ![r].pc = pc, ![r].origin = origin] \in [Runs -> RunStates]
  BY ZenonT(60) DEF RunStates

\* Every state the actions make is well typed.
LEMMA StepKeepsTypes ==
  ASSUME TypeOK, [Next]_vars
  PROVE  TypeOK'
<1> USE PanelAssumption
<1>0. /\ run \in [Runs -> RunStates]
      /\ TRUE \in BOOLEAN /\ FALSE \in BOOLEAN
  BY Zenon DEF TypeOK, RunStates
<1>1. ASSUME NEW r \in Runs, Post(r) \/ Begin(r) \/ Command(r) PROVE TypeOK'
  <2>1. run' \in [Runs -> RunStates]
    <3>1. CASE Post(r) \/ Begin(r)
      <4>1. PICK pc \in {"posted", "probe"} : run' = [run EXCEPT ![r].pc = pc]
        BY <3>1, Zenon DEF Post, Begin, Goto
      <4>2. pc \in Places
        BY DEF Places
      <4> QED
        BY <1>0, <4>1, <4>2, RecordKept, Zenon
    <3>2. CASE Command(r)
      <4>1. PICK pc \in {"probe", "spawn"} :
              run' = [run EXCEPT ![r].pc = pc, ![r].origin = "attack"]
        BY <3>2, Zenon DEF Command
      <4>2. pc \in Places /\ "attack" \in Origins
        BY DEF Places, Origins
      <4> QED
        BY <1>0, <4>1, <4>2, OriginKept, Zenon
    <3> QED BY <1>1, <3>1, <3>2
  <2> QED
    BY <1>1, <2>1 DEF Post, Begin, Command, TypeOK, RunStates
<1>1a. ASSUME NEW r \in Runs, RunCommand(r) PROVE TypeOK'
  <2>1. "boot" \in Places /\ "run" \in Origins
    BY DEF Places, Origins
  <2>2. run' \in [Runs -> RunStates]
    BY <1>0, <1>1a, <2>1, OriginKept, Zenon DEF RunCommand
  <2> QED
    BY <1>1a, <2>2 DEF RunCommand, TypeOK, RunStates, Lives
<1>1b. ASSUME NEW r \in Runs, Line(r) \/ Reap(r) PROVE TypeOK'
  BY <1>1b DEF Line, Reap, Goto, TypeOK, Places, Lives
<1>1c. ASSUME NEW r \in Runs, Spawn(r) \/ Interrupt(r) PROVE TypeOK'
  <2>1. \A pc \in {"boot", "ended", "close"} : pc \in Places
    BY DEF Places
  <2>2. run' \in [Runs -> RunStates]
    <3>1. CASE \E pc \in {"boot", "ended", "close"} : run' = [run EXCEPT ![r].pc = pc]
      <4>1. PICK pc \in {"boot", "ended", "close"} : run' = [run EXCEPT ![r].pc = pc]
        BY <3>1
      <4>2. pc \in Places
        BY <2>1
      <4> QED
        BY <1>0, <4>1, <4>2, RecordKept, Zenon
    <3>2. CASE run' = [run EXCEPT ![r].pc = "ended", ![r].raised = TRUE]
      BY <1>0, <2>1, <3>2, RecordKept, Zenon
    <3>3. CASE run' = [run EXCEPT ![r].pc = "ended", ![r].lost = TRUE]
      BY <1>0, <2>1, <3>3, RecordKept, Zenon
    <3> QED
      BY <1>1c, <3>1, <3>2, <3>3, Zenon DEF Spawn, Interrupt, Goto
  <2>3. guest' \in [Runs -> Lives]
    BY <1>1c DEF Spawn, Interrupt, TypeOK, Lives
  <2> QED
    BY <1>1c, <2>2, <2>3 DEF Spawn, Interrupt, TypeOK, RunStates
<1>2. ASSUME NEW r \in Runs, Probe(r) \/ Classify(r) \/ Boot(r) \/ StartBridge(r)
      PROVE TypeOK'
  BY <1>2 DEF Probe, Classify, Boot, StartBridge, Goto, TypeOK, Places, Lives
<1>3. ASSUME NEW r \in Runs, Connect(r) \/ Challenge(r) \/ BindMarker(r)
      PROVE TypeOK'
  BY <1>3 DEF Connect, Challenge, BindMarker, Goto, TypeOK, Places
<1>4. ASSUME NEW r \in Runs, Ask(r) \/ Raise(r) PROVE TypeOK'
  <2>1. "close" \in Places
    BY DEF Places
  <2>2. run' \in [Runs -> RunStates]
    <3>1. CASE Ask(r)
      <4>1. CASE run' = [run EXCEPT ![r].graded = TRUE]
        BY <1>0, <2>1, <4>1, RecordKept, Zenon
      <4>2. CASE run' = [run EXCEPT ![r].pc = "close"]
        BY <1>0, <2>1, <4>2, RecordKept, Zenon
      <4> QED
        BY <3>1, <4>1, <4>2, Zenon DEF Ask, Goto
    <3>2. CASE Raise(r)
      BY <1>0, <2>1, <3>2, RecordKept, Zenon DEF Raise
    <3> QED BY <1>4, <3>1, <3>2
  <2> QED
    BY <1>4, <2>2 DEF Ask, Raise, TypeOK, RunStates
<1>5. ASSUME NEW r \in Runs, Close(r) \/ Wait(r) PROVE TypeOK'
  BY <1>5 DEF Close, Wait, Goto, TypeOK, Places, Lives
<1>5a. ASSUME NEW r \in Runs, Finish(r) PROVE TypeOK'
  <2>1. busy' \in BOOLEAN /\ result' \in Runs \cup {NoOne}
    BY <1>5a DEF Finish, TypeOK
  <2>2. run' \in [Runs -> RunStates]
    BY <1>0, <1>5a, RecordKept DEF Finish, Goto, Places
  <2> QED
    BY <1>5a, <2>1, <2>2 DEF Finish, TypeOK, RunStates
<1>6. ASSUME NEW r \in Runs, Crash(r) \/ Exit(r) PROVE TypeOK'
  BY <1>6 DEF Crash, Exit, Vanish, TypeOK, Lives
<1>7. CASE LingerEnds \/ DecoyComes \/ DecoyGoes
  BY <1>7 DEF LingerEnds, DecoyComes, DecoyGoes, TypeOK
<1>8. CASE UNCHANGED vars
  BY <1>8 DEF vars, TypeOK
<1> QED
  BY <1>1, <1>1a, <1>1b, <1>1c, <1>2, <1>3, <1>4, <1>5, <1>5a, <1>6, <1>7, <1>8
     DEF Next, Thread, Process

\* Who grades is who has passed the challenge.
LEMMA StepKeepsPeer ==
  ASSUME TypeOK, PeerChallenged, [Next]_vars
  PROVE  PeerChallenged'
<1> USE DEF TypeOK, PeerChallenged, Unasked, Before
<1>1. ASSUME NEW r \in Runs, Post(r) \/ Begin(r) \/ Command(r)
      PROVE PeerChallenged'
  BY <1>1 DEF Post, Begin, Command, Goto
<1>1a. ASSUME NEW r \in Runs, RunCommand(r) \/ Line(r) \/ Reap(r) \/ Interrupt(r)
       PROVE PeerChallenged'
  BY <1>1a DEF RunCommand, Line, Reap, Interrupt, Goto
<1>2. ASSUME NEW r \in Runs,
             Probe(r) \/ Classify(r) \/ Spawn(r) \/ Boot(r) \/ StartBridge(r)
      PROVE PeerChallenged'
  BY <1>2 DEF Probe, Classify, Spawn, Boot, StartBridge, Goto
<1>3. ASSUME NEW r \in Runs, Connect(r) PROVE PeerChallenged'
  BY <1>3 DEF Connect, Goto
<1>4. ASSUME NEW r \in Runs, Challenge(r) \/ BindMarker(r) PROVE PeerChallenged'
  BY <1>4 DEF Challenge, BindMarker, Authentic, Goto
<1>5. ASSUME NEW r \in Runs, Ask(r) \/ Raise(r) PROVE PeerChallenged'
  BY <1>5 DEF Ask, Raise, Goto
<1>6. ASSUME NEW r \in Runs, Close(r) \/ Wait(r) \/ Finish(r)
      PROVE PeerChallenged'
  BY <1>6 DEF Close, Wait, Finish, Goto
<1>7. ASSUME NEW r \in Runs, Crash(r) \/ Exit(r) PROVE PeerChallenged'
  BY <1>7 DEF Crash, Exit, Vanish
<1>8. CASE LingerEnds \/ DecoyComes \/ DecoyGoes
  BY <1>8 DEF LingerEnds, DecoyComes, DecoyGoes
<1>9. CASE UNCHANGED vars
  BY <1>9 DEF vars
<1> QED
  BY <1>1, <1>1a, <1>2, <1>3, <1>4, <1>5, <1>6, <1>7, <1>8, <1>9
     DEF Next, Thread, Process

\* A process lives only between the spawn and the end of its run's teardown.
LEMMA StepKeepsGuest ==
  ASSUME TypeOK, GuestBounded, [Next]_vars
  PROVE  GuestBounded'
<1> USE DEF TypeOK, GuestBounded, Before, Over, Lives
<1>1. ASSUME NEW r \in Runs, Post(r) \/ Begin(r) \/ Command(r)
      PROVE GuestBounded'
  BY <1>1 DEF Post, Begin, Command, Goto
<1>1a. ASSUME NEW r \in Runs, RunCommand(r) \/ Line(r) \/ Reap(r)
       PROVE GuestBounded'
  BY <1>1a DEF RunCommand, Line, Reap, Goto
<1>1b. ASSUME NEW r \in Runs, Interrupt(r) PROVE GuestBounded'
  BY <1>1b DEF Interrupt, Guarded, Unguarded, Goto
<1>2. ASSUME NEW r \in Runs, Probe(r) \/ Classify(r) PROVE GuestBounded'
  BY <1>2 DEF Probe, Classify, Goto
<1>3. ASSUME NEW r \in Runs, Spawn(r) \/ Boot(r) \/ StartBridge(r)
      PROVE GuestBounded'
  BY <1>3 DEF Spawn, Boot, StartBridge, Goto
<1>4. ASSUME NEW r \in Runs, Connect(r) \/ Challenge(r) \/ BindMarker(r)
      PROVE GuestBounded'
  BY <1>4 DEF Connect, Challenge, BindMarker, Goto
<1>5. ASSUME NEW r \in Runs, Ask(r) \/ Raise(r) PROVE GuestBounded'
  BY <1>5 DEF Ask, Raise, Goto
<1>6. ASSUME NEW r \in Runs, Close(r) \/ Wait(r) \/ Finish(r)
      PROVE GuestBounded'
  BY <1>6 DEF Close, Wait, Finish, Goto
<1>7. ASSUME NEW r \in Runs, Crash(r) \/ Exit(r) PROVE GuestBounded'
  BY <1>7 DEF Crash, Exit, Vanish
<1>8. CASE LingerEnds \/ DecoyComes \/ DecoyGoes
  BY <1>8 DEF LingerEnds, DecoyComes, DecoyGoes
<1>9. CASE UNCHANGED vars
  BY <1>9 DEF vars
<1> QED
  BY <1>1, <1>1a, <1>1b, <1>2, <1>3, <1>4, <1>5, <1>6, <1>7, <1>8, <1>9
     DEF Next, Thread, Process

\* The inductive invariant: types, who has been challenged, whose process lives:
\* past the teardown only that of a command interrupted before `try' or inside
\* the teardown (run_attack, cmd_run and the panel that calls run_attack).
THEOREM Invariant == Spec => []PanelInv
<1>1. PanelInv /\ [Next]_vars => PanelInv'
  BY StepKeepsTypes, StepKeepsPeer, StepKeepsGuest DEF PanelInv
<1> QED
  BY InitHolds, <1>1, PTL DEF Spec

\* Every reachable state is well typed, whatever the number of runs; in
\* particular no run probes the port more often than its deadline allows.
THEOREM TypeCorrect == Spec => []TypeOK
<1>1. PanelInv => TypeOK
  BY DEF PanelInv
<1> QED
  BY Invariant, <1>1, PTL

\* No answer but the own guest's is ever graded, however many runs, guests and
\* impostors share the port (run_attack, the challenge).
THEOREM OwnGuestGraded == Spec => []GradedByOwnGuest
<1>1. PanelInv => GradedByOwnGuest
  BY DEF PanelInv, PeerChallenged, GradedByOwnGuest
<1> QED
  BY Invariant, <1>1, PTL

\* When a run from the panel is over, by a verdict, a refusal or an exception,
\* its emulator has ended or has been told to; a command's too, unless it is
\* interrupted where no `finally' is left to tell it (run_attack, _kill,
\* cmd_run, _kill_tree).
THEOREM NobodyLeftBehind == Spec => []NothingLeftBehind
<1>1. PanelInv => NothingLeftBehind
  BY DEF PanelInv, GuestBounded, NothingLeftBehind, Over
<1> QED
  BY Invariant, <1>1, PTL
=============================================================================

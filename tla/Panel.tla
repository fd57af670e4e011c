------------------------------- MODULE Panel --------------------------------
(***************************************************************************)
(* Test runs that share one bridge port: the web panel that starts them in *)
(* threads (bdn9_panel.py), runs started from the command line, the probe  *)
(* of the port, the emulator each run spawns, the challenge of whoever     *)
(* listens, and the end of a run (attack.run_attack).  The `run' command   *)
(* (cli.cmd_run) only spawns an emulator, streams its log and reaps it,    *)
(* and takes the port without asking.  The decoy is the impostor of        *)
(* tools_decoy.py, which answers everything on the same port.  What a run  *)
(* asks its guest is one action here; Attack details it.                   *)
(***************************************************************************)
EXTENDS Naturals

CONSTANTS
  Runs,         \* runs, one thread and one emulator each
  Decoy,        \* the impostor
  NoOne,
  PortProbes    \* how often a probe of the port is repeated, 45 in the code

ASSUME PanelAssumption ==
  /\ PortProbes \in Nat
  /\ {Decoy, NoOne} \cap Runs = {} /\ Decoy # NoOne

VARIABLES
  busy,        \* _STATE["busy"]
  result,      \* whose result _STATE["result"] is
  holder,      \* who listens on the bridge's port
  lingering,   \* a socket in TIME_WAIT keeps the port from being bound
  run,         \* the thread of each run
  guest        \* the emulator process of each run

vars == <<busy, result, holder, lingering, run, guest>>

Places == {"idle", "posted", "probe", "classify", "spawn", "boot", "connect",
           "challenge", "marker", "ask", "stream", "reap", "close", "wait",
           "ended", "done"}
Origins == {"panel", "attack", "run"}      \* who runs: a thread, a command
Lives == {"none", "booting", "serving", "deaf", "dying", "gone"}

Bindable == holder = NoOne /\ ~lingering

Init ==
  /\ busy = FALSE /\ result = NoOne
  /\ holder \in {NoOne, Decoy} /\ lingering = FALSE
  /\ run = [r \in Runs |-> [pc |-> "idle", origin |-> "panel", probes |-> 0,
                            peer |-> NoOne, graded |-> FALSE, raised |-> FALSE,
                            lost |-> FALSE]]
  /\ guest = [r \in Runs |-> "none"]

Goto(r, pc) == run' = [run EXCEPT ![r].pc = pc]

-----------------------------------------------------------------------------
(* How a run starts.                                                       *)

\* do_POST: the flag is read under the lock, the thread started after it.
Post(r) ==
  /\ run[r].pc = "idle" /\ ~busy
  /\ Goto(r, "posted")
  /\ UNCHANGED <<busy, result, holder, lingering, guest>>

\* _run: the flag is set by the thread.
Begin(r) ==
  /\ run[r].pc = "posted"
  /\ busy' = TRUE /\ result' = NoOne
  /\ Goto(r, "probe")
  /\ UNCHANGED <<holder, lingering, guest>>

\* The command line knows nothing of the flag, and may skip the probe.
Command(r) ==
  /\ run[r].pc = "idle"
  /\ \E pc \in {"probe", "spawn"} :
       run' = [run EXCEPT ![r].pc = pc, ![r].origin = "attack"]
  /\ UNCHANGED <<busy, result, holder, lingering, guest>>

\* The `run' command spawns its emulator at once, and knows no other run.
RunCommand(r) ==
  /\ run[r].pc = "idle"
  /\ run' = [run EXCEPT ![r].pc = "boot", ![r].origin = "run"]
  /\ guest' = [guest EXCEPT ![r] = "booting"]
  /\ UNCHANGED <<busy, result, holder, lingering>>

-----------------------------------------------------------------------------
(* The port, the emulator and the challenge.                               *)

\* _preflight binds both addresses without SO_REUSEADDR ...
Probe(r) ==
  /\ run[r].pc = "probe"
  /\ Goto(r, IF Bindable THEN "spawn" ELSE "classify")
  /\ UNCHANGED <<busy, result, holder, lingering, guest>>

(* Mutant: the probe has no deadline. *)
ClassifyForever(r) ==
  /\ run[r].pc = "classify"
  /\ IF holder # NoOne
     THEN Goto(r, "ended")
     ELSE run' = [run EXCEPT ![r].pc = "probe", ![r].probes = @ + 1]
  /\ UNCHANGED <<busy, result, holder, lingering, guest>>

\* ... and on a failure asks by a connect whether anyone listens.
Classify(r) ==
  /\ run[r].pc = "classify"
  /\ IF holder # NoOne \/ run[r].probes = PortProbes
     THEN Goto(r, "ended")
     ELSE run' = [run EXCEPT ![r].pc = "probe", ![r].probes = @ + 1]
  /\ UNCHANGED <<busy, result, holder, lingering, guest>>

\* Popen, which may raise; the part that `finally' guards begins only later.
Spawn(r) ==
  /\ run[r].pc = "spawn"
  /\ \/ Goto(r, "boot") /\ guest' = [guest EXCEPT ![r] = "booting"]
     \/ run' = [run EXCEPT ![r].pc = "ended", ![r].raised = TRUE] /\ UNCHANGED guest
  /\ UNCHANGED <<busy, result, holder, lingering>>

\* The stage `boot' is told, and the guarded part begins.
Boot(r) ==
  /\ run[r].pc = "boot"
  /\ Goto(r, IF run[r].origin = "run" THEN "stream" ELSE "connect")
  /\ UNCHANGED <<busy, result, holder, lingering, guest>>

\* start_bridge: a guest that cannot bind lives on without a bridge.
StartBridge(r) ==
  /\ guest[r] = "booting"
  /\ IF Bindable
     THEN holder' = r /\ guest' = [guest EXCEPT ![r] = "serving"]
     ELSE guest' = [guest EXCEPT ![r] = "deaf"] /\ UNCHANGED holder
  /\ UNCHANGED <<busy, result, lingering, run>>

\* _Bridge.connect retries until somebody accepts or the deadline passes.
Connect(r) ==
  /\ run[r].pc = "connect"
  /\ IF holder # NoOne
     THEN run' = [run EXCEPT ![r].pc = "challenge", ![r].peer = holder]
     ELSE Goto(r, "close")
  /\ UNCHANGED <<busy, result, holder, lingering, guest>>

\* A greeting ends with the pid and the nonce of the process that greets, and
\* only the guest of this very run knows them.
Answering(r) ==
  \/ run[r].peer = Decoy
  \/ run[r].peer \in Runs /\ guest[run[r].peer] = "serving"

(* Mutant: whoever greets is believed. *)
AnyGreeting(r) == run[r].peer # NoOne

Authentic(r) == run[r].peer = r

(* Mutant: a refusal returns past the teardown. *)
RefusePast(r) ==
  /\ run[r].pc = "challenge"
  /\ \/ Answering(r) /\ Authentic(r) /\ Goto(r, "marker")
     \/ Goto(r, "ended")
  /\ UNCHANGED <<busy, result, holder, lingering, guest>>

\* The first line must be the greeting; anything else ends the run.
Challenge(r) ==
  /\ run[r].pc = "challenge"
  /\ \/ Answering(r) /\ Authentic(r) /\ Goto(r, "marker")
     \/ Goto(r, "close")
  /\ UNCHANGED <<busy, result, holder, lingering, guest>>

\* The child's own log is searched for the bind for twenty seconds; the
\* outcome is one more check and does not stop the run.
BindMarker(r) ==
  /\ run[r].pc = "marker"
  /\ Goto(r, "ask")
  /\ UNCHANGED <<busy, result, holder, lingering, guest>>

\* A batch of questions is graded.
Ask(r) ==
  /\ run[r].pc = "ask" /\ Answering(r)
  /\ \/ run' = [run EXCEPT ![r].graded = TRUE]
     \/ Goto(r, "close")
  /\ UNCHANGED <<busy, result, holder, lingering, guest>>

\* A send on a connection whose other end has gone raises; `finally' follows.
Raise(r) ==
  /\ run[r].pc = "ask" /\ ~Answering(r)
  /\ run' = [run EXCEPT ![r].pc = "close", ![r].raised = TRUE]
  /\ UNCHANGED <<busy, result, holder, lingering, guest>>

\* A run from the command line may be left anywhere: a signal's handler exits,
\* or a print finds its pipe closed.  From the guarded part the way leads to
\* `finally'; before it, or inside `finally' before the emulator is told to end,
\* nothing tells it any more.
Guarded == {"connect", "challenge", "marker", "ask"}
Unguarded == {"boot", "close", "reap"}

Interrupt(r) ==
  /\ run[r].origin # "panel"
  /\ \/ run[r].pc \in Guarded /\ Goto(r, "close")
     \/ run[r].pc \in {"probe", "classify", "spawn", "wait"} /\ Goto(r, "ended")
     \/ run[r].pc \in Unguarded
        /\ run' = [run EXCEPT ![r].pc = "ended", ![r].lost = TRUE]
  /\ UNCHANGED <<busy, result, holder, lingering, guest>>

-----------------------------------------------------------------------------
(* The `run' command.                                                      *)

\* It also ends when it is interrupted.  The loop looks at the deadline, and at
\* whether the emulator has ended, only between two reads of its log, and a
\* read waits for a line or for the end.
Line(r) ==
  /\ run[r].pc = "stream"
  /\ Goto(r, "reap")
  /\ UNCHANGED <<busy, result, holder, lingering, guest>>

\* _kill_tree: the signals go to the whole session, whoever is left in it.
Reap(r) ==
  /\ run[r].pc = "reap"
  /\ Goto(r, "wait")
  /\ guest' = [guest EXCEPT ![r] = IF @ = "gone" THEN @ ELSE "dying"]
  /\ UNCHANGED <<busy, result, holder, lingering>>

-----------------------------------------------------------------------------
(* The end of a run.                                                       *)

\* bridge.close, and _kill: nothing to do for a process that has ended.
Close(r) ==
  /\ run[r].pc = "close"
  /\ Goto(r, "wait")
  /\ guest' = [guest EXCEPT ![r] = IF @ \in {"none", "gone"} THEN @ ELSE "dying"]
  /\ UNCHANGED <<busy, result, holder, lingering>>

\* It waits for ten seconds, and sends a kill without waiting for it.
Wait(r) ==
  /\ run[r].pc = "wait"
  /\ Goto(r, "ended")
  /\ UNCHANGED <<busy, result, holder, lingering, guest>>

(* Mutant: an exception ends the thread and leaves the flag. *)
FinishUnlessRaised(r) ==
  /\ run[r].pc = "ended"
  /\ IF run[r].origin = "panel" /\ ~run[r].raised
     THEN busy' = FALSE /\ result' = r
     ELSE UNCHANGED <<busy, result>>
  /\ Goto(r, "done")
  /\ UNCHANGED <<holder, lingering, guest>>

\* The end of _run, after a verdict, an early return or an exception.
Finish(r) ==
  /\ run[r].pc = "ended"
  /\ IF run[r].origin = "panel"
     THEN busy' = FALSE /\ result' = r
     ELSE UNCHANGED <<busy, result>>
  /\ Goto(r, "done")
  /\ UNCHANGED <<holder, lingering, guest>>

-----------------------------------------------------------------------------
(* The processes and the port.                                             *)

\* When a listener goes, a connection of its may linger on the port.
Vanish(r) ==
  /\ guest' = [guest EXCEPT ![r] = "gone"]
  /\ IF holder = r
     THEN holder' = NoOne /\ lingering' \in BOOLEAN
     ELSE UNCHANGED <<holder, lingering>>
  /\ UNCHANGED <<busy, result, run>>

Crash(r) == guest[r] \in {"booting", "serving", "deaf"} /\ Vanish(r)
Exit(r) == guest[r] = "dying" /\ Vanish(r)

LingerEnds ==
  /\ lingering /\ lingering' = FALSE
  /\ UNCHANGED <<busy, result, holder, run, guest>>

\* serve_decoy binds with SO_REUSEADDR.
DecoyComes ==
  /\ holder = NoOne /\ holder' = Decoy
  /\ UNCHANGED <<busy, result, lingering, run, guest>>

DecoyGoes ==
  /\ holder = Decoy /\ holder' = NoOne
  /\ UNCHANGED <<busy, result, lingering, run, guest>>

\* What a run does by itself once it is posted.  It waits only with a
\* deadline, and asks a bounded number of questions.
Thread(r) ==
  \/ Begin(r) \/ Probe(r) \/ Classify(r) \/ Spawn(r) \/ Boot(r) \/ Connect(r)
  \/ Challenge(r) \/ BindMarker(r) \/ Ask(r) \/ Raise(r)
  \/ Reap(r) \/ Close(r) \/ Wait(r) \/ Finish(r)

Process(r) == StartBridge(r) \/ Crash(r) \/ Exit(r)

Next ==
  \/ \E r \in Runs :
       \/ Post(r) \/ Command(r) \/ RunCommand(r)
       \/ Line(r) \/ Interrupt(r) \/ Thread(r) \/ Process(r)
  \/ LingerEnds \/ DecoyComes \/ DecoyGoes

Spec == Init /\ [][Next]_vars

\* The threads run, and the operating system ends a process it was told to.
\* A log ends with its process; until then no line need ever come.
LogEnds(r) == guest[r] = "gone" /\ Line(r)

FairSpec ==
  Spec /\ \A r \in Runs : /\ WF_vars(Thread(r)) /\ WF_vars(Exit(r))
                          /\ WF_vars(LogEnds(r))

-----------------------------------------------------------------------------
(* Properties.                                                             *)

TypeOK ==
  /\ busy \in BOOLEAN /\ result \in Runs \cup {NoOne}
  /\ holder \in Runs \cup {Decoy, NoOne} /\ lingering \in BOOLEAN
  /\ run \in [Runs -> [pc : Places, origin : Origins, probes : 0 .. PortProbes,
                       peer : Runs \cup {Decoy, NoOne},
                       graded : BOOLEAN, raised : BOOLEAN, lost : BOOLEAN]]
  /\ guest \in [Runs -> Lives]

\* Whatever the threads, the command line, the decoy and the port do, no
\* answer of another run's guest or of the decoy is ever graded, although
\* the probe of the port and the panel's busy flag both look before they
\* leap: two runs may well be after one port at the same time.
GradedByOwnGuest == \A r \in Runs : run[r].graded => run[r].peer = r

\* However a run from the panel ends (verdict, refusal or exception), its
\* emulator has ended, or has been told to, before the run is over.  So has
\* that of a command, interrupted or not, except where the interruption falls
\* between Popen and the `try' (attack.py:522-530, cli.py:93-97) or into the
\* teardown itself, before the signal: then the emulator lives on.
NothingLeftBehind ==
  \A r \in Runs :
    /\ run[r].pc \in {"ended", "done"} /\ guest[r] \notin {"none", "dying", "gone"}
         => run[r].lost
    /\ run[r].lost => run[r].origin # "panel"

\* The `run' command reads its log and may do so for ever.
Streaming(r) == run[r].origin = "run" /\ run[r].pc \in {"boot", "stream"}

\* The panel becomes ready again after every run, however it ends, and the
\* guest gives the port up, unless it is left behind as above; the `run'
\* command's guest, which is reaped when its log next moves, gives it up from
\* then on.
ReadyAgain ==
  /\ busy ~> ~busy
  /\ \A r \in Runs :
       guest[r] = "serving" /\ ~Streaming(r) ~> holder # r \/ run[r].lost
=============================================================================

------------------------------- MODULE Attack -------------------------------
(***************************************************************************)
(* The questions a test run asks its guest, and the milestone it awards    *)
(* (attack.run_attack, from the enumeration on).  The guest is any device: *)
(* one that keeps HID idle rates per interface, one with a single store,   *)
(* one that repeats its first answer, one that is slow, one that dies, one *)
(* that malformed requests damage, and the stalled image of a control run. *)
(* Panel models what comes before: the port, the process, the challenge.   *)
(***************************************************************************)
EXTENDS Naturals, Sequences, FiniteSets, SequencesExt

CONSTANTS
  Rotations,   \* the pairs of encoder and direction
  Volume,      \* those of the volume knob, reported on endpoint 2
  Nothing,     \* no press: what no rotation emits
  Bytes,       \* the bytes a run draws at random, 1..255 in the code
  MaxLosses    \* bound on the answers of the run that come too late

\* A run's plan is not empty, and holds rotations for both endpoints.
ASSUME AttackAssumption ==
  /\ Volume \subseteq Rotations /\ Volume \notin {{}, Rotations}
  /\ Rotations \cap {Nothing, "key", "release"} = {}
  /\ Cardinality(Bytes) >= 2 /\ Bytes \subseteq 1 .. 255
  /\ MaxLosses \in Nat

VARIABLES
  run,         \* the run's local state: where it is, and what it knows
  guest        \* the emulator process, and the device in it

vars == <<run, guest>>

Interfaces == 0 .. 2
Stores == {"per_interface", "single", "first_answer"}

\* The keys of `checks'.
Checks == {"port_free", "greeted", "bound", "descriptors", "configured",
           "serial", "protocol", "idle", "refusals", "inert", "rotations",
           "per_interface", "recovered", "quiet", "rechallenged", "image"}

\* What the run remembers besides.
Notes == {"booted", "inventory", "ep1", "ep2", "adversarial",
          "distinct_before"}
           \cup {"stored0", "stored1", "stored2", "iface0", "iface1", "iface2"}

\* The checks that say something of the guest's behaviour.
Claims == {"descriptors", "configured", "serial", "protocol", "idle",
           "refusals", "inert", "rotations", "per_interface", "recovered"}

Stored(i) == <<"stored0", "stored1", "stored2">>[i + 1]
Iface(i) == <<"iface0", "iface1", "iface2">>[i + 1]

\* What the device does with GET_PROTOCOL on each interface: only the boot
\* interface 0 declares that it honours it.
Handlers == {"as_declared", "honours_all", "stalls_all"}
Met(handler) == CASE handler = "as_declared" -> Interfaces
                  [] handler = "honours_all" -> {0}
                  [] handler = "stalls_all" -> {1, 2}

\* The stalled image of a control run answers nothing at all.
Answers == guest.alive /\ ~run.control

Init ==
  /\ \E control \in BOOLEAN :
       run = [pc |-> "enumerate", control |-> control,
              passed |-> {"port_free", "greeted", "bound"},
              sent |-> [i \in Interfaces |-> 0], plan |-> {},
              turning |-> Nothing, reports |-> <<>>, missed |-> FALSE,
              lost |-> 0, rung |-> 0]
  /\ \E store \in Stores, handler \in Handlers, keys \in BOOLEAN :
       guest = [alive |-> TRUE, store |-> store, handler |-> handler,
                keys |-> keys, idle |-> [i \in Interfaces |-> 0],
                owed |-> {}, hurt |-> {}]

-----------------------------------------------------------------------------
(* The device's idle rates: what SET_IDLE leaves and GET_IDLE returns.     *)

SetIdle(d, i, v) ==
  CASE d.store = "per_interface" ->
         [d EXCEPT !.idle[i] = IF i = 1 THEN @ ELSE v]
    [] d.store = "single" -> [d EXCEPT !.idle = [j \in Interfaces |-> v]]
    \* the first answer given is the answer from then on
    [] d.store = "first_answer" ->
         [d EXCEPT !.idle[i] = IF @ = 0 THEN v ELSE @]

SetAll(d, bytes) == SetIdle(SetIdle(SetIdle(d, 0, bytes[0]), 1, bytes[1]),
                            2, bytes[2])

Goto(pc) == run' = [run EXCEPT !.pc = pc]

\* What may be lost of a batch, for the guest is slow.
Losable(names) ==
  {lost \in SUBSET names : run.lost + Cardinality(lost) <= MaxLosses}

\* The stage is over: it has passed `names', and lost `lost' of them.
Pass(pc, names, lost) ==
  run' = [run EXCEPT !.pc = pc, !.passed = @ \cup (names \ lost),
                     !.lost = @ + Cardinality(lost)]

If(b, name) == IF b THEN {name} ELSE {}

-----------------------------------------------------------------------------
(* The questions.  A stage sends a batch of requests, waits for the answers*)
(* until a deadline, and grades what came; what the guest leaves unanswered*)
(* is chosen here.                                                         *)

\* The enumeration goes on by itself: what is answered is a prefix of it.
EnumerationPrefixes ==
  {{}, {"booted"}, {"booted", "inventory"},
   {"booted", "inventory", "descriptors", "configured", "serial"}}

Enumerate ==
  /\ run.pc = "enumerate"
  /\ \E got \in EnumerationPrefixes :
       /\ Answers \/ got = {}
       /\ Pass("class", got, {})
  /\ UNCHANGED guest

\* GET_PROTOCOL after each of the random bits, GET_IDLE after SET_IDLE, and
\* two requests that must be stalled.
ProtocolAnswer(d, bits, n) ==
  IF d.store = "first_answer" THEN bits[1] ELSE bits[n]

ClassRequests ==
  /\ run.pc = "class" /\ guest.alive
  /\ \E bits \in [1 .. 2 -> {0, 1}], v \in Bytes,
        lost \in Losable({"protocol", "idle", "refusals"}) :
       LET d == SetIdle(guest, 0, v)
           good == If(\A n \in 1 .. 2 : ProtocolAnswer(d, bits, n) = bits[n],
                      "protocol")
                   \cup If(d.idle[0] = v, "idle") \cup {"refusals"}
       IN IF run.control
          THEN UNCHANGED guest /\ Goto("press")
          ELSE guest' = d /\ Pass("press", good, lost)

-----------------------------------------------------------------------------
(* The input windows: what the guest reports after a key or a rotation.    *)

Key == "key"
(* Mutant: the volume knob's two rotations are entered alike. *)
FrameAlike(o) == IF o \in Volume THEN CHOOSE v \in Volume : TRUE ELSE o

\* ENCODER_REPORT: what each rotation emits.
Frame(o) == o
Release == [of |-> "idle_rate", frame |-> "release"]

(* Mutant: every frame counts, the empty ones too. *)
FirstFrame(reports) == IF reports = <<>> THEN Nothing ELSE reports[1].frame

\* _first_press: the first report that is not the all-zero frame.
FirstPress(reports) ==
  LET first == SelectInSeq(reports, LAMBDA x : x.frame # Release.frame)
  IN IF first = 0 THEN Nothing ELSE reports[first].frame

Endpoint(frame) ==
  IF frame = Nothing THEN {} ELSE IF frame \in Volume THEN {"ep2"} ELSE {"ep1"}

\* A keymap that is not empty will report the key some time.
PressKey ==
  /\ run.pc = "press"
  /\ run' = [run EXCEPT !.pc = "key", !.reports = <<>>]
  /\ guest' = [guest EXCEPT !.owed = If(guest.keys, Key)]

(* Mutant: silence counts in a control run too. *)
KeySilent ==
  /\ run.pc = "key"
  /\ run' = [run EXCEPT !.pc = "rotate", !.plan = Rotations,
               !.reports = <<>>,
               !.passed = @ \cup If(FirstPress(run.reports) = Nothing, "inert")]
  /\ UNCHANGED guest

\* A stalled guest emits nothing, which must not count for it.
KeyReleased ==
  /\ run.pc = "key"
  /\ run' = [run EXCEPT !.pc = "rotate", !.plan = Rotations,
               !.reports = <<>>,
               !.passed = @ \cup If(/\ FirstPress(run.reports) = Nothing
                                       /\ ~run.control, "inert")]
  /\ UNCHANGED guest

\* in_reports is cleared, then the encoder is turned by one detent.
Turn ==
  /\ run.pc = "rotate"
  /\ \E o \in run.plan :
       /\ run' = [run EXCEPT !.pc = "turning", !.plan = @ \ {o},
                             !.turning = o, !.reports = <<>>]
       /\ guest' = [guest EXCEPT !.owed = @ \cup {o}]

Matches == FirstPress(run.reports) = Frame(run.turning)

Turned ==
  /\ run.pc = "turning"
  /\ run' = [run EXCEPT !.pc = "rotate", !.reports = <<>>,
               !.missed = @ \/ ~Matches,
               !.passed = @ \cup Endpoint(FirstPress(run.reports))]
  /\ UNCHANGED guest

\* What is reported from here on is read by nobody.
Rotated ==
  /\ run.pc = "rotate" /\ run.plan = {}
  /\ run' = [run EXCEPT !.pc = "interfaces", !.turning = Nothing,
               !.passed = @ \cup If(~run.missed, "rotations")]
  /\ guest' = [guest EXCEPT !.owed = {}]

InWindow == run.pc \in {"key", "turning"}

\* The guest reports what it owes whenever it gets to it; between windows
\* the client reads reports as well, and clears them.
Report ==
  /\ Answers /\ run.pc \in {"key", "rotate", "turning"}
  /\ \E o \in guest.owed :
       /\ guest' = [guest EXCEPT !.owed = @ \ {o}]
       /\ IF InWindow
          THEN run' = [run EXCEPT !.reports =
                         Append(@, [of |-> o, frame |-> Frame(o)])]
          ELSE UNCHANGED run

\* The idle rate the run has set makes the guest repeat empty frames.
RepeatIdle ==
  /\ Answers /\ InWindow /\ run.reports = <<>>
  /\ run' = [run EXCEPT !.reports = <<Release>>]
  /\ UNCHANGED guest

-----------------------------------------------------------------------------
(* The rungs above the landing: interfaces, isolation, malformed requests. *)

\* Each interface's descriptor, GET_PROTOCOL and idle byte; what the verdict
\* will ask of each interface is known from here on.
AskInterfaces ==
  /\ run.pc = "interfaces" /\ guest.alive
  /\ IF "inventory" \notin run.passed
     THEN Goto("swap") /\ UNCHANGED guest
     ELSE \E sent \in [Interfaces -> Bytes],
            lost \in Losable(Interfaces) :
            LET d == SetAll(guest, sent)
                stored == {i \in Interfaces \ lost : d.idle[i] = sent[i]}
                extra == {i \in Interfaces :
                            CASE i = 0 -> {"protocol", "ep1"} \subseteq run.passed
                              [] i = 1 -> "ep2" \in run.passed
                              [] i = 2 -> 2 \in stored}
            IN /\ guest' = d
               /\ run' = [run EXCEPT !.pc = "swap", !.sent = sent,
                            !.lost = @ + Cardinality(lost),
                            !.passed = (@ \ {"ep1", "ep2"})
                              \cup {Stored(i) : i \in stored}
                              \cup {Iface(i) : i \in Met(guest.handler) \cap extra}]

(* Mutant: the swapped bytes are sent and not read again. *)
SwapSent(d, a, b) == a # b

\* Interfaces 0 and 2 are given each other's byte, and read again.
FollowedSwap(d, a, b) == d.idle[0] = b /\ d.idle[2] = a

Swap ==
  /\ run.pc = "swap" /\ guest.alive
  /\ IF "inventory" \notin run.passed
     THEN Goto("malformed") /\ UNCHANGED guest
     ELSE \E b \in Bytes, lost \in Losable({"per_interface"}) :
            LET a == run.sent[0]
                d == SetIdle(SetIdle(guest, 0, b), 2, a)
                differed == /\ {"stored0", "stored2"} \subseteq run.passed
                            /\ a # run.sent[2]
            IN /\ IF a = run.sent[2] THEN b # a ELSE b = run.sent[2]
               /\ guest' = d
               /\ run' = [run EXCEPT
                            !.pc = "malformed", !.sent = [i \in Interfaces |-> 0],
                            !.lost = @ + Cardinality(lost),
                            !.passed = @ \cup
                              If(differed, "distinct_before") \cup
                              (If(differed /\ FollowedSwap(d, a, b),
                                  "per_interface") \ lost)]

\* Seven requests to be stalled and one read to be bounded.  They may do
\* lasting harm to the device: its idle store or its protocol state.
Malformed ==
  /\ run.pc = "malformed" /\ guest.alive
  /\ \E hurt \in SUBSET {"idle", "protocol"},
        lost \in Losable({"adversarial"}) :
       IF run.control
       THEN UNCHANGED guest /\ Goto("recover")
       ELSE /\ guest' = [guest EXCEPT !.hurt = hurt]
            /\ Pass("recover", {"adversarial"}, lost)

\* GET_IDLE afterwards; a missing or empty answer is read as 0xff.
IdleAnswer(d, lost, i) == IF i \in lost \/ "idle" \in d.hurt THEN 255 ELSE d.idle[i]

\* The device descriptor, GET_PROTOCOL of interface 0 (accepted whatever it
\* returns), the report descriptors, and a byte for each storing interface.
\* No later stage reads the idle rates, so the model forgets them.
Recover ==
  /\ run.pc = "recover" /\ guest.alive
  /\ IF "inventory" \notin run.passed
     THEN Goto("log") /\ UNCHANGED guest
     ELSE \E fresh \in [Interfaces -> Bytes], lost \in Losable(Interfaces) :
            LET d == SetAll(guest, fresh)
                storing == {i \in Interfaces : Stored(i) \in run.passed}
            IN /\ guest' = [guest EXCEPT !.idle = [i \in Interfaces |-> 0]]
               /\ run' = [run EXCEPT
                            !.pc = "log", !.lost = @ + Cardinality(lost),
                            !.passed = @ \cup
                              If(/\ storing # {}
                                 /\ \A i \in storing :
                                      IdleAnswer(d, lost, i) = fresh[i],
                                 "recovered")]

\* The log is searched for a panic of the firmware or a fault.
SearchLog ==
  /\ run.pc = "log"
  /\ \E panicked \in Losable({"quiet"}) : Pass("whoami", {"quiet"}, panicked)
  /\ UNCHANGED guest

-----------------------------------------------------------------------------
(* The verdict.                                                            *)

Faces(passed) == {i \in Interfaces : Iface(i) \in passed}
Landed(passed) == Checks \subseteq passed
Isolated(passed) == Cardinality(Faces(passed)) >= 2 /\ "per_interface" \in passed
Stateful(passed) == {"protocol", "idle", "per_interface"} \subseteq passed
Adversarial(passed) == {"adversarial", "refusals", "recovered"} \subseteq passed

Rung(passed) ==
  CASE ~Landed(passed) -> IF "booted" \in passed THEN 3 ELSE 0
    [] ~Isolated(passed) -> 4
    [] ~Stateful(passed) -> 5
    [] ~Adversarial(passed) -> 6
    [] OTHER -> IF Faces(passed) = Interfaces THEN 8 ELSE 7

\* WHOAMI is answered by the host model, not by the guest's firmware.
WhoAmI ==
  /\ run.pc = "whoami" /\ guest.alive
  /\ \E lost \in Losable({"rechallenged"}) :
       Pass("verdict", {"rechallenged", "image"}, lost)
  /\ UNCHANGED guest

AwardMilestone ==
  /\ run.pc = "verdict"
  /\ run' = [run EXCEPT !.pc = "over", !.rung = Rung(run.passed)]
  /\ UNCHANGED guest

Sending == {"class", "press", "key", "rotate", "interfaces", "swap",
            "malformed", "recover", "whoami"}

\* A send on a connection whose guest has gone raises, the second one at the
\* latest, so that a batch never gets through; `finally' follows.
Raise ==
  /\ run.pc \in Sending /\ ~guest.alive
  /\ run' = [run EXCEPT !.pc = "raised"]
  /\ UNCHANGED guest

Crash ==
  /\ guest.alive /\ guest' = [guest EXCEPT !.alive = FALSE]
  /\ UNCHANGED run

Questions ==
  \/ Enumerate \/ ClassRequests \/ PressKey \/ KeyReleased
  \/ Turn \/ Turned \/ Rotated \/ AskInterfaces \/ Swap
  \/ Malformed \/ Recover \/ SearchLog \/ WhoAmI \/ AwardMilestone

Next == Questions \/ Report \/ RepeatIdle \/ Raise \/ Crash

Spec == Init /\ [][Next]_vars

-----------------------------------------------------------------------------
(* Properties.                                                             *)

\* A control run, whose guest executes nothing, earns no check that says
\* something of the guest's behaviour: none of them is true of silence.
ControlClaimsNothing == run.control => run.passed \cap Claims = {}

\* Isolation (M5) is granted only to a device that keeps its idle rates per
\* interface: neither one store for all nor a first answer repeated earns
\* it, whatever bytes are drawn and whatever answers are lost.
IsolationEarned == Isolated(run.passed) => guest.store = "per_interface"

\* A rotation is a match only when the window opened by it holds a report
\* that this very rotation has caused: a report that comes late, into the
\* window of another rotation or of the key, is never taken for that one's.
RotationsEarned ==
  run.pc = "turning" /\ Matches
    => \E n \in DOMAIN run.reports : run.reports[n].of = run.turning

\* A device that is what the prediction says, answers in time and survives
\* the malformed requests is awarded the highest rung, however many empty
\* reports the idle rate brings: unless the run drew one byte for both
\* interfaces of the isolation test.
GenuineGetsParity ==
  /\ run.pc = "over" /\ ~run.control /\ ~guest.keys /\ guest.hurt = {}
  /\ guest.store = "per_interface" /\ guest.handler = "as_declared"
  /\ "serial" \in run.passed /\ run.lost = 0 /\ ~run.missed
  /\ "distinct_before" \in run.passed
  => run.rung = 8
=============================================================================

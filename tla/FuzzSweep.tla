----------------------------- MODULE FuzzSweep ------------------------------
(***************************************************************************)
(* The reach harness (fuzz_entry.py) with the probe it loads into each     *)
(* emulator (fuzz_reach_probe.py).  A sweep hands its entries to a pool of *)
(* threads; each takes a slot of ports and waits for a child process; the  *)
(* child boots one emulator, sends the entry, then asks whether the device *)
(* is still alive, and tears the emulator down; the hook log decides what  *)
(* is credited.  The harness measures its phases in guest ticks read from  *)
(* a file that two threads of the emulator write, late, or torn (then it   *)
(* reads zero): here a phase ends at any moment, and lasts its wall at the *)
(* most, so that the time a child has been under way need not be kept: in  *)
(* its last phase it may be all that the walls allow.  Times are in units  *)
(* of ten seconds.                                                         *)
(***************************************************************************)
EXTENDS Integers, Sequences, FiniteSets, SequencesExt

CONSTANTS
  Entries,     \* the entries of a sweep
  Workers,     \* pool threads, and slots
  BootWall, PhaseWall, Slack   \* 30, 15 and 12

ASSUME FuzzAssumption ==
  /\ Workers \in Nat \ {0}
  /\ BootWall \in Nat \ {0} /\ PhaseWall \in Nat \ {0} /\ Slack \in Nat

NoSlot == -1
Slots == 0 .. Workers - 1

\* _child waits for five phases although reach_one may go through six.
ChildWait == BootWall + 5 * PhaseWall + Slack

VARIABLES
  mode,    \* how the sweep was started: "plain", "withEnum", "wrongGate"
  free,    \* the slots, as a list
  job,     \* the pool's work on each entry
  child,   \* the process that runs reach_one
  emu,     \* the emulator it has spawned
  port     \* who listens on each slot's bridge port

vars == <<mode, free, job, child, emu, port>>

Modes == {"plain", "withEnum", "wrongGate"}
NoOne == "nobody"

NoChild == [pc |-> "none", entryMark |-> 0, liveMark |-> 0,
            hit |-> FALSE, live |-> FALSE]

Init ==
  /\ mode \in Modes
  /\ free = [i \in 1 .. Workers |-> i - 1]
  /\ job = [e \in Entries |-> [pc |-> "queued", slot |-> NoSlot]]
  /\ child = [e \in Entries |-> NoChild]
  /\ emu = [e \in Entries |-> [life |-> "none", queue |-> <<>>, log |-> <<>>,
                               took |-> FALSE]]
  /\ port = [s \in Slots |-> NoOne]

Running(e) == job[e].pc = "running"
Living == {"booting", "serving"}

-----------------------------------------------------------------------------
(* sweep: the pool.                                                        *)

(* Mutant: a slot is looked at, not taken. *)
LookAt(list) == list

\* free.pop(0), under the lock.
Popped(list) == Tail(list)

\* A thread of the pool takes an entry; _child starts its process, and that one
\* the emulator (Popen with setsid: it leads a process group of its own).
Take(e) ==
  /\ job[e].pc = "queued" /\ Cardinality({x \in Entries : Running(x)}) < Workers
  /\ free # <<>>
  /\ job' = [job EXCEPT ![e].pc = "running", ![e].slot = Head(free)]
  /\ free' = Popped(free)
  /\ child' = [child EXCEPT ![e].pc = "boot"]
  /\ emu' = [emu EXCEPT ![e].life = "booting"]
  /\ UNCHANGED <<mode, port>>

\* The entry has its result; what the child and the logs held is done with.
Answered(e) ==
  /\ job' = [job EXCEPT ![e].pc = "done"]
  /\ child' = [child EXCEPT ![e] = NoChild]
  /\ emu' = [emu EXCEPT ![e].queue = <<>>, ![e].log = <<>>, ![e].took = FALSE]

\* The `finally' of the job: the slot goes back to the end of the list.
Release(e) == free' = Append(free, job[e].slot)

\* The child has exited, its result file is read.
Collect(e) ==
  /\ Running(e) /\ child[e].pc = "exited"
  /\ Answered(e) /\ Release(e)
  /\ UNCHANGED <<mode, port>>

\* A child in its last phase has spent up to its boot and six phases, of which
\* the third has ended a little before its wall.
Longest == BootWall + 6 * PhaseWall - 1

\* p.wait expires: the child is killed, and with it the `finally' that would
\* have ended the emulator, which lives in a session of its own.  The result
\* file is read all the same, and one that an earlier sweep left in the same
\* directory is taken for this child's; the contents are not modelled.
Expire(e) ==
  /\ Running(e) /\ child[e].pc = "ld" /\ Longest > ChildWait
  /\ Answered(e) /\ Release(e)
  /\ UNCHANGED <<mode, port>>

-----------------------------------------------------------------------------
(* The emulator: the bridge, the host model, and the firmware behind it.   *)

(* Mutant: the switch is not patched in. *)
ScriptKept == <<"enum">>

\* FUZZ_REACH_NO_ENUM empties the script that the host model queues by itself.
Script == IF mode = "withEnum" THEN <<"enum">> ELSE <<>>

\* start_bridge, and the firmware opens EP0; a port in use is a fault that
\* the child finds in the log.
Boot(e) ==
  /\ emu[e].life = "booting"
  /\ LET s == job[e].slot
     IN IF port[s] = NoOne
        THEN /\ port' = [port EXCEPT ![s] = e]
             /\ emu' = [emu EXCEPT ![e].life = "serving", ![e].queue = Script]
        ELSE /\ emu' = [emu EXCEPT ![e].life = "failed"]
             /\ UNCHANGED port
  /\ UNCHANGED <<mode, free, job, child>>

\* FUZZ_REACH_ADDR_GATE: `ld' is delivered only if the guest's own address
\* register reads the address wanted: A, or A with a bit flipped.
Gate(took) == took /\ mode # "wrongGate"

\* The host model works off one request.  Each of "enum", "e" and "ld" may
\* run the very handler the entry is about; the firmware need not react.
Serve(e) ==
  /\ emu[e].life = "serving" /\ emu[e].queue # <<>>
  /\ LET tag == Head(emu[e].queue)
         rest == [emu[e] EXCEPT !.queue = Tail(@)]
         reacts == [rest EXCEPT !.log = Append(@, tag)]
     IN \/ emu' = [emu EXCEPT ![e] = rest]
        \/ /\ tag = "la"
           /\ emu' = [emu EXCEPT ![e] = [rest EXCEPT !.took = TRUE]]
        \/ tag \in {"enum", "e"} /\ emu' = [emu EXCEPT ![e] = reacts]
        \/ tag = "ld" /\ Gate(emu[e].took) /\ emu' = [emu EXCEPT ![e] = reacts]
  /\ UNCHANGED <<mode, free, job, child, port>>

Unbound(e) == [s \in Slots |-> IF port[s] = e THEN NoOne ELSE port[s]]

\* It crashes, or ends because it was told to.
Vanish(e) ==
  /\ emu[e].life \in {"booting", "serving", "failed", "dying"}
  /\ emu' = [emu EXCEPT ![e].life = "gone", ![e].queue = <<>>]
  /\ port' = Unbound(e)
  /\ UNCHANGED <<mode, free, job, child>>

Crash(e) == emu[e].life # "dying" /\ Vanish(e)
Exit(e) == emu[e].life = "dying" /\ Vanish(e)

-----------------------------------------------------------------------------
(* reach_one: the child.                                                   *)

Goto(e, pc) == child' = [child EXCEPT ![e].pc = pc]

\* _score: among the own records between the marks, the first one carries the
\* entry's identity (of which the sender of the request is no part).
HandlerHit(e, from, to) == SubSeq(emu[e].log, from + 1, to) # <<>>

\* live_after: eighteen bytes have come for `ld', the gate saw the address A,
\* and the handler of the device descriptor has fired after the second mark.
LiveAfter(e, replied, mark) ==
  replied /\ emu[e].took /\ Len(emu[e].log) > mark

\* The `finally' of reach_one: killpg, a wait of ten seconds, a second killpg
\* without a wait, and the score, which the child then writes and exits.
Teardown(e, from, to, replied) ==
  /\ child' = [child EXCEPT ![e] = [pc |-> "exited", entryMark |-> from,
                 liveMark |-> to, hit |-> HandlerHit(e, from, to),
                 live |-> LiveAfter(e, replied, to)]]
  /\ emu' = [emu EXCEPT ![e].life = IF @ = "gone" THEN @ ELSE "dying",
                        ![e].queue = <<>>]
  /\ UNCHANGED <<mode, free, job, port>>

LogLen(e) == Len(emu[e].log)

\* The log shows the bind with the emulator's own pid and the open EP0, and
\* the greeting carries that pid and the nonce of this boot.
Ready(e) == emu[e].life = "serving" /\ port[job[e].slot] = e

Booted(e) ==
  /\ child[e].pc = "boot" /\ Ready(e)
  /\ Goto(e, "pre")
  /\ UNCHANGED <<mode, free, job, emu, port>>

\* A fault in the log, an early end, or the wall: boot_error.
NotReady(e) ==
  /\ child[e].pc = "boot"
  /\ Teardown(e, LogLen(e), LogLen(e), FALSE)

Send(e, tag) == emu' = [emu EXCEPT ![e].queue = Append(@, tag)]

\* A send to an emulator that has gone raises.
Sendable(e) == emu[e].life = "serving"

\* PRE_TICKS have passed, or are taken to have passed.  The mark is the length
\* of the hook log just before the input.
SendEntry(e) ==
  /\ child[e].pc = "pre" /\ Sendable(e)
  /\ child' = [child EXCEPT ![e].pc = "after", ![e].entryMark = LogLen(e)]
  /\ Send(e, "e")
  /\ UNCHANGED <<mode, free, job, port>>

(* Mutant: the second mark is forgotten. *)
AskUnmarked(e) ==
  /\ child[e].pc = "after" /\ Sendable(e)
  /\ Goto(e, "la") /\ Send(e, "la")
  /\ UNCHANGED <<mode, free, job, port>>

\* The reply or the wall, and AFTER_TICKS.  What fires from here on does not
\* count for the entry.
AskAddress(e) ==
  /\ child[e].pc = "after" /\ Sendable(e)
  /\ child' = [child EXCEPT ![e].pc = "la", ![e].liveMark = LogLen(e)]
  /\ Send(e, "la")
  /\ UNCHANGED <<mode, free, job, port>>

\* Liveness is not asked if that phase ran into its wall.
NoLiveness(e) ==
  /\ child[e].pc = "after"
  /\ Teardown(e, child[e].entryMark, LogLen(e), FALSE)

AskDevice(e) ==
  /\ child[e].pc = "la" /\ Sendable(e)
  /\ Goto(e, "ld")
  /\ Send(e, "ld")
  /\ UNCHANGED <<mode, free, job, port>>

DeviceSettle(e) ==
  /\ child[e].pc = "ld"
  /\ Teardown(e, child[e].entryMark, child[e].liveMark,
              Contains(emu[e].log, "ld"))

\* An emulator that has gone ends a phase, and a send to it raises.
Fail(e) ==
  /\ child[e].pc \in {"pre", "la"} /\ emu[e].life = "gone"
  /\ LET marked == child[e].pc = "la"
     IN Teardown(e, IF marked THEN child[e].entryMark ELSE LogLen(e),
                    IF marked THEN child[e].liveMark ELSE LogLen(e), FALSE)

Pool(e) == Take(e) \/ Collect(e) \/ Expire(e)

ReachOne(e) ==
  \/ Booted(e) \/ NotReady(e) \/ SendEntry(e) \/ AskAddress(e)
  \/ NoLiveness(e) \/ AskDevice(e) \/ DeviceSettle(e) \/ Fail(e)

Emulator(e) == Boot(e) \/ Serve(e) \/ Crash(e) \/ Exit(e)

Next == \E e \in Entries : Pool(e) \/ ReachOne(e) \/ Emulator(e)

Spec == Init /\ [][Next]_vars

-----------------------------------------------------------------------------
(* Properties.                                                             *)

TypeOK ==
  /\ mode \in Modes
  /\ \A i \in DOMAIN free : free[i] \in Slots
  /\ \A e \in Entries :
       /\ job[e].slot \in Slots \cup {NoSlot}
       /\ child[e].entryMark <= Len(emu[e].log)
       /\ child[e].pc \in {"la", "ld", "exited"}
            => child[e].entryMark <= child[e].liveMark
       /\ Len(emu[e].log) <= 3
  /\ \A s \in Slots : port[s] \in Entries \cup {NoOne}

\* A slot is free or with one running child, and none is lost.
SlotsExclusive ==
  /\ \A e, f \in Entries : Running(e) /\ Running(f) /\ job[e].slot = job[f].slot
                             => e = f
  /\ \A e \in Entries : Running(e) => ~Contains(free, job[e].slot)
  /\ Len(free) + Cardinality({e \in Entries : Running(e)}) = Workers

\* A sweep without the host's own enumeration credits an entry only when its
\* handler has run for the request of this very run, and not for the
\* liveness question that follows, however late the host gets to it.
CreditIsEarned ==
  \A e \in Entries :
    child[e].hit /\ mode # "withEnum" =>
      SubSeq(emu[e].log, child[e].entryMark + 1, child[e].liveMark) = <<"e">>

\* One fresh boot per call, with a forced exit: no emulator of an entry that
\* is done goes on in the slot, unless it has been told to end.
OneEmulatorPerSlot ==
  \A e, f \in Entries :
    emu[e].life \in Living /\ emu[f].life \in Living
      /\ job[e].slot = job[f].slot => e = f
=============================================================================

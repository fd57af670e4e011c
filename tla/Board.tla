------------------------------- MODULE Board --------------------------------
(***************************************************************************)
(* The firmware's drivers in front of the flash controller, the clock      *)
(* controller and the delay timers.  Each is a sequence of register        *)
(* accesses and of waits that must end, and each may be preempted by the   *)
(* other between two accesses.                                             *)
(***************************************************************************)
EXTENDS Flash, ClockTree

vars == <<flashVars, clockVars>>

Init == FlashInit /\ ClockInit

Flashing == FlashNext /\ UNCHANGED clockVars
Clocking == ClockNext /\ UNCHANGED flashVars

Next == Flashing \/ Clocking

Spec == Init /\ [][Next]_vars

\* A driver that has begun goes on, whoever preempts it; nothing makes the
\* firmware begin.
FairSpec ==
  /\ Spec
  /\ WF_vars(FlashContinue /\ UNCHANGED clockVars)
  /\ WF_vars(EndWait /\ UNCHANGED flashVars)

\* No wait of the firmware is immortal: each ready bit follows its oscillator
\* both ways, the clock switch lands, a delay ends on either timer, and the
\* flash controller is never busy, although each register is written back
\* with whatever it showed.
WaitsEnd ==
  /\ waiting # NotWaiting ~> waiting = NotWaiting
  /\ ~At("idle") ~> At("idle")
=============================================================================

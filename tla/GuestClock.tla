----------------------------- MODULE GuestClock -----------------------------
(***************************************************************************)
(* The one time base of the rehost (peripheral_models/guest_clock.py): a   *)
(* free-running counter that wraps, moved by modelled MMIO accesses while  *)
(* the guest is busy, and by jumps or drips from the idle seam.  The code  *)
(* counts modulo 2^32; Modulus is that number, and Half the 0x80000000 of  *)
(* the signed comparisons.                                                 *)
(***************************************************************************)
EXTENDS Integers

CONSTANTS
    Modulus,          \* 2^32 in the code
    ActivityPerTick   \* ACTIVITY_PER_TICK: MMIO accesses per system tick

ASSUME ModulusAssumption == Modulus \in Nat /\ Modulus > 2 /\ Modulus % 2 = 0
ASSUME ActivityAssumption == ActivityPerTick \in Nat \ {0}

VARIABLES
    ticks,            \* GuestClock._ticks
    activity          \* GuestClock._activity

clockVars == <<ticks, activity>>

Half == Modulus \div 2
Tick == 0 .. Modulus - 1

ClockInit == ticks = 0 /\ activity = 0

ClockTypeOK == ticks \in Tick /\ activity \in 0 .. ActivityPerTick - 1

(* Mutant: the comparison is not signed. *)
UnsignedGe(now, deadline) == now >= deadline

(* Has `now' reached `deadline', read as a signed difference? *)
ElapsedGe(now, deadline) == (now - deadline) % Modulus < Half

(* Is `deadline' in the future, so that the idle seam jumps to it? *)
InFuture(now, deadline) ==
    LET delta == (deadline - now) % Modulus IN delta # 0 /\ delta < Half

(* The counter after n more MMIO accesses. *)
TicksAfter(n) == (ticks + (activity + n) \div ActivityPerTick) % Modulus

AdvanceFromActivity(n) ==
    /\ ticks' = TicksAfter(n)
    /\ activity' = (activity + n) % ActivityPerTick

(* Mutant: the jump is taken whatever the deadline. *)
JumpTo(deadline) == ticks' = deadline /\ UNCHANGED activity

CatchUpTo(deadline) ==
    /\ ticks' = IF InFuture(ticks, deadline) THEN deadline ELSE ticks
    /\ UNCHANGED activity

Advance(n) ==
    /\ ticks' = (ticks + n) % Modulus
    /\ UNCHANGED activity
=============================================================================

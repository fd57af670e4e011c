------------------------------ MODULE IrqSeams ------------------------------
(***************************************************************************)
(* How interrupts reach the guest: the USB pump (usb_pump.py), the ChibiOS *)
(* seams (chibios_pump.py: idle thread, context-switch entry and spin) and *)
(* TIM2's compare (stm32f0_timers.py), over the backend's pending-IRQ list *)
(* and the kernel they serve.                                              *)
(*                                                                         *)
(* EXTERNAL parts, modelled from how the code uses them: the backend       *)
(* drains its pending list at the top of its run loop, that is at a chunk  *)
(* boundary or, after inject_irq (append + emu_stop), before the guest     *)
(* executes another instruction; every drained entry stacks an exception   *)
(* on whatever runs; ChibiOS leaves an interrupt through                   *)
(* _port_exit_from_isr when a reschedule is due, reads TIM2->CNT in there  *)
(* (chSchDoReschedule), may switch to another thread inside it, and spins  *)
(* at its end for the NMI, whose handler discards exactly one frame.       *)
(***************************************************************************)
EXTENDS GuestClock, Sequences

CONSTANTS
    InhibitBudget,    \* INHIBIT_BUDGET: pump visits an inhibit may last
    StepEvery,        \* STEP_EVERY: busy pump visits per host step
    SofPeriod,        \* SOF_PERIOD_TICKS
    IdleDrip,         \* IDLE_DRIP: ticks per idle visit with no compare armed
    UsbWired,         \* is vector slot 47 of the image non-zero?
    WindowPumps,      \* bound: TIM2->CNT reads in one context-switch window
    MaxNest,          \* bound: interrupt handlers stacked on each other
    MaxSuspended,     \* bound: threads switched away inside their window
    MaxXfers,         \* bound: USB transactions the host performs
    Deadlines         \* bound: distances at which the kernel arms a compare

ASSUME BudgetAssumption == InhibitBudget \in Nat \ {0}
ASSUME WindowAssumption == WindowPumps \in Nat /\ WindowPumps < InhibitBudget
ASSUME StepAssumption == StepEvery \in Nat \ {0}
ASSUME PeriodAssumption == SofPeriod \in Nat /\ IdleDrip \in 0 .. Half - 1
ASSUME WiredAssumption == UsbWired \in BOOLEAN
ASSUME BoundsAssumption ==
    /\ MaxNest \in Nat /\ MaxSuspended \in Nat /\ MaxXfers \in Nat
    /\ Deadlines \subseteq Tick

VARIABLES
    (* TIM2 *)
    ccr1, armed,      \* the compare register, DIER.CC1IE
    fired,            \* _fired_ccr = ccr1: this compare has been latched
    cc1if,            \* SR.CC1IF
    tim2Pending,      \* pending_irq
    (* the USB device and its host, as far as the line is concerned *)
    enabled,          \* CNTR: transceiver powered and out of reset
    bus,              \* "off": never attached, "on": D+ asserted, "gone"
    sof,              \* ISTR.SOF latched
    latched,          \* an endpoint's CTR flag, or ISTR.RESET, is latched
    xfers,            \* transactions the host still has to perform
    (* usb_pump's module state *)
    calls, nextSof, budget, vectorOk,
    (* the backend *)
    pendingIrqs,      \* _pending_irqs
    stopped,          \* emu_stop was called: drain before the guest runs
    (* the kernel *)
    base,             \* what runs below every interrupt handler
    windowPumps,      \* pump visits made in this window
    isrs,             \* stacked interrupt handlers, the running one last
    suspended         \* threads switched away in the middle of their window

timVars == <<ccr1, armed, fired, cc1if, tim2Pending>>
busVars == <<enabled, bus>>
pumpVars == <<calls, nextSof, budget, vectorOk, sof, latched, xfers>>
queueVars == <<pendingIrqs, stopped>>
guestVars == <<base, windowPumps, isrs, suspended>>
vars == <<clockVars, timVars, busVars, pumpVars, queueVars, guestVars>>

NMI == "NMI"          \* NMI_IRQ, exception 2
USB == "USB"          \* USB_IRQ, line 31
TIM2 == "TIM2"        \* TIM2_IRQ, line 15
Irq == {NMI, USB, TIM2}

-----------------------------------------------------------------------------
TimTypeOK ==
    /\ ccr1 \in Tick /\ armed \in BOOLEAN /\ fired \in BOOLEAN
    /\ cc1if \in BOOLEAN /\ tim2Pending \in BOOLEAN
BusTypeOK == enabled \in BOOLEAN /\ bus \in {"off", "on", "gone"}
PumpTypeOK ==
    /\ sof \in BOOLEAN /\ latched \in BOOLEAN /\ xfers \in Nat
    /\ calls \in 0 .. StepEvery - 1 /\ nextSof \in Tick
    /\ budget \in 0 .. InhibitBudget /\ vectorOk \in {"unknown", "yes", "no"}
QueueTypeOK == pendingIrqs \in Seq(Irq) /\ stopped \in BOOLEAN
GuestTypeOK ==
    /\ base \in {"thread", "idle", "resched", "tail", "spin"}
    /\ windowPumps \in 0 .. WindowPumps
    /\ isrs \in Seq({USB, TIM2}) /\ suspended \in Nat

(* Every variable has its type; the budget and the throttle stay in range. *)
TypeOK ==
    /\ ClockTypeOK /\ TimTypeOK /\ BusTypeOK
    /\ PumpTypeOK /\ QueueTypeOK /\ GuestTypeOK

Init ==
    /\ ClockInit
    /\ ccr1 = 0 /\ armed = FALSE /\ fired = FALSE
    /\ cc1if = FALSE /\ tim2Pending = FALSE
    /\ enabled = FALSE /\ bus = "off"
    /\ sof = FALSE /\ latched = FALSE /\ xfers = MaxXfers
    /\ calls = 0 /\ nextSof = 0 /\ budget = 0 /\ vectorOk = "unknown"
    /\ pendingIrqs = <<>> /\ stopped = FALSE
    /\ base = "thread" /\ windowPumps = 0 /\ isrs = <<>> /\ suspended = 0

Queued(irq) == \E i \in DOMAIN pendingIrqs : pendingIrqs[i] = irq
Foreign == \E i \in DOMAIN pendingIrqs : pendingIrqs[i] # NMI
Running(ctx) == ~stopped /\ isrs = <<>> /\ base = ctx
InIsr == ~stopped /\ isrs # <<>>
RunningIsr == isrs[Len(isrs)]

-----------------------------------------------------------------------------
(* usb_pump.py *)

(* host.step, reduced to its effect on the line: at most one transaction,  *)
(* which latches CTR (or RESET); `acted' is what it returns.               *)
HostStep(acted) ==
    \/ ~acted /\ UNCHANGED <<latched, xfers>>
    \/ acted /\ bus # "off" /\ xfers > 0 /\ latched' = TRUE /\ xfers' = xfers - 1

SofDue(now) == bus = "on" /\ ElapsedGe(now, nextSof)

PaceSof(now) ==
    IF SofDue(now)
    THEN nextSof' = (now + SofPeriod) % Modulus /\ sof' = TRUE
    ELSE UNCHANGED <<nextSof, sof>>

(* Mutant: a failed read counts as an installed vector. *)
VectorAssumed(raised) ==
    \/ vectorOk = "unknown" /\ vectorOk' = "yes" /\ raised
    \/ /\ vectorOk' = IF vectorOk # "unknown" THEN vectorOk
                      ELSE IF UsbWired THEN "yes" ELSE "no"
       /\ raised = (vectorOk' = "yes")

(* May the line be raised?  Reading the vector slot can fail, which leaves *)
(* the answer undecided and raises nothing.                                *)
VectorCheck(raised) ==
    \/ vectorOk = "unknown" /\ ~raised /\ UNCHANGED vectorOk
    \/ /\ vectorOk' = IF vectorOk # "unknown" THEN vectorOk
                      ELSE IF UsbWired THEN "yes" ELSE "no"
       /\ raised = (vectorOk' = "yes")

(* Mutant: the list is not looked at, a second entry is queued. *)
RaiseOnTop(wanted, left, raised) ==
    IF wanted /\ left = 0
    THEN VectorCheck(raised)
    ELSE ~raised /\ UNCHANGED vectorOk

(* The end of pump(): `left' is the inhibit budget after this visit.       *)
RaiseLine(wanted, left, raised) ==
    IF wanted /\ left = 0 /\ pendingIrqs = <<>>
    THEN VectorCheck(raised)
    ELSE ~raised /\ UNCHANGED vectorOk

(* Mutant: the inhibit is a plain latch, no visit spends it. *)
Latched(allowed) == allowed

(* Mutant: the budget is spent without looking whether any is left. *)
SpentUnguarded(allowed) == allowed - 1

(* A visit spends the inhibit whether or not it would raise the line. *)
Spent(allowed) == IF allowed > 0 THEN allowed - 1 ELSE 0

(* pump(): `allowed' is the inhibit budget on entry, `raised' whether IRQ  *)
(* 31 is appended to the backend's list (by the caller's action).          *)
Pump(force, now, allowed, raised) ==
    LET left == Spent(allowed)
        throttled == ~force /\ calls + 1 < StepEvery
    IN  /\ budget' = left
        /\ calls' = IF force THEN calls ELSE (calls + 1) % StepEvery
        /\ IF throttled \/ ~enabled
           THEN ~raised /\ UNCHANGED <<nextSof, sof, latched, xfers, vectorOk>>
           ELSE /\ PaceSof(now)
                /\ \E acted \in BOOLEAN :
                     /\ HostStep(acted)
                     /\ RaiseLine(SofDue(now) \/ acted, left, raised)

Raise(raised) ==
    pendingIrqs' = IF raised THEN Append(pendingIrqs, USB) ELSE pendingIrqs

-----------------------------------------------------------------------------
(* stm32f0_timers.py, TIM2 *)

AlarmDeadlineSet == armed /\ ~fired

(* CNT: pumps the USB host, and never moves the clock. *)
ReadCnt ==
    /\ \/ Running("thread")
       \/ InIsr /\ Len(isrs) < MaxNest
       \/ Running("resched") /\ windowPumps < WindowPumps
    /\ \E raised \in BOOLEAN : Pump(FALSE, ticks, budget, raised) /\ Raise(raised)
    /\ windowPumps' = IF Running("resched") THEN windowPumps + 1 ELSE windowPumps
    /\ UNCHANGED <<clockVars, timVars, busVars, stopped, base, isrs, suspended>>

KernelWrites == Running("thread") \/ InIsr

WriteCcr1 ==
    /\ KernelWrites
    /\ \E d \in Deadlines : ccr1' = (ticks + d) % Modulus
    /\ fired' = FALSE
    /\ UNCHANGED <<clockVars, armed, cc1if, tim2Pending, busVars, pumpVars,
                   queueVars, guestVars>>

(* The kernel enables the compare right after it programmed the deadline. *)
WriteDier ==
    /\ KernelWrites
    /\ armed' \in BOOLEAN
    /\ armed' => (ccr1 - ticks) % Modulus \in Deadlines
    /\ fired' = (fired /\ ~(armed' /\ ~armed))
    /\ UNCHANGED <<clockVars, ccr1, cc1if, tim2Pending, busVars, pumpVars,
                   queueVars, guestVars>>

(* SR, write-0-to-clear: the alarm start and the compare handler clear it. *)
WriteSr ==
    /\ KernelWrites
    /\ cc1if' = FALSE
    /\ UNCHANGED <<clockVars, ccr1, armed, fired, tim2Pending, busVars,
                   pumpVars, queueVars, guestVars>>

-----------------------------------------------------------------------------
(* The other modelled MMIO *)

(* The clock is kept from running a whole half range past an armed compare *)
(* (59 hours of guest time without one idle visit).                        *)
NotHalfRangeLate(now) == AlarmDeadlineSet => (now - ccr1) % Modulus # Half

(* A GPIO register access: the clock, then the pump.                       *)
GpioAccess ==
    /\ Running("thread")
    /\ NotHalfRangeLate(TicksAfter(1))
    /\ AdvanceFromActivity(1)
    /\ \E raised \in BOOLEAN :
         Pump(FALSE, TicksAfter(1), budget, raised) /\ Raise(raised)
    /\ UNCHANGED <<timVars, busVars, stopped, guestVars>>

(* USB and TIM3 register accesses, and the bit operations of the drivers:  *)
(* guest activity, no pump.                                                *)
OtherAccess ==
    /\ Running("thread") \/ InIsr
    /\ NotHalfRangeLate(TicksAfter(1))
    /\ AdvanceFromActivity(1)
    /\ UNCHANGED <<timVars, busVars, pumpVars, queueVars, guestVars>>

WriteCntr ==
    /\ Running("thread")
    /\ enabled' \in BOOLEAN
    /\ AdvanceFromActivity(1)
    /\ NotHalfRangeLate(TicksAfter(1))
    /\ UNCHANGED <<timVars, bus, pumpVars, queueVars, guestVars>>

WriteBcdr ==
    /\ Running("thread")
    /\ \E attach \in BOOLEAN :
         bus' = IF attach THEN "on" ELSE IF bus = "on" THEN "gone" ELSE bus
    /\ AdvanceFromActivity(1)
    /\ NotHalfRangeLate(TicksAfter(1))
    /\ UNCHANGED <<timVars, enabled, pumpVars, queueVars, guestVars>>

-----------------------------------------------------------------------------
(* The idle seam: ChibiosIdlePump.idle *)

(* take_pending_irq, then inject_irq: append and stop the emulation. *)
InjectTim2(queue) == pendingIrqs' = Append(queue, TIM2) /\ stopped' = TRUE

(* Mutant: the pending flag is taken before the list is looked at. *)
TakeThenLook(queue) ==
    /\ tim2Pending
    /\ tim2Pending' = FALSE
    /\ IF queue # <<>>
       THEN pendingIrqs' = queue /\ UNCHANGED stopped
       ELSE InjectTim2(queue)
    /\ UNCHANGED <<clockVars, ccr1, armed, fired, cc1if>>

(* A compare that an earlier visit deferred comes before anything else. *)
DeliverDeferred(queue) ==
    /\ tim2Pending
    /\ IF queue # <<>>
       THEN pendingIrqs' = queue /\ UNCHANGED <<stopped, tim2Pending>>
       ELSE InjectTim2(queue) /\ tim2Pending' = FALSE
    /\ UNCHANGED <<clockVars, ccr1, armed, fired, cc1if>>

(* Mutant: the USB entry the pump has just made is not looked at. *)
PollRegardless(queue) ==
    /\ ~tim2Pending /\ AlarmDeadlineSet
    /\ CatchUpTo(ccr1)
    /\ IF ElapsedGe(ticks', ccr1)
       THEN fired' = TRUE /\ cc1if' = TRUE /\ InjectTim2(queue)
       ELSE pendingIrqs' = queue /\ UNCHANGED <<fired, cc1if, stopped>>
    /\ UNCHANGED <<ccr1, armed, tim2Pending>>

(* catch_up_to the deadline, poll_compare, and deliver unless the pump has *)
(* just queued the USB line.                                               *)
CatchUpAndPoll(queue) ==
    /\ ~tim2Pending /\ AlarmDeadlineSet
    /\ CatchUpTo(ccr1)
    /\ IF ElapsedGe(ticks', ccr1)
       THEN /\ fired' = TRUE /\ cc1if' = TRUE
            /\ IF queue # <<>>
               THEN pendingIrqs' = queue /\ tim2Pending' = TRUE /\ UNCHANGED stopped
               ELSE InjectTim2(queue) /\ UNCHANGED tim2Pending
       ELSE pendingIrqs' = queue /\ UNCHANGED <<fired, cc1if, tim2Pending, stopped>>
    /\ UNCHANGED <<ccr1, armed>>

Drip(queue) ==
    /\ ~tim2Pending /\ ~AlarmDeadlineSet
    /\ Advance(IdleDrip)
    /\ pendingIrqs' = queue
    /\ UNCHANGED <<timVars, stopped>>

IdleVisit ==
    /\ Running("idle")
    /\ \E raised \in BOOLEAN :
         LET queue == IF raised THEN Append(pendingIrqs, USB) ELSE pendingIrqs
         IN  /\ Pump(TRUE, ticks, 0, raised)      \* after inhibit(False)
             /\ DeliverDeferred(queue) \/ CatchUpAndPoll(queue) \/ Drip(queue)
    /\ UNCHANGED <<busVars, guestVars>>

-----------------------------------------------------------------------------
(* The context switch: ChibiosNmiSwitch *)

(* Mutant: the entry drops the queue but does not inhibit the pump. *)
EnteringWithoutInhibit ==
    /\ UNCHANGED budget
    /\ pendingIrqs' = IF Foreign THEN <<>> ELSE pendingIrqs

(* The breakpoint on _port_exit_from_isr: inhibit(True), drop the queue. *)
Entering ==
    /\ budget' = InhibitBudget
    /\ pendingIrqs' = IF Foreign THEN <<>> ELSE pendingIrqs

(* A handler returns.  A USB handler leaves its loop only with no CTR      *)
(* latched, a TIM2 handler has cleared CC1IF.  The outermost one exits     *)
(* through _port_exit_from_isr if a reschedule is due.                     *)
IsrDone == InIsr /\ IF RunningIsr = USB THEN ~latched ELSE ~cc1if

PopIsr == isrs' = SubSeq(isrs, 1, Len(isrs) - 1)

IsrReturn ==
    /\ IsrDone /\ PopIsr
    /\ UNCHANGED <<clockVars, timVars, busVars, pumpVars, queueVars, base,
                   windowPumps, suspended>>

IsrExitToReschedule ==
    /\ IsrDone /\ Len(isrs) = 1 /\ base \in {"thread", "idle"}
    /\ PopIsr /\ Entering
    /\ base' = "resched" /\ windowPumps' = 0
    /\ UNCHANGED <<clockVars, timVars, busVars, calls, nextSof, vectorOk, sof,
                   latched, xfers, stopped, suspended>>

(* Mutant: the NMI is queued behind whatever is waiting. *)
SwitchBehind ==
    /\ pendingIrqs' = Append(pendingIrqs, NMI)
    /\ stopped' = TRUE
    /\ budget' = 0

(* The breakpoint on the spin: ChibiosNmiSwitch.switch. *)
Switch ==
    IF Queued(NMI)
    THEN UNCHANGED <<pendingIrqs, stopped, budget>>
    ELSE /\ pendingIrqs' = <<NMI>>
         /\ stopped' = TRUE
         /\ budget' = 0

ReachSpin ==
    /\ Running("resched") \/ Running("tail")
    /\ base' = "spin" /\ windowPumps' = 0
    /\ Switch
    /\ UNCHANGED <<clockVars, timVars, busVars, calls, nextSof, vectorOk, sof,
                   latched, xfers, isrs, suspended>>

-----------------------------------------------------------------------------
(* The kernel and the backend *)

(* The USB handler serves every latched event; SOF is cleared in ISTR. *)
ServeUsb ==
    /\ InIsr /\ RunningIsr = USB
    /\ latched' = FALSE /\ sof' = FALSE
    /\ UNCHANGED <<clockVars, timVars, busVars, calls, nextSof, budget,
                   vectorOk, xfers, queueVars, guestVars>>

(* chSchDoReschedule switches to a thread that had blocked by itself...    *)
SwitchAway ==
    /\ Running("resched") /\ suspended < MaxSuspended
    /\ base' = "thread" /\ windowPumps' = 0 /\ suspended' = suspended + 1
    /\ UNCHANGED <<clockVars, timVars, busVars, pumpVars, queueVars, isrs>>

(* ... and back, past the entry breakpoint, when that thread blocks.       *)
SwitchBack ==
    /\ Running("thread") /\ suspended > 0
    /\ base' = "tail" /\ suspended' = suspended - 1
    /\ UNCHANGED <<clockVars, timVars, busVars, pumpVars, queueVars,
                   windowPumps, isrs>>

GoIdle ==
    /\ Running("thread")
    /\ base' = "idle"
    /\ UNCHANGED <<clockVars, timVars, busVars, pumpVars, queueVars,
                   windowPumps, isrs, suspended>>

(* The top of the backend's run loop.  The NMI handler resumes a thread,   *)
(* every other entry stacks its handler on whatever runs.                  *)
Drain ==
    /\ pendingIrqs # <<>>
    /\ pendingIrqs' = Tail(pendingIrqs)
    /\ stopped' = (Len(pendingIrqs) > 1)
    /\ IF Head(pendingIrqs) = NMI
       THEN base' \in {"thread", "idle"} /\ UNCHANGED isrs
       ELSE isrs' = Append(isrs, Head(pendingIrqs)) /\ UNCHANGED base
    /\ UNCHANGED <<clockVars, timVars, busVars, pumpVars, windowPumps, suspended>>

Next ==
    \/ ReadCnt \/ WriteCcr1 \/ WriteDier \/ WriteSr
    \/ GpioAccess \/ OtherAccess \/ WriteCntr \/ WriteBcdr
    \/ IdleVisit
    \/ IsrReturn \/ IsrExitToReschedule \/ ReachSpin
    \/ ServeUsb \/ SwitchAway \/ SwitchBack \/ GoIdle \/ Drain

Spec == Init /\ [][Next]_vars

(* The guest keeps executing: a handler ends, the spin is reached, the     *)
(* idle loop goes round, a busy thread keeps touching modelled registers,  *)
(* and chunks are bounded (HAL_IRQ_CHUNK), so a queue is drained.          *)
ThreadPump == base = "thread" /\ (ReadCnt \/ GpioAccess)
Tim2Served == InIsr /\ RunningIsr = TIM2 /\ WriteSr

GuestProgress ==
    /\ WF_vars(Drain) /\ WF_vars(ReachSpin) /\ WF_vars(IdleVisit)
    /\ WF_vars(ServeUsb) /\ WF_vars(Tim2Served)
    /\ WF_vars(IsrReturn \/ IsrExitToReschedule)
    /\ WF_vars(ThreadPump)

FairSpec == Spec /\ GuestProgress

-----------------------------------------------------------------------------
(* Properties *)

(* Whenever the context-switch NMI is queued, nothing else is: it is the   *)
(* only entry, no handler is stacked and the guest stands at the spin, so  *)
(* the one frame its handler discards is its own                           *)
(* (ChibiosNmiSwitch.switch, "the NMI must arrive alone").                 *)
NmiArrivesAlone ==
    Queued(NMI) => Len(pendingIrqs) = 1 /\ isrs = <<>> /\ base = "spin"

(* From the entry breakpoint of _port_exit_from_isr to its spin no         *)
(* peripheral interrupt is queued and no handler is stacked, although the  *)
(* guest pumps the host from the counter reads it makes in there           *)
(* (ChibiosNmiSwitch.entering with usb_pump.inhibit).                      *)
WindowSealed ==
    base \in {"resched", "spin"} =>
        isrs = <<>> /\ ~Queued(USB) /\ ~Queued(TIM2)

(* Two deliverers, the pump and the idle seam, never leave two entries in  *)
(* the backend's list, which would be a nested exception.                  *)
OneExceptionAtATime == Len(pendingIrqs) <= 1

(* TIM2's handler never runs inside another one, neither stacked with it   *)
(* in one drain nor on a handler that is running (the guard on the list in *)
(* ChibiosIdlePump.idle).                                                  *)
Tim2NeverNested == \A i \in 2 .. Len(isrs) : isrs[i] # TIM2

(* A compare that poll_compare has recorded as fired is on its way to the  *)
(* kernel until the kernel clears it: deferred, queued, or in its handler. *)
(* Neither a deferral nor the two places that empty the list lose it.      *)
CompareNotLost ==
    armed /\ fired /\ cc1if =>
        tim2Pending \/ Queued(TIM2) \/ \E i \in DOMAIN isrs : isrs[i] = TIM2

(* The emulation stops only for something to deliver, and TIM2 waits in    *)
(* the list only while it is stopped: no guest instruction, hence no       *)
(* breakpoint that empties the list, comes between its injection and its   *)
(* handler.                                                                *)
Tim2OnlyWhileStopped ==
    (stopped => pendingIrqs # <<>>) /\ (Queued(TIM2) => stopped)

(* The inductive invariant behind the properties above: what can be queued *)
(* in which context.  In the window the budget outlasts the pump visits    *)
(* the guest still makes.                                                  *)
ShortQueue == pendingIrqs \in {<<>>, <<NMI>>, <<USB>>, <<TIM2>>}
StopReason == stopped => pendingIrqs # <<>>
NmiContext == pendingIrqs = <<NMI>> => stopped /\ base = "spin" /\ isrs = <<>>
Tim2Context == pendingIrqs = <<TIM2>> => stopped /\ base = "idle" /\ isrs = <<>>
SpinContext == base = "spin" => pendingIrqs = <<NMI>>
WindowContext ==
    base = "resched" => /\ isrs = <<>> /\ pendingIrqs = <<>>
                        /\ budget + windowPumps >= InhibitBudget
CompareContext ==
    fired /\ cc1if => \/ tim2Pending \/ pendingIrqs = <<TIM2>>
                     \/ \E i \in 1 .. Len(isrs) : isrs[i] = TIM2
SeamInv ==
    /\ ShortQueue /\ StopReason /\ NmiContext /\ Tim2Context /\ SpinContext
    /\ WindowContext /\ Tim2NeverNested /\ CompareContext

(* The clock never goes backwards, whatever deadline the kernel leaves in  *)
(* CCR1 when it idles (guest_clock.py, invariant 2).                       *)
ClockNeverGoesBack == [][(ticks' - ticks) % Modulus < Half]_ticks

(* No fault of reading the vector slot leads to the injection of a line    *)
(* whose handler the image never installed (usb_pump.pump, lines 165-186). *)
NoUnwiredUsb == ~UsbWired => ~Queued(USB) /\ ~\E i \in DOMAIN isrs : isrs[i] = USB

(* An inhibit always expires, also when the guest leaves the window by     *)
(* another way than the spin that lifts it (INHIBIT_BUDGET).               *)
InhibitExpires == budget > 0 ~> budget = 0

(* A kernel that goes idle on an armed compare is woken: the compare       *)
(* fires, or another interrupt takes the kernel out of its idle thread,    *)
(* also when the deadline has passed before the first idle visit           *)
(* (ChibiosIdlePump.idle with catch_up_to).                                *)
SleepEnds ==
    armed /\ ~fired /\ base = "idle" ~> fired \/ ~armed \/ base # "idle"

=============================================================================

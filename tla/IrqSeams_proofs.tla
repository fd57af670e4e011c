-------------------------- MODULE IrqSeams_proofs --------------------------
(***************************************************************************)
(* Theorems of IrqSeams, for every clock width, inhibit budget, throttle,  *)
(* SOF period and bound: type correctness, and the inductive invariant     *)
(* SeamInv behind the safety properties of the interrupt delivery.         *)
(***************************************************************************)
EXTENDS IrqSeams, SequenceTheorems, TLAPS

-----------------------------------------------------------------------------
(* Arithmetic and sequences *)

LEMMA ModInRange ==
  ASSUME NEW a \in Int, NEW m \in Nat \ {0}
  PROVE  a % m \in 0 .. m - 1
  OBVIOUS

LEMMA DivIsInt ==
  ASSUME NEW a \in Int, NEW m \in Nat \ {0}
  PROVE  a \div m \in Int
  OBVIOUS

LEMMA OneIsLeast ==
  ASSUME NEW n \in Nat \ {0}, n - 1 < 1
  PROVE  n = 1
  OBVIOUS

(* Removing the last element keeps the others where they were. *)
LEMMA PopProperties ==
  ASSUME NEW S, NEW s \in Seq(S), s # <<>>
  PROVE  /\ SubSeq(s, 1, Len(s) - 1) \in Seq(S)
         /\ Len(SubSeq(s, 1, Len(s) - 1)) = Len(s) - 1
         /\ \A i \in 1 .. Len(s) - 1 : SubSeq(s, 1, Len(s) - 1)[i] = s[i]
<1>1. SubSeq(s, 1, Len(s) - 1) \in Seq(S)
  OBVIOUS
<1>2. CASE Len(s) - 1 < 1
  <2>1. SubSeq(s, 1, Len(s) - 1) = <<>>
    BY <1>2, LenProperties, SubSeqEmpty
  <2>2. Len(s) = 1
    <3>1. Len(s) \in Nat \ {0}
      BY EmptySeq, Zenon
    <3>2. QED
      BY <3>1, <1>2, OneIsLeast
  <2>3. QED
    BY <1>1, <2>1, <2>2, EmptySeq
<1>3. CASE ~(Len(s) - 1 < 1)
  <2>1. Len(s) - 1 \in Nat /\ 1 <= Len(s) - 1
    BY <1>3, LenProperties
  <2>2. Len(SubSeq(s, 1, Len(s) - 1)) = Len(s) - 1
    BY <2>1
  <2>3. ASSUME NEW i \in 1 .. Len(s) - 1
        PROVE  SubSeq(s, 1, Len(s) - 1)[i] = s[i]
    BY <2>1
  <2>4. QED
    BY <1>1, <2>2, <2>3
<1>4. QED
  BY <1>2, <1>3

LEMMA AppendFacts ==
  ASSUME NEW S, NEW s \in Seq(S), NEW e \in S
  PROVE  /\ Append(s, e) \in Seq(S)
         /\ Len(Append(s, e)) = Len(s) + 1
         /\ \A i \in 1 .. Len(s) : Append(s, e)[i] = s[i]
         /\ Append(s, e)[Len(s) + 1] = e
  OBVIOUS

LEMMA SingletonProperties ==
  ASSUME NEW x
  PROVE  /\ Len(<<x>>) = 1 /\ Head(<<x>>) = x /\ Tail(<<x>>) = <<>>
         /\ Append(<<>>, x) = <<x>> /\ <<x>> # <<>>
         /\ DOMAIN <<x>> = {1} /\ <<x>>[1] = x
         /\ DOMAIN <<>> = {} /\ Len(<<>>) = 0
  OBVIOUS

-----------------------------------------------------------------------------
(* The clock *)

LEMMA ModulusIsPositive == Modulus \in Nat \ {0}
  BY ModulusAssumption

(* Whatever is added, the counter wraps into its range. *)
LEMMA WrapsIntoTick ==
  ASSUME NEW a \in Int
  PROVE  a % Modulus \in Tick
  BY ModulusIsPositive, ModInRange DEF Tick

LEMMA TickIsInt ==
  ASSUME NEW t \in Tick
  PROVE  t \in Int
  BY ModulusIsPositive DEF Tick

LEMMA TicksAfterType ==
  ASSUME ClockTypeOK, NEW n \in Nat
  PROVE  TicksAfter(n) \in Tick
<1>0. activity + n \in Int
  BY ActivityAssumption DEF ClockTypeOK
<1>1. (activity + n) \div ActivityPerTick \in Int
  BY <1>0, DivIsInt, ActivityAssumption
<1>2. ticks + (activity + n) \div ActivityPerTick \in Int
  BY <1>1, TickIsInt DEF ClockTypeOK
<1>3. QED
  BY <1>2, WrapsIntoTick DEF TicksAfter

LEMMA ActivityType ==
  ASSUME ClockTypeOK, NEW n \in Nat, AdvanceFromActivity(n)
  PROVE  ClockTypeOK'
<1>1. activity + n \in Int
  BY ActivityAssumption DEF ClockTypeOK
<1>2. activity' \in 0 .. ActivityPerTick - 1
  BY <1>1, ModInRange, ActivityAssumption DEF AdvanceFromActivity
<1>3. QED
  BY <1>2, TicksAfterType DEF AdvanceFromActivity, ClockTypeOK

LEMMA CatchUpType ==
  ASSUME ClockTypeOK, NEW d \in Tick, CatchUpTo(d)
  PROVE  ClockTypeOK'
  BY DEF ClockTypeOK, CatchUpTo

LEMMA AdvanceType ==
  ASSUME ClockTypeOK, NEW n \in Nat, Advance(n)
  PROVE  ClockTypeOK'
<1>1. ticks + n \in Int
  BY TickIsInt DEF ClockTypeOK
<1>2. QED
  BY <1>1, WrapsIntoTick DEF ClockTypeOK, Advance

-----------------------------------------------------------------------------
(* The pump *)

(* One visit of the pump keeps the types of its state. *)
LEMMA PumpType ==
  ASSUME PumpTypeOK, NEW force \in BOOLEAN, NEW now \in Tick,
         NEW allowed \in 0 .. InhibitBudget, NEW raised \in BOOLEAN,
         Pump(force, now, allowed, raised)
  PROVE  PumpTypeOK'
<1>1. budget' \in 0 .. InhibitBudget
  BY BudgetAssumption DEF Pump, Spent
<1>2. calls' \in 0 .. StepEvery - 1
  <2>1. (calls + 1) % StepEvery \in 0 .. StepEvery - 1
    BY ModInRange, StepAssumption DEF PumpTypeOK
  <2>2. QED BY <2>1 DEF Pump, PumpTypeOK
<1>3. (now + SofPeriod) % Modulus \in Tick
  <2>1. now + SofPeriod \in Int
    BY TickIsInt, PeriodAssumption
  <2>2. QED
    BY <2>1, WrapsIntoTick
<1>4. nextSof' \in Tick /\ sof' \in BOOLEAN
  BY <1>3 DEF Pump, PaceSof, PumpTypeOK
<1>5. latched' \in BOOLEAN /\ xfers' \in Nat
  <2>1. CASE UNCHANGED <<latched, xfers>>
    BY <2>1 DEF PumpTypeOK
  <2>2. CASE \E acted \in BOOLEAN : HostStep(acted)
    <3>1. \/ latched' = latched /\ xfers' = xfers
          \/ latched' = TRUE /\ xfers > 0 /\ xfers' = xfers - 1
      BY <2>2, Zenon DEF HostStep
    <3>2. latched' \in BOOLEAN
      BY <3>1 DEF PumpTypeOK
    <3>3. xfers' \in Nat
      BY <3>1 DEF PumpTypeOK
    <3>4. QED
      BY <3>2, <3>3
  <2>3. QED
    BY <2>1, <2>2 DEF Pump
<1>6. vectorOk' \in {"unknown", "yes", "no"}
  BY DEF Pump, RaiseLine, VectorCheck, PumpTypeOK
<1>7. QED
  BY <1>1, <1>2, <1>4, <1>5, <1>6 DEF PumpTypeOK

(* The pump raises the line only onto an empty list, and not while an      *)
(* inhibit of more than this very visit is in force.                       *)
LEMMA PumpRaises ==
  ASSUME NEW force \in BOOLEAN, NEW now \in Tick,
         NEW allowed \in 0 .. InhibitBudget, NEW raised \in BOOLEAN,
         Pump(force, now, allowed, raised)
  PROVE  /\ raised => pendingIrqs = <<>> /\ allowed <= 1
         /\ budget' = Spent(allowed)
  BY BudgetAssumption DEF Pump, RaiseLine, VectorCheck, Spent

-----------------------------------------------------------------------------
(* Type correctness *)

LEMMA RaiseType ==
  ASSUME QueueTypeOK, NEW raised
  PROVE  (IF raised THEN Append(pendingIrqs, USB) ELSE pendingIrqs) \in Seq(Irq)
  BY AppendFacts DEF QueueTypeOK, Irq

LEMMA PopType ==
  ASSUME GuestTypeOK, InIsr
  PROVE  SubSeq(isrs, 1, Len(isrs) - 1) \in Seq({USB, TIM2})
  BY PopProperties DEF GuestTypeOK, InIsr

LEMMA InitType == Init => TypeOK
<1> SUFFICES ASSUME Init PROVE TypeOK
  OBVIOUS
<1>0. 0 \in Tick
  BY ModulusIsPositive DEF Tick
<1>1. ClockTypeOK /\ TimTypeOK
  <2>1. 0 \in 0 .. ActivityPerTick - 1
    BY ActivityAssumption
  <2>2. QED
    BY <1>0, <2>1, Zenon DEF Init, ClockInit, ClockTypeOK, TimTypeOK
<1>2. BusTypeOK /\ QueueTypeOK
  BY EmptySeq, Zenon DEF Init, BusTypeOK, QueueTypeOK
<1>3. PumpTypeOK
  <2>1. 0 \in 0 .. StepEvery - 1 /\ 0 \in 0 .. InhibitBudget
    BY StepAssumption, BudgetAssumption
  <2>2. QED
    BY <1>0, <2>1, BoundsAssumption, Zenon DEF Init, PumpTypeOK
<1>4. GuestTypeOK
  <2>1. 0 \in 0 .. WindowPumps /\ 0 \in Nat
    BY WindowAssumption
  <2>2. QED
    BY <2>1, EmptySeq, Zenon DEF Init, GuestTypeOK
<1>5. QED
  BY <1>1, <1>2, <1>3, <1>4 DEF TypeOK

LEMMA IdleVisitType == TypeOK /\ IdleVisit => TypeOK'
<1> SUFFICES ASSUME TypeOK, IdleVisit PROVE TypeOK'
  OBVIOUS
<1>1. ClockTypeOK /\ TimTypeOK /\ BusTypeOK /\ PumpTypeOK
      /\ QueueTypeOK /\ GuestTypeOK
  BY DEF TypeOK
<1>2. PICK raised \in BOOLEAN :
        LET queue == IF raised THEN Append(pendingIrqs, USB) ELSE pendingIrqs
        IN  /\ Pump(TRUE, ticks, 0, raised)
            /\ DeliverDeferred(queue) \/ CatchUpAndPoll(queue) \/ Drip(queue)
  BY DEF IdleVisit
<1> DEFINE queue == IF raised THEN Append(pendingIrqs, USB) ELSE pendingIrqs
<1>3. Pump(TRUE, ticks, 0, raised)
      /\ (DeliverDeferred(queue) \/ CatchUpAndPoll(queue) \/ Drip(queue))
  BY <1>2
<1>4. queue \in Seq(Irq)
  BY <1>1, RaiseType
<1> HIDE DEF queue
<1>5. PumpTypeOK'
  <2>1. 0 \in 0 .. InhibitBudget /\ ticks \in Tick
    BY <1>1, BudgetAssumption DEF ClockTypeOK
  <2>2. QED
    BY <1>1, <1>3, <2>1, PumpType
<1>6. Append(queue, TIM2) \in Seq(Irq)
  BY <1>4, AppendFacts DEF Irq
<1>7. ClockTypeOK' /\ TimTypeOK' /\ QueueTypeOK'
  <2>1. CASE DeliverDeferred(queue)
    <3>1. ClockTypeOK' /\ TimTypeOK'
      BY <1>1, <2>1 DEF DeliverDeferred, clockVars, ClockTypeOK, TimTypeOK
    <3>2. QueueTypeOK'
      BY <1>1, <1>4, <1>6, <2>1 DEF DeliverDeferred, InjectTim2, QueueTypeOK
    <3>3. QED BY <3>1, <3>2
  <2>2. CASE CatchUpAndPoll(queue)
    <3>1. ClockTypeOK'
      BY <1>1, <2>2, CatchUpType DEF CatchUpAndPoll, TimTypeOK
    <3>2. TimTypeOK'
      BY <1>1, <2>2 DEF CatchUpAndPoll, TimTypeOK
    <3>3. QueueTypeOK'
      BY <1>1, <1>4, <1>6, <2>2 DEF CatchUpAndPoll, InjectTim2, QueueTypeOK
    <3>4. QED BY <3>1, <3>2, <3>3
  <2>3. CASE Drip(queue)
    <3>1. ClockTypeOK'
      BY <1>1, <2>3, AdvanceType, PeriodAssumption DEF Drip
    <3>2. TimTypeOK' /\ QueueTypeOK'
      BY <1>1, <1>4, <2>3 DEF Drip, timVars, TimTypeOK, QueueTypeOK
    <3>3. QED BY <3>1, <3>2
  <2>4. QED BY <1>3, <2>1, <2>2, <2>3
<1>8. BusTypeOK' /\ GuestTypeOK'
  BY <1>1 DEF IdleVisit, busVars, guestVars, BusTypeOK, GuestTypeOK
<1>9. QED
  BY <1>5, <1>7, <1>8 DEF TypeOK

LEMMA NextType == TypeOK /\ [Next]_vars => TypeOK'
<1> SUFFICES ASSUME TypeOK, [Next]_vars PROVE TypeOK'
  OBVIOUS
<1>0. ClockTypeOK /\ TimTypeOK /\ BusTypeOK /\ PumpTypeOK
      /\ QueueTypeOK /\ GuestTypeOK
  BY DEF TypeOK
<1> USE DEF vars, clockVars, timVars, busVars, pumpVars, queueVars, guestVars
<1>1. CASE ReadCnt
  <2>1. PICK raised \in BOOLEAN : Pump(FALSE, ticks, budget, raised) /\ Raise(raised)
    BY <1>1 DEF ReadCnt
  <2>2. ticks \in Tick /\ budget \in 0 .. InhibitBudget
    BY <1>0 DEF ClockTypeOK, PumpTypeOK
  <2>3. PumpTypeOK'
    BY <1>0, <2>1, <2>2, PumpType
  <2>4. QueueTypeOK'
    BY <1>0, <1>1, <2>1, RaiseType DEF ReadCnt, Raise, QueueTypeOK
  <2>5. ClockTypeOK' /\ TimTypeOK' /\ BusTypeOK'
    BY <1>0, <1>1 DEF ReadCnt, ClockTypeOK, TimTypeOK, BusTypeOK
  <2>6. windowPumps' \in 0 .. WindowPumps
    BY <1>0, <1>1, WindowAssumption DEF ReadCnt, GuestTypeOK, Running, InIsr
  <2>7. GuestTypeOK'
    BY <1>0, <1>1, <2>6 DEF ReadCnt, GuestTypeOK
  <2>8. QED BY <2>3, <2>4, <2>5, <2>7 DEF TypeOK
<1>2. CASE WriteCcr1
  <2>1. ccr1' \in Tick
    <3>1. PICK d \in Deadlines : ccr1' = (ticks + d) % Modulus
      BY <1>2 DEF WriteCcr1
    <3>2. ticks + d \in Int
      BY <1>0, TickIsInt, BoundsAssumption DEF ClockTypeOK
    <3>3. QED BY <3>1, <3>2, WrapsIntoTick
  <2>2. TimTypeOK'
    BY <1>0, <1>2, <2>1 DEF WriteCcr1, TimTypeOK
  <2>3. QED
    BY <1>0, <1>2, <2>2 DEF WriteCcr1, TypeOK, ClockTypeOK, BusTypeOK,
       PumpTypeOK, QueueTypeOK, GuestTypeOK
<1>3. CASE WriteDier \/ WriteSr
  <2>1. TimTypeOK'
    BY <1>0, <1>3 DEF WriteDier, WriteSr, TimTypeOK
  <2>2. QED
    BY <1>0, <1>3, <2>1 DEF WriteDier, WriteSr, TypeOK, ClockTypeOK,
       BusTypeOK, PumpTypeOK, QueueTypeOK, GuestTypeOK
<1>4. CASE GpioAccess
  <2>1. PICK raised \in BOOLEAN :
          Pump(FALSE, TicksAfter(1), budget, raised) /\ Raise(raised)
    BY <1>4 DEF GpioAccess
  <2>2. TicksAfter(1) \in Tick /\ budget \in 0 .. InhibitBudget
    BY <1>0, TicksAfterType DEF PumpTypeOK
  <2>3. PumpTypeOK'
    BY <1>0, <2>1, <2>2, PumpType
  <2>4. QueueTypeOK'
    BY <1>0, <1>4, <2>1, RaiseType DEF GpioAccess, Raise, QueueTypeOK
  <2>5. ClockTypeOK'
    BY <1>0, <1>4, ActivityType DEF GpioAccess
  <2>6. QED
    BY <1>0, <1>4, <2>3, <2>4, <2>5
    DEF GpioAccess, TypeOK, TimTypeOK, BusTypeOK, GuestTypeOK
<1>5. CASE OtherAccess \/ WriteCntr \/ WriteBcdr
  <2>1. ClockTypeOK'
    BY <1>0, <1>5, ActivityType DEF OtherAccess, WriteCntr, WriteBcdr
  <2>2. BusTypeOK'
    BY <1>0, <1>5 DEF OtherAccess, WriteCntr, WriteBcdr, BusTypeOK
  <2>3. QED
    BY <1>0, <1>5, <2>1, <2>2 DEF OtherAccess, WriteCntr, WriteBcdr, TypeOK,
       TimTypeOK, PumpTypeOK, QueueTypeOK, GuestTypeOK
<1>6. CASE IdleVisit
  BY <1>6, IdleVisitType
<1>7. CASE IsrReturn
  <2>1. GuestTypeOK'
    BY <1>0, <1>7, PopType DEF IsrReturn, IsrDone, PopIsr, GuestTypeOK
  <2>2. QED
    BY <1>0, <1>7, <2>1 DEF IsrReturn, TypeOK, ClockTypeOK, TimTypeOK,
       BusTypeOK, PumpTypeOK, QueueTypeOK
<1>8. CASE IsrExitToReschedule
  <2>1. GuestTypeOK'
    <3>1. isrs' \in Seq({USB, TIM2})
      BY <1>0, <1>8, PopType DEF IsrExitToReschedule, IsrDone, PopIsr
    <3>2. windowPumps' \in 0 .. WindowPumps
      BY <1>8, WindowAssumption DEF IsrExitToReschedule
    <3>3. QED
      BY <1>0, <1>8, <3>1, <3>2 DEF IsrExitToReschedule, GuestTypeOK
  <2>2. PumpTypeOK'
    <3>1. budget' \in 0 .. InhibitBudget
      BY <1>8, BudgetAssumption DEF IsrExitToReschedule, Entering
    <3>2. QED
      BY <1>0, <1>8, <3>1 DEF IsrExitToReschedule, PumpTypeOK
  <2>3. QueueTypeOK'
    BY <1>0, <1>8, EmptySeq DEF IsrExitToReschedule, Entering, QueueTypeOK
  <2>4. QED
    BY <1>0, <1>8, <2>1, <2>2, <2>3
    DEF IsrExitToReschedule, TypeOK, ClockTypeOK, TimTypeOK, BusTypeOK
<1>9. CASE ReachSpin
  <2>1. PumpTypeOK'
    <3>1. budget' \in 0 .. InhibitBudget
      BY <1>0, <1>9, BudgetAssumption DEF ReachSpin, Switch, PumpTypeOK
    <3>2. QED
      BY <1>0, <1>9, <3>1 DEF ReachSpin, PumpTypeOK
  <2>2. <<NMI>> \in Seq(Irq)
    BY DEF Irq
  <2>3. QueueTypeOK'
    BY <1>0, <1>9, <2>2 DEF ReachSpin, Switch, QueueTypeOK
  <2>4. windowPumps' \in 0 .. WindowPumps
    BY <1>9, WindowAssumption DEF ReachSpin
  <2>5. GuestTypeOK'
    BY <1>0, <1>9, <2>4 DEF ReachSpin, GuestTypeOK
  <2>6. QED
    BY <1>0, <1>9, <2>1, <2>3, <2>5
    DEF ReachSpin, TypeOK, ClockTypeOK, TimTypeOK, BusTypeOK
<1>10. CASE ServeUsb
  <2>1. PumpTypeOK'
    BY <1>0, <1>10, Zenon DEF ServeUsb, PumpTypeOK
  <2>2. QED
    BY <1>0, <1>10, <2>1 DEF ServeUsb, TypeOK, ClockTypeOK, TimTypeOK,
       BusTypeOK, QueueTypeOK, GuestTypeOK
<1>11. CASE SwitchAway \/ SwitchBack \/ GoIdle
  <2>1. suspended' \in Nat
    BY <1>0, <1>11 DEF SwitchAway, SwitchBack, GoIdle, GuestTypeOK
  <2>2. windowPumps' \in 0 .. WindowPumps
    BY <1>0, <1>11, WindowAssumption DEF SwitchAway, SwitchBack, GoIdle, GuestTypeOK
  <2>3. GuestTypeOK'
    BY <1>0, <1>11, <2>1, <2>2 DEF SwitchAway, SwitchBack, GoIdle, GuestTypeOK
  <2>4. QED
    BY <1>0, <1>11, <2>3 DEF SwitchAway, SwitchBack, GoIdle, TypeOK,
       ClockTypeOK, TimTypeOK, BusTypeOK, PumpTypeOK, QueueTypeOK
<1>12. CASE Drain
  <2>1. Head(pendingIrqs) \in Irq /\ Tail(pendingIrqs) \in Seq(Irq)
    BY <1>0, <1>12, HeadTailProperties DEF Drain, QueueTypeOK
  <2>2. QueueTypeOK'
    BY <1>12, <2>1 DEF Drain, QueueTypeOK
  <2>3. isrs' \in Seq({USB, TIM2})
    <3>1. CASE Head(pendingIrqs) = NMI
      BY <1>0, <1>12, <3>1 DEF Drain, GuestTypeOK
    <3>2. CASE Head(pendingIrqs) # NMI
      <4>1. Head(pendingIrqs) \in {USB, TIM2}
        BY <2>1, <3>2 DEF Irq
      <4>2. isrs' = Append(isrs, Head(pendingIrqs))
        BY <1>12, <3>2 DEF Drain
      <4>3. QED
        BY <1>0, <4>1, <4>2, AppendFacts DEF GuestTypeOK
    <3>3. QED BY <3>1, <3>2
  <2>4. GuestTypeOK'
    BY <1>0, <1>12, <2>3 DEF Drain, GuestTypeOK
  <2>5. QED
    BY <1>0, <1>12, <2>2, <2>4 DEF Drain, TypeOK, ClockTypeOK, TimTypeOK,
       BusTypeOK, PumpTypeOK
<1>13. CASE UNCHANGED vars
  BY <1>0, <1>13 DEF TypeOK, ClockTypeOK, TimTypeOK, BusTypeOK, PumpTypeOK,
     QueueTypeOK, GuestTypeOK
<1>14. QED
  BY <1>1, <1>2, <1>3, <1>4, <1>5, <1>6, <1>7, <1>8, <1>9, <1>10, <1>11,
     <1>12, <1>13 DEF Next

(* Every reachable state is well typed: in particular no legal call        *)
(* sequence drives the inhibit budget or the throttle out of range.        *)
THEOREM TypeCorrect == Spec => []TypeOK
<1>1. Init => TypeOK
  BY InitType
<1>2. TypeOK /\ [Next]_vars => TypeOK'
  BY NextType
<1>3. QED
  BY <1>1, <1>2, PTL DEF Spec

-----------------------------------------------------------------------------
(* The delivery invariant *)

LEMMA QueueWords ==
  /\ <<NMI>> # <<USB>> /\ <<NMI>> # <<TIM2>> /\ <<USB>> # <<TIM2>>
  /\ <<NMI>> # <<>> /\ <<USB>> # <<>> /\ <<TIM2>> # <<>>
  /\ NMI # USB /\ NMI # TIM2 /\ USB # TIM2
  BY DEF NMI, USB, TIM2

(* A step that leaves the queue, the handlers, the context, the inhibit    *)
(* and the latched compare alone keeps the invariant.                      *)
LEMMA SeamFrame ==
  ASSUME SeamInv, UNCHANGED <<queueVars, guestVars, budget, tim2Pending>>,
         fired' /\ cc1if' => fired /\ cc1if
  PROVE  SeamInv'
  BY DEF SeamInv, ShortQueue, StopReason, NmiContext, Tim2Context, SpinContext,
     WindowContext, Tim2NeverNested, CompareContext, queueVars, guestVars

(* A pump visit outside the window, by a guest that runs.                  *)
LEMMA PumpKeepsSeam ==
  ASSUME SeamInv, TypeOK, NEW now \in Tick, NEW raised \in BOOLEAN,
         ~stopped, Pump(FALSE, now, budget, raised), Raise(raised),
         UNCHANGED <<timVars, stopped, base, isrs, suspended>>,
         windowPumps' = IF base = "resched" THEN windowPumps + 1 ELSE windowPumps,
         base = "resched" => windowPumps < WindowPumps
  PROVE  SeamInv'
<1>1. pendingIrqs \in {<<>>, <<USB>>}
  BY QueueWords DEF SeamInv, ShortQueue, NmiContext, Tim2Context
<1>2. budget \in 0 .. InhibitBudget /\ windowPumps \in 0 .. WindowPumps
  BY DEF TypeOK, PumpTypeOK, GuestTypeOK
<1>3. /\ raised => pendingIrqs = <<>> /\ budget <= 1
      /\ budget' = Spent(budget)
  BY <1>2, PumpRaises
<1>4. pendingIrqs' \in {<<>>, <<USB>>}
  BY <1>1, <1>3, SingletonProperties DEF Raise
<1>5. base = "resched" => ~raised /\ pendingIrqs' = <<>>
                          /\ budget' + windowPumps' >= InhibitBudget
  <2> SUFFICES ASSUME base = "resched"
               PROVE  ~raised /\ pendingIrqs' = <<>>
                      /\ budget' + windowPumps' >= InhibitBudget
    OBVIOUS
  <2>1. budget + windowPumps >= InhibitBudget /\ pendingIrqs = <<>>
    BY DEF SeamInv, WindowContext
  <2>2. budget >= 2
    BY <1>2, <2>1, WindowAssumption, BudgetAssumption
  <2>3. ~raised
    BY <1>2, <1>3, <2>2
  <2>4. budget' + windowPumps' >= InhibitBudget
    BY <1>2, <1>3, <2>1, <2>2, BudgetAssumption, WindowAssumption DEF Spent
  <2>5. QED
    BY <2>1, <2>3, <2>4 DEF Raise
<1>6. ShortQueue' /\ StopReason' /\ NmiContext' /\ Tim2Context' /\ SpinContext'
  BY <1>1, <1>4, QueueWords
  DEF SeamInv, ShortQueue, StopReason, NmiContext, Tim2Context, SpinContext
<1>7. WindowContext'
  BY <1>5 DEF SeamInv, WindowContext
<1>8. Tim2NeverNested' /\ CompareContext'
  BY <1>1, <1>4, QueueWords DEF SeamInv, Tim2NeverNested, CompareContext, timVars
<1>9. QED
  BY <1>6, <1>7, <1>8 DEF SeamInv

(* The idle seam queues TIM2 only on an empty list, and stops for it.      *)
LEMMA IdleKeepsSeam == TypeOK /\ SeamInv /\ IdleVisit => SeamInv'
<1> SUFFICES ASSUME TypeOK, SeamInv, IdleVisit PROVE SeamInv'
  OBVIOUS
<1> DEFINE queueOf(r) == IF r THEN Append(pendingIrqs, USB) ELSE pendingIrqs
<1>1. ~stopped /\ isrs = <<>> /\ base = "idle"
      /\ UNCHANGED <<base, windowPumps, isrs, suspended>>
  BY DEF IdleVisit, Running, guestVars
<1>2. PICK raised \in BOOLEAN :
        /\ Pump(TRUE, ticks, 0, raised)
        /\ \/ DeliverDeferred(queueOf(raised)) \/ CatchUpAndPoll(queueOf(raised))
           \/ Drip(queueOf(raised))
  BY DEF IdleVisit
<1> DEFINE queue == queueOf(raised)
<1>3. queue \in {<<>>, <<USB>>}
  <2>1. pendingIrqs \in {<<>>, <<USB>>}
    BY <1>1, QueueWords DEF SeamInv, ShortQueue, NmiContext, Tim2Context
  <2>2. raised => pendingIrqs = <<>>
    <3>1. 0 \in 0 .. InhibitBudget /\ ticks \in Tick
      BY BudgetAssumption DEF TypeOK, ClockTypeOK
    <3>2. QED BY <1>2, <3>1, PumpRaises
  <2>3. QED
    BY <2>1, <2>2, SingletonProperties
<1>4. DeliverDeferred(queue) \/ CatchUpAndPoll(queue) \/ Drip(queue)
  BY <1>2
<1> HIDE DEF queue
<1>5. \/ pendingIrqs' = queue /\ ~stopped'
      \/ pendingIrqs' = <<TIM2>> /\ stopped'
  BY <1>1, <1>3, <1>4, SingletonProperties
  DEF DeliverDeferred, CatchUpAndPoll, Drip, InjectTim2
<1>6. fired' /\ cc1if' => tim2Pending' \/ pendingIrqs' = <<TIM2>>
  <2>1. CASE DeliverDeferred(queue)
    BY <2>1, <1>3, SingletonProperties DEF DeliverDeferred, InjectTim2
  <2>2. ASSUME ~tim2Pending PROVE ~(fired /\ cc1if)
    <3>1. pendingIrqs # <<TIM2>>
      BY <1>1 DEF SeamInv, Tim2Context
    <3>2. ~\E i \in 1 .. Len(isrs) : isrs[i] = TIM2
      BY <1>1, SingletonProperties
    <3>3. QED
      BY <2>2, <3>1, <3>2 DEF SeamInv, CompareContext
  <2>3. CASE CatchUpAndPoll(queue)
    BY <2>2, <2>3, <1>3, SingletonProperties DEF CatchUpAndPoll, InjectTim2
  <2>4. CASE Drip(queue)
    BY <2>2, <2>4 DEF Drip, timVars
  <2>5. QED BY <1>4, <2>1, <2>3, <2>4
<1>7. ShortQueue' /\ StopReason' /\ NmiContext' /\ Tim2Context'
  BY <1>1, <1>3, <1>5, QueueWords
  DEF ShortQueue, StopReason, NmiContext, Tim2Context
<1>8. SpinContext' /\ WindowContext'
  BY <1>1 DEF SpinContext, WindowContext
<1>9. Tim2NeverNested'
  BY <1>1 DEF SeamInv, Tim2NeverNested
<1>10. CompareContext'
  BY <1>6 DEF CompareContext
<1>11. QED
  BY <1>7, <1>8, <1>9, <1>10 DEF SeamInv

LEMMA InitSeam == Init => SeamInv
<1> SUFFICES ASSUME Init PROVE SeamInv
  OBVIOUS
<1>1. pendingIrqs = <<>> /\ isrs = <<>> /\ ~stopped /\ base = "thread" /\ ~fired
  BY DEF Init
<1>2. Tim2NeverNested
  BY <1>1, SingletonProperties DEF Tim2NeverNested
<1>3. QED
  BY <1>1, <1>2, QueueWords
  DEF SeamInv, ShortQueue, StopReason, NmiContext, Tim2Context, SpinContext,
      WindowContext, CompareContext

LEMMA NextSeam == TypeOK /\ SeamInv /\ [Next]_vars => SeamInv'
<1> SUFFICES ASSUME TypeOK, SeamInv, [Next]_vars PROVE SeamInv'
  OBVIOUS
<1> USE DEF vars, clockVars, timVars, busVars, pumpVars, queueVars, guestVars
<1>0. isrs \in Seq({USB, TIM2}) /\ Len(isrs) \in Nat
      /\ ticks \in Tick /\ windowPumps \in 0 .. WindowPumps
  BY DEF TypeOK, ClockTypeOK, GuestTypeOK
<1>1. CASE ReadCnt
  <2>1. PICK raised \in BOOLEAN : Pump(FALSE, ticks, budget, raised) /\ Raise(raised)
    BY <1>1 DEF ReadCnt
  <2>2. ~stopped
    BY <1>1 DEF ReadCnt, Running, InIsr
  <2>3. /\ windowPumps' = IF base = "resched" THEN windowPumps + 1 ELSE windowPumps
        /\ base = "resched" => windowPumps < WindowPumps
    BY <1>1 DEF ReadCnt, Running, InIsr, SeamInv, WindowContext
  <2>4. UNCHANGED <<timVars, stopped, base, isrs, suspended>>
    BY <1>1 DEF ReadCnt
  <2>5. QED
    BY <1>0, <2>1, <2>2, <2>3, <2>4, PumpKeepsSeam
<1>2. CASE GpioAccess
  <2>1. PICK raised \in BOOLEAN :
          Pump(FALSE, TicksAfter(1), budget, raised) /\ Raise(raised)
    BY <1>2 DEF GpioAccess
  <2>2. TicksAfter(1) \in Tick
    BY TicksAfterType DEF TypeOK
  <2>3. /\ ~stopped /\ base = "thread"
        /\ UNCHANGED <<timVars, stopped, base, isrs, suspended, windowPumps>>
    BY <1>2 DEF GpioAccess, Running
  <2>4. QED
    BY <2>1, <2>2, <2>3, PumpKeepsSeam
<1>3. CASE WriteCcr1 \/ WriteDier \/ WriteSr \/ OtherAccess \/ WriteCntr
           \/ WriteBcdr \/ ServeUsb
  <2>1. fired' /\ cc1if' => fired /\ cc1if
    BY <1>3 DEF WriteCcr1, WriteDier, WriteSr, OtherAccess, WriteCntr,
       WriteBcdr, ServeUsb
  <2>2. UNCHANGED <<queueVars, guestVars, budget, tim2Pending>>
    BY <1>3 DEF WriteCcr1, WriteDier, WriteSr, OtherAccess, WriteCntr,
       WriteBcdr, ServeUsb
  <2>3. QED
    BY <2>1, <2>2, SeamFrame
<1>4. CASE IdleVisit
  BY <1>4, IdleKeepsSeam
<1>5. CASE IsrReturn \/ IsrExitToReschedule
  <2>1. /\ InIsr /\ PopIsr /\ ~stopped /\ isrs # <<>>
        /\ UNCHANGED <<timVars, stopped>>
        /\ RunningIsr = TIM2 => ~cc1if
    BY <1>5, QueueWords DEF IsrReturn, IsrExitToReschedule, IsrDone, InIsr
  <2>2. /\ isrs' \in Seq({USB, TIM2}) /\ Len(isrs') = Len(isrs) - 1
        /\ \A i \in 1 .. Len(isrs) - 1 : isrs'[i] = isrs[i]
    BY <1>0, <2>1, PopProperties DEF PopIsr
  <2>3. pendingIrqs \in {<<>>, <<USB>>}
    BY <2>1, QueueWords DEF SeamInv, ShortQueue, NmiContext, Tim2Context
  <2>4. base # "spin" /\ base # "resched"
    BY <2>1, <2>3, QueueWords DEF SeamInv, SpinContext, WindowContext
  <2>5. Tim2NeverNested'
    BY <1>0, <2>2 DEF SeamInv, Tim2NeverNested
  <2>6. CompareContext'
    <3>1. SUFFICES ASSUME fired', cc1if', ~tim2Pending'
                   PROVE  \E i \in 1 .. Len(isrs') : isrs'[i] = TIM2
      BY DEF CompareContext
    <3>2. PICK i \in 1 .. Len(isrs) : isrs[i] = TIM2
      BY <2>1, <2>3, <3>1, QueueWords DEF SeamInv, CompareContext
    <3>3. i # Len(isrs)
      BY <2>1, <3>1, <3>2 DEF RunningIsr
    <3>4. i \in 1 .. Len(isrs) - 1
      BY <1>0, <3>2, <3>3
    <3>5. i \in 1 .. Len(isrs') /\ isrs'[i] = TIM2
      BY <2>2, <3>2, <3>4
    <3>6. QED
      BY <3>5
  <2>7. CASE IsrReturn
    <3>1. UNCHANGED <<pendingIrqs, base>>
      BY <2>7 DEF IsrReturn
    <3>2. ShortQueue' /\ StopReason' /\ NmiContext' /\ Tim2Context'
          /\ SpinContext' /\ WindowContext'
      BY <2>1, <2>3, <2>4, <3>1, QueueWords
      DEF ShortQueue, StopReason, NmiContext, Tim2Context, SpinContext,
          WindowContext
    <3>3. QED
      BY <2>5, <2>6, <3>2 DEF SeamInv
  <2>8. CASE IsrExitToReschedule
    <3>1. pendingIrqs' = <<>>
      <4>1. CASE pendingIrqs = <<>>
        BY <2>8, <4>1 DEF IsrExitToReschedule, Entering
      <4>2. CASE pendingIrqs = <<USB>>
        <5>1. Foreign
          BY <4>2, QueueWords, SingletonProperties DEF Foreign
        <5>2. QED BY <2>8, <5>1 DEF IsrExitToReschedule, Entering
      <4>3. QED BY <2>3, <4>1, <4>2
    <3>2. isrs' = <<>>
      <4>1. Len(isrs') = 0
        BY <2>2, <2>8 DEF IsrExitToReschedule
      <4>2. QED BY <2>2, <4>1, EmptySeq
    <3>3. base' = "resched" /\ budget' + windowPumps' >= InhibitBudget
      BY <2>8, BudgetAssumption DEF IsrExitToReschedule, Entering
    <3>4. ShortQueue' /\ StopReason' /\ NmiContext' /\ Tim2Context'
          /\ SpinContext' /\ WindowContext'
      BY <2>1, <3>1, <3>2, <3>3, QueueWords
      DEF ShortQueue, StopReason, NmiContext, Tim2Context, SpinContext,
          WindowContext
    <3>5. QED
      BY <2>5, <2>6, <3>4 DEF SeamInv
  <2>9. QED
    BY <1>5, <2>7, <2>8
<1>6. CASE ReachSpin
  <2>1. ~stopped /\ isrs = <<>> /\ base' = "spin"
        /\ UNCHANGED <<timVars, isrs>>
    BY <1>6 DEF ReachSpin, Running
  <2>2. ~Queued(NMI)
    <3>1. pendingIrqs \in {<<>>, <<USB>>}
      BY <2>1, QueueWords DEF SeamInv, ShortQueue, NmiContext, Tim2Context
    <3>2. QED BY <3>1, QueueWords, SingletonProperties DEF Queued
  <2>3. pendingIrqs' = <<NMI>> /\ stopped'
    BY <1>6, <2>2 DEF ReachSpin, Switch
  <2>4. pendingIrqs # <<TIM2>>
    BY <2>1 DEF SeamInv, Tim2Context
  <2>5. Tim2NeverNested' /\ CompareContext'
    BY <2>1, <2>4 DEF SeamInv, Tim2NeverNested, CompareContext
  <2>6. QED
    BY <2>1, <2>3, <2>5, QueueWords
    DEF SeamInv, ShortQueue, StopReason, NmiContext, Tim2Context, SpinContext,
        WindowContext
<1>7. CASE SwitchAway \/ SwitchBack \/ GoIdle
  <2>1. /\ ~stopped /\ UNCHANGED <<queueVars, timVars, isrs>>
        /\ base' \in {"thread", "tail", "idle"}
    BY <1>7 DEF SwitchAway, SwitchBack, GoIdle, Running
  <2>2. pendingIrqs # <<NMI>> /\ pendingIrqs # <<TIM2>>
    BY <2>1 DEF SeamInv, NmiContext, Tim2Context
  <2>3. QED
    BY <2>1, <2>2
    DEF SeamInv, ShortQueue, StopReason, NmiContext, Tim2Context, SpinContext,
        WindowContext, Tim2NeverNested, CompareContext
<1>8. CASE Drain
  <2>1. PICK irq \in Irq : pendingIrqs = <<irq>>
    BY <1>8 DEF Drain, SeamInv, ShortQueue, Irq
  <2>2. Head(pendingIrqs) = irq /\ pendingIrqs' = <<>> /\ ~stopped'
        /\ UNCHANGED timVars
    <3>1. Head(pendingIrqs) = irq /\ Tail(pendingIrqs) = <<>> /\ Len(pendingIrqs) = 1
      BY <2>1, SingletonProperties
    <3>2. pendingIrqs' = <<>> /\ UNCHANGED timVars
      BY <1>8, <3>1 DEF Drain
    <3>3. stopped' = (1 > 1)
      BY <1>8, <3>1 DEF Drain
    <3>4. ~stopped'
      <4>1. ~(1 > 1)
        OBVIOUS
      <4>2. QED
        BY <3>3, <4>1, Zenon
    <3>5. QED
      BY <3>1, <3>2, <3>4
  <2>3. base # "resched"
    BY <2>1, SingletonProperties DEF SeamInv, WindowContext
  <2>4. base' # "resched" /\ base' # "spin"
    <3>1. CASE irq = NMI
      BY <1>8, <2>2, <3>1 DEF Drain
    <3>2. CASE irq # NMI
      <4>1. base # "spin"
        BY <2>1, <3>2, SingletonProperties DEF SeamInv, SpinContext
      <4>2. QED BY <1>8, <2>2, <2>3, <3>2, <4>1 DEF Drain
    <3>3. QED BY <3>1, <3>2
  <2>5. ShortQueue' /\ StopReason' /\ NmiContext' /\ Tim2Context'
        /\ SpinContext' /\ WindowContext'
    BY <2>2, <2>4, QueueWords
    DEF ShortQueue, StopReason, NmiContext, Tim2Context, SpinContext, WindowContext
  <2>6. Tim2NeverNested' /\ CompareContext'
    <3>1. CASE irq = NMI
      <4>1. UNCHANGED isrs
        BY <1>8, <2>2, <3>1 DEF Drain
      <4>2. pendingIrqs # <<TIM2>>
        BY <2>1, <3>1, QueueWords
      <4>3. QED
        BY <2>2, <4>1, <4>2 DEF SeamInv, Tim2NeverNested, CompareContext
    <3>2. CASE irq = TIM2
      <4>1. isrs = <<>>
        BY <2>1, <3>2 DEF SeamInv, Tim2Context
      <4>2. isrs' = <<TIM2>>
        BY <1>8, <2>2, <3>2, <4>1, QueueWords, SingletonProperties DEF Drain
      <4>3. Len(isrs') = 1 /\ isrs'[1] = TIM2
        BY <4>2, SingletonProperties
      <4>4. QED
        BY <4>3 DEF Tim2NeverNested, CompareContext
    <3>3. CASE irq = USB
      <4>1. isrs' = Append(isrs, USB)
        BY <1>8, <2>2, <3>3, QueueWords DEF Drain
      <4>2. /\ Len(isrs') = Len(isrs) + 1 /\ isrs'[Len(isrs) + 1] = USB
            /\ \A i \in 1 .. Len(isrs) : isrs'[i] = isrs[i]
        BY <1>0, <4>1, AppendFacts
      <4>3. Tim2NeverNested'
        BY <1>0, <4>2, QueueWords DEF SeamInv, Tim2NeverNested
      <4>4. pendingIrqs # <<TIM2>>
        BY <2>1, <3>3, QueueWords
      <4>5. CompareContext'
        BY <1>0, <2>2, <4>2, <4>4 DEF SeamInv, CompareContext
      <4>6. QED BY <4>3, <4>5
    <3>4. QED BY <3>1, <3>2, <3>3 DEF Irq
  <2>7. QED
    BY <2>5, <2>6 DEF SeamInv
<1>9. CASE UNCHANGED vars
  BY <1>9, SeamFrame
<1>10. QED
  BY <1>1, <1>2, <1>3, <1>4, <1>5, <1>6, <1>7, <1>8, <1>9 DEF Next

(* The inductive invariant of the delivery: which interrupt may be queued  *)
(* in which context, and that an inhibit outlasts its window.              *)
THEOREM DeliveryInvariant == Spec => []SeamInv
<1>1. Init => TypeOK /\ SeamInv
  BY InitType, InitSeam
<1>2. TypeOK /\ SeamInv /\ [Next]_vars => TypeOK' /\ SeamInv'
  BY NextType, NextSeam
<1>3. QED
  BY <1>1, <1>2, PTL DEF Spec

-----------------------------------------------------------------------------
(* What follows from it *)

LEMMA QueuedWord ==
  ASSUME ShortQueue, NEW irq \in Irq
  PROVE  Queued(irq) <=> pendingIrqs = <<irq>>
  BY QueueWords, SingletonProperties DEF ShortQueue, Queued, Irq

(* The context-switch NMI always arrives alone, at the spin, whatever the  *)
(* pump queued before.                                                     *)
THEOREM NmiAlone == Spec => []NmiArrivesAlone
<1>1. SeamInv => NmiArrivesAlone
  BY QueuedWord, SingletonProperties
  DEF SeamInv, NmiContext, NmiArrivesAlone, Irq
<1>2. QED
  BY <1>1, DeliveryInvariant, PTL

(* The window between the two breakpoints is sealed for every budget that  *)
(* exceeds the pump visits a window makes: one more would be one too many. *)
THEOREM Sealed == Spec => []WindowSealed
<1>1. SeamInv => WindowSealed
  <2> SUFFICES ASSUME SeamInv, base \in {"resched", "spin"}
               PROVE  isrs = <<>> /\ ~Queued(USB) /\ ~Queued(TIM2)
    BY DEF WindowSealed
  <2>1. pendingIrqs \in {<<>>, <<NMI>>} /\ isrs = <<>>
    BY DEF SeamInv, WindowContext, SpinContext, NmiContext
  <2>2. QED
    BY <2>1, QueueWords, QueuedWord DEF SeamInv, Irq
<1>2. QED
  BY <1>1, DeliveryInvariant, PTL

(* No two exceptions are ever stacked by one drain.                        *)
THEOREM OneAtATime == Spec => []OneExceptionAtATime
<1>1. SeamInv => OneExceptionAtATime
  <2>1. Len(<<>>) = 0 /\ Len(<<NMI>>) = 1 /\ Len(<<USB>>) = 1 /\ Len(<<TIM2>>) = 1
    BY SingletonProperties
  <2>2. QED
    BY <2>1 DEF SeamInv, ShortQueue, OneExceptionAtATime
<1>2. QED
  BY <1>1, DeliveryInvariant, PTL

(* TIM2's handler is always the outermost one.                             *)
THEOREM Tim2Outermost == Spec => []Tim2NeverNested
<1>1. SeamInv => Tim2NeverNested
  BY DEF SeamInv
<1>2. QED
  BY <1>1, DeliveryInvariant, PTL

(* No compare that the model has recorded as fired is lost on its way.     *)
THEOREM NoCompareLost == Spec => []CompareNotLost
<1>1. TypeOK /\ SeamInv => CompareNotLost
  <2> SUFFICES ASSUME TypeOK, SeamInv, fired, cc1if
               PROVE  \/ tim2Pending \/ Queued(TIM2)
                      \/ \E i \in DOMAIN isrs : isrs[i] = TIM2
    BY DEF CompareNotLost
  <2>1. DOMAIN isrs = 1 .. Len(isrs)
    BY LenProperties DEF TypeOK, GuestTypeOK
  <2>2. QED
    BY <2>1, QueuedWord DEF SeamInv, CompareContext, Irq
<1>2. QED
  BY <1>1, TypeCorrect, DeliveryInvariant, PTL

(* TIM2 is never left in the list for a breakpoint to drop.                *)
THEOREM Tim2Stops == Spec => []Tim2OnlyWhileStopped
<1>1. SeamInv => Tim2OnlyWhileStopped
  BY QueuedWord DEF SeamInv, StopReason, Tim2Context, Tim2OnlyWhileStopped, Irq
<1>2. QED
  BY <1>1, DeliveryInvariant, PTL

-----------------------------------------------------------------------------
(* The unwired line *)

(* An image without a USB handler: the pump never learns of one, and the   *)
(* line is neither queued nor in service.                                  *)
UnwiredInv ==
    ~UsbWired => /\ vectorOk # "yes" /\ pendingIrqs # <<USB>>
                 /\ \A i \in 1 .. Len(isrs) : isrs[i] # USB

(* No visit of the pump raises a line without a handler, also when the     *)
(* vector slot could not be read before.                                   *)
LEMMA PumpUnwired ==
  ASSUME ~UsbWired, vectorOk # "yes", NEW force, NEW now, NEW allowed,
         NEW raised \in BOOLEAN, Pump(force, now, allowed, raised)
  PROVE  ~raised /\ vectorOk' # "yes"
  BY DEF Pump, RaiseLine, VectorCheck

LEMMA NextUnwired == TypeOK /\ SeamInv /\ UnwiredInv /\ [Next]_vars => UnwiredInv'
<1> SUFFICES ASSUME TypeOK, SeamInv, ~UsbWired, UnwiredInv, [Next]_vars
             PROVE  /\ vectorOk' # "yes" /\ pendingIrqs' # <<USB>>
                    /\ \A i \in 1 .. Len(isrs') : isrs'[i] # USB
  BY DEF UnwiredInv
<1> USE DEF vars, clockVars, timVars, busVars, pumpVars, queueVars, guestVars
<1>0. /\ vectorOk # "yes" /\ pendingIrqs # <<USB>>
      /\ \A i \in 1 .. Len(isrs) : isrs[i] # USB
      /\ isrs \in Seq({USB, TIM2}) /\ Len(isrs) \in Nat
  BY DEF UnwiredInv, TypeOK, GuestTypeOK
<1>1. CASE ReadCnt \/ GpioAccess
  <2>1. PICK raised \in BOOLEAN :
          /\ Raise(raised)
          /\ \/ Pump(FALSE, ticks, budget, raised)
             \/ Pump(FALSE, TicksAfter(1), budget, raised)
    BY <1>1 DEF ReadCnt, GpioAccess
  <2>2. ~raised /\ vectorOk' # "yes"
    BY <1>0, <2>1, PumpUnwired
  <2>3. pendingIrqs' = pendingIrqs /\ isrs' = isrs
    BY <1>1, <2>1, <2>2 DEF ReadCnt, GpioAccess, Raise
  <2> QED
    BY <1>0, <2>2, <2>3
<1>2. CASE IdleVisit
  <2>1. PICK raised \in BOOLEAN :
          LET queue == IF raised THEN Append(pendingIrqs, USB) ELSE pendingIrqs
          IN  /\ Pump(TRUE, ticks, 0, raised)
              /\ DeliverDeferred(queue) \/ CatchUpAndPoll(queue) \/ Drip(queue)
    BY <1>2 DEF IdleVisit
  <2>2. ~raised /\ vectorOk' # "yes"
    BY <1>0, <2>1, PumpUnwired
  <2>3. \/ DeliverDeferred(pendingIrqs) \/ CatchUpAndPoll(pendingIrqs)
        \/ Drip(pendingIrqs)
    BY <2>1, <2>2
  <2>4. pendingIrqs' = pendingIrqs
        \/ (pendingIrqs = <<>> /\ pendingIrqs' = Append(pendingIrqs, TIM2))
    BY <2>3 DEF DeliverDeferred, CatchUpAndPoll, Drip, InjectTim2
  <2>5. pendingIrqs' # <<USB>>
    BY <1>0, <2>4, QueueWords, SingletonProperties
  <2> QED
    BY <1>0, <1>2, <2>2, <2>5 DEF IdleVisit
<1>3. CASE WriteCcr1 \/ WriteDier \/ WriteSr \/ OtherAccess \/ WriteCntr
           \/ WriteBcdr \/ ServeUsb \/ SwitchAway \/ SwitchBack \/ GoIdle
  BY <1>0, <1>3 DEF WriteCcr1, WriteDier, WriteSr, OtherAccess, WriteCntr,
     WriteBcdr, ServeUsb, SwitchAway, SwitchBack, GoIdle
<1>4. CASE IsrReturn \/ IsrExitToReschedule
  <2>1. isrs # <<>> /\ PopIsr /\ vectorOk' = vectorOk
        /\ pendingIrqs' \in {pendingIrqs, <<>>}
    BY <1>4 DEF IsrReturn, IsrExitToReschedule, IsrDone, InIsr, Entering
  <2>2. /\ Len(isrs') = Len(isrs) - 1
        /\ \A i \in 1 .. Len(isrs) - 1 : isrs'[i] = isrs[i]
    BY <1>0, <2>1, PopProperties DEF PopIsr
  <2>3. \A i \in 1 .. Len(isrs') : isrs'[i] # USB
    BY <1>0, <2>2
  <2> QED
    BY <1>0, <2>1, <2>3, QueueWords
<1>5. CASE ReachSpin
  BY <1>0, <1>5, QueueWords DEF ReachSpin, Switch
<1>6. CASE Drain
  <2>1. PICK irq \in Irq : pendingIrqs = <<irq>>
    BY <1>6 DEF Drain, SeamInv, ShortQueue, Irq
  <2>2. irq # USB /\ Head(pendingIrqs) = irq /\ pendingIrqs' = <<>>
        /\ vectorOk' = vectorOk
    BY <1>0, <1>6, <2>1, SingletonProperties DEF Drain
  <2>3. CASE irq = NMI
    BY <1>0, <1>6, <2>2, <2>3, QueueWords DEF Drain
  <2>4. CASE irq = TIM2
    <3>1. isrs = <<>>
      BY <2>1, <2>4 DEF SeamInv, Tim2Context
    <3>2. isrs' = <<TIM2>>
      BY <1>6, <2>2, <2>4, <3>1, QueueWords, SingletonProperties DEF Drain
    <3>3. Len(isrs') = 1 /\ isrs'[1] # USB
      BY <3>2, QueueWords, SingletonProperties
    <3> QED
      BY <1>0, <2>2, <3>3, QueueWords
  <2> QED
    BY <2>2, <2>3, <2>4 DEF Irq
<1>7. CASE UNCHANGED vars
  BY <1>0, <1>7
<1> QED
  BY <1>1, <1>2, <1>3, <1>4, <1>5, <1>6, <1>7 DEF Next

(* An image that never installed the USB handler is never interrupted for  *)
(* it, however often reading its vector slot fails.                        *)
THEOREM NeverUnwired == Spec => []NoUnwiredUsb
<1>1. Init => UnwiredInv
  BY QueueWords, SingletonProperties DEF Init, UnwiredInv
<1>2. TypeOK /\ SeamInv /\ UnwiredInv /\ [Next]_vars => UnwiredInv'
  BY NextUnwired
<1>3. TypeOK /\ SeamInv /\ UnwiredInv => NoUnwiredUsb
  <2> SUFFICES ASSUME TypeOK, SeamInv, UnwiredInv, ~UsbWired
               PROVE  ~Queued(USB) /\ ~\E i \in DOMAIN isrs : isrs[i] = USB
    BY DEF NoUnwiredUsb
  <2>1. DOMAIN isrs = 1 .. Len(isrs)
    BY LenProperties DEF TypeOK, GuestTypeOK
  <2> QED
    BY <2>1, QueuedWord DEF SeamInv, UnwiredInv, Irq
<1> QED
  BY <1>1, <1>2, <1>3, TypeCorrect, DeliveryInvariant, PTL DEF Spec

-----------------------------------------------------------------------------
(* The clock's direction *)

LEMMA WrapSmall ==
  ASSUME NEW m \in Nat \ {0}, NEW t \in 0 .. m - 1, NEW n \in 0 .. m - 1
  PROVE  (((t + n) % m) - t) % m = n
<1>1. CASE t + n < m
  <2>1. (t + n) % m = t + n
    BY <1>1
  <2>2. (t + n) - t = n /\ n % m = n
    OBVIOUS
  <2> QED
    BY <2>1, <2>2
<1>2. CASE ~(t + n < m)
  <2>1. (t + n) % m = t + n - m
    BY <1>2
  <2>2. (t + n - m) - t = n - m /\ n - m \in -m .. -1
    OBVIOUS
  <2>3. (n - m) % m = n
    BY <2>2
  <2> QED
    BY <2>1, <2>2, <2>3
<1> QED
  BY <1>1, <1>2

(* Moving on by less than half the range is no step back. *)
LEMMA ForwardStep ==
  ASSUME ClockTypeOK, NEW n \in 0 .. Half - 1, ticks' = (ticks + n) % Modulus
  PROVE  (ticks' - ticks) % Modulus < Half
<1>1. Modulus \in Nat \ {0} /\ Half \in Nat /\ Half <= Modulus
  BY ModulusAssumption DEF Half
<1>2. n \in 0 .. Modulus - 1 /\ ticks \in 0 .. Modulus - 1 /\ n < Half
  BY <1>1 DEF ClockTypeOK, Tick
<1>3. (((ticks + n) % Modulus) - ticks) % Modulus = n
  BY <1>1, <1>2, WrapSmall
<1> QED
  BY <1>2, <1>3

(* An access moves the clock by one tick at the most. *)
LEMMA ActivityForward ==
  ASSUME ClockTypeOK, AdvanceFromActivity(1)
  PROVE  (ticks' - ticks) % Modulus < Half
<1> DEFINE n == (activity + 1) \div ActivityPerTick
<1>1. n \in {0, 1}
  BY ActivityAssumption DEF ClockTypeOK
<1>2. Half \in Nat /\ Half > 1
  BY ModulusAssumption DEF Half
<1>3. ticks' = (ticks + n) % Modulus
  BY DEF AdvanceFromActivity, TicksAfter
<1>4. n \in 0 .. Half - 1
  BY <1>1, <1>2
<1> QED
  BY <1>3, <1>4, ForwardStep

LEMMA CatchUpForward ==
  ASSUME ClockTypeOK, NEW d \in Tick, CatchUpTo(d), ticks' # ticks
  PROVE  (ticks' - ticks) % Modulus < Half
  BY DEF CatchUpTo, InFuture

(* Whatever the kernel leaves in CCR1, no step turns the clock back: it    *)
(* jumps only to what is less than half the range ahead, and drips or      *)
(* counts accesses in steps of less than that.                             *)
THEOREM ClockForward == Spec => ClockNeverGoesBack
<1>1. TypeOK /\ [Next]_vars => [(ticks' - ticks) % Modulus < Half]_ticks
  <2> SUFFICES ASSUME TypeOK, [Next]_vars, ticks' # ticks
               PROVE  (ticks' - ticks) % Modulus < Half
    OBVIOUS
  <2>0. ClockTypeOK /\ ccr1 \in Tick
    BY DEF TypeOK, TimTypeOK
  <2>1. CASE GpioAccess \/ OtherAccess \/ WriteCntr \/ WriteBcdr
    BY <2>0, <2>1, ActivityForward DEF GpioAccess, OtherAccess, WriteCntr, WriteBcdr
  <2>2. CASE IdleVisit
    <3>1. PICK raised \in BOOLEAN :
            LET queue == IF raised THEN Append(pendingIrqs, USB) ELSE pendingIrqs
            IN  DeliverDeferred(queue) \/ CatchUpAndPoll(queue) \/ Drip(queue)
      BY <2>2 DEF IdleVisit
    <3>2. CatchUpTo(ccr1) \/ Advance(IdleDrip)
      BY <3>1 DEF DeliverDeferred, CatchUpAndPoll, Drip, clockVars
    <3>3. CASE CatchUpTo(ccr1)
      BY <2>0, <3>3, CatchUpForward
    <3>4. CASE Advance(IdleDrip)
      BY <2>0, <3>4, ForwardStep, PeriodAssumption DEF Advance
    <3> QED
      BY <3>2, <3>3, <3>4
  <2>3. CASE ReadCnt \/ WriteCcr1 \/ WriteDier \/ WriteSr \/ IsrReturn
             \/ IsrExitToReschedule \/ ReachSpin \/ ServeUsb \/ SwitchAway
             \/ SwitchBack \/ GoIdle \/ Drain \/ UNCHANGED vars
    BY <2>3 DEF ReadCnt, WriteCcr1, WriteDier, WriteSr, IsrReturn,
       IsrExitToReschedule, ReachSpin, ServeUsb, SwitchAway, SwitchBack, GoIdle,
       Drain, vars, clockVars
  <2> QED
    BY <2>1, <2>2, <2>3 DEF Next
<1> QED
  BY <1>1, TypeCorrect, PTL DEF Spec, ClockNeverGoesBack
=============================================================================

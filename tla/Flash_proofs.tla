---------------------------- MODULE Flash_proofs ----------------------------
(***************************************************************************)
(* Theorems of Flash, for any number and size of pages and any number of   *)
(* erases: what the driver relies on, and that every step of the           *)
(* controller and its driver is a step of the flash store or none.  And of *)
(* Board: the loops of the clock and delay drivers never loop.             *)
(***************************************************************************)
EXTENDS Board, TLAPS

Bits == {"PG", "PER", "STRT", "LOCK"}

Steps == {"idle", "first key", "second key", "select", "address", "start",
          "poll", "store", "stored"}

FlashTypeOK ==
  /\ cr \in SUBSET Bits /\ ar \in Addresses /\ keyState \in {0, 1}
  /\ memory \in [Pages -> {"blank", "written"}] /\ erased \in Seq(Pages)
  /\ driver \in [pc : Steps, addr : Addresses]

\* No start bit stays behind an operation, and PER is set for the length of
\* one: no other write of the driver to CR can erase.
NoErasePending ==
  /\ "STRT" \notin cr
  /\ "PER" \in cr <=> driver.pc \in {"address", "start", "poll"}

\* When the start bit is set, AR names the page of this erase.
PageNamed == driver.pc = "start" => ar = driver.addr

FlashInv == FlashTypeOK /\ NoErasePending /\ PageNamed

\* Every address lies in a page.
LEMMA PageOfAddress == \A a \in Addresses : PageOf(a) \in Pages
BY DEF Pages

\* The device has a first address.
LEMMA ZeroIsAnAddress == 0 \in Addresses
<1>1. NumPages * PageSize \in Nat \ {0}
  BY FlashAssumption
<1> QED
  BY <1>1 DEF Addresses

LEMMA InitHolds == FlashInit => FlashInv
BY ZeroIsAnAddress
   DEF FlashInit, FlashInv, FlashTypeOK, NoErasePending, PageNamed, Resting,
       Bits, Steps

\* A page may be blanked and recorded, or neither; the types survive both.
LEMMA ErasePageType ==
  ASSUME FlashTypeOK, NEW a \in Addresses, ErasePage(a)
  PROVE  /\ memory' \in [Pages -> {"blank", "written"}]
         /\ erased' \in Seq(Pages)
BY PageOfAddress DEF FlashTypeOK, ErasePage

\* A write to CR erases only if it asks for it; the start bit is not kept.
LEMMA WriteCrEffect ==
  ASSUME NEW bits \in SUBSET Bits, WriteCr(bits)
  PROVE  /\ cr' \in SUBSET Bits /\ cr' \subseteq bits
         /\ {"PER", "STRT"} \subseteq bits => cr' = bits \ {"STRT"} /\ ErasePage(ar)
         /\ ~({"PER", "STRT"} \subseteq bits)
              => cr' = bits /\ UNCHANGED <<memory, erased>>
         /\ UNCHANGED <<ar, keyState>>
BY DEF WriteCr, Completed

\* Each step of the driver keeps the invariant.
LEMMA StepKeepsInv == FlashInv /\ [FlashNext]_flashVars => FlashInv'
<1> SUFFICES ASSUME FlashInv, [FlashNext]_flashVars PROVE FlashInv'
  OBVIOUS
<1> USE DEF FlashInv, FlashTypeOK, NoErasePending, PageNamed, At, Move
<1>1. ASSUME NEW a \in Addresses, AskErase(a) PROVE FlashInv'
  BY <1>1 DEF AskErase, controllerVars, Steps
<1>2. ASSUME NEW a \in Addresses, BeginProgram(a) PROVE FlashInv'
  <2>1. cr \cup {"PG"} \in SUBSET Bits
    BY DEF Bits
  <2> QED
    BY <1>2, <2>1, WriteCrEffect DEF BeginProgram, Steps
<1>3. CASE Lock
  <2>1. cr \cup {"LOCK"} \in SUBSET Bits
    BY DEF Bits
  <2> QED
    BY <1>3, <2>1, WriteCrEffect DEF Lock
<1>4. CASE FirstKey
  BY <1>4 DEF FirstKey, WriteKey, Steps
<1>5. CASE SecondKey
  BY <1>5 DEF SecondKey, WriteKey, Steps
<1>6. CASE SelectErase
  <2>1. cr \cup {"PER"} \in SUBSET Bits
    BY DEF Bits
  <2>2. WriteCr(cr \cup {"PER"}) /\ "STRT" \notin cr \cup {"PER"}
    BY <1>6 DEF SelectErase
  <2>3. cr' = cr \cup {"PER"} /\ UNCHANGED <<ar, keyState, memory, erased>>
    BY <2>1, <2>2, WriteCrEffect
  <2>4. driver' \in [pc : Steps, addr : Addresses] /\ driver'.pc = "address"
    BY <1>6 DEF SelectErase, Steps
  <2> QED
    BY <2>1, <2>2, <2>3, <2>4
<1>7. CASE NamePage
  BY <1>7 DEF NamePage, WriteAr, Steps
<1>8. CASE StartErase
  <2>1. cr \cup {"STRT"} \in SUBSET Bits
    BY DEF Bits
  <2>2. WriteCr(cr \cup {"STRT"}) /\ "PER" \in cr
    BY <1>8 DEF StartErase
  <2>3. cr' = cr /\ ErasePage(ar) /\ UNCHANGED <<ar, keyState>>
    <3>1. {"PER", "STRT"} \subseteq cr \cup {"STRT"}
      BY <2>2
    <3>2. (cr \cup {"STRT"}) \ {"STRT"} = cr
      OBVIOUS
    <3>3. /\ cr' = (cr \cup {"STRT"}) \ {"STRT"} /\ ErasePage(ar)
          /\ UNCHANGED <<ar, keyState>>
      BY <2>2, <3>1 DEF WriteCr, Completed
    <3> QED
      BY <3>2, <3>3
  <2>4. /\ memory' \in [Pages -> {"blank", "written"}]
        /\ erased' \in Seq(Pages)
    BY <2>3, ErasePageType
  <2>5. driver' \in [pc : Steps, addr : Addresses] /\ driver'.pc = "poll"
    BY <1>8 DEF StartErase, Steps
  <2> QED
    BY <2>2, <2>3, <2>4, <2>5
<1>9. CASE EndErase
  <2>1. cr \ {"PER"} \in SUBSET Bits
    OBVIOUS
  <2> QED
    BY <1>9, <2>1, WriteCrEffect, ZeroIsAnAddress
       DEF EndErase, Rest, Resting, Steps
<1>10. CASE Store
  BY <1>10, PageOfAddress DEF Store, Steps
<1>11. CASE EndProgram
  <2>1. cr \ {"PG"} \in SUBSET Bits
    OBVIOUS
  <2> QED
    BY <1>11, <2>1, WriteCrEffect, ZeroIsAnAddress
       DEF EndProgram, Rest, Resting, Steps
<1>12. CASE UNCHANGED flashVars
  BY <1>12 DEF flashVars
<1> QED
  BY <1>1, <1>2, <1>3, <1>4, <1>5, <1>6, <1>7, <1>8, <1>9, <1>10, <1>11, <1>12
     DEF FlashNext, FlashStart, FlashContinue

-----------------------------------------------------------------------------
(* The refinement.                                                         *)

LEMMA InitMaps == FlashInit => StoreOf!Init
BY DEF FlashInit, StoreOf!Init, Asked, Resting, BeforeStart

\* Each step of the controller and its driver is one of the store, or none.
LEMMA StepMaps ==
  FlashInv /\ [FlashNext]_flashVars => [StoreOf!Next]_(StoreOf!storeVars)
<1> SUFFICES ASSUME FlashInv, [FlashNext]_flashVars
             PROVE  StoreOf!Next \/ UNCHANGED StoreOf!storeVars
  BY DEF StoreOf!storeVars
<1> USE DEF FlashInv, FlashTypeOK, NoErasePending, PageNamed, At, Move,
            StoreOf!storeVars, Asked, BeforeStart
<1>1. ASSUME NEW a \in Addresses, AskErase(a) PROVE StoreOf!Next
  <2>1. StoreOf!Ask(PageOf(a))
    BY <1>1 DEF AskErase, controllerVars, StoreOf!Ask
  <2> QED
    BY <2>1, PageOfAddress DEF StoreOf!Next
<1>2. ASSUME NEW a \in Addresses, BeginProgram(a)
      PROVE  UNCHANGED StoreOf!storeVars
  <2>1. cr \cup {"PG"} \in SUBSET Bits
    BY DEF Bits
  <2> QED
    BY <1>2, <2>1, WriteCrEffect DEF BeginProgram
<1>3. ASSUME Lock PROVE UNCHANGED StoreOf!storeVars
  <2>1. cr \cup {"LOCK"} \in SUBSET Bits
    BY DEF Bits
  <2> QED
    BY <1>3, <2>1, WriteCrEffect DEF Lock
<1>4. ASSUME FirstKey \/ SecondKey PROVE UNCHANGED StoreOf!storeVars
  BY <1>4 DEF FirstKey, SecondKey, WriteKey
<1>5. ASSUME SelectErase PROVE UNCHANGED StoreOf!storeVars
  <2>1. cr \cup {"PER"} \in SUBSET Bits
    BY DEF Bits
  <2> QED
    BY <1>5, <2>1, WriteCrEffect DEF SelectErase
<1>6. ASSUME NamePage PROVE UNCHANGED StoreOf!storeVars
  BY <1>6 DEF NamePage, WriteAr
<1>7. ASSUME StartErase PROVE StoreOf!Next
  <2>1. cr \cup {"STRT"} \in SUBSET Bits
    BY DEF Bits
  <2>2. ErasePage(driver.addr)
    BY <1>7, <2>1, WriteCrEffect DEF StartErase
  <2>3. PageOf(driver.addr) \in Pages
    BY PageOfAddress
  <2>4. Asked = PageOf(driver.addr) /\ Asked' = NoPage
    BY <1>7 DEF StartErase
  <2>5. StoreOf!Erase \/ StoreOf!Fail
    BY <2>2, <2>3, <2>4 DEF ErasePage, StoreOf!Erase, StoreOf!Fail
  <2> QED
    BY <2>5 DEF StoreOf!Next
<1>8. ASSUME EndErase PROVE UNCHANGED StoreOf!storeVars
  <2>1. cr \ {"PER"} \in SUBSET Bits
    OBVIOUS
  <2> QED
    BY <1>8, <2>1, WriteCrEffect DEF EndErase, Rest, Resting
<1>9. ASSUME Store PROVE StoreOf!Next
  <2>1. PageOf(driver.addr) \in Pages
    BY PageOfAddress
  <2>2. StoreOf!Program(PageOf(driver.addr))
    BY <1>9 DEF Store, StoreOf!Program
  <2> QED
    BY <2>1, <2>2 DEF StoreOf!Next
<1>10. ASSUME EndProgram PROVE UNCHANGED StoreOf!storeVars
  <2>1. cr \ {"PG"} \in SUBSET Bits
    OBVIOUS
  <2> QED
    BY <1>10, <2>1, WriteCrEffect DEF EndProgram, Rest, Resting
<1>11. ASSUME UNCHANGED flashVars PROVE UNCHANGED StoreOf!storeVars
  BY <1>11 DEF flashVars
<1> QED
  BY <1>1, <1>2, <1>3, <1>4, <1>5, <1>6, <1>7, <1>8, <1>9, <1>10, <1>11
     DEF FlashNext, FlashStart, FlashContinue

-----------------------------------------------------------------------------
(* Theorems.                                                               *)

\* The registers and the driver are well typed, no start bit is left behind,
\* PER is set exactly during an erase, and AR names its page when it starts.
THEOREM Invariant == FlashSpec => []FlashInv
BY InitHolds, StepKeepsInv, PTL DEF FlashSpec

\* The flash controller under its driver implements the flash store, but for
\* the store's fairness: an erase blanks the page named and no other, once, and
\* is on record exactly if it happened (Stm32F0FlashIface.hw_write).
THEOREM ImplementsStore ==
  FlashSpec => StoreOf!Init /\ [][StoreOf!Next]_(StoreOf!storeVars)
BY Invariant, InitMaps, StepMaps, PTL DEF FlashSpec

\* The same on the whole board: the clocks and the delays, which may preempt the
\* driver between any two accesses, leave the flash alone.
THEOREM BoardImplementsStore ==
  Spec => StoreOf!Init /\ [][StoreOf!Next]_(StoreOf!storeVars)
<1>1. Init => FlashInit
  BY DEF Init
<1>2. [Next]_vars => [FlashNext]_flashVars
  BY DEF Next, Flashing, Clocking, vars, flashVars
<1> QED
  BY <1>1, <1>2, ImplementsStore, PTL DEF Spec, FlashSpec

-----------------------------------------------------------------------------
(* The loops of the clock and delay drivers.                               *)

Pairs == [on : BOOLEAN, rdy : BOOLEAN]

ClockTypeOK ==
  /\ stored \in [Oscillators -> Pairs]
  /\ cfgr \in [sw : Int, sws : Int]
  /\ uif \in [Timers -> BOOLEAN]

\* What a loop waits for is there before its first look.
Prompt == waiting # NotWaiting => Arrived

ClockInv == ClockTypeOK /\ Prompt

\* The ready bit a read shows is the ON bit.
LEMMA MirrorIs ==
  ASSUME NEW b \in Pairs
  PROVE  Mirror(b) \in Pairs /\ Mirror(b).on = b.on /\ Mirror(b).rdy = b.on
  BY DEF Mirror, Pairs

\* Writing an ON bit into what a read showed leaves the other bit.
LEMMA TurnedIs ==
  ASSUME NEW b \in Pairs, NEW on \in BOOLEAN
  PROVE  /\ [Mirror(b) EXCEPT !.on = on] \in Pairs
         /\ [Mirror(b) EXCEPT !.on = on].on = on
<1>1. \A c \in Pairs : [c EXCEPT !.on = on] \in Pairs /\ [c EXCEPT !.on = on].on = on
  BY DEF Pairs
<1> QED
  BY <1>1, MirrorIs, Zenon

LEMMA ClockInitHolds == ClockInit => ClockInv
<1> SUFFICES ASSUME ClockInit PROVE ClockInv
  OBVIOUS
<1>1. \A o : (o = "HSI") \in BOOLEAN
  OBVIOUS
<1>2. \A a, b \in BOOLEAN : [on |-> a, rdy |-> b] \in Pairs
  BY DEF Pairs
<1>3. stored \in [Oscillators -> Pairs]
  BY <1>1, <1>2 DEF ClockInit
<1>4. cfgr \in [sw : Int, sws : Int]
  BY DEF ClockInit
<1>5. uif \in [Timers -> BOOLEAN] /\ waiting = NotWaiting
  BY DEF ClockInit
<1> QED
  BY <1>3, <1>4, <1>5 DEF ClockInv, ClockTypeOK, Prompt

\* Each way to begin a wait brings about what is waited for.
LEMMA ClockStep == ClockInv /\ [ClockNext]_clockVars => ClockInv'
<1> SUFFICES ASSUME ClockInv, [ClockNext]_clockVars PROVE ClockInv'
  OBVIOUS
<1>1. ClockTypeOK /\ Prompt
  BY DEF ClockInv
<1>2. ASSUME NEW o \in Oscillators, NEW on \in BOOLEAN, Turn(o, on)
      PROVE  ClockInv'
  <2>1. /\ stored' = [p \in Oscillators |->
              IF p = o THEN [Mirror(stored[p]) EXCEPT !.on = on]
              ELSE IF SharesRegister(o, p) THEN Mirror(stored[p])
              ELSE stored[p]]
        /\ waiting' = [what |-> IF on THEN "ready" ELSE "stopped", of |-> o]
        /\ cfgr' = cfgr /\ uif' = uif
    BY <1>2 DEF Turn, Await
  <2>2. \A p \in Oscillators : stored[p] \in Pairs
    BY <1>1 DEF ClockTypeOK
  <2>3. ASSUME NEW p \in Oscillators
        PROVE  stored'[p] \in Pairs /\ (p = o => stored'[p].on = on)
    <3>1. /\ Mirror(stored[p]) \in Pairs
          /\ [Mirror(stored[p]) EXCEPT !.on = on] \in Pairs
          /\ [Mirror(stored[p]) EXCEPT !.on = on].on = on
      BY <2>2, MirrorIs, TurnedIs
    <3>2. CASE p = o
      <4>1. stored'[p] = [Mirror(stored[p]) EXCEPT !.on = on]
        BY <2>1, <3>2
      <4> QED
        BY <3>1, <4>1
    <3>3. CASE p # o
      <4>1. stored'[p] = Mirror(stored[p]) \/ stored'[p] = stored[p]
        BY <2>1, <3>3
      <4> QED
        BY <2>2, <3>1, <3>3, <4>1
    <3> QED
      BY <3>2, <3>3
  <2>4. ClockTypeOK'
    BY <1>1, <2>1, <2>3 DEF ClockTypeOK
  <2>5. Mirror(stored'[o]).rdy = on
    BY <2>3, MirrorIs
  <2>6. waiting'.of = o /\ waiting'.what = IF on THEN "ready" ELSE "stopped"
    BY <2>1
  <2>7. Arrived'
    BY <2>5, <2>6 DEF Arrived, Mirror
  <2> QED
    BY <2>4, <2>7 DEF ClockInv, Prompt
<1>3. ASSUME NEW s \in Oscillators \cap DOMAIN Source, SwitchClock(s)
      PROVE  ClockInv'
  <2>1. /\ cfgr' = [ReadCfgr EXCEPT !.sw = Source[s]]
        /\ waiting' = [what |-> "switch", of |-> s]
        /\ stored' = stored /\ uif' = uif
    BY <1>3 DEF SwitchClock, Await
  <2>2. Source[s] \in Int
    BY DEF Source
  <2>3. cfgr' \in [sw : Int, sws : Int] /\ cfgr'.sw = Source[s]
    BY <1>1, <2>1, <2>2 DEF ClockTypeOK, ReadCfgr
  <2>4. [cfgr' EXCEPT !.sws = cfgr'.sw].sws = Source[s]
    BY <2>3
  <2>5. waiting'.of = s /\ waiting'.what = "switch"
    BY <2>1
  <2>6. Arrived'
    BY <2>4, <2>5 DEF Arrived, ReadCfgr
  <2>7. ClockTypeOK'
    BY <1>1, <2>1, <2>3 DEF ClockTypeOK
  <2> QED
    BY <2>6, <2>7 DEF ClockInv, Prompt
<1>4. ASSUME NEW t \in Timers, PolledDelay(t)
      PROVE  ClockInv'
  <2>1. /\ uif' = [uif EXCEPT ![t] = TRUE]
        /\ waiting' = [what |-> "delay", of |-> t]
        /\ stored' = stored /\ cfgr' = cfgr
    BY <1>4 DEF PolledDelay, Await
  <2>2. uif' \in [Timers -> BOOLEAN] /\ uif'[t]
    BY <1>1, <2>1 DEF ClockTypeOK
  <2>3. waiting'.of = t /\ waiting'.what = "delay"
    BY <2>1
  <2>4. Arrived'
    BY <2>2, <2>3 DEF Arrived
  <2>5. ClockTypeOK'
    BY <1>1, <2>1, <2>2 DEF ClockTypeOK
  <2> QED
    BY <2>4, <2>5 DEF ClockInv, Prompt
<1>5. CASE Configure
  <2>1. /\ waiting' = NotWaiting /\ cfgr' = ReadCfgr
        /\ stored' = stored /\ uif' = uif
    BY <1>5 DEF Configure
  <2>2. cfgr' \in [sw : Int, sws : Int]
    BY <1>1, <2>1 DEF ClockTypeOK, ReadCfgr
  <2> QED
    BY <1>1, <2>1, <2>2 DEF ClockInv, ClockTypeOK, Prompt, NotWaiting
<1>6. CASE EndWait
  <2>1. /\ waiting' = NotWaiting /\ stored' = stored /\ cfgr' = cfgr
        /\ uif' = IF waiting.what = "delay"
                  THEN [uif EXCEPT ![waiting.of] = FALSE] ELSE uif
    BY <1>6 DEF EndWait
  <2>2. uif' \in [Timers -> BOOLEAN]
    BY <1>1, <2>1 DEF ClockTypeOK
  <2> QED
    BY <1>1, <2>1, <2>2 DEF ClockInv, ClockTypeOK, Prompt, NotWaiting
<1>7. CASE UNCHANGED clockVars
  BY <1>1, <1>7 DEF clockVars, ClockInv, ClockTypeOK, Prompt, Arrived, ReadCfgr
<1> QED
  BY <1>2, <1>3, <1>4, <1>5, <1>6, <1>7 DEF ClockNext, ClockStart

\* Whatever oscillators the firmware turns on or off, whatever it writes back
\* with what it read, and wherever the flash driver preempts it: a loop that
\* waits for a ready bit, the clock switch or a delay finds it there at the
\* first look (Stm32F0Rcc.hw_read, PolledOneShotTimer.hw_write).
THEOREM FirstLookEnds == Spec => []Prompt
<1>1. Init => ClockInv
  BY ClockInitHolds DEF Init
<1>2. [Next]_vars => [ClockNext]_clockVars
  BY DEF Next, Flashing, Clocking, vars, clockVars
<1>3. ClockInv => Prompt
  BY DEF ClockInv
<1> QED
  BY <1>1, <1>2, <1>3, ClockStep, PTL DEF Spec
=============================================================================

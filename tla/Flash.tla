------------------------------- MODULE Flash --------------------------------
(***************************************************************************)
(* The page of the flash controller (Stm32F0FlashIface) and the firmware's *)
(* driver in front of it.  A write to the controller is one handler: it    *)
(* may erase a page of the guest's memory on the way.  The driver, EXTERNAL*)
(* and known from the comments of the controller, reads a register before  *)
(* it writes it back with a bit changed, and does not clear STRT itself.   *)
(***************************************************************************)
EXTENDS Integers, Sequences

CONSTANTS
  NumPages, PageSize,   \* 64 pages of 2048 bytes in the device
  MaxErases             \* bounds the erases of a run

ASSUME FlashAssumption ==
  NumPages \in Nat \ {0} /\ PageSize \in Nat \ {0} /\ MaxErases \in Nat

Addresses == 0 .. NumPages * PageSize - 1

\* An address without its low bits.
PageOf(a) == a - (a % PageSize)

Pages == {PageOf(a) : a \in Addresses}
NoPage == -1

VARIABLES
  cr,        \* the bits set in CR, of PG, PER, STRT and LOCK
  ar,        \* the address register
  keyState,  \* how much of the key sequence has been seen
  memory,    \* each page of the guest's flash, "blank" or "written"
  erased,    \* erased_pages
  driver     \* the firmware's driver: its next step and the address it is at

controllerVars == <<cr, ar, keyState, memory, erased>>
flashVars == <<cr, ar, keyState, memory, erased, driver>>

Resting == [pc |-> "idle", addr |-> 0]

FlashInit ==
  /\ cr = {"LOCK"} /\ ar = 0 /\ keyState = 0
  /\ memory = [p \in Pages |-> "blank"] /\ erased = <<>>
  /\ driver = Resting

-----------------------------------------------------------------------------
(* The controller.                                                         *)

\* What the second key leaves of CR, and what any write to KEYR leaves of the
\* sequence.
WriteKey(key) ==
  /\ keyState' = IF keyState = 0 /\ key = "KEY1" THEN 1 ELSE 0
  /\ cr' = IF keyState = 1 /\ key = "KEY2" THEN cr \ {"LOCK"} ELSE cr
  /\ UNCHANGED <<ar, memory, erased>>

\* The page is blanked and recorded; if the emulator cannot write its memory
\* there is a warning and neither happens.
ErasePage(a) ==
  \/ /\ memory' = [memory EXCEPT ![PageOf(a)] = "blank"]
     /\ erased' = Append(erased, PageOf(a))
  \/ UNCHANGED <<memory, erased>>

(* Mutant: the start bit stays set. *)
StartKept(bits) == bits

\* STRT clears itself when the operation is over, which it is at once.
Completed(bits) == bits \ {"STRT"}

\* LOCK is a bit like any other here: it does not keep a write out.
WriteCr(bits) ==
  /\ IF {"PER", "STRT"} \subseteq bits
     THEN ErasePage(ar) /\ cr' = Completed(bits)
     ELSE cr' = bits /\ UNCHANGED <<memory, erased>>
  /\ UNCHANGED <<ar, keyState>>

WriteAr(a) == ar' = a /\ UNCHANGED <<cr, keyState, memory, erased>>

\* SR never holds what was written to it, and never BSY.
ReadSr == {"EOP"}

-----------------------------------------------------------------------------
(* The driver.                                                             *)

At(pc) == driver.pc = pc
Move(pc) == driver' = [driver EXCEPT !.pc = pc]
Rest == driver' = Resting

\* The wear-levelling store wants a page erased.
AskErase(a) ==
  /\ At("idle") /\ Len(erased) < MaxErases
  /\ driver' = [pc |-> "first key", addr |-> a]
  /\ UNCHANGED controllerVars

FirstKey == At("first key") /\ WriteKey("KEY1") /\ Move("second key")
SecondKey == At("second key") /\ WriteKey("KEY2") /\ Move("select")

\* A controller that stays locked is not used.
SelectErase ==
  /\ At("select") /\ "LOCK" \notin cr
  /\ WriteCr(cr \cup {"PER"}) /\ Move("address")

NamePage == At("address") /\ WriteAr(driver.addr) /\ Move("start")
StartErase == At("start") /\ WriteCr(cr \cup {"STRT"}) /\ Move("poll")

\* CR is written back without PER once SR shows that it is over.
EndErase ==
  /\ At("poll") /\ "BSY" \notin ReadSr
  /\ WriteCr(cr \ {"PER"}) /\ Rest

\* The guest's own stores program the page, with PG set around them.
BeginProgram(a) ==
  /\ At("idle") /\ "LOCK" \notin cr
  /\ WriteCr(cr \cup {"PG"})
  /\ driver' = [pc |-> "store", addr |-> a]

Store ==
  /\ At("store")
  /\ memory' = [memory EXCEPT ![PageOf(driver.addr)] = "written"]
  /\ Move("stored")
  /\ UNCHANGED <<cr, ar, keyState, erased>>

EndProgram ==
  /\ At("stored") /\ "BSY" \notin ReadSr
  /\ WriteCr(cr \ {"PG"}) /\ Rest

Lock ==
  /\ At("idle") /\ "LOCK" \notin cr
  /\ WriteCr(cr \cup {"LOCK"})
  /\ UNCHANGED driver

FlashStart ==
  \/ \E a \in Addresses : AskErase(a) \/ BeginProgram(a)
  \/ Lock

FlashContinue ==
  \/ FirstKey \/ SecondKey \/ SelectErase \/ NamePage \/ StartErase \/ EndErase
  \/ Store \/ EndProgram

FlashNext == FlashStart \/ FlashContinue

FlashSpec == FlashInit /\ [][FlashNext]_flashVars

-----------------------------------------------------------------------------
(* Properties.                                                             *)

BeforeStart == {"first key", "second key", "select", "address", "start"}

Asked == IF driver.pc \in BeforeStart THEN PageOf(driver.addr) ELSE NoPage

StoreOf == INSTANCE FlashStore
            WITH content <- memory, asked <- Asked, record <- erased

\* The controller under this driver is a flash store: whatever sequence of
\* erases, stores, locks and failures went before, an erase that is asked for
\* gets through the keys and the start bit, blanks the page the driver named
\* in AR and no other, once, and the list of erased pages is what happened.
IsFlashStore == StoreOf!Spec
=============================================================================

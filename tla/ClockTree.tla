----------------------------- MODULE ClockTree ------------------------------
(***************************************************************************)
(* What the firmware waits for by reading a register again and again: the  *)
(* ready bits and the clock switch of RCC (Stm32F0Rcc), and the update     *)
(* flag of the two timers used for delays (PolledOneShotTimer).  The       *)
(* firmware, EXTERNAL, writes back what it read with some bits changed,    *)
(* so what a register shows beside what was stored finds its way into it.  *)
(***************************************************************************)
EXTENDS Integers

\* The oscillators with an ON and a RDY bit, by the register they share.
Registers == [CR |-> {"HSI", "HSE", "PLL"}, CR2 |-> {"HSI14", "HSI48"},
              CSR |-> {"LSI"}, BDCR |-> {"LSE"}]

\* The values of SW.
Source == [HSI |-> 0, HSE |-> 1, PLL |-> 2]

Timers == {"TIM14", "TIM3"}

CONSTANT Oscillators   \* those the firmware uses

ASSUME ClockAssumption ==
  Oscillators \subseteq UNION {Registers[r] : r \in DOMAIN Registers}

VARIABLES
  stored,    \* the ON and RDY bits each register holds
  cfgr,      \* the SW and SWS fields CFGR holds
  uif,       \* the update flag of each timer
  waiting    \* what the firmware waits for

clockVars == <<stored, cfgr, uif, waiting>>

NotWaiting == [what |-> "nothing", of |-> "nobody"]

\* HSI runs and is stable out of reset.
ClockInit ==
  /\ stored = [o \in Oscillators |-> [on |-> o = "HSI", rdy |-> o = "HSI"]]
  /\ cfgr = [sw |-> 0, sws |-> 0]
  /\ uif = [t \in Timers |-> FALSE]
  /\ waiting = NotWaiting

-----------------------------------------------------------------------------
(* What a read returns.                                                    *)

(* Mutant: the ready bit is set and never cleared. *)
SetsOnly(bits) == IF bits.on THEN [bits EXCEPT !.rdy = TRUE] ELSE bits

Mirror(bits) == [bits EXCEPT !.rdy = bits.on]

\* SWS shows SW.
ReadCfgr == [cfgr EXCEPT !.sws = cfgr.sw]

-----------------------------------------------------------------------------
(* What the firmware does.                                                 *)

SharesRegister(o, p) ==
  \E r \in DOMAIN Registers : {o, p} \subseteq Registers[r]

Await(what, of) ==
  /\ waiting = NotWaiting
  /\ waiting' = [what |-> what, of |-> of]

\* The register is written back as it was read, but for one ON bit.
Turn(o, on) ==
  /\ stored' = [p \in Oscillators |->
       IF p = o THEN [Mirror(stored[p]) EXCEPT !.on = on]
       ELSE IF SharesRegister(o, p) THEN Mirror(stored[p])
       ELSE stored[p]]
  /\ Await(IF on THEN "ready" ELSE "stopped", o)
  /\ UNCHANGED <<cfgr, uif>>

\* The system clock goes over to an oscillator that is ready.
SwitchClock(s) ==
  /\ Mirror(stored[s]).rdy
  /\ cfgr' = [ReadCfgr EXCEPT !.sw = Source[s]]
  /\ Await("switch", s)
  /\ UNCHANGED <<stored, uif>>

\* Another field of CFGR is changed.
Configure ==
  /\ waiting = NotWaiting
  /\ cfgr' = ReadCfgr
  /\ UNCHANGED <<stored, uif, waiting>>

\* gptPolledDelay: the one-pulse start is over as soon as it is written.  (A
\* start without that mode is only counted.)
PolledDelay(t) ==
  /\ uif' = [uif EXCEPT ![t] = TRUE]
  /\ Await("delay", t)
  /\ UNCHANGED <<stored, cfgr>>

Arrived ==
  LET o == waiting.of
  IN \/ waiting.what = "ready" /\ Mirror(stored[o]).rdy
     \/ waiting.what = "stopped" /\ ~Mirror(stored[o]).rdy
     \/ waiting.what = "switch" /\ ReadCfgr.sws = Source[o]
     \/ waiting.what = "delay" /\ uif[o]

\* The loop is left; after a delay SR is cleared by writing zero.
EndWait ==
  /\ Arrived
  /\ waiting' = NotWaiting
  /\ uif' = IF waiting.what = "delay"
            THEN [uif EXCEPT ![waiting.of] = FALSE] ELSE uif
  /\ UNCHANGED <<stored, cfgr>>

ClockStart ==
  \/ \E o \in Oscillators, on \in BOOLEAN : Turn(o, on)
  \/ \E s \in Oscillators \cap DOMAIN Source : SwitchClock(s)
  \/ \E t \in Timers : PolledDelay(t)
  \/ Configure

ClockNext == ClockStart \/ EndWait
=============================================================================

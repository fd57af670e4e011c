-------------------------------- MODULE Gpio --------------------------------
(***************************************************************************)
(* The GPIO band with the world behind it                                  *)
(* (peripheral_models/stm32f0_gpio.py): direct-pin switches and rotary     *)
(* encoders that a client of the bridge operates while the firmware polls  *)
(* their pins.  An encoder's queued rotation is released one quadrature    *)
(* phase per PhaseEvery reads of an input register.                        *)
(*                                                                         *)
(* EXTERNAL: the firmware, QMK's matrix and encoder drivers as the model's *)
(* comments describe them: it makes every scanned pin an input, then polls *)
(* them one by one for ever, all switches, then pad A and pad B of each    *)
(* encoder; an encoder's pulses follow the Gray code, four to a turn.      *)
(* Clocking and pumping, which every access does too, are IrqSeams'.       *)
(***************************************************************************)
EXTENDS Integers, Sequences, FiniteSets

CONSTANTS
    NumSwitches,      \* direct pins, 9 in the code
    NumEncoders,      \* 3 in the code
    PhaseEvery,       \* ENC_PHASE_EVERY: input reads per quadrature phase
    Detents,          \* bound: the detent counts clients ask for
    BootPins,         \* bound: pins the firmware uses before it polls
    MaxTurns,         \* bound: turns either way, and queued at a time
    MayReverse        \* may a client turn back an encoder that still turns?

ASSUME SetsAssumption == NumSwitches \in Nat /\ NumEncoders \in Nat
ASSUME PhaseAssumption == PhaseEvery \in Nat \ {0}
ASSUME ClientAssumption ==
    Detents \subseteq Int /\ MaxTurns \in Nat /\ MayReverse \in BOOLEAN

Switches == 0 .. NumSwitches - 1
Encoders == 0 .. NumEncoders - 1
Pins == ({"sw"} \X Switches) \cup ({"a", "b"} \X Encoders)

ASSUME BootAssumption == BootPins \subseteq Pins

VARIABLES
    mode, pull, odr,  \* MODER, PUPDR, ODR, per scanned pin
    pressed,          \* _pressed
    forcedLow,        \* _forced_low
    phase,            \* _enc_phase
    pending,          \* _enc_pending
    dir,              \* _enc_dir
    idrReads,         \* idr_reads % ENC_PHASE_EVERY
    (* the firmware *)
    todo,             \* the pins it still reads in this poll; none at boot
    padA,             \* pad A's level as just read
    seen,             \* the phase it last decoded, per encoder
    pulses,           \* its pulses not yet a turn
    turns,            \* turns it has reported, forward ones positive
    asked             \* history: detents asked for, forward ones positive

portVars == <<mode, pull, odr>>
worldVars == <<pressed, forcedLow, phase, pending, dir>>
fwVars == <<todo, padA, seen, pulses, turns>>
vars == <<portVars, worldVars, idrReads, fwVars, asked>>

TypeOK ==
    /\ mode \in [Pins -> 0 .. 1] /\ pull \in [Pins -> 0 .. 2]
    /\ odr \in [Pins -> 0 .. 1]
    /\ pressed \subseteq Switches /\ forcedLow \subseteq Pins
    /\ phase \in [Encoders -> 0 .. 3] /\ pending \in [Encoders -> Nat]
    /\ dir \in [Encoders -> {-1, 1}]
    /\ idrReads \in 0 .. PhaseEvery - 1
    /\ todo \in Seq(Pins) /\ padA \in 0 .. 1
    /\ seen \in [Encoders -> 0 .. 3] /\ pulses \in [Encoders -> -3 .. 3]
    /\ turns \in [Encoders -> Int] /\ asked \in [Encoders -> Int]

(* _PHASE: the levels of pad A and pad B.                                  *)
LevelA(p) == IF p \in {1, 2} THEN 1 ELSE 0
LevelB(p) == IF p \in {2, 3} THEN 1 ELSE 0

LowPads(ph) ==
    {<<"a", e>> : e \in {x \in Encoders : LevelA(ph[x]) = 0}} \cup
    {<<"b", e>> : e \in {x \in Encoders : LevelB(ph[x]) = 0}}

Init ==
    /\ mode = [p \in Pins |-> 0] /\ pull = [p \in Pins |-> 0]
    /\ odr = [p \in Pins |-> 0]
    /\ pressed = {} /\ phase = [e \in Encoders |-> 3]
    /\ forcedLow = LowPads(phase)
    /\ pending = [e \in Encoders |-> 0] /\ dir = [e \in Encoders |-> 1]
    /\ idrReads = 0
    /\ todo = <<>> /\ padA = 0 /\ seen = [e \in Encoders |-> 3]
    /\ pulses = [e \in Encoders |-> 0] /\ turns = [e \in Encoders |-> 0]
    /\ asked = [e \in Encoders |-> 0]

-----------------------------------------------------------------------------
(* The bridge: KEY and ENC *)

Press(s) ==
    /\ pressed' = pressed \cup {s}
    /\ forcedLow' = forcedLow \cup {<<"sw", s>>}
    /\ UNCHANGED <<portVars, phase, pending, dir, idrReads, fwVars, asked>>

(* Mutant: every switch's level is dropped, only one is forgotten. *)
ReleaseAll(which) ==
    /\ pressed' = pressed \ which
    /\ forcedLow' = forcedLow \ ({"sw"} \X Switches)
    /\ UNCHANGED <<portVars, phase, pending, dir, idrReads, fwVars, asked>>

(* One switch, or all; one that is not pressed is left alone.              *)
Release(which) ==
    /\ pressed' = pressed \ which
    /\ forcedLow' = forcedLow \ ({"sw"} \X (which \cap pressed))
    /\ UNCHANGED <<portVars, phase, pending, dir, idrReads, fwVars, asked>>

(* "cw" walks the Gray code backwards; at least one detent is queued.      *)
EncoderTurn(e, clockwise, detents) ==
    LET way == IF clockwise THEN -1 ELSE 1
        count == IF detents > 1 THEN detents ELSE 1
    IN  /\ pending[e] + 4 * count <= 4 * MaxTurns
        /\ (asked[e] + way * count) \in -MaxTurns .. MaxTurns
        /\ pending[e] > 0 /\ ~MayReverse => dir[e] = way
        /\ dir' = [dir EXCEPT ![e] = way]
        /\ pending' = [pending EXCEPT ![e] = @ + 4 * count]
        /\ asked' = [asked EXCEPT ![e] = @ + way * count]
        /\ UNCHANGED <<portVars, pressed, forcedLow, phase, idrReads, fwVars>>

Client ==
    \/ \E s \in Switches : Press(s) \/ Release({s})
    \/ Release(Switches)
    \/ \E e \in Encoders, clockwise \in BOOLEAN, detents \in Detents :
         EncoderTurn(e, clockwise, detents)

-----------------------------------------------------------------------------
(* Register accesses *)

(* An output reads what it drives; an input reads its pull, unless the     *)
(* world holds it low.                                                     *)
Idr(pin, low) ==
    IF mode[pin] = 1 THEN odr[pin]
    ELSE IF pull[pin] = 2 \/ pin \in low THEN 0 ELSE 1

(* Mutant: a pending rotation is played out at once. *)
RunEncoders ==
    /\ phase' = [e \in Encoders |-> (phase[e] + dir[e] * pending[e]) % 4]
    /\ pending' = [e \in Encoders |-> 0]
    /\ forcedLow' = (forcedLow \ ({"a", "b"} \X Encoders)) \cup LowPads(phase')

(* Mutant: an encoder with no phase left moves too. *)
AdvanceUnguarded ==
    /\ phase' = [e \in Encoders |-> (phase[e] + dir[e]) % 4]
    /\ pending' = [e \in Encoders |-> pending[e] - 1]
    /\ forcedLow' = (forcedLow \ ({"a", "b"} \X Encoders)) \cup LowPads(phase')

(* Every encoder with phases left moves by one.                            *)
AdvanceEncoders ==
    /\ phase' = [e \in Encoders |->
                   IF pending[e] > 0 THEN (phase[e] + dir[e]) % 4
                   ELSE phase[e]]
    /\ pending' = [e \in Encoders |-> IF pending[e] > 0 THEN pending[e] - 1 ELSE 0]
    /\ forcedLow' = (forcedLow \ ({"a", "b"} \X Encoders)) \cup LowPads(phase')

(* Mutant: every read lets the encoders move. *)
PhaseEachRead ==
    /\ idrReads' = (idrReads + 1) % PhaseEvery
    /\ AdvanceEncoders

(* A read of an input register.                                            *)
CountRead ==
    /\ idrReads' = (idrReads + 1) % PhaseEvery
    /\ IF idrReads' = 0 THEN AdvanceEncoders ELSE UNCHANGED <<phase, pending, forcedLow>>

Write(newMode, newPull, newOdr) ==
    /\ mode' = newMode /\ pull' = newPull /\ odr' = newOdr
    /\ UNCHANGED <<worldVars, idrReads, fwVars, asked>>

(* BSRR sets its lower half, then clears its upper half.                   *)
Bsrr(bs, br) ==
    [p \in Pins |-> IF p \in br THEN 0 ELSE IF p \in bs THEN 1 ELSE odr[p]]

-----------------------------------------------------------------------------
(* The firmware *)

ScanOrder ==
    [i \in 1 .. NumSwitches |-> <<"sw", i - 1>>] \o
    [i \in 1 .. 2 * NumEncoders |->
        <<IF i % 2 = 1 THEN "a" ELSE "b", (i - 1) \div 2>>]

Polling == todo # <<>>

(* Before it polls, it may drive or configure a pin in any way...          *)
Configure ==
    /\ ~Polling
    /\ \E p \in BootPins :
         \/ \E m \in 0 .. 1 : Write([mode EXCEPT ![p] = m], pull, odr)
         \/ \E u \in 0 .. 2 : Write(mode, [pull EXCEPT ![p] = u], odr)
         \/ Write(mode, pull, Bsrr({p}, {}))
         \/ Write(mode, pull, Bsrr({}, {p}))

(* ... and ends with pulled-up inputs.                                     *)
StartPolling ==
    /\ ~Polling
    /\ mode' = [p \in Pins |-> 0] /\ pull' = [p \in Pins |-> 1] /\ UNCHANGED odr
    /\ todo' = ScanOrder
    /\ UNCHANGED <<worldVars, idrReads, padA, seen, pulses, turns, asked>>

(* QMK's table: one phase on is a pulse, one back a pulse less, a jump of  *)
(* two is nothing.                                                         *)
Pulse(from, to) ==
    CASE to = (from + 1) % 4 -> 1
      [] from = (to + 1) % 4 -> -1
      [] OTHER -> 0

PhaseOf(a, b) == CHOOSE p \in 0 .. 3 : LevelA(p) = a /\ LevelB(p) = b

Decode(e, to) ==
    LET now == pulses[e] + Pulse(seen[e], to) IN
    /\ seen' = [seen EXCEPT ![e] = to]
    /\ pulses' = [pulses EXCEPT ![e] = IF now \in {-4, 4} THEN 0 ELSE now]
    /\ turns' = [turns EXCEPT ![e] = IF now = 4 THEN @ + 1
                                     ELSE IF now = -4 THEN @ - 1 ELSE @]

Poll ==
    /\ Polling
    /\ CountRead
    /\ LET pin == Head(todo)
           bit == Idr(pin, forcedLow')
       IN  /\ padA' = IF pin[1] = "a" THEN bit ELSE padA
           /\ IF pin[1] = "b" THEN Decode(pin[2], PhaseOf(padA, bit))
                              ELSE UNCHANGED <<seen, pulses, turns>>
    /\ todo' = IF Len(todo) = 1 THEN ScanOrder ELSE Tail(todo)
    /\ UNCHANGED <<portVars, pressed, dir, asked>>

Next == Client \/ Configure \/ StartPolling \/ Poll

Spec == Init /\ [][Next]_vars

(* The matrix scan never ends, and a booting firmware starts it.           *)
FairSpec == Spec /\ WF_vars(Poll) /\ WF_vars(StartPolling)

-----------------------------------------------------------------------------
(* Properties *)

(* While the firmware polls, a switch's pin reads 0 exactly while the      *)
(* switch is held, and the pads read the encoder's phase, whatever the     *)
(* clients press and release in between.                                   *)
InputsHonest ==
    Polling =>
        /\ \A s \in Switches :
              Idr(<<"sw", s>>, forcedLow) = IF s \in pressed THEN 0 ELSE 1
        /\ \A e \in Encoders :
              /\ Idr(<<"a", e>>, forcedLow) = LevelA(phase[e])
              /\ Idr(<<"b", e>>, forcedLow) = LevelB(phase[e])

(* The firmware decodes one phase at a time, though a phase may pass       *)
(* between its reads of an encoder's two pads: the pacing leaves more      *)
(* input reads between two phases than a poll makes (ENC_PHASE_EVERY).     *)
NoTransitionMissed ==
    [][\A e \in Encoders : seen'[e] # seen[e] => Pulse(seen[e], seen'[e]) # 0]_seen

(* No rotation is lost or turned round: what the firmware has decoded,     *)
(* what the shaft has moved since and what is still queued add up to what  *)
(* was asked for.                                                          *)
RotationKept ==
    \A e \in Encoders :
        4 * asked[e] = 4 * turns[e] + pulses[e] + Pulse(seen[e], phase[e])
                   + dir[e] * pending[e]

(* What was asked of an encoder is reported in the end, unless more is     *)
(* asked meanwhile.                                                        *)
RotationHeard ==
    \A e \in Encoders, n \in -MaxTurns .. MaxTurns :
        asked[e] = n ~> (turns[e] = n \/ asked[e] # n)
=============================================================================

---------------------------- MODULE Gpio_proofs ----------------------------
(***************************************************************************)
(* Theorems of Gpio, for any number of switches and encoders and any       *)
(* pacing: type correctness and honest input levels; and, where the pacing *)
(* leaves more input reads between two phases than a poll makes (16 for 15 *)
(* in the code), that the firmware jumps no phase and, where no client     *)
(* turns an encoder back while it still turns, that no rotation is lost.   *)
(***************************************************************************)
EXTENDS Gpio, SequenceTheorems, TLAPS

PollLength == NumSwitches + 2 * NumEncoders

(* Where a poll reads an encoder's pad B, and how many reads from now on   *)
(* that is, this poll or the next.                                         *)
PlaceB(e) == NumSwitches + 2 * e + 2
UntilB(e) ==
    LET done == PollLength - Len(todo)
    IN  IF done < PlaceB(e) THEN PlaceB(e) - done ELSE PlaceB(e) - done + PollLength

(* A firmware that polls has pulled-up inputs on every pin. *)
AllInputs ==
    Polling => mode = [p \in Pins |-> 0] /\ pull = [p \in Pins |-> 1]

(* The world holds low the pressed switches and the pads that are low in   *)
(* the encoder's phase, and no other pin.                                  *)
LowIn(low, ph) == low = ({"sw"} \X pressed) \cup LowPads(ph)
LowHonest == LowIn(forcedLow, phase)

(* What is left of a poll is the end of the scan order. *)
EndOfScan(s) ==
    /\ Len(s) <= PollLength
    /\ \A i \in 1 .. Len(s) : s[i] = ScanOrder[PollLength - Len(s) + i]
TodoIsSuffix == EndOfScan(todo)

LevelInv == TypeOK /\ AllInputs /\ LowHonest /\ TodoIsSuffix

(* Pad A has been read in the phase in which pad B is about to be read. *)
PadAFresh ==
    \A e \in Encoders :
        Polling /\ todo[1] = <<"b", e>> => padA = LevelA(phase[e])

(* The firmware is at most one phase behind, and catches up before the     *)
(* next phase.                                                             *)
LagsByOne ==
    \A e \in Encoders :
        \/ seen[e] = phase[e]
        \/ /\ Pulse(seen[e], phase[e]) # 0
           /\ Polling /\ idrReads + UntilB(e) < PhaseEvery

PollInv == LevelInv /\ PadAFresh /\ LagsByOne

-----------------------------------------------------------------------------
(* The Gray code *)

LEMMA GrayCode ==
  ASSUME NEW p \in 0 .. 3, NEW w \in {-1, 1}
  PROVE  /\ (p + w) % 4 \in 0 .. 3 /\ (p + w) % 4 # p
         /\ Pulse(p, p) = 0 /\ Pulse(p, (p + w) % 4) = w
<1>1. \/ p = 0 \/ p = 1 \/ p = 2 \/ p = 3
  OBVIOUS
<1>2. w = -1 \/ w = 1
  OBVIOUS
<1> QED
  BY <1>1, <1>2 DEF Pulse

(* The levels of the two pads tell the phases apart. *)
LEMMA PhaseOfLevels ==
  ASSUME NEW p \in 0 .. 3
  PROVE  PhaseOf(LevelA(p), LevelB(p)) = p
<1>1. \A q \in 0 .. 3 : LevelA(q) = LevelA(p) /\ LevelB(q) = LevelB(p) => q = p
  BY DEF LevelA, LevelB
<1> QED
  BY <1>1 DEF PhaseOf

LEMMA LevelType ==
  ASSUME NEW p \in 0 .. 3
  PROVE  LevelA(p) \in 0 .. 1 /\ LevelB(p) \in 0 .. 1
  BY DEF LevelA, LevelB

LEMMA PhaseOfType ==
  ASSUME NEW a \in 0 .. 1, NEW b \in 0 .. 1
  PROVE  PhaseOf(a, b) \in 0 .. 3
<1>1. \E p \in 0 .. 3 : LevelA(p) = a /\ LevelB(p) = b
  <2>1. a = 0 /\ b = 0 => LevelA(0) = a /\ LevelB(0) = b
    BY DEF LevelA, LevelB
  <2>2. a = 1 /\ b = 0 => LevelA(1) = a /\ LevelB(1) = b
    BY DEF LevelA, LevelB
  <2>3. a = 1 /\ b = 1 => LevelA(2) = a /\ LevelB(2) = b
    BY DEF LevelA, LevelB
  <2>4. a = 0 /\ b = 1 => LevelA(3) = a /\ LevelB(3) = b
    BY DEF LevelA, LevelB
  <2> QED
    BY <2>1, <2>2, <2>3, <2>4
<1> QED
  BY <1>1 DEF PhaseOf

(* Pad A read before a phase passes and pad B after it: the firmware sees  *)
(* the old phase or the new one.                                           *)
LEMMA TornRead ==
  ASSUME NEW p \in 0 .. 3, NEW w \in {-1, 1}
  PROVE  PhaseOf(LevelA(p), LevelB((p + w) % 4)) \in {p, (p + w) % 4}
<1> DEFINE q == (p + w) % 4
<1>1. q \in 0 .. 3
  BY GrayCode
<1>2. LevelA(q) = LevelA(p) \/ LevelB(q) = LevelB(p)
  <2>1. \/ p = 0 \/ p = 1 \/ p = 2 \/ p = 3
    OBVIOUS
  <2>2. w = -1 \/ w = 1
    OBVIOUS
  <2> QED
    BY <2>1, <2>2 DEF LevelA, LevelB
<1> HIDE DEF q
<1>3. PhaseOf(LevelA(p), LevelB(p)) = p /\ PhaseOf(LevelA(q), LevelB(q)) = q
  BY <1>1, PhaseOfLevels
<1> QED
  BY <1>2, <1>3 DEF q

-----------------------------------------------------------------------------
(* The scan order *)

LEMMA FunctionIsSeq ==
  ASSUME NEW S, NEW n \in Nat, NEW f \in [1 .. n -> S]
  PROVE  f \in Seq(S) /\ Len(f) = n
<1>1. f \in Seq(S)
  BY SeqDef
<1>2. DOMAIN f = 1 .. n
  OBVIOUS
<1>3. Len(f) \in Nat /\ DOMAIN f = 1 .. Len(f)
  BY <1>1, LenProperties
<1> QED
  BY <1>1, <1>2, <1>3

LEMMA ScanOrderIs ==
  /\ ScanOrder \in Seq(Pins) /\ Len(ScanOrder) = PollLength /\ PollLength \in Nat
  /\ \A i \in 1 .. PollLength :
       ScanOrder[i] = IF i <= NumSwitches THEN <<"sw", i - 1>>
                      ELSE <<IF (i - NumSwitches) % 2 = 1 THEN "a" ELSE "b",
                             (i - NumSwitches - 1) \div 2>>
<1> DEFINE s == [i \in 1 .. NumSwitches |-> <<"sw", i - 1>>]
           t == [i \in 1 .. 2 * NumEncoders |->
                   <<IF i % 2 = 1 THEN "a" ELSE "b", (i - 1) \div 2>>]
<1>1. NumSwitches \in Nat /\ 2 * NumEncoders \in Nat /\ NumEncoders \in Nat
  BY SetsAssumption
<1>2. s \in [1 .. NumSwitches -> Pins]
  BY <1>1 DEF Pins, Switches
<1>3. ASSUME NEW i \in 1 .. 2 * NumEncoders
      PROVE  <<IF i % 2 = 1 THEN "a" ELSE "b", (i - 1) \div 2>> \in Pins
  <2>1. (i - 1) \div 2 \in Encoders
    BY <1>1 DEF Encoders
  <2> QED
    BY <2>1 DEF Pins
<1>4. t \in [1 .. 2 * NumEncoders -> Pins]
  BY <1>3
<1>5. s \in Seq(Pins) /\ Len(s) = NumSwitches /\ t \in Seq(Pins) /\ Len(t) = 2 * NumEncoders
  <2> HIDE DEF s, t
  <2>1. s \in Seq(Pins) /\ Len(s) = NumSwitches
    BY <1>1, <1>2, FunctionIsSeq, ZenonT(30)
  <2>2. t \in Seq(Pins) /\ Len(t) = 2 * NumEncoders
    BY <1>1, <1>4, FunctionIsSeq, ZenonT(30)
  <2> QED
    BY <2>1, <2>2
<1>6. /\ \A i \in 1 .. NumSwitches : s[i] = <<"sw", i - 1>>
      /\ \A i \in 1 .. 2 * NumEncoders :
           t[i] = <<IF i % 2 = 1 THEN "a" ELSE "b", (i - 1) \div 2>>
  OBVIOUS
<1>7. ScanOrder = s \o t
  BY DEF ScanOrder
<1> HIDE DEF s, t
<1>8. /\ s \o t \in Seq(Pins) /\ Len(s \o t) = Len(s) + Len(t)
      /\ \A i \in 1 .. Len(s) + Len(t) :
           (s \o t)[i] = IF i <= Len(s) THEN s[i] ELSE t[i - Len(s)]
  BY <1>5, ConcatProperties
<1>9. ASSUME NEW i \in 1 .. PollLength
      PROVE  ScanOrder[i] = IF i <= NumSwitches THEN <<"sw", i - 1>>
                ELSE <<IF (i - NumSwitches) % 2 = 1 THEN "a" ELSE "b",
                       (i - NumSwitches - 1) \div 2>>
  <2>1. CASE i <= NumSwitches
    BY <1>1, <1>5, <1>6, <1>7, <1>8, <2>1 DEF PollLength
  <2>2. CASE ~(i <= NumSwitches)
    <3>1. i - NumSwitches \in 1 .. 2 * NumEncoders
      BY <1>1, <2>2 DEF PollLength
    <3>2. ScanOrder[i] = t[i - NumSwitches]
      BY <1>1, <1>5, <1>7, <1>8, <2>2 DEF PollLength
    <3> QED
      BY <1>6, <2>2, <3>1, <3>2
  <2> QED
    BY <2>1, <2>2
<1> QED
  BY <1>1, <1>5, <1>7, <1>8, <1>9 DEF PollLength

(* Pad B of an encoder has one place in a poll, right after its pad A. *)
LEMMA PadPlaces ==
  ASSUME NEW e \in Encoders
  PROVE  /\ PlaceB(e) \in 2 .. PollLength
         /\ \A i \in 1 .. PollLength : ScanOrder[i] = <<"b", e>> <=> i = PlaceB(e)
         /\ ScanOrder[PlaceB(e) - 1] = <<"a", e>>
<1>1. NumSwitches \in Nat /\ NumEncoders \in Nat /\ e \in 0 .. NumEncoders - 1
  BY SetsAssumption DEF Encoders
<1>2. PlaceB(e) \in 2 .. PollLength
  BY <1>1 DEF PlaceB, PollLength
<1>3. ScanOrder[PlaceB(e) - 1] = <<"a", e>>
  <2> DEFINE i == PlaceB(e) - 1
             k == i - NumSwitches
  <2>1. i \in 1 .. PollLength /\ ~(i <= NumSwitches) /\ k = 2 * e + 1
    BY <1>1, <1>2, ScanOrderIs DEF PlaceB
  <2> HIDE DEF i
  <2>2. ScanOrder[i] = <<IF k % 2 = 1 THEN "a" ELSE "b", (k - 1) \div 2>>
    BY <2>1, ScanOrderIs
  <2> HIDE DEF k
  <2>3. k % 2 = 1 /\ (k - 1) \div 2 = e
    BY <1>1, <2>1
  <2> QED
    BY <2>2, <2>3 DEF i
<1>4. ScanOrder[PlaceB(e)] = <<"b", e>>
  <2> DEFINE i == PlaceB(e)
             k == i - NumSwitches
  <2>1. i \in 1 .. PollLength /\ ~(i <= NumSwitches) /\ k = 2 * e + 2
    BY <1>1, <1>2, ScanOrderIs DEF PlaceB
  <2> HIDE DEF i
  <2>2. ScanOrder[i] = <<IF k % 2 = 1 THEN "a" ELSE "b", (k - 1) \div 2>>
    BY <2>1, ScanOrderIs
  <2> HIDE DEF k
  <2>3. k % 2 # 1 /\ (k - 1) \div 2 = e
    BY <1>1, <2>1
  <2> QED
    BY <2>2, <2>3 DEF i
<1>5. ASSUME NEW i \in 1 .. PollLength, ScanOrder[i] = <<"b", e>>
      PROVE  i = PlaceB(e)
  <2>1. ~(i <= NumSwitches)
    BY <1>5, ScanOrderIs
  <2>2. (i - NumSwitches) % 2 # 1 /\ (i - NumSwitches - 1) \div 2 = e
    BY <1>5, <2>1, ScanOrderIs
  <2>3. i - NumSwitches \in Nat
    BY <1>1, <2>1, ScanOrderIs
  <2> DEFINE k == i - NumSwitches
  <2>4. k = 2 * e + 2
    <3> HIDE DEF k
    <3>1. k \in Nat /\ k % 2 # 1 /\ (k - 1) \div 2 = e
      BY <2>2, <2>3 DEF k
    <3> QED
      BY <1>1, <3>1
  <2> QED
    BY <1>1, <2>4, ScanOrderIs DEF PlaceB
<1> QED
  BY <1>2, <1>3, <1>4, <1>5

-----------------------------------------------------------------------------
(* Reads of the input registers *)

(* On pulled-up inputs, a switch reads whether it is held and a pad reads  *)
(* the phase of its encoder.                                               *)
LEMMA PinLevels ==
  ASSUME mode = [p \in Pins |-> 0], pull = [p \in Pins |-> 1],
         NEW low, NEW ph \in [Encoders -> 0 .. 3], LowIn(low, ph)
  PROVE  /\ \A s \in Switches : Idr(<<"sw", s>>, low) = IF s \in pressed THEN 0 ELSE 1
         /\ \A e \in Encoders : /\ Idr(<<"a", e>>, low) = LevelA(ph[e])
                                /\ Idr(<<"b", e>>, low) = LevelB(ph[e])
<1>1. \A p \in Pins : Idr(p, low) = IF p \in low THEN 0 ELSE 1
  BY DEF Idr
<1>2. ASSUME NEW s \in Switches
      PROVE  Idr(<<"sw", s>>, low) = IF s \in pressed THEN 0 ELSE 1
  <2>1. <<"sw", s>> \in Pins
    BY DEF Pins
  <2>2. <<"sw", s>> \in low <=> s \in pressed
    BY DEF LowIn, LowPads
  <2> QED
    BY <1>1, <2>1, <2>2
<1>3. ASSUME NEW e \in Encoders
      PROVE  Idr(<<"a", e>>, low) = LevelA(ph[e]) /\ Idr(<<"b", e>>, low) = LevelB(ph[e])
  <2>1. <<"a", e>> \in Pins /\ <<"b", e>> \in Pins
    BY DEF Pins
  <2>2. <<"a", e>> \in low <=> LevelA(ph[e]) = 0
    BY DEF LowIn, LowPads
  <2>3. <<"b", e>> \in low <=> LevelB(ph[e]) = 0
    BY DEF LowIn, LowPads
  <2>4. LevelA(ph[e]) \in 0 .. 1 /\ LevelB(ph[e]) \in 0 .. 1
    BY LevelType
  <2> QED
    BY <1>1, <2>1, <2>2, <2>3, <2>4
<1> QED
  BY <1>2, <1>3

LEMMA LowPadsArePins ==
  ASSUME NEW ph
  PROVE  LowPads(ph) \subseteq {"a", "b"} \X Encoders /\ LowPads(ph) \subseteq Pins
  BY DEF LowPads, Pins

(* What a read makes of the count and of the encoders. *)
LEMMA ReadEffect ==
  ASSUME LevelInv, CountRead, UNCHANGED <<dir, pressed>>
  PROVE  /\ idrReads' \in 0 .. PhaseEvery - 1
         /\ phase' \in [Encoders -> 0 .. 3] /\ pending' \in [Encoders -> Nat]
         /\ forcedLow' \subseteq Pins /\ LowHonest'
         /\ \/ idrReads' = idrReads + 1 /\ phase' = phase /\ pending' = pending
            \/ /\ idrReads' = 0 /\ idrReads = PhaseEvery - 1
               /\ \A e \in Encoders :
                    \/ phase'[e] = phase[e] /\ pending'[e] = pending[e]
                       /\ pending[e] = 0
                    \/ /\ phase'[e] = (phase[e] + dir[e]) % 4
                       /\ pending[e] > 0 /\ pending'[e] = pending[e] - 1
<1> USE DEF LevelInv
<1>1. idrReads \in 0 .. PhaseEvery - 1 /\ PhaseEvery \in Nat \ {0}
      /\ idrReads' = (idrReads + 1) % PhaseEvery
  BY PhaseAssumption DEF TypeOK, CountRead
<1>2. /\ idrReads' \in 0 .. PhaseEvery - 1
      /\ \/ idrReads' = idrReads + 1 /\ idrReads' # 0
         \/ idrReads' = 0 /\ idrReads = PhaseEvery - 1
  <2>1. CASE idrReads = PhaseEvery - 1
    BY <1>1, <2>1
  <2>2. CASE idrReads # PhaseEvery - 1
    <3>1. idrReads + 1 \in 0 .. PhaseEvery - 1
      BY <1>1, <2>2
    <3>2. (idrReads + 1) % PhaseEvery = idrReads + 1
      BY <1>1, <3>1
    <3> QED
      BY <1>1, <3>1, <3>2
  <2> QED
    BY <2>1, <2>2
<1>3. CASE idrReads' # 0
  <2>1. UNCHANGED <<phase, pending, forcedLow>>
    BY <1>3 DEF CountRead
  <2> QED
    BY <1>2, <1>3, <2>1 DEF TypeOK, LowHonest, LowIn
<1>4. CASE idrReads' = 0
  <2>1. AdvanceEncoders
    BY <1>4 DEF CountRead
  <2>2. ASSUME NEW e \in Encoders
        PROVE  /\ phase[e] \in 0 .. 3 /\ pending[e] \in Nat
               /\ (phase[e] + dir[e]) % 4 \in 0 .. 3
    BY GrayCode DEF TypeOK
  <2>3. \A e \in Encoders :
          \/ phase'[e] = phase[e] /\ pending'[e] = 0 /\ pending[e] = 0
          \/ /\ phase'[e] = (phase[e] + dir[e]) % 4
             /\ pending[e] > 0 /\ pending'[e] = pending[e] - 1
    BY <2>1, <2>2 DEF AdvanceEncoders
  <2>4. phase' \in [Encoders -> 0 .. 3]
    BY <2>1, <2>2 DEF AdvanceEncoders
  <2>5. pending' \in [Encoders -> Nat]
    BY <2>1, <2>2 DEF AdvanceEncoders
  <2>6. /\ forcedLow' = (forcedLow \ ({"a", "b"} \X Encoders)) \cup LowPads(phase')
        /\ forcedLow = ({"sw"} \X pressed) \cup LowPads(phase)
    BY <2>1 DEF AdvanceEncoders, LowHonest, LowIn
  <2>7. forcedLow' = ({"sw"} \X pressed) \cup LowPads(phase')
    <3>1. LowPads(phase) \subseteq {"a", "b"} \X Encoders
      BY LowPadsArePins
    <3>2. ({"sw"} \X pressed) \cap ({"a", "b"} \X Encoders) = {}
      OBVIOUS
    <3> QED
      BY <2>6, <3>1, <3>2
  <2>8. forcedLow' \subseteq Pins
    <3>1. {"sw"} \X pressed \subseteq Pins
      BY DEF TypeOK, Pins
    <3> QED
      BY <2>7, <3>1, LowPadsArePins
  <2> QED
    BY <1>2, <1>4, <2>3, <2>4, <2>5, <2>7, <2>8 DEF LowHonest, LowIn
<1> QED
  BY <1>3, <1>4

(* A poll goes on to the next pin of the scan order, in a circle. *)
LEMMA NextPin ==
  ASSUME TypeOK, TodoIsSuffix, Polling,
         todo' = IF Len(todo) = 1 THEN ScanOrder ELSE Tail(todo)
  PROVE  /\ todo[1] \in Pins /\ Head(todo) = todo[1]
         /\ todo' \in Seq(Pins) /\ todo' # <<>> /\ TodoIsSuffix'
         /\ Len(todo) \in 1 .. PollLength
         /\ Len(todo') = IF Len(todo) = 1 THEN PollLength ELSE Len(todo) - 1
         /\ todo[1] = ScanOrder[PollLength - Len(todo) + 1]
         /\ todo'[1] = ScanOrder[PollLength - Len(todo') + 1]
<1> DEFINE n == Len(todo)
<1>1. /\ todo \in Seq(Pins) /\ todo # <<>> /\ n \in Nat \ {0}
      /\ n <= PollLength /\ PollLength \in Nat
      /\ ScanOrder \in Seq(Pins) /\ Len(ScanOrder) = PollLength
      /\ \A i \in 1 .. n : todo[i] = ScanOrder[PollLength - n + i]
  BY EmptySeq, ScanOrderIs DEF TypeOK, Polling, TodoIsSuffix, EndOfScan
<1>2. /\ todo[1] \in Pins /\ Head(todo) = todo[1]
      /\ Tail(todo) \in Seq(Pins) /\ Len(Tail(todo)) = n - 1
      /\ \A i \in 1 .. n - 1 : Tail(todo)[i] = todo[i + 1]
  BY <1>1, HeadTailProperties
<1> HIDE DEF n
<1>3. ASSUME n = 1 PROVE todo' \in Seq(Pins) /\ todo' # <<>> /\ TodoIsSuffix'
  <2>1. todo' = ScanOrder
    BY <1>3 DEF n
  <2>2. ScanOrder # <<>>
    BY <1>1, EmptySeq
  <2>3. EndOfScan(ScanOrder)
    <3>1. \A i \in 1 .. PollLength : PollLength - PollLength + i = i
      BY <1>1
    <3> QED
      BY <1>1, <3>1 DEF EndOfScan
  <2> QED
    BY <1>1, <1>3, <2>1, <2>2, <2>3 DEF TodoIsSuffix
<1>4. ASSUME n # 1 PROVE todo' \in Seq(Pins) /\ todo' # <<>> /\ TodoIsSuffix'
  <2> DEFINE t == Tail(todo)
  <2>1. todo' = t
    BY <1>4 DEF n
  <2>2. /\ t \in Seq(Pins) /\ Len(t) = n - 1 /\ n - 1 \in Nat \ {0}
        /\ \A i \in 1 .. n - 1 : t[i] = todo[i + 1]
    BY <1>1, <1>2, <1>4
  <2> HIDE DEF t
  <2>3. t # <<>>
    BY <2>2, EmptySeq
  <2>4. ASSUME NEW i \in 1 .. n - 1 PROVE t[i] = ScanOrder[PollLength - (n - 1) + i]
    <3>1. i + 1 \in 1 .. n /\ PollLength - n + (i + 1) = PollLength - (n - 1) + i
      BY <1>1
    <3>2. t[i] = todo[i + 1] /\ todo[i + 1] = ScanOrder[PollLength - n + (i + 1)]
      BY <1>1, <2>2, <3>1
    <3> QED
      BY <3>1, <3>2
  <2>5. EndOfScan(t)
    BY <1>1, <2>2, <2>4 DEF EndOfScan
  <2> QED
    BY <1>1, <1>4, <2>1, <2>2, <2>3, <2>5 DEF TodoIsSuffix
<1>5. todo[1] = ScanOrder[PollLength - Len(todo) + 1]
  BY <1>1 DEF n
<1>6. todo'[1] = ScanOrder[PollLength - Len(todo') + 1]
  <2>1. Len(todo') \in Nat \ {0}
    BY <1>3, <1>4, EmptySeq
  <2> QED
    BY <1>3, <1>4, <2>1 DEF TodoIsSuffix, EndOfScan
<1>7. Len(todo') = IF n = 1 THEN PollLength ELSE n - 1
  <2>1. CASE n = 1
    BY <1>1, <2>1 DEF n
  <2>2. CASE n # 1
    BY <1>2, <2>2 DEF n
  <2> QED
    BY <2>1, <2>2
<1>8. todo' \in Seq(Pins) /\ todo' # <<>> /\ TodoIsSuffix'
  BY <1>3, <1>4
<1>9. n \in 1 .. PollLength
  BY <1>1
<1> QED
  BY <1>2, <1>5, <1>6, <1>7, <1>8, <1>9 DEF n

-----------------------------------------------------------------------------
(* The steps and the levels *)

LEMMA ClientLevels == LevelInv /\ Client => LevelInv'
<1> SUFFICES ASSUME LevelInv, Client PROVE LevelInv'
  OBVIOUS
<1> USE DEF LevelInv, portVars, fwVars
<1>1. ASSUME NEW s \in Switches, Press(s) PROVE LevelInv'
  <2>1. pressed' \subseteq Switches /\ forcedLow' \subseteq Pins
    BY <1>1 DEF Press, TypeOK, Pins
  <2>2. TypeOK' /\ AllInputs' /\ TodoIsSuffix'
    BY <1>1, <2>1 DEF Press, TypeOK, AllInputs, Polling, TodoIsSuffix
  <2>3. LowHonest'
    BY <1>1 DEF Press, LowHonest, LowIn
  <2> QED
    BY <2>2, <2>3
<1>2. ASSUME NEW which \in SUBSET Switches, Release(which) PROVE LevelInv'
  <2>1. pressed' \subseteq Switches /\ forcedLow' \subseteq Pins
    BY <1>2 DEF Release, TypeOK
  <2>2. TypeOK' /\ AllInputs' /\ TodoIsSuffix'
    BY <1>2, <2>1 DEF Release, TypeOK, AllInputs, Polling, TodoIsSuffix
  <2>3. LowHonest'
    <3>1. LowPads(phase) \subseteq {"a", "b"} \X Encoders
      BY LowPadsArePins
    <3>2. /\ forcedLow' = forcedLow \ ({"sw"} \X (which \cap pressed))
          /\ pressed' = pressed \ which /\ phase' = phase
          /\ forcedLow = ({"sw"} \X pressed) \cup LowPads(phase)
      BY <1>2 DEF Release, LowHonest, LowIn
    <3>3. LowPads(phase) \cap ({"sw"} \X (which \cap pressed)) = {}
      BY <3>1
    <3>4. ({"sw"} \X pressed) \ ({"sw"} \X (which \cap pressed)) = {"sw"} \X (pressed \ which)
      OBVIOUS
    <3>5. forcedLow' = ({"sw"} \X (pressed \ which)) \cup LowPads(phase)
      BY <3>2, <3>3, <3>4
    <3> QED
      BY <3>2, <3>5 DEF LowHonest, LowIn
  <2> QED
    BY <2>2, <2>3
<1>3. ASSUME NEW e \in Encoders, NEW clockwise \in BOOLEAN, NEW detents \in Detents,
             EncoderTurn(e, clockwise, detents)
      PROVE  LevelInv'
  <2> DEFINE way == IF clockwise THEN -1 ELSE 1
             count == IF detents > 1 THEN detents ELSE 1
  <2>1. way \in {-1, 1} /\ count \in Nat
    BY ClientAssumption
  <2>2. /\ dir' = [dir EXCEPT ![e] = way]
        /\ pending' = [pending EXCEPT ![e] = pending[e] + 4 * count]
        /\ asked' = [asked EXCEPT ![e] = asked[e] + way * count]
        /\ UNCHANGED <<portVars, pressed, forcedLow, phase, idrReads, fwVars>>
    BY <1>3 DEF EncoderTurn
  <2> HIDE DEF way, count
  <2>3. pending[e] + 4 * count \in Nat /\ asked[e] + way * count \in Int
    BY <2>1 DEF TypeOK
  <2>4. dir' \in [Encoders -> {-1, 1}] /\ pending' \in [Encoders -> Nat]
        /\ asked' \in [Encoders -> Int]
    BY <2>1, <2>2, <2>3 DEF TypeOK
  <2> QED
    BY <2>2, <2>4 DEF TypeOK, AllInputs, Polling, LowHonest, LowIn, TodoIsSuffix
<1> QED
  BY <1>1, <1>2, <1>3 DEF Client

LEMMA ConfigureLevels == LevelInv /\ Configure => LevelInv'
<1> SUFFICES ASSUME LevelInv, Configure PROVE LevelInv'
  OBVIOUS
<1> USE DEF LevelInv, worldVars, fwVars
<1>1. ASSUME NEW m \in [Pins -> 0 .. 1], NEW u \in [Pins -> 0 .. 2],
             NEW o \in [Pins -> 0 .. 1], Write(m, u, o)
      PROVE  LevelInv'
  BY <1>1 DEF Configure, Write, TypeOK, AllInputs, Polling, LowHonest, LowIn,
     TodoIsSuffix
<1>2. PICK p \in BootPins :
        \/ \E m \in 0 .. 1 : Write([mode EXCEPT ![p] = m], pull, odr)
        \/ \E u \in 0 .. 2 : Write(mode, [pull EXCEPT ![p] = u], odr)
        \/ Write(mode, pull, Bsrr({p}, {}))
        \/ Write(mode, pull, Bsrr({}, {p}))
  BY DEF Configure
<1>3. /\ mode \in [Pins -> 0 .. 1] /\ pull \in [Pins -> 0 .. 2]
      /\ odr \in [Pins -> 0 .. 1]
      /\ Bsrr({p}, {}) \in [Pins -> 0 .. 1] /\ Bsrr({}, {p}) \in [Pins -> 0 .. 1]
  BY DEF TypeOK, Bsrr
<1>4. CASE \E m \in 0 .. 1 : Write([mode EXCEPT ![p] = m], pull, odr)
  <2>1. PICK m \in 0 .. 1 : Write([mode EXCEPT ![p] = m], pull, odr)
    BY <1>4
  <2>2. [mode EXCEPT ![p] = m] \in [Pins -> 0 .. 1]
    BY <1>3
  <2> QED
    BY <1>1, <1>3, <2>1, <2>2
<1>5. CASE \E u \in 0 .. 2 : Write(mode, [pull EXCEPT ![p] = u], odr)
  <2>1. PICK u \in 0 .. 2 : Write(mode, [pull EXCEPT ![p] = u], odr)
    BY <1>5
  <2>2. [pull EXCEPT ![p] = u] \in [Pins -> 0 .. 2]
    BY <1>3
  <2> QED
    BY <1>1, <1>3, <2>1, <2>2
<1> QED
  BY <1>1, <1>2, <1>3, <1>4, <1>5

LEMMA StartLevels == LevelInv /\ StartPolling => LevelInv'
<1> SUFFICES ASSUME LevelInv, StartPolling PROVE LevelInv'
  OBVIOUS
<1>1. todo' = ScanOrder /\ ScanOrder \in Seq(Pins) /\ EndOfScan(ScanOrder)
  <2>1. PollLength \in Nat /\ Len(ScanOrder) = PollLength
    BY ScanOrderIs
  <2>2. \A i \in 1 .. PollLength : PollLength - PollLength + i = i
    BY <2>1
  <2> QED
    BY <2>1, <2>2, ScanOrderIs DEF StartPolling, EndOfScan
<1>2. TodoIsSuffix'
  BY <1>1 DEF TodoIsSuffix
<1> QED
  BY <1>1, <1>2 DEF LevelInv, StartPolling, worldVars, TypeOK, AllInputs, LowHonest, LowIn

(* What the firmware makes of a phase it has decoded. *)
LEMMA DecodeEffect ==
  ASSUME TypeOK, NEW e \in Encoders, NEW to \in 0 .. 3, Decode(e, to)
  PROVE  /\ seen' \in [Encoders -> 0 .. 3] /\ pulses' \in [Encoders -> -3 .. 3]
         /\ turns' \in [Encoders -> Int] /\ seen'[e] = to
         /\ 4 * turns'[e] + pulses'[e] = 4 * turns[e] + pulses[e] + Pulse(seen[e], to)
         /\ \A f \in Encoders \ {e} :
              seen'[f] = seen[f] /\ pulses'[f] = pulses[f] /\ turns'[f] = turns[f]
<1> DEFINE now == pulses[e] + Pulse(seen[e], to)
           p == IF now \in {-4, 4} THEN 0 ELSE now
           t == IF now = 4 THEN turns[e] + 1 ELSE IF now = -4 THEN turns[e] - 1 ELSE turns[e]
<1>1. Pulse(seen[e], to) \in -1 .. 1
  BY DEF Pulse
<1>2. pulses[e] \in -3 .. 3 /\ turns[e] \in Int
  BY DEF TypeOK
<1>3. now \in -4 .. 4
  BY <1>1, <1>2
<1>4. /\ seen' = [seen EXCEPT ![e] = to] /\ pulses' = [pulses EXCEPT ![e] = p]
      /\ turns' = [turns EXCEPT ![e] = t]
  BY DEF Decode
<1>5. p \in -3 .. 3 /\ t \in Int /\ 4 * t + p = 4 * turns[e] + now
  <2> HIDE DEF now
  <2> QED
    BY <1>2, <1>3
<1>6. now = pulses[e] + Pulse(seen[e], to)
  OBVIOUS
<1> HIDE DEF now, p, t
<1>7. 4 * t + p = 4 * turns[e] + pulses[e] + Pulse(seen[e], to)
  BY <1>1, <1>2, <1>5, <1>6
<1> QED
  BY <1>4, <1>5, <1>7 DEF TypeOK

(* A poll reads the pin's true level, into padA or into the decoder. *)
LEMMA PollEffect ==
  ASSUME LevelInv, Poll
  PROVE  /\ LowHonest' /\ todo[1] \in Pins
         /\ \A e \in Encoders : todo[1] = <<"a", e>> => padA' = LevelA(phase'[e])
         /\ todo[1][1] # "a" => padA' = padA
         /\ \A e \in Encoders : todo[1] = <<"b", e>> =>
              /\ Decode(e, PhaseOf(padA, LevelB(phase'[e])))
              /\ PhaseOf(padA, LevelB(phase'[e])) \in 0 .. 3
         /\ todo[1][1] # "b" => UNCHANGED <<seen, pulses, turns>>
         /\ padA' \in 0 .. 1
         /\ \A e \in Encoders : phase'[e] \in 0 .. 3
<1> DEFINE pin == todo[1]
           bit == Idr(pin, forcedLow')
<1>1. todo[1] = Head(todo) /\ pin \in Pins
  BY NextPin DEF Poll, LevelInv
<1>2. /\ padA' = IF pin[1] = "a" THEN bit ELSE padA
      /\ IF pin[1] = "b" THEN Decode(pin[2], PhaseOf(padA, bit))
                         ELSE UNCHANGED <<seen, pulses, turns>>
  BY <1>1 DEF Poll
<1>3. LowHonest' /\ phase' \in [Encoders -> 0 .. 3]
  BY ReadEffect DEF Poll, LevelInv
<1>4. LowIn(forcedLow', phase')
  BY <1>3 DEF LowHonest, LowIn, Poll
<1>5. mode = [p \in Pins |-> 0] /\ pull = [p \in Pins |-> 1]
  BY DEF LevelInv, AllInputs, Poll
<1>6. /\ \A e \in Encoders : /\ Idr(<<"a", e>>, forcedLow') = LevelA(phase'[e])
                             /\ Idr(<<"b", e>>, forcedLow') = LevelB(phase'[e])
  BY <1>3, <1>4, <1>5, PinLevels
<1>7. bit \in 0 .. 1 /\ padA \in 0 .. 1
  BY <1>1, <1>5 DEF Idr, LevelInv, TypeOK
<1> HIDE DEF pin, bit
<1>8. ASSUME NEW e \in Encoders, pin = <<"a", e>> PROVE padA' = LevelA(phase'[e])
  BY <1>2, <1>6, <1>8 DEF bit
<1>9. ASSUME NEW e \in Encoders, pin = <<"b", e>>
      PROVE  /\ Decode(e, PhaseOf(padA, LevelB(phase'[e])))
             /\ PhaseOf(padA, LevelB(phase'[e])) \in 0 .. 3
  <2>1. pin[1] = "b" /\ pin[2] = e /\ bit = LevelB(phase'[e])
    BY <1>6, <1>9 DEF bit
  <2>2. Decode(e, PhaseOf(padA, LevelB(phase'[e])))
    BY <1>2, <2>1
  <2>3. PhaseOf(padA, bit) \in 0 .. 3
    BY <1>7, PhaseOfType
  <2> QED
    BY <2>1, <2>2, <2>3
<1> QED
  BY <1>1, <1>2, <1>3, <1>7, <1>8, <1>9 DEF pin

LEMMA PollLevels == LevelInv /\ Poll => LevelInv'
<1> SUFFICES ASSUME LevelInv, Poll PROVE LevelInv'
  OBVIOUS
<1> USE DEF LevelInv
<1>1. /\ idrReads' \in 0 .. PhaseEvery - 1
      /\ phase' \in [Encoders -> 0 .. 3] /\ pending' \in [Encoders -> Nat]
      /\ forcedLow' \subseteq Pins /\ LowHonest'
  BY ReadEffect DEF Poll
<1>2. todo' \in Seq(Pins) /\ TodoIsSuffix' /\ todo' # <<>> /\ todo[1] \in Pins
  BY NextPin DEF Poll
<1>3. seen' \in [Encoders -> 0 .. 3] /\ pulses' \in [Encoders -> -3 .. 3]
      /\ turns' \in [Encoders -> Int]
  <2>1. CASE todo[1][1] # "b"
    BY <2>1, PollEffect DEF TypeOK
  <2>2. CASE todo[1][1] = "b"
    <3>1. PICK e \in Encoders : todo[1] = <<"b", e>>
      BY <1>2, <2>2 DEF Pins
    <3> QED
      BY <3>1, PollEffect, DecodeEffect
  <2> QED
    BY <2>1, <2>2
<1>4. TypeOK'
  BY <1>1, <1>2, <1>3, PollEffect DEF TypeOK, Poll, portVars
<1>5. AllInputs'
  BY <1>2 DEF AllInputs, Poll, portVars
<1> QED
  BY <1>1, <1>2, <1>4, <1>5

LEMMA NextLevels == LevelInv /\ [Next]_vars => LevelInv'
<1>1. ASSUME LevelInv, UNCHANGED vars PROVE LevelInv'
  BY <1>1 DEF vars, portVars, worldVars, fwVars, LevelInv, TypeOK, AllInputs, Polling,
     LowHonest, LowIn, TodoIsSuffix
<1> QED
  BY <1>1, ClientLevels, ConfigureLevels, StartLevels, PollLevels DEF Next

LEMMA InitLevels == Init => LevelInv
<1> SUFFICES ASSUME Init PROVE LevelInv
  OBVIOUS
<1>1. TypeOK
  <2>1. 0 \in 0 .. PhaseEvery - 1
    BY PhaseAssumption
  <2>2. forcedLow \subseteq Pins
    BY LowPadsArePins DEF Init
  <2> QED
    BY <2>1, <2>2 DEF Init, TypeOK
<1>2. PollLength \in Nat
  BY ScanOrderIs
<1> QED
  BY <1>1, <1>2 DEF Init, LevelInv, AllInputs, Polling, LowHonest, LowIn,
     TodoIsSuffix, EndOfScan

(* Every variable keeps its type, and the world's levels agree with what   *)
(* is pressed and with the encoders' phases.                               *)
THEOREM Levels == Spec => []LevelInv
  BY InitLevels, NextLevels, PTL DEF Spec

(* Type correctness, for any number of switches and encoders. *)
THEOREM TypeCorrect == Spec => []TypeOK
<1>1. LevelInv => TypeOK
  BY DEF LevelInv
<1> QED
  BY Levels, <1>1, PTL

(* The firmware reads a pressed switch low, a released one high, and the   *)
(* pads as the encoder's phase says: releasing some pins, or all switches, *)
(* neither lifts another nor leaves one low.                               *)
THEOREM HonestInputs == Spec => []InputsHonest
<1>1. LevelInv => InputsHonest
  <2> SUFFICES ASSUME LevelInv, Polling
               PROVE  /\ \A s \in Switches : Idr(<<"sw", s>>, forcedLow)
                             = IF s \in pressed THEN 0 ELSE 1
                      /\ \A e \in Encoders :
                           /\ Idr(<<"a", e>>, forcedLow) = LevelA(phase[e])
                           /\ Idr(<<"b", e>>, forcedLow) = LevelB(phase[e])
    BY DEF InputsHonest
  <2> QED
    BY PinLevels DEF LevelInv, AllInputs, LowHonest, TypeOK
<1> QED
  BY Levels, <1>1, PTL

-----------------------------------------------------------------------------
(* The pacing *)

LEMMA UntilBBounds ==
  ASSUME NEW e \in Encoders, Len(todo) \in 1 .. PollLength
  PROVE  UntilB(e) \in 1 .. PollLength
<1>1. PollLength \in Nat /\ PlaceB(e) \in 2 .. PollLength
  BY ScanOrderIs, PadPlaces
<1> QED
  BY <1>1 DEF UntilB

(* A read of another pin brings the read of pad B nearer by one. *)
LEMMA UntilBStep ==
  ASSUME NEW e \in Encoders, Len(todo) \in 1 .. PollLength,
         Len(todo') = IF Len(todo) = 1 THEN PollLength ELSE Len(todo) - 1,
         todo[1] = ScanOrder[PollLength - Len(todo) + 1]
  PROVE  /\ UntilB(e)' \in 1 .. PollLength
         /\ todo[1] # <<"b", e>> => UntilB(e)' = UntilB(e) - 1
<1> DEFINE n == Len(todo)
           m == Len(todo')
           b == PlaceB(e)
           after(k) == IF PollLength - k < b THEN b - (PollLength - k)
                       ELSE b - (PollLength - k) + PollLength
<1>1. PollLength \in Nat /\ b \in 2 .. PollLength /\ n \in 1 .. PollLength
  BY ScanOrderIs, PadPlaces
<1>2. PollLength - n + 1 \in 1 .. PollLength
  BY <1>1
<1>3. todo[1] = <<"b", e>> <=> PollLength - n + 1 = b
  BY <1>2, PadPlaces
<1>4. UntilB(e) = after(n) /\ UntilB(e)' = after(m)
  BY DEF UntilB, PollLength, PlaceB
<1>5. m = IF n = 1 THEN PollLength ELSE n - 1
  OBVIOUS
<1> HIDE DEF n, m, b
<1>6. after(m) \in 1 .. PollLength
  BY <1>1, <1>5
<1>7. PollLength - n + 1 # b => after(m) = after(n) - 1
  BY <1>1, <1>5
<1> QED
  BY <1>3, <1>4, <1>6, <1>7

(* What the firmware decodes of an encoder in one read. *)
Decodes(e, to) ==
    /\ seen'[e] = to
    /\ 4 * turns'[e] + pulses'[e] = 4 * turns[e] + pulses[e] + Pulse(seen[e], to)

Rests(e) == phase'[e] = phase[e] /\ pending'[e] = pending[e]
Moves(e) ==
    /\ seen[e] = phase[e] /\ phase'[e] = (phase[e] + dir[e]) % 4
    /\ pending[e] > 0 /\ pending'[e] = pending[e] - 1

(* With the pacing, an encoder moves on only when the firmware has decoded *)
(* the phase before, and what the firmware decodes is where the encoder    *)
(* now is, or what it had decoded before.                                  *)
LEMMA PollSees ==
  ASSUME PhaseEvery > PollLength, PollInv, Poll, NEW e \in Encoders
  PROVE  /\ Rests(e) \/ Moves(e)
         /\ Decodes(e, seen[e]) \/ Decodes(e, phase'[e])
         /\ todo[1] = <<"b", e>> /\ phase' = phase => seen'[e] = phase[e]
         /\ idrReads' # 0 => phase' = phase /\ idrReads' = idrReads + 1
         /\ idrReads' = 0 => seen[e] = phase[e]
<1> USE DEF PollInv, LevelInv
<1>1. \/ idrReads' = idrReads + 1 /\ phase' = phase /\ pending' = pending
      \/ /\ idrReads' = 0 /\ idrReads = PhaseEvery - 1
         /\ \A f \in Encoders :
              \/ phase'[f] = phase[f] /\ pending'[f] = pending[f]
                 /\ pending[f] = 0
              \/ /\ phase'[f] = (phase[f] + dir[f]) % 4
                 /\ pending[f] > 0 /\ pending'[f] = pending[f] - 1
  BY ReadEffect DEF Poll
<1>2. /\ Len(todo) \in 1 .. PollLength /\ todo[1] \in Pins
  BY NextPin DEF Poll
<1>3. UntilB(e) \in 1 .. PollLength
  BY <1>2, UntilBBounds
<1>4. idrReads \in 0 .. PhaseEvery - 1 /\ PhaseEvery \in Nat /\ PollLength \in Nat
  BY ScanOrderIs, PhaseAssumption DEF TypeOK
<1>5. idrReads = PhaseEvery - 1 => seen[e] = phase[e]
  BY <1>3, <1>4 DEF LagsByOne
<1>6. idrReads' # 0 => idrReads' = idrReads + 1 /\ phase' = phase /\ pending' = pending
  BY <1>1
<1>7. idrReads' = 0 => seen[e] = phase[e]
  BY <1>1, <1>4, <1>5
<1>8. Rests(e) \/ Moves(e)
  BY <1>1, <1>5 DEF Rests, Moves
<1>9. phase[e] \in 0 .. 3 /\ seen[e] \in 0 .. 3 /\ dir[e] \in {-1, 1}
  BY DEF TypeOK
<1>10. CASE todo[1] # <<"b", e>>
  <2>1. seen'[e] = seen[e] /\ turns'[e] = turns[e] /\ pulses'[e] = pulses[e]
    <3>1. CASE todo[1][1] # "b"
      BY <3>1, PollEffect
    <3>2. CASE todo[1][1] = "b"
      <4>1. PICK f \in Encoders : todo[1] = <<"b", f>>
        BY <1>2, <3>2 DEF Pins
      <4>2. f # e
        BY <1>10, <4>1
      <4> QED
        BY <4>1, <4>2, PollEffect, DecodeEffect
    <3> QED
      BY <3>1, <3>2
  <2>2. Pulse(seen[e], seen[e]) = 0
    BY <1>9, GrayCode
  <2>3. turns[e] \in Int /\ pulses[e] \in Int
    <3>1. turns \in [Encoders -> Int] /\ pulses \in [Encoders -> -3 .. 3]
      BY DEF TypeOK
    <3>2. turns[e] \in Int /\ pulses[e] \in -3 .. 3
      BY <3>1
    <3> QED
      BY <3>2
  <2>4. Decodes(e, seen[e])
    BY <2>1, <2>2, <2>3 DEF Decodes
  <2> QED
    BY <1>6, <1>7, <1>8, <1>10, <2>4
<1>11. CASE todo[1] = <<"b", e>>
  <2> DEFINE to == PhaseOf(padA, LevelB(phase'[e]))
  <2>1. padA = LevelA(phase[e])
    BY <1>11 DEF PadAFresh, Poll
  <2>2. Decodes(e, to)
    BY <1>11, PollEffect, DecodeEffect DEF Decodes
  <2>3. CASE Rests(e)
    <3>1. to = phase[e] /\ phase'[e] = phase[e]
      BY <1>9, <2>1, <2>3, PhaseOfLevels DEF Rests
    <3>2. seen'[e] = phase[e] /\ Decodes(e, phase'[e])
      BY <2>2, <3>1 DEF Decodes
    <3> QED
      BY <1>6, <1>7, <1>8, <3>2
  <2>4. CASE Moves(e)
    <3>1. to \in {phase[e], phase'[e]} /\ phase'[e] # phase[e] /\ seen[e] = phase[e]
      BY <1>9, <2>1, <2>4, TornRead, GrayCode DEF Moves
    <3>2. Decodes(e, seen[e]) \/ Decodes(e, phase'[e])
      BY <2>2, <3>1
    <3> QED
      BY <1>6, <1>7, <1>8, <3>1, <3>2
  <2> QED
    BY <1>8, <2>3, <2>4
<1> QED
  BY <1>10, <1>11

LEMMA NextPaced ==
  ASSUME PhaseEvery > PollLength
  PROVE  PollInv /\ [Next]_vars => PollInv'
<1> SUFFICES ASSUME PollInv, [Next]_vars PROVE PollInv'
  OBVIOUS
<1>1. LevelInv'
  BY NextLevels DEF PollInv
<1> USE DEF PollInv
<1>2. CASE UNCHANGED <<phase, seen, todo, idrReads, padA>>
  <2>1. \A e \in Encoders : UntilB(e)' = UntilB(e)
    BY <1>2 DEF UntilB, PollLength, PlaceB
  <2> QED
    BY <1>1, <1>2, <2>1 DEF PadAFresh, LagsByOne, Polling
<1>3. Client \/ Configure \/ UNCHANGED vars
        => UNCHANGED <<phase, seen, todo, idrReads, padA>>
  BY DEF Client, Press, Release, EncoderTurn, Configure, Write, worldVars, fwVars,
     vars
<1>4. CASE StartPolling
  <2>1. /\ UNCHANGED <<phase, seen, idrReads, padA>> /\ todo' = ScanOrder
        /\ \A e \in Encoders : seen[e] = phase[e]
    BY <1>4 DEF StartPolling, worldVars, LagsByOne
  <2>2. ASSUME NEW e \in Encoders PROVE todo'[1] # <<"b", e>>
    <3>1. PlaceB(e) \in 2 .. PollLength /\ PollLength \in Nat
      BY ScanOrderIs, PadPlaces
    <3>2. 1 \in 1 .. PollLength /\ 1 # PlaceB(e)
      BY <3>1
    <3> QED
      BY <2>1, <3>2, PadPlaces
  <2> QED
    BY <1>1, <2>1, <2>2 DEF PadAFresh, LagsByOne
<1>5. CASE Poll
  <2>1. /\ todo[1] \in Pins /\ todo' # <<>>
        /\ Len(todo) \in 1 .. PollLength
        /\ Len(todo') = IF Len(todo) = 1 THEN PollLength ELSE Len(todo) - 1
        /\ todo[1] = ScanOrder[PollLength - Len(todo) + 1]
        /\ todo'[1] = ScanOrder[PollLength - Len(todo') + 1]
    BY <1>5, NextPin DEF Poll, LevelInv
  <2>2. ASSUME NEW e \in Encoders, todo'[1] = <<"b", e>>
        PROVE  padA' = LevelA(phase'[e])
    <3> DEFINE n == Len(todo)
               m == Len(todo')
    <3>1. PlaceB(e) \in 2 .. PollLength /\ PollLength \in Nat
      BY ScanOrderIs, PadPlaces
    <3>2. n \in 1 .. PollLength /\ m = IF n = 1 THEN PollLength ELSE n - 1
      BY <2>1
    <3>3. ScanOrder[PollLength - m + 1] = <<"b", e>>
          /\ todo[1] = ScanOrder[PollLength - n + 1]
      BY <2>1, <2>2
    <3> HIDE DEF n, m
    <3>4. PollLength - m + 1 \in 1 .. PollLength
      BY <3>1, <3>2
    <3>5. PollLength - m + 1 = PlaceB(e)
      BY <3>3, <3>4, PadPlaces
    <3>6. PollLength - n + 1 = PlaceB(e) - 1
      BY <3>1, <3>2, <3>5
    <3>7. todo[1] = <<"a", e>>
      BY <3>3, <3>6, PadPlaces
    <3> QED
      BY <1>5, <3>7, PollEffect
  <2>3. PadAFresh'
    BY <2>2 DEF PadAFresh
  <2>4. ASSUME NEW e \in Encoders
        PROVE  \/ seen'[e] = phase'[e]
               \/ /\ Pulse(seen'[e], phase'[e]) # 0
                  /\ idrReads' + UntilB(e)' < PhaseEvery
    <3>1. /\ UntilB(e)' \in 1 .. PollLength
          /\ todo[1] # <<"b", e>> => UntilB(e)' = UntilB(e) - 1
      BY <2>1, UntilBStep
    <3>2. UntilB(e) \in 1 .. PollLength /\ idrReads \in Nat /\ PhaseEvery \in Nat
          /\ PollLength \in Nat
      BY <2>1, UntilBBounds, ScanOrderIs, PhaseAssumption DEF LevelInv, TypeOK
    <3>3. /\ Rests(e) \/ Moves(e)
          /\ Decodes(e, seen[e]) \/ Decodes(e, phase'[e])
          /\ todo[1] = <<"b", e>> /\ phase' = phase => seen'[e] = phase[e]
          /\ idrReads' # 0 => phase' = phase /\ idrReads' = idrReads + 1
          /\ idrReads' = 0 => seen[e] = phase[e]
      BY <1>5, PollSees
    <3>4. phase[e] \in 0 .. 3 /\ dir[e] \in {-1, 1}
      BY DEF LevelInv, TypeOK
    <3>5. CASE idrReads' = 0
      <4>1. idrReads' + UntilB(e)' < PhaseEvery
        BY <3>1, <3>2, <3>5
      <4>2. Pulse(phase[e], (phase[e] + dir[e]) % 4) = dir[e]
        BY <3>4, GrayCode
      <4>3. seen[e] = phase[e] /\ seen'[e] \in {phase[e], phase'[e]}
        BY <3>3, <3>5 DEF Decodes
      <4> QED
        BY <3>3, <3>4, <4>1, <4>2, <4>3 DEF Rests, Moves
    <3>6. CASE idrReads' # 0 /\ seen'[e] # phase'[e]
      <4>1. phase' = phase /\ idrReads' = idrReads + 1 /\ todo[1] # <<"b", e>>
        BY <3>3, <3>6
      <4>2. seen'[e] = seen[e]
        BY <3>3, <3>6 DEF Decodes
      <4>3. Pulse(seen[e], phase[e]) # 0 /\ idrReads + UntilB(e) < PhaseEvery
        BY <3>6, <4>1, <4>2 DEF LagsByOne
      <4>4. idrReads' + UntilB(e)' = idrReads + UntilB(e)
        BY <3>1, <3>2, <4>1
      <4> QED
        BY <4>1, <4>2, <4>3, <4>4
    <3> QED
      BY <3>5, <3>6
  <2>5. LagsByOne'
    BY <2>1, <2>4 DEF LagsByOne, Polling
  <2> QED
    BY <1>1, <2>3, <2>5
<1> QED
  BY <1>2, <1>3, <1>4, <1>5 DEF Next

LEMMA InitPaced == PhaseEvery > PollLength /\ Init => PollInv
<1> SUFFICES ASSUME Init PROVE PollInv
  OBVIOUS
<1>1. LevelInv
  BY InitLevels
<1>2. todo = <<>> /\ \A e \in Encoders : phase[e] = seen[e]
  BY DEF Init
<1>3. PadAFresh
  BY <1>2 DEF PadAFresh, Polling
<1>4. LagsByOne
  BY <1>2 DEF LagsByOne, Polling
<1> QED
  BY <1>1, <1>3, <1>4 DEF PollInv

(* ENC_PHASE_EVERY is one more than the reads of a poll in the code, 16 to *)
(* 9 switches and 3 encoders: then the firmware is never more than one     *)
(* phase behind, and catches up before the next.                           *)
THEOREM Paced ==
  ASSUME PhaseEvery > PollLength
  PROVE  Spec => []PollInv
<1>1. PollInv /\ [Next]_vars => PollInv'
  BY NextPaced
<1>2. Init => PollInv
  BY InitPaced
<1> QED
  BY <1>1, <1>2, PTL DEF Spec

(* With that pacing the firmware decodes no jump of two phases.            *)
THEOREM NoJump ==
  ASSUME PhaseEvery > PollLength
  PROVE  Spec => NoTransitionMissed
<1>1. ASSUME PollInv, Next, NEW e \in Encoders, seen'[e] # seen[e]
      PROVE  Pulse(seen[e], seen'[e]) # 0
  <2>1. Poll
    BY <1>1 DEF Next, Client, Press, Release, EncoderTurn, Configure, Write,
       StartPolling, fwVars
  <2>2. /\ Rests(e) \/ Moves(e)
        /\ seen'[e] = phase'[e]
    BY <1>1, <2>1, PollSees DEF Decodes
  <2>3. CASE Rests(e)
    BY <1>1, <2>1, <2>2, <2>3 DEF Rests, PollInv, LagsByOne, Poll
  <2>4. CASE Moves(e)
    <3>1. phase[e] \in 0 .. 3 /\ dir[e] \in {-1, 1}
      BY <1>1 DEF PollInv, LevelInv, TypeOK
    <3>2. Pulse(phase[e], (phase[e] + dir[e]) % 4) = dir[e]
      BY <3>1, GrayCode
    <3> QED
      BY <2>2, <2>4, <3>1, <3>2 DEF Moves
  <2> QED
    BY <2>2, <2>3, <2>4
<1>2. PollInv /\ [Next]_vars
        => [\A e \in Encoders : seen'[e] # seen[e] => Pulse(seen[e], seen'[e]) # 0]_seen
  BY <1>1 DEF vars, fwVars
<1>3. Spec => []PollInv
  BY Paced
<1> QED
  BY <1>2, <1>3, PTL DEF Spec, NoTransitionMissed

-----------------------------------------------------------------------------
(* No rotation lost *)

Kept(e) ==
    4 * asked[e] = 4 * turns[e] + pulses[e] + Pulse(seen[e], phase[e])
                   + dir[e] * pending[e]

LEMMA EncoderTypes ==
  ASSUME TypeOK, NEW e \in Encoders
  PROVE  /\ asked[e] \in Int /\ turns[e] \in Int /\ pulses[e] \in Int
         /\ pending[e] \in Nat /\ dir[e] \in {-1, 1}
         /\ phase[e] \in 0 .. 3 /\ seen[e] \in 0 .. 3
<1>1. /\ asked \in [Encoders -> Int] /\ turns \in [Encoders -> Int]
      /\ pulses \in [Encoders -> -3 .. 3]
  BY DEF TypeOK
<1>2. asked[e] \in Int /\ turns[e] \in Int /\ pulses[e] \in -3 .. 3
  BY <1>1
<1>3. pulses[e] \in Int
  BY <1>2
<1>4. /\ pending[e] \in Nat /\ dir[e] \in {-1, 1}
      /\ phase[e] \in 0 .. 3 /\ seen[e] \in 0 .. 3
  BY DEF TypeOK
<1> QED
  BY <1>2, <1>3, <1>4

(* A request adds as much to the queue as to the account: an encoder that  *)
(* still turns is asked for more of the same way.                          *)
LEMMA TurnKeeps ==
  ASSUME ~MayReverse, TypeOK, TypeOK', NEW x \in Encoders, Kept(x),
         NEW e \in Encoders, NEW clockwise \in BOOLEAN, NEW detents \in Detents,
         EncoderTurn(e, clockwise, detents)
  PROVE  Kept(x)'
<1> DEFINE way == IF clockwise THEN -1 ELSE 1
           count == IF detents > 1 THEN detents ELSE 1
<1>1. /\ way \in {-1, 1} /\ count \in Int
  BY ClientAssumption
<1>2. /\ pending[e] > 0 => dir[e] = way
      /\ dir' = [dir EXCEPT ![e] = way]
      /\ pending' = [pending EXCEPT ![e] = @ + 4 * count]
      /\ asked' = [asked EXCEPT ![e] = @ + way * count]
      /\ seen' = seen /\ phase' = phase /\ turns' = turns /\ pulses' = pulses
  BY DEF EncoderTurn, fwVars
<1>3. /\ asked \in [Encoders -> Int] /\ pending \in [Encoders -> Nat]
      /\ dir \in [Encoders -> {-1, 1}]
  BY DEF TypeOK
<1>4. Pulse(seen[x], phase[x])' = Pulse(seen[x], phase[x])
  BY <1>2 DEF Pulse
<1> HIDE DEF way, count
<1>5. CASE x # e
  <2>1. dir'[x] = dir[x] /\ pending'[x] = pending[x] /\ asked'[x] = asked[x]
    BY <1>2, <1>3, <1>5
  <2> QED
    BY <1>2, <1>4, <2>1 DEF Kept
<1>6. CASE x = e
  <2> DEFINE rest == 4 * turns[e] + pulses[e] + Pulse(seen[e], phase[e])
  <2>1. dir'[e] = way /\ pending'[e] = pending[e] + 4 * count
        /\ asked'[e] = asked[e] + way * count
    BY <1>2, <1>3
  <2>2. /\ asked[e] \in Int /\ pending[e] \in Nat /\ dir[e] \in {-1, 1}
        /\ turns[e] \in Int /\ pulses[e] \in Int
    BY EncoderTypes
  <2>3. Pulse(seen[e], phase[e]) \in Int
    BY DEF Pulse
  <2>4. rest \in Int /\ 4 * asked[e] = rest + dir[e] * pending[e]
    BY <1>6, <2>2, <2>3 DEF Kept
  <2>5. rest' = rest
    BY <1>2, <1>4, <1>6
  <2> HIDE DEF rest
  <2>6. dir[e] * pending[e] = way * pending[e]
    <3>1. CASE pending[e] > 0
      BY <1>2, <3>1
    <3>2. CASE pending[e] = 0
      BY <1>1, <2>2, <3>2
    <3> QED
      BY <2>2, <3>1, <3>2
  <2>7. 4 * (asked[e] + way * count) = rest + way * (pending[e] + 4 * count)
    <3>1. CASE way = 1
      BY <1>1, <2>2, <2>4, <2>6, <3>1
    <3>2. CASE way = -1
      BY <1>1, <2>2, <2>4, <2>6, <3>2
    <3> QED
      BY <1>1, <3>1, <3>2
  <2>8. 4 * asked'[e] = rest' + dir'[e] * pending'[e]
    BY <2>1, <2>5, <2>7
  <2> QED
    BY <1>6, <2>8 DEF rest, Kept
<1> QED
  BY <1>5, <1>6

(* A phase leaves the queue for the shaft, and the shaft for the account   *)
(* of what was decoded.                                                    *)
LEMMA PollKeeps ==
  ASSUME PhaseEvery > PollLength, PollInv, Poll, NEW e \in Encoders, Kept(e)
  PROVE  Kept(e)'
<1>1. /\ asked[e] \in Int /\ turns[e] \in Int /\ pulses[e] \in Int
      /\ pending[e] \in Nat /\ dir[e] \in {-1, 1}
      /\ phase[e] \in 0 .. 3 /\ seen[e] \in 0 .. 3
  BY EncoderTypes DEF PollInv, LevelInv
<1>2. TypeOK'
  BY PollLevels DEF PollInv, LevelInv
<1>3. /\ turns'[e] \in Int /\ pulses'[e] \in Int
      /\ phase'[e] \in 0 .. 3 /\ seen'[e] \in 0 .. 3
  <2>1. /\ turns' \in [Encoders -> Int] /\ pulses' \in [Encoders -> -3 .. 3]
        /\ phase' \in [Encoders -> 0 .. 3] /\ seen' \in [Encoders -> 0 .. 3]
    BY <1>2 DEF TypeOK
  <2>2. pulses'[e] \in -3 .. 3
    BY <2>1
  <2> QED
    BY <2>1, <2>2
<1>4. dir'[e] = dir[e] /\ asked'[e] = asked[e]
  BY DEF Poll
<1>5. \A p \in 0 .. 3 : Pulse(p, p) = 0
  BY DEF Pulse
<1>6. Pulse(seen[e], phase[e]) \in Int
  BY DEF Pulse
<1>7. /\ Rests(e) \/ Moves(e)
      /\ Decodes(e, seen[e]) \/ Decodes(e, phase'[e])
  BY PollSees
<1>8. CASE Rests(e)
  <2>1. /\ phase'[e] = phase[e] /\ pending'[e] = pending[e]
    BY <1>8 DEF Rests
  <2>2. 4 * turns'[e] + pulses'[e] + Pulse(seen'[e], phase'[e])
          = 4 * turns[e] + pulses[e] + Pulse(seen[e], phase[e])
    BY <1>1, <1>3, <1>5, <1>6, <1>7, <2>1 DEF Decodes
  <2> QED
    BY <1>4, <2>1, <2>2 DEF Kept
<1>9. CASE Moves(e)
  <2>1. /\ seen[e] = phase[e] /\ phase'[e] = (phase[e] + dir[e]) % 4
        /\ pending'[e] = pending[e] - 1
    BY <1>9 DEF Moves
  <2>2. Pulse(phase[e], phase'[e]) = dir[e] /\ Pulse(phase[e], phase[e]) = 0
    BY <1>1, <2>1, GrayCode
  <2>3. 4 * turns'[e] + pulses'[e] + Pulse(seen'[e], phase'[e])
          = 4 * turns[e] + pulses[e] + dir[e]
    BY <1>1, <1>3, <1>5, <1>7, <2>1, <2>2 DEF Decodes
  <2>4. 4 * asked[e] = 4 * turns[e] + pulses[e] + dir[e] * pending[e]
    BY <1>1, <2>1, <2>2 DEF Kept
  <2>5. dir[e] + dir[e] * (pending[e] - 1) = dir[e] * pending[e]
    BY <1>1
  <2>6. dir[e] * (pending[e] - 1) \in Int /\ dir[e] * pending[e] \in Int
    BY <1>1
  <2>7. 4 * asked[e] = 4 * turns'[e] + pulses'[e] + Pulse(seen'[e], phase'[e])
                       + dir[e] * (pending[e] - 1)
    BY <1>1, <2>3, <2>4, <2>5, <2>6
  <2> QED
    BY <1>4, <2>1, <2>7 DEF Kept
<1> QED
  BY <1>7, <1>8, <1>9

LEMMA NextKept ==
  ASSUME PhaseEvery > PollLength, ~MayReverse
  PROVE  PollInv /\ RotationKept /\ [Next]_vars => RotationKept'
<1> SUFFICES ASSUME PollInv, RotationKept, [Next]_vars, NEW x \in Encoders
             PROVE  Kept(x)'
  BY DEF RotationKept, Kept
<1>1. Kept(x)
  BY DEF RotationKept, Kept
<1>2. TypeOK /\ TypeOK'
  BY NextLevels DEF PollInv, LevelInv
<1>3. CASE Poll
  BY <1>1, <1>3, PollKeeps
<1>4. CASE \E e \in Encoders, clockwise \in BOOLEAN, detents \in Detents :
             EncoderTurn(e, clockwise, detents)
  BY <1>1, <1>2, <1>4, TurnKeeps
<1>5. CASE UNCHANGED <<phase, pending, dir, seen, pulses, turns, asked>>
  BY <1>1, <1>5 DEF Kept, Pulse
<1>6. (\E s \in Switches : Press(s) \/ Release({s})) \/ Release(Switches)
        \/ Configure \/ StartPolling \/ UNCHANGED vars
        => UNCHANGED <<phase, pending, dir, seen, pulses, turns, asked>>
  BY DEF Press, Release, Configure, Write, StartPolling, worldVars, fwVars, vars
<1> QED
  BY <1>3, <1>4, <1>5, <1>6 DEF Next, Client

(* With that pacing, and no client that turns an encoder back before it    *)
(* has come to rest, no rotation is lost, doubled or turned round: for any *)
(* number of encoders and however many requests are queued.                *)
THEOREM NothingLost ==
  ASSUME PhaseEvery > PollLength, ~MayReverse
  PROVE  Spec => []RotationKept
<1>1. Init => RotationKept
  BY DEF Init, RotationKept, Pulse
<1>2. Spec => []PollInv
  BY Paced
<1>3. PollInv /\ RotationKept /\ [Next]_vars => RotationKept'
  BY NextKept
<1> QED
  BY <1>1, <1>2, <1>3, PTL DEF Spec
=============================================================================
